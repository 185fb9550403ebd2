------------------------------ MODULE FileRead ------------------------------
(* One read of a file by a tool call (internal/worker/tools): who admits   *)
(* it, the way the path is opened, and the bounded reading of the opened   *)
(* file by bytes, by lines or by a search, while other programs write the  *)
(* file and replace its directory, and while the call is cancelled.        *)
(* A file is its lines; a byte is its position.  Every line but perhaps    *)
(* the last ends in a newline, which is one of its bytes.                  *)
EXTENDS Integers, SequencesExt, FiniteSetsExt

CONSTANTS
  Files,       \* what may be in the file: [lines: Seq([len, hit]), open]
  Requests,    \* [mode, offset, start, count, max, scan, matches]
  MaxTouches   \* bound: what other programs and the person do meanwhile

Positions(f) == FoldLeft(LAMBDA n, l : n + l.len, 0, f.lines)
FileReadAssumption ==
  /\ \A f \in Files : f.open \in BOOLEAN /\ \A k \in DOMAIN f.lines : f.lines[k].len \in Nat \ {0}
  /\ \A r \in Requests : r.mode \in {"bytes", "lines", "search"} /\ {r.max, r.scan, r.matches} \subseteq Nat \ {0}

VARIABLES
  file,      \* [is, stamp]: what the file holds, and its modification time
  name,      \* what the approved directory's name stands for: "dir" or "link", to a directory elsewhere
  owner,     \* what the machine's owner lets happen: [window, stopped, denied]
  call,      \* the call: its lane, its request, where it is
  result,    \* what it came back with
  touches

file_read_vars == <<file, name, owner, call, result, touches>>

Nothing == [at |-> "none"]
Fresh(lane, r) ==
  [lane |-> lane, request |-> r, at |-> "gate", from |-> "-", size |-> 0, stamp |-> 0, scanned |-> 0,
   line |-> 0, offset |-> 0, next |-> 0, body |-> {}, hits |-> 0, complete |-> FALSE, cut |-> FALSE]

FileReadTypeOK ==
  /\ file.is \in Files /\ file.stamp \in 0..MaxTouches
  /\ name \in {"dir", "link"} /\ owner \in [window : BOOLEAN, stopped : BOOLEAN, denied : BOOLEAN]
  /\ call.at \in {"gate", "path", "open", "stat", "reading", "check", "done"}
  /\ call.lane \in {"scoped", "plain"} /\ call.from \in {"-", "dir", "elsewhere"}
  /\ call.body \subseteq 1..30 /\ call.scanned \in 0..30 /\ touches \in 0..MaxTouches

Init ==
  /\ file \in [is : Files, stamp : {0}]
  /\ name \in {"dir", "link"}
  /\ owner \in [window : BOOLEAN, stopped : BOOLEAN, denied : BOOLEAN]
  /\ \E lane \in {"scoped", "plain"}, r \in Requests : call = Fresh(lane, r)
  /\ result = Nothing
  /\ touches = 0

-----------------------------------------------------------------------------
(* The gates, in their order.                                              *)

World == <<file, name, owner, touches>>
Refused(why) == result' = [at |-> why] /\ call' = [call EXCEPT !.at = "done"] /\ UNCHANGED World
To(c) == call' = c /\ UNCHANGED result /\ UNCHANGED World

(* A read a receipt covers asks only whether the person stopped it; any    *)
(* other asks for the window.                                              *)
Admitted == IF call.lane = "scoped" THEN ~owner.stopped ELSE owner.window
GatePassed == call.at = "gate" /\ Admitted /\ To([call EXCEPT !.at = "path"])
GateRefused == call.at = "gate" /\ ~Admitted /\ Refused("consent_required")

PathPassed == call.at = "path" /\ ~owner.denied /\ To([call EXCEPT !.at = "open"])
PathRefused == call.at = "path" /\ owner.denied /\ Refused("fs_denied")

(* The directory is opened by its name and the file relative to it.  With  *)
(* a receipt no link is followed on the way.                               *)
(* Mutant: the path is opened as any other. *)
OpenedFollowing ==
  /\ call.at = "open"
  /\ To([call EXCEPT !.at = "stat", !.from = IF name = "dir" THEN "dir" ELSE "elsewhere"])
Opened ==
  /\ call.at = "open" /\ (call.lane = "plain" \/ name = "dir")
  /\ To([call EXCEPT !.at = "stat", !.from = IF name = "dir" THEN "dir" ELSE "elsewhere"])
OpenRefused ==
  call.at = "open" /\ call.lane = "scoped" /\ name = "link" /\ Refused("computer_permission_path_refused")

Stats ==
  /\ call.at = "stat"
  /\ To([call EXCEPT !.at = "reading", !.size = Positions(file.is), !.stamp = file.stamp,
                     !.offset = call.request.offset, !.next = call.request.offset])

-----------------------------------------------------------------------------
(* The reading                                                             *)

r == call.request
Size == Positions(file.is)
Read(c) == To([c EXCEPT !.at = "check"])

(* A byte range is one read from the offset.                               *)
(* Mutant: a full buffer counts as the end of the file. *)
BytesReadShort ==
  /\ call.at = "reading" /\ r.mode = "bytes"
  /\ LET n == Min({r.max, Max({Size - r.offset, 0})})
     IN Read([call EXCEPT !.body = (r.offset + 1)..(r.offset + n), !.scanned = n, !.next = r.offset + n,
                          !.complete = (n = r.max \/ r.offset + n >= call.size)])
BytesRead ==
  /\ call.at = "reading" /\ r.mode = "bytes"
  /\ LET n == Min({r.max, Max({Size - r.offset, 0})})
     IN Read([call EXCEPT !.body = (r.offset + 1)..(r.offset + n), !.scanned = n, !.next = r.offset + n,
                          !.complete = (r.offset + n >= call.size)])

(* The line that begins behind what was scanned, cut off where the budget  *)
(* of the scan ends.                                                       *)
EndOf(k) == FoldLeft(LAMBDA n, l : n + l.len, 0, SubSeq(file.is.lines, 1, k))
Current == CHOOSE k \in DOMAIN file.is.lines : EndOf(k) > call.scanned /\ EndOf(k - 1) <= call.scanned
Upto == Min({EndOf(Current), r.scan})
Value == (call.scanned + 1)..Upto
Length == Upto - call.scanned
HasNewline == Upto = EndOf(Current) /\ ~(file.is.open /\ Current = Len(file.is.lines))
Whole == HasNewline \/ Upto >= call.size

Scans == call.at = "reading" /\ r.mode \in {"lines", "search"}
HasLine == Scans /\ call.scanned < r.scan /\ call.scanned < Size
Taken == [call EXCEPT !.line = @ + 1, !.scanned = Upto, !.next = Upto]

(* Nothing is left of the budget; then of the file.                        *)
BudgetSpent == Scans /\ call.scanned >= r.scan /\ Read(call)
NothingLeft == Scans /\ call.scanned < r.scan /\ call.scanned >= Size /\ Read([call EXCEPT !.complete = TRUE])

(* A line the budget cuts is not shown.                                    *)
(* Mutant: it is. *)
CutShown ==
  HasLine /\ ~Whole /\ Read([Taken EXCEPT !.cut = TRUE, !.body = @ \cup Value])
CutWithheld ==
  HasLine /\ ~Whole /\ Read([Taken EXCEPT !.cut = TRUE])

(* Whether the line just taken was the last there was.                     *)
AtEnd(c) == c.scanned >= c.size
Goes(c) == IF AtEnd(c) THEN Read([c EXCEPT !.complete = TRUE]) ELSE To(c)

Hit == r.mode = "search" /\ file.is.lines[Current].hit
NoRoom == Cardinality(call.body) + Length > r.max
MatchTaken ==
  /\ HasLine /\ Whole /\ Hit /\ ~NoRoom
  /\ LET c == [Taken EXCEPT !.body = @ \cup Value, !.hits = @ + 1]
     IN IF c.hits = r.matches THEN Read([c EXCEPT !.complete = AtEnd(c)]) ELSE Goes(c)
(* Mutant: a match without room is passed over and the search goes on. *)
MatchSkipped == HasLine /\ Whole /\ Hit /\ NoRoom /\ Goes(Taken)
MatchWithheld == HasLine /\ Whole /\ Hit /\ NoRoom /\ Read([Taken EXCEPT !.next = call.scanned])

Wanted == r.mode = "lines" /\ call.line + 1 >= r.start
Room == r.max - Cardinality(call.body)
LineTaken ==
  /\ HasLine /\ Whole /\ Wanted
  /\ LET n == Min({Room, Length})
         c == [Taken EXCEPT !.body = @ \cup (call.scanned + 1)..(call.scanned + n), !.next = call.scanned + n,
                            !.offset = IF call.body = {} THEN call.scanned ELSE @]
     IN CASE Room < Length -> Read(c)
          [] Room >= Length /\ c.line >= r.start + r.count - 1 -> Read([c EXCEPT !.complete = TRUE])
          [] OTHER -> Goes(c)
LinePassed == HasLine /\ Whole /\ ~Hit /\ ~Wanted /\ Goes(Taken)

(* The file is looked at once more; one that changed is not complete.      *)
(* Mutant: only its size is compared. *)
AnswersBySize ==
  /\ call.at = "check"
  /\ LET changed == call.size # Size
     IN result' = [at |-> "answer", body |-> call.body, complete |-> call.complete /\ ~changed, changed |-> changed,
                   offset |-> call.offset, next |-> call.next]
  /\ call' = [call EXCEPT !.at = "done"] /\ UNCHANGED World
Answers ==
  /\ call.at = "check"
  /\ LET changed == call.size # Size \/ call.stamp # file.stamp
     IN result' = [at |-> "answer", body |-> call.body, complete |-> call.complete /\ ~changed, changed |-> changed,
                   offset |-> call.offset, next |-> call.next]
  /\ call' = [call EXCEPT !.at = "done"] /\ UNCHANGED World

(* The call's context ends: looked at before the reading, at each line and *)
(* before the answer; with a receipt before the path too.                  *)
Cancelled ==
  /\ call.at \in {"reading", "check"} \/ (call.at = "path" /\ call.lane = "scoped")
  /\ Refused("cancelled")

-----------------------------------------------------------------------------
(* The others                                                              *)

Touched == touches < MaxTouches /\ touches' = touches + 1 /\ UNCHANGED <<call, result>>
Written(f) == Touched /\ file' = [is |-> f, stamp |-> touches + 1] /\ UNCHANGED <<name, owner>>
Renamed == Touched /\ name' = (IF name = "dir" THEN "link" ELSE "dir") /\ UNCHANGED <<file, owner>>
OwnerChanges(o) == Touched /\ owner' = o /\ UNCHANGED <<file, name>>

Over == call.at = "done" /\ UNCHANGED file_read_vars

Next ==
  \/ GatePassed \/ GateRefused \/ PathPassed \/ PathRefused \/ Opened \/ OpenRefused \/ Stats
  \/ BytesRead \/ BudgetSpent \/ NothingLeft \/ CutWithheld
  \/ MatchTaken \/ MatchWithheld \/ LineTaken \/ LinePassed
  \/ Answers \/ Cancelled
  \/ \E f \in Files : call.at # "done" /\ Written(f)
  \/ call.at \in {"gate", "path", "open"} /\ Renamed
  \/ \E o \in [window : BOOLEAN, stopped : BOOLEAN, denied : BOOLEAN] :
       call.at \in {"gate", "path"} /\ o # owner /\ OwnerChanges(o)
  \/ Over

Spec == Init /\ [][Next]_file_read_vars

-----------------------------------------------------------------------------
(* What an answer says of the file is so.  Unless it says the file changed *)
(* under the reading, everything in it is of the one version there was,    *)
(* and: a range is the bytes asked for as far as the file goes, and        *)
(* complete exactly at its end; lines are the bytes of the lines asked     *)
(* for, no line cut but by the limit on bytes, and complete means all of   *)
(* them; a search shows whole matching lines from the first on, and        *)
(* complete means there is no other.  The next offset continues where the  *)
(* content ends, but behind a line that the scan cut off and withheld.  A  *)
(* call with a receipt reads only in the directory it names.               *)
(* (tools/fs_inspect.go, computer_permission.go, docs/computer-use.md)     *)
Line(k) == (EndOf(k - 1) + 1)..EndOf(k)
BytesOf(ks) == UNION {Line(k) : k \in ks}
Asked == {k \in DOMAIN file.is.lines : k >= r.start /\ k < r.start + r.count}
Hits == {k \in DOMAIN file.is.lines : file.is.lines[k].hit}
IsPrefix2(part, all) == part \subseteq all /\ \A i \in part, j \in all \ part : i < j
ReadsTellTheTruth ==
  result.at = "answer" =>
    /\ call.lane = "scoped" => call.from = "dir"
    /\ result.changed => ~result.complete
    /\ ~result.changed =>
         /\ call.stamp = file.stamp
         /\ r.mode = "bytes" =>
              /\ result.body = (r.offset + 1)..Min({r.offset + r.max, Size})
              /\ result.complete = (r.offset + r.max >= Size)
         /\ r.mode = "lines" =>
              /\ IsPrefix2(result.body, BytesOf(Asked))
              /\ result.complete => result.body = BytesOf(Asked)
              /\ Cardinality(result.body) < r.max => \E ks \in SUBSET Asked : result.body = BytesOf(ks)
         /\ r.mode = "search" =>
              /\ IsPrefix2(result.body, BytesOf(Hits))
              /\ \E ks \in SUBSET Hits : result.body = BytesOf(ks)
              /\ result.complete => result.body = BytesOf(Hits)
         /\ (r.mode # "search" /\ result.body # {} /\ ~call.cut) =>
              result.offset + 1 = Min(result.body) /\ result.next >= Max(result.body)
         /\ (r.mode = "search" /\ ~call.cut /\ ~result.complete) =>
              \A k \in Hits : Line(k) \subseteq result.body \/ result.next < EndOf(k)
=============================================================================
