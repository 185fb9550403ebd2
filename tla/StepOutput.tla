------------------------------- MODULE StepOutput ------------------------------
(* One command of a pipeline step: the process group runGroup starts, one  *)
(* of its two output pipes, the goroutine that carries that pipe to the    *)
(* cluster (pump and its lineChunker), and runGroup's own wait for both.   *)
(* A byte is 1, 2 or NL, a mask is one token, and a send takes as long as  *)
(* it takes.  A fork may leave the group (setsid); nothing obliges one     *)
(* that did, or a send, to end.                                            *)
EXTENDS Naturals, Sequences, FiniteSets, SequencesExt, FiniteSetsExt

CONSTANTS
  Requests,    \* the secrets a request may carry: sets of values
  MinSecret,   \* minSecretLength
  MaxPending,  \* maxPendingOutput
  NL, Stars,   \* a line end, and the mask
  MaxText,     \* bound: bytes the command writes
  MaxPipe      \* bound: bytes the pipe holds

StepAssumption ==
  /\ MaxPending \in Nat /\ MaxText \in Nat /\ MaxPipe \in Nat \ {0} /\ MinSecret \in Nat \ {0}
  /\ \A vs \in Requests : \A v \in vs : v \in Seq({1, 2, NL})

VARIABLES
  forms,    \* secretMasker: what is masked
  text,     \* all the command wrote to the pipe
  nread,    \* how much of it was read
  pending,  \* lineChunker.pending
  cut,      \* lineChunker.state: where its line was cut
  reader,   \* where pump is
  sent,     \* what was handed to the stream, the send under way included
  run,      \* where runGroup is
  closed,   \* the worker closed its end of the pipe
  leader,   \* the command
  child     \* something it forked: in its group, or out of it

output == <<pending, cut, reader, sent>>
procs == <<leader, child>>
vars == <<forms, text, nread, output, run, closed, procs>>

StepTypeOK ==
  /\ text \in Seq({1, 2, NL}) /\ nread \in 0 .. Len(text)
  /\ pending \in Seq({1, 2}) /\ cut \in [span : BOOLEAN, reach : Nat] /\ sent \in Seq({1, 2, NL, Stars})
  /\ reader \in {"reading", "sending", "flushing", "done"}
  /\ run \in {"starting", "waiting", "grace", "killed", "draining", "closing", "returned"}
  /\ closed \in BOOLEAN
  /\ leader \in {"none", "runs", "ended"} /\ child \in {"none", "group", "out", "ended"}

-----------------------------------------------------------------------------
(* The masker                                                              *)

Trimmed(v) ==
  LET ink == {i \in DOMAIN v : v[i] # NL}
  IN IF ink = {} THEN <<>> ELSE SubSeq(v, Min(ink), Max(ink))

(* The lines of a value: its longest parts without a line end.             *)
Parted(v) ==
  {SubSeq(v, s[1], s[2]) : s \in {p \in (DOMAIN v) \X (DOMAIN v) :
     /\ p[1] <= p[2] /\ \A i \in p[1] .. p[2] : v[i] # NL
     /\ p[1] - 1 \in DOMAIN v => v[p[1] - 1] = NL
     /\ p[2] + 1 \in DOMAIN v => v[p[2] + 1] = NL}}

newSecretMasker(values) ==
  {f \in UNION {{v, Trimmed(v)} \cup Parted(v) : v \in values} : Len(f) >= MinSecret}

Occurs(f, s, i) == i + Len(f) - 1 <= Len(s) /\ SubSeq(s, i, i + Len(f) - 1) = f

(* Where the forms that occur at s[i] end.                                 *)
at(s, i) == {i + Len(f) : f \in {g \in forms : Occurs(g, s, i)}}

(* A form s ends inside of may still occur at s[i].                        *)
MayOccur(s, i) ==
  \E f \in forms : Len(s) - i + 1 < Len(f) /\ SubSeq(f, 1, Len(s) - i + 1) = SubSeq(s, i, Len(s))

Fresh == [span |-> FALSE, reach |-> 0]

(* Mutant: what is left of a cut span is forgotten.                        *)
scanSpanless(s, st, complete) ==
  LET stop == IF complete THEN Len(s) + 1 ELSE Min({i \in 1 .. Len(s) : MayOccur(s, i)} \cup {Len(s) + 1})
  IN [out |-> FlattenSeq([i \in 1 .. stop - 1 |->
                IF at(s, i) # {} THEN <<Stars>> ELSE IF \E j \in 1 .. i - 1 : \E e \in at(s, j) : i < e THEN <<>> ELSE <<s[i]>>]),
      used |-> stop - 1, st |-> Fresh]

(* Mask s from where its line was cut: one mask where a span starts,       *)
(* nothing inside one, up to the first place that cannot be decided yet.   *)
scan(s, st, complete) ==
  LET stop == IF complete THEN Len(s) + 1
              ELSE Min({i \in 1 .. Len(s) : MayOccur(s, i)} \cup {Len(s) + 1})
      ends(i) == {1 + st.reach} \cup UNION {at(s, j) : j \in 1 .. i - 1}
      open(i) == (st.span /\ i <= 1 + st.reach) \/ \E j \in 1 .. i - 1 : \E e \in at(s, j) : i <= e
      shown(i) == CASE at(s, i) # {} /\ ~open(i) -> <<Stars>>
                    [] at(s, i) = {} /\ i >= Max(ends(i)) -> <<s[i]>>
                    [] OTHER -> <<>>
  IN [out |-> FlattenSeq([i \in 1 .. stop - 1 |-> shown(i)]),
      used |-> stop - 1,
      st |-> IF complete \/ ~open(stop) THEN Fresh
             ELSE [span |-> TRUE, reach |-> Max(ends(stop)) - stop]]

-----------------------------------------------------------------------------
(* The command and what it forks                                           *)

Init ==
  /\ forms \in {newSecretMasker(values) : values \in Requests}
  /\ text = <<>> /\ nread = 0 /\ pending = <<>> /\ cut = Fresh /\ reader = "reading" /\ sent = <<>>
  /\ run = "starting" /\ closed = FALSE /\ leader = "none" /\ child = "none"

Holds == leader = "runs" \/ child \in {"group", "out"}

Writes(b) ==
  /\ Holds /\ ~closed /\ Len(text) < MaxText /\ Len(text) - nread < MaxPipe
  /\ text' = Append(text, b)
  /\ UNCHANGED <<forms, nread, output, run, closed, procs>>

Forks ==
  /\ leader = "runs" /\ child = "none" /\ child' \in {"group", "out"}
  /\ UNCHANGED <<forms, text, nread, output, run, closed, leader>>

Dies ==
  /\ \/ leader = "runs" /\ leader' = "ended" /\ UNCHANGED child
     \/ child \in {"group", "out"} /\ child' = "ended" /\ UNCHANGED leader
  /\ UNCHANGED <<forms, text, nread, output, run, closed>>

-----------------------------------------------------------------------------
(* pump: what was read goes into the chunker, and its chunk to the stream  *)

(* Where the last line of buf starts.                                      *)
LastLine(buf) == Max({0} \cup {j \in DOMAIN buf : buf[j] = NL}) + 1

(* The whole lines of buf, masked: the first from where it was cut.        *)
Lines(buf) ==
  FlattenSeq([i \in DOMAIN buf |->
    IF buf[i] # NL THEN <<>>
    ELSE LET first == LastLine(SubSeq(buf, 1, i - 1))
         IN Append(scan(SubSeq(buf, first, i - 1), IF first = 1 THEN cut ELSE Fresh, TRUE).out, NL)])

(* Lines that end are masked whole; one over the limit is cut where its    *)
(* masking is decided.                                                     *)
Reads(n) ==
  /\ reader = "reading" /\ ~closed /\ n \in 1 .. Len(text) - nread
  /\ \E buf \in {pending \o SubSeq(text, nread + 1, nread + n)} :
     \E rest \in {SubSeq(buf, LastLine(buf), Len(buf))}, st \in {IF LastLine(buf) = 1 THEN cut ELSE Fresh} :
     \E part \in {IF Len(rest) > MaxPending THEN scan(rest, st, FALSE)
                  ELSE [out |-> <<>>, used |-> 0, st |-> st]} :
     \E out \in {Lines(buf) \o part.out} :
       /\ sent' = sent \o out
       /\ pending' = SubSeq(rest, part.used + 1, Len(rest)) /\ cut' = part.st
       /\ reader' = IF out = <<>> THEN "reading" ELSE "sending"
  /\ nread' = nread + n
  /\ UNCHANGED <<forms, text, run, closed, procs>>

(* The end of the output, or a read of a pipe that was closed: flush.      *)
ReadEnds ==
  /\ reader = "reading" /\ (closed \/ (nread = Len(text) /\ ~Holds /\ leader # "none"))
  /\ LET rest == scan(pending, cut, TRUE).out
     IN sent' = sent \o rest /\ reader' = IF rest = <<>> THEN "done" ELSE "flushing"
  /\ pending' = <<>> /\ cut' = Fresh
  /\ UNCHANGED <<forms, text, nread, run, closed, procs>>

(* The stream took the chunk.                                              *)
Sends ==
  /\ reader \in {"sending", "flushing"}
  /\ reader' = IF reader = "sending" THEN "reading" ELSE "done"
  /\ UNCHANGED <<forms, text, nread, pending, cut, sent, run, closed, procs>>

-----------------------------------------------------------------------------
(* runGroup                                                                *)

(* A context that is over starts nothing; cmd.Start may fail.              *)
Starts ==
  /\ run = "starting"
  /\ \/ run' = "waiting" /\ leader' = "runs" /\ UNCHANGED reader
     \/ run' = "returned" /\ reader' = "done" /\ UNCHANGED leader
  /\ UNCHANGED <<forms, text, nread, pending, cut, sent, closed, child>>

(* The context has ended, by its timeout or a cancel: SIGTERM.             *)
AsksToStop ==
  /\ run = "waiting" /\ run' = "grace"
  /\ UNCHANGED <<forms, text, nread, output, closed, procs>>

KillsGroup == child' = IF child = "group" THEN "ended" ELSE child

GraceEnds ==
  /\ run = "grace" /\ run' = "killed"
  /\ leader' = "ended" /\ KillsGroup
  /\ UNCHANGED <<forms, text, nread, output, closed>>

(* Mutant: a command that ended by itself takes nothing with it.           *)
WaitedLeaving ==
  /\ run \in {"waiting", "grace", "killed"} /\ leader = "ended" /\ run' = "draining"
  /\ UNCHANGED <<forms, text, nread, output, closed, leader, child>>

(* The command has exited: what it left in its group is killed.            *)
Waited ==
  /\ run \in {"waiting", "grace", "killed"} /\ leader = "ended" /\ run' = "draining"
  /\ KillsGroup
  /\ UNCHANGED <<forms, text, nread, output, closed, leader>>

Drained ==
  /\ run \in {"draining", "closing"} /\ reader = "done"
  /\ run' = "returned" /\ closed' = TRUE
  /\ UNCHANGED <<forms, text, nread, output, procs>>

(* A read that waits, or a send, outlasts the drain's bound.               *)
Outlasts == child = "out" \/ reader \in {"sending", "flushing"}

DrainTimesOut ==
  /\ run = "draining" /\ reader # "done" /\ Outlasts
  /\ run' = "closing" /\ closed' = TRUE
  /\ UNCHANGED <<forms, text, nread, output, procs>>

(* Mutant: the second wait is for the readers alone.                       *)
GivesUpNever == FALSE /\ UNCHANGED vars

(* A reader still inside emit is left to finish.                           *)
GivesUp ==
  /\ run = "closing" /\ reader \in {"sending", "flushing"} /\ run' = "returned"
  /\ UNCHANGED <<forms, text, nread, output, closed, procs>>

-----------------------------------------------------------------------------
Processes == (\E b \in {1, 2, NL} : Writes(b)) \/ Forks \/ Dies
Pump == (\E n \in 1 .. MaxPipe : Reads(n)) \/ ReadEnds
Group == Starts \/ AsksToStop \/ GraceEnds \/ Waited \/ Drained \/ DrainTimesOut \/ GivesUp

(* The step is over, and what it left outside the group is left alone.     *)
Rests ==
  /\ run = "returned" /\ reader = "done"
  /\ UNCHANGED vars

Next == Processes \/ Pump \/ Sends \/ Group \/ Rests

(* Every step has a timeout; the worker's goroutines run.  Neither a       *)
(* process nor a send is obliged to end.                                   *)
Fairness == WF_vars(Group) /\ WF_vars(Pump)

Spec == Init /\ [][Next]_vars /\ Fairness

-----------------------------------------------------------------------------
(* Properties                                                              *)

(* The text as the cluster masks it, a line at a time: whatever a secret   *)
(* covers is gone, and each run of it is one mask.                         *)
Masked(t) ==
  LET covered == UNION {i .. i + Len(f) - 1 : <<f, i>> \in
                   {o \in {f \in forms : \A k \in DOMAIN f : f[k] # NL} \X (DOMAIN t) : Occurs(o[1], t, o[2])}}
  IN FlattenSeq([i \in DOMAIN t |->
       IF i \notin covered THEN <<t[i]>> ELSE IF i - 1 \in covered THEN <<>> ELSE <<Stars>>])

(* However the output was read and cut, what goes out is the masked text,  *)
(* never a byte of a secret or a mask too many, and all of what was read   *)
(* once the reader is done.                                                *)
OutputIsMasked ==
  LET whole == Masked(SubSeq(text, 1, nread))
  IN IsPrefix(sent, whole) /\ (reader = "done" => sent = whole)

(* When runGroup returns, nothing of the command's group is left running   *)
(* on the machine: the command has ended, by itself or not, and what it    *)
(* left in its group was killed.                                           *)
NothingOutlivesTheStep ==
  run = "returned" => leader # "runs" /\ child # "group"

(* runGroup returns, whatever the command, what it forked and the stream   *)
(* do.                                                                     *)
StepEnds == <>(run = "returned")
=============================================================================
