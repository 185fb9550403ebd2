------------------------------ MODULE Consent ------------------------------
(***************************************************************************)
(* The consent gate of the machine (internal/worker/consent): one manager  *)
(* per home, each with a time-limited window, a stop of directory reads    *)
(* that outlives the process, and the strict calls waiting for a person.   *)
(*                                                                         *)
(* A grant, a revoke, an approval and a call meet in three critical        *)
(* sections (the manager's lock, the lock of the pending map, the buffered *)
(* channel of one call); each is a step here.                              *)
(***************************************************************************)
EXTENDS Naturals

CONSTANTS
    Homes,          \* the clusters this machine serves
    Calls,          \* the tool calls
    MaxGrants,      \* grants a person makes
    MaxStops,       \* revokes a person makes
    MaxFailures,    \* failing saves and restarts together
    LateSyncFails,  \* may the directory sync fail once the file is renamed?
    None            \* no home, no call, no answer

ConsentAssumption ==
    /\ MaxGrants \in Nat /\ MaxStops \in Nat /\ MaxFailures \in Nat
    /\ LateSyncFails \in BOOLEAN
    /\ None \notin Homes \cup Calls

VARIABLES
    window,     \* window[h]: expiresAt, strict and region of the manager
    paused,     \* paused[h]: directoryReadsPaused
    disk,       \* disk[h]: the saved pause, or "none" when no file exists
    stop,       \* stop[h]: the person's last stop: none, unsaved, saved
    call,       \* call[c]: what the call asks, of which home, and how far it is
    box,        \* box[c]: the one-place channel of a waiting call
    kill,       \* the revoke at work: homes left, home at hand, calls to deny
    grants, stops, failures

consent_vars == <<window, paused, disk, stop, call, box, kill, grants, stops, failures>>

Windows == {"shut", "open", "strict", "region"}
NoRevoke == [left |-> {}, home |-> None, todo |-> {}, closed |-> FALSE]
NoCall == [home |-> None, kind |-> "none", st |-> "new", late |-> FALSE]

ConsentInit ==
    /\ window = [h \in Homes |-> "shut"]
    /\ paused = [h \in Homes |-> FALSE]
    /\ disk = [h \in Homes |-> "none"]
    /\ stop = [h \in Homes |-> "none"]
    /\ call = [c \in Calls |-> NoCall]
    /\ box = [c \in Calls |-> "empty"]
    /\ kill = NoRevoke
    /\ grants = 0 /\ stops = 0 /\ failures = 0

-----------------------------------------------------------------------------
\* saveDirectoryPause: what may be on the disk afterwards, and whether the
\* caller hears an error. The rename is what changes the file; only the sync of
\* the directory comes after it.
Saves(h, what) ==
       {[ok |-> TRUE, disk |-> what]}
  \cup (IF failures < MaxFailures THEN {[ok |-> FALSE, disk |-> disk[h]]} ELSE {})
  \cup (IF failures < MaxFailures /\ LateSyncFails
        THEN {[ok |-> FALSE, disk |-> what]} ELSE {})

\* Manager.Grant under the lock: the save comes first, and a failed one
\* changes nothing in memory.
Grant(h) ==
    /\ grants < MaxGrants
    /\ grants' = grants + 1
    /\ \E s \in Saves(h, "running"), w \in Windows \ {"shut"} :
          /\ disk' = [disk EXCEPT ![h] = s.disk]
          /\ failures' = IF s.ok THEN failures ELSE failures + 1
          /\ \/ /\ s.ok
                /\ paused' = [paused EXCEPT ![h] = FALSE]
                /\ window' = [window EXCEPT ![h] = w]
                /\ stop' = [stop EXCEPT ![h] = "none"]
             \/ ~s.ok /\ UNCHANGED <<paused, window, stop>>
    /\ UNCHANGED <<call, box, kill, stops>>

\* now passes expiresAt.
WindowExpires(h) ==
    /\ window[h] # "shut"
    /\ window' = [window EXCEPT ![h] = "shut"]
    /\ UNCHANGED <<paused, disk, stop, call, box, kill, grants, stops, failures>>

-----------------------------------------------------------------------------
\* handleRevoke: one home, or every home when none is named.
Revoke(homes) ==
    /\ kill = NoRevoke /\ stops < MaxStops
    /\ stops' = stops + 1
    /\ kill' = [NoRevoke EXCEPT !.left = homes]
    /\ UNCHANGED <<window, paused, disk, stop, call, box, grants, failures>>

\* The pending map: a call leaves it only after it took its answer.
Pending(c) == call[c].st \in {"entered", "waiting", "allowed", "told"}
Waiting(h) == {c \in Calls : call[c].home = h /\ Pending(c)}

\* Manager.Revoke up to the unlock: memory first, so that a failing save still
\* stops this process.
StopsReads(h) ==
    /\ kill.home = None /\ h \in kill.left
    /\ \E s \in Saves(h, "paused") :
          /\ disk' = [disk EXCEPT ![h] = s.disk]
          /\ stop' = [stop EXCEPT ![h] = IF s.ok THEN "saved" ELSE "unsaved"]
          /\ failures' = IF s.ok THEN failures ELSE failures + 1
    /\ paused' = [paused EXCEPT ![h] = TRUE]
    /\ window' = [window EXCEPT ![h] = "shut"]
    /\ kill' = [kill EXCEPT !.left = @ \ {h}, !.home = h]
    /\ UNCHANGED <<call, box, grants, stops>>

\* cancelAllPending: the pending calls of this moment are taken under their own
\* lock, after the window has been closed.
Takes ==
    /\ kill.home # None /\ ~kill.closed
    /\ kill' = [kill EXCEPT !.todo = Waiting(kill.home), !.closed = TRUE]
    /\ UNCHANGED <<window, paused, disk, stop, call, box, grants, stops, failures>>

\* The same send into a channel without a place: it is lost unless the call is
\* already at its select.
PutsUnbuffered(c, answer) ==
    box' = [box EXCEPT ![c] = IF @ = "empty" /\ call[c].st = "waiting" THEN answer ELSE @]

\* A send that never blocks: a channel that holds an answer keeps it.
Puts(c, answer) == box' = [box EXCEPT ![c] = IF @ = "empty" THEN answer ELSE @]

Denies(c) ==
    /\ c \in kill.todo
    /\ Puts(c, "no")
    /\ kill' = [kill EXCEPT !.todo = @ \ {c}]
    /\ UNCHANGED <<window, paused, disk, stop, call, grants, stops, failures>>

\* This home is done: on to the next, or back to the person.
Moves ==
    /\ kill.home # None /\ kill.closed /\ kill.todo = {}
    /\ kill' = [kill EXCEPT !.home = None, !.closed = FALSE]
    /\ UNCHANGED <<window, paused, disk, stop, call, box, grants, stops, failures>>

-----------------------------------------------------------------------------
Ends(c, st) == call' = [call EXCEPT ![c].st = st]

\* A dispatch arrives for home h: a directory read under the owner's receipt,
\* an ordinary call, or one of the two that strict mode holds back.
Arrives(c) ==
    /\ call[c].st = "new"
    /\ \E h \in Homes, k \in {"read", "plain", "risky"} :
          call' = [call EXCEPT ![c] = [home |-> h, kind |-> k, st |-> "arrived", late |-> FALSE]]
    /\ UNCHANGED <<window, paused, disk, stop, box, kill, grants, stops, failures>>

\* AllowsDirectoryRead: the window plays no part.
AllowsDirectoryRead(c) ==
    /\ call[c].st = "arrived" /\ call[c].kind = "read"
    /\ Ends(c, IF paused[call[c].home] THEN "refused" ELSE "ran")
    /\ UNCHANGED <<window, paused, disk, stop, box, kill, grants, stops, failures>>

\* A click inside the region of the grant needs no approval.
Held(c, inside) ==
    /\ call[c].kind = "risky"
    /\ \/ window[call[c].home] = "strict"
       \/ window[call[c].home] = "region" /\ ~inside

\* AllowsAt: the window is read under the lock and acted upon without it.
AllowsAt(c) ==
    /\ call[c].st = "arrived" /\ call[c].kind # "read"
    /\ \E inside \in BOOLEAN :
          Ends(c, CASE window[call[c].home] = "shut" -> "refused"
                    [] Held(c, inside) -> "asking"
                    [] OTHER -> "ran")
    /\ UNCHANGED <<window, paused, disk, stop, box, kill, grants, stops, failures>>

\* requestApproval enters the call in the pending map, then tells the screens,
\* then waits.
Enters(c) ==
    /\ call[c].st = "asking"
    /\ call' = [call EXCEPT ![c].st = "entered", ![c].late = stop[call[c].home] # "none"]
    /\ UNCHANGED <<window, paused, disk, stop, box, kill, grants, stops, failures>>

Waits(c) ==
    /\ call[c].st = "entered"
    /\ Ends(c, "waiting")
    /\ UNCHANGED <<window, paused, disk, stop, box, kill, grants, stops, failures>>

\* The select of requestApproval takes an answer, or the timer fires, also
\* when an answer is there. The entry leaves the map in the next step.
Hears(c) ==
    /\ call[c].st = "waiting"
    /\ \/ box[c] = "yes" /\ Ends(c, "allowed")
       \/ box[c] = "no" /\ Ends(c, "told")
    /\ box' = [box EXCEPT ![c] = "empty"]
    /\ UNCHANGED <<window, paused, disk, stop, kill, grants, stops, failures>>

\* A timeout of zero that waits for ever.
TimesOutNever(c) == FALSE /\ UNCHANGED consent_vars

TimesOut(c) ==
    /\ call[c].st = "waiting"
    /\ Ends(c, "told")
    /\ UNCHANGED <<window, paused, disk, stop, box, kill, grants, stops, failures>>

LeavesGate(c) ==
    /\ \/ call[c].st = "told" /\ Ends(c, "refused")
       \/ call[c].st = "allowed" /\ Ends(c, "ran")
    /\ UNCHANGED <<window, paused, disk, stop, box, kill, grants, stops, failures>>

\* Approve and Deny: the entry is looked up and its channel filled. A call that
\* has just left loses the answer.
AnswersCall(c, answer) ==
    /\ Pending(c)
    /\ Puts(c, answer)
    /\ UNCHANGED <<window, paused, disk, stop, call, kill, grants, stops, failures>>

-----------------------------------------------------------------------------
\* A start that takes an unreadable file for a missing one.
LoadsWhatItCan(h, readable) == readable /\ disk[h] = "paused"

\* loadDirectoryPause: what a new process believes. A file that cannot be read
\* counts as a stop.
Loads(h, readable) == IF disk[h] = "none" THEN FALSE ELSE disk[h] = "paused" \/ ~readable

\* Windows, pending calls and the revoke at work go with the process.
Restart ==
    /\ failures < MaxFailures
    /\ failures' = failures + 1
    /\ \E readable \in BOOLEAN : paused' = [h \in Homes |-> Loads(h, readable)]
    /\ window' = [h \in Homes |-> "shut"]
    /\ stop' = [h \in Homes |-> IF stop[h] = "unsaved" THEN "none" ELSE stop[h]]
    /\ call' = [c \in Calls |-> IF call[c].st \in {"new", "ran", "refused"}
                                THEN call[c] ELSE [call[c] EXCEPT !.st = "refused"]]
    /\ box' = [c \in Calls |-> "empty"]
    /\ kill' = NoRevoke
    /\ UNCHANGED <<disk, grants, stops>>

CallSteps(c) ==
    \/ AllowsDirectoryRead(c) \/ AllowsAt(c) \/ Enters(c) \/ Waits(c)
    \/ Hears(c) \/ TimesOut(c) \/ LeavesGate(c)

ConsentNext ==
    \/ \E h \in Homes : Grant(h) \/ WindowExpires(h) \/ StopsReads(h) \/ Revoke({h})
    \/ Revoke(Homes) \/ Takes \/ Moves \/ Restart
    \/ \E c \in Calls : Arrives(c) \/ CallSteps(c) \/ Denies(c)
                        \/ AnswersCall(c, "yes") \/ AnswersCall(c, "no")

ConsentSpec == ConsentInit /\ [][ConsentNext]_consent_vars

\* A goroutine that can run does, and the timer of an approval fires.
FairConsentSpec == ConsentSpec /\ \A c \in Calls : WF_consent_vars(CallSteps(c))

-----------------------------------------------------------------------------
CallStates == [home : Homes \cup {None}, kind : {"none", "read", "plain", "risky"},
               st : {"new", "arrived", "asking", "entered", "waiting", "told", "allowed",
                     "ran", "refused"},
               late : BOOLEAN]

ConsentTypeOK ==
    /\ window \in [Homes -> Windows]
    /\ paused \in [Homes -> BOOLEAN]
    /\ disk \in [Homes -> {"none", "paused", "running"}]
    /\ stop \in [Homes -> {"none", "unsaved", "saved"}]
    /\ call \in [Calls -> CallStates]
    /\ box \in [Calls -> {"empty", "yes", "no"}]
    /\ kill \in [left : SUBSET Homes, home : Homes \cup {None}, todo : SUBSET Calls,
                 closed : BOOLEAN]
    /\ grants \in 0..MaxGrants /\ stops \in 0..MaxStops /\ failures \in 0..MaxFailures

\* A stop holds until a grant succeeds: directory reads stay refused through
\* failing saves, and, once the stop was saved, through restarts
\* (persistence.go: "A partial write cannot turn a stop into permission on the
\* next startup"). With LateSyncFails a grant that reported a failure has
\* already replaced the file, and the next start forgets the stop.
StopsSurvive == \A h \in Homes : stop[h] # "none" => paused[h]

Stopped(h) == stop[h] # "none" /\ kill.home # h

\* When a stop is done, every call that was on the screen before it has its
\* answer in the channel: none is left for a later click (Manager.Revoke).
StopsReachThePending ==
    \A c \in Calls :
        /\ call[c].st \in {"entered", "waiting"} /\ ~call[c].late
        /\ call[c].home \in Homes /\ Stopped(call[c].home)
        => box[c] # "empty"

\* So a stop takes hold: it outlives what fails and what restarts, and no call
\* from before it is left to be approved.
StopsTakeHold == StopsSurvive /\ StopsReachThePending

\* No approval is accepted for a home that is stopped, as the comment of Revoke
\* has it: "no pending strict call can sneak through". The call that read the
\* window before the stop and registers after it breaks this.
ApprovalsEndAtTheStop ==
    [][\A c \in Calls :
          /\ call[c].st \in {"entered", "waiting"} /\ box[c] = "empty" /\ box'[c] = "yes"
          => ~Stopped(call[c].home)]_consent_vars

\* A call at the gate, and one that has left it.
Arrived(c) == call[c].st = "arrived"
Answered(c) == call[c].st \in {"ran", "refused"}

\* A call that arrived is answered, whatever becomes of the window and of the
\* person: the timer of the approval sees to it.
CallsAreAnswered == \A c \in Calls : Arrived(c) ~> Answered(c)

-----------------------------------------------------------------------------
(* Why stops take hold: the inductive invariant.                           *)

\* What was saved is on the disk, where no later save that failed changed it.
SavedIsOnDisk == \A h \in Homes : stop[h] = "saved" => disk[h] = "paused"

\* Between two homes a revoke owes nobody an answer.
RevokeIsBetween == kill.home = None => ~kill.closed /\ kill.todo = {}

\* A call from before the stop has its answer, or the revoke that is at its home
\* has still to take the pending calls or has this one among them.
AnswerIsOwed ==
    \A c \in Calls :
        /\ call[c].st \in {"entered", "waiting"} /\ ~call[c].late
        /\ call[c].home \in Homes /\ stop[call[c].home] # "none"
        => \/ box[c] # "empty"
           \/ kill.home = call[c].home /\ (~kill.closed \/ c \in kill.todo)

ConsentInv == ConsentTypeOK /\ StopsSurvive /\ SavedIsOnDisk /\ RevokeIsBetween /\ AnswerIsOwed
=============================================================================
