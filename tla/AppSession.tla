------------------------------ MODULE AppSession ------------------------------
(***************************************************************************)
(* The app sessions of one home, from StartSession to forget: Manager and session *)
(* in internal/worker/appsession/session.go.                               *)
(*                                                                         *)
(* A session runs on a goroutine of its own.  The receive goroutine        *)
(* starts it, cancels it, queues follow-ups for it and renews its          *)
(* credential; a renewal is three steps that the session's own steps come  *)
(* between.  A credential is its number: the one the session started with  *)
(* is 1, and 0 is none.  A follow-up is counted, not kept.                 *)
(***************************************************************************)
EXTENDS Integers

CONSTANTS Sessions,          \* session ids
          MaxQueued,    \* maxQueuedFollowUps
          MaxMessages,  \* bound: follow-ups sent to one session
          MaxRenewals   \* bound: renewals of one session's credential

BoundsAssumption ==
  MaxQueued \in Nat \ {0} /\ MaxMessages \in Nat /\ MaxRenewals \in Nat

VARIABLES sess,    \* each id's session
          renewal  \* the renewal the receive goroutine is in

session_vars == <<sess, renewal>>

(* "resolving" ... "turning" are inside execute; "leaving" is its return.   *)
Stages == {"forgotten", "resolving", "placed", "configured", "connected", "turning", "between",
           "open", "leaving", "removing", "pushing", "ending", "ended"}

Executing == {"resolving", "placed", "configured", "connected", "turning", "between", "open"}

Forgotten ==
  [pc |-> "forgotten", kind |-> "run", ctx |-> "live", closed |-> TRUE, pending |-> 0,
   mcp |-> FALSE, library |-> FALSE, taken |-> FALSE, removed |-> FALSE,
   file |-> 0, bearer |-> 0, told |-> 0,
   own |-> FALSE, dir |-> FALSE, worked |-> FALSE, pushed |-> FALSE, panicked |-> FALSE,
   error |-> FALSE, messages |-> 0, given |-> 0]

NoRenewal == [step |-> "none"]

SessionInit == sess = [i \in Sessions |-> Forgotten] /\ renewal = NoRenewal

(* A step of one session's own goroutine, or of one control.                *)
Becomes(i, s) == sess' = [sess EXCEPT ![i] = s]
Goes(i, stage) == Becomes(i, [sess[i] EXCEPT !.pc = stage]) /\ UNCHANGED renewal
Leaves(i, failed) ==
  Becomes(i, [sess[i] EXCEPT !.pc = "leaving", !.error = failed]) /\ UNCHANGED renewal

-----------------------------------------------------------------------------
(* run and execute                                                         *)

(* resolveApp, resolveLevel and resolveWorkspace, which makes the directory.*)
Resolves(i) ==
  /\ sess[i].pc = "resolving"
  /\ Becomes(i, [sess[i] EXCEPT !.pc = "placed", !.dir = TRUE])
  /\ UNCHANGED renewal

(* preflightMCP, then writeMCPConfig, then publishing it to the session.    *)
WritesConfig(i) ==
  /\ sess[i].pc = "placed"
  /\ Becomes(i, [sess[i] EXCEPT !.pc = "configured", !.file = 1, !.mcp = TRUE])
  /\ UNCHANGED renewal

ReachesLibrary(i) ==
  /\ sess[i].pc = "configured"
  /\ Becomes(i, [sess[i] EXCEPT !.pc = "connected", !.bearer = 1, !.library = TRUE])
  /\ UNCHANGED renewal

(* Any step before the app runs may refuse or fail.                         *)
Refuses(i) ==
  /\ sess[i].pc \in {"resolving", "placed", "configured", "connected"}
  /\ Leaves(i, TRUE)

(* runTurns: the harness starts, and the queue opens.                       *)
StartsTurns(i) ==
  /\ sess[i].pc = "connected" /\ sess[i].kind = "run"
  /\ Becomes(i, [sess[i] EXCEPT !.pc = "turning", !.closed = FALSE, !.worked = TRUE])
  /\ UNCHANGED renewal

TurnEnds(i) == sess[i].pc = "turning" /\ Goes(i, "between")

(* A turn fails by itself or because the context ended; the queue is left.  *)
TurnFails(i) == sess[i].pc = "turning" /\ Leaves(i, TRUE)

(* Mutant: the queue stays open.                                            *)
NextFollowUpUnlatched(i) ==
  /\ sess[i].pc = "between"
  /\ IF sess[i].pending = 0
       THEN Leaves(i, sess[i].ctx # "live")
       ELSE /\ Becomes(i, [sess[i] EXCEPT !.pc = "turning", !.pending = @ - 1])
            /\ UNCHANGED renewal

(* Mutant: every turn gets a context of its own.                            *)
NextFollowUpAfresh(i) ==
  /\ sess[i].pc = "between"
  /\ Becomes(i, IF sess[i].pending = 0
                  THEN [sess[i] EXCEPT !.pc = "leaving", !.closed = TRUE,
                                       !.error = (sess[i].ctx # "live")]
                  ELSE [sess[i] EXCEPT !.pc = "turning", !.pending = @ - 1, !.ctx = "live"])
  /\ UNCHANGED renewal

(* nextFollowUp: a prompt, or the latch, in one critical section.           *)
NextFollowUp(i) ==
  /\ sess[i].pc = "between"
  /\ Becomes(i, IF sess[i].pending = 0
                  THEN [sess[i] EXCEPT !.pc = "leaving", !.closed = TRUE,
                                       !.error = (sess[i].ctx # "live")]
                  ELSE [sess[i] EXCEPT !.pc = "turning", !.pending = @ - 1])
  /\ UNCHANGED renewal

(* runOpen: a person has the app, until they leave it or the context ends.  *)
HandsOver(i) ==
  /\ sess[i].pc = "connected" /\ sess[i].kind = "open"
  /\ Becomes(i, [sess[i] EXCEPT !.pc = "open", !.worked = TRUE])
  /\ UNCHANGED renewal

PersonLeaves(i) == sess[i].pc = "open" /\ Leaves(i, sess[i].ctx # "live")

(* The recover in run takes the panic path from here.                       *)
Panics(i) ==
  /\ sess[i].pc \in Executing \cup {"pushing"} /\ ~sess[i].panicked
  /\ Becomes(i, [sess[i] EXCEPT !.pc = "leaving", !.panicked = TRUE, !.error = TRUE])
  /\ UNCHANGED renewal

(* teardown takes the configuration out of the session, then removes it.    *)
Teardown(i) ==
  /\ sess[i].pc = "leaving"
  /\ Becomes(i, [sess[i] EXCEPT !.pc = "removing", !.taken = sess[i].mcp, !.mcp = FALSE])
  /\ UNCHANGED renewal

RemovesConfig(i) ==
  /\ sess[i].pc = "removing"
  /\ Becomes(i, [sess[i] EXCEPT !.pc = "pushing",
                                !.removed = @ \/ sess[i].taken,
                                !.file = IF sess[i].taken THEN 0 ELSE @])
  /\ UNCHANGED renewal

(* pushOutputs, then releaseWorkspace.                                      *)
Pushes(i) ==
  /\ sess[i].pc = "pushing" /\ ~sess[i].panicked
  /\ Becomes(i, [sess[i] EXCEPT !.pc = "ending", !.pushed = sess[i].library,
                                !.dir = @ /\ ~sess[i].own])
  /\ UNCHANGED renewal

(* Mutant: the directory goes whether or not its outputs arrived.           *)
PushFailsReleasing(i) ==
  /\ sess[i].pc = "pushing" /\ ~sess[i].panicked /\ sess[i].library
  /\ Becomes(i, [sess[i] EXCEPT !.pc = "ending", !.error = TRUE, !.dir = @ /\ ~sess[i].own])
  /\ UNCHANGED renewal

(* pushOutputs fails, or the session panicked: keepWorkspace.               *)
PushFails(i) ==
  /\ sess[i].pc = "pushing" /\ ~sess[i].panicked /\ sess[i].library
  /\ Becomes(i, [sess[i] EXCEPT !.pc = "ending", !.error = TRUE])
  /\ UNCHANGED renewal

PanicKeeps(i) == sess[i].pc = "pushing" /\ sess[i].panicked /\ Goes(i, "ending")

SendsEnd(i) == sess[i].pc = "ending" /\ Goes(i, "ended")

(* What a renewal still holds of a forgotten session is nobody's any more.  *)
Forgets(i) ==
  /\ sess[i].pc = "ended"
  /\ Becomes(i, Forgotten)
  /\ renewal' = IF renewal # NoRenewal /\ renewal.id = i
                  THEN [renewal EXCEPT !.mcp = FALSE, !.library = FALSE] ELSE renewal

-----------------------------------------------------------------------------
(* The receive goroutine: Start, Control, StopAll                          *)

Listed(i) == sess[i].pc # "forgotten"
Receiving == renewal = NoRenewal

(* A StartSession for an id that is listed is a duplicate and changes nothing.     *)
StartSession(i) ==
  /\ Receiving /\ ~Listed(i)
  /\ \E kind \in {"run", "open"}, own \in BOOLEAN :
       Becomes(i, [Forgotten EXCEPT !.pc = "resolving", !.kind = kind, !.given = 1,
                                    !.own = own /\ kind = "run"])
  /\ UNCHANGED renewal

Cancelled(s) == IF s.ctx = "live" THEN [s EXCEPT !.ctx = "cancelled"] ELSE s

CancelReason(i) ==
  /\ Receiving /\ Listed(i)
  /\ Becomes(i, Cancelled(sess[i]))
  /\ UNCHANGED renewal

StopAllSessions ==
  /\ Receiving
  /\ sess' = [i \in Sessions |-> IF Listed(i) THEN Cancelled(sess[i]) ELSE sess[i]]
  /\ UNCHANGED renewal

QueueFollowUp(s) ==
  IF s.closed \/ s.pending >= MaxQueued THEN s ELSE [s EXCEPT !.pending = @ + 1]

FollowUp(i) ==
  /\ Receiving /\ Listed(i) /\ sess[i].messages < MaxMessages
  /\ Becomes(i, [QueueFollowUp(sess[i]) EXCEPT !.messages = @ + 1])
  /\ UNCHANGED renewal

(* renew reads what the session has published ...                           *)
RenewReads(i) ==
  /\ Receiving /\ Listed(i) /\ sess[i].given \in 1..MaxRenewals
  /\ Becomes(i, [sess[i] EXCEPT !.given = @ + 1])
  /\ renewal' = [step |-> "library", id |-> i, mcp |-> sess[i].mcp, library |-> sess[i].library]

(* Mutant: the Library client keeps the credential it was made with.        *)
RenewsNoLibrary ==
  /\ renewal.step = "library"
  /\ renewal' = [renewal EXCEPT !.step = "file"]
  /\ UNCHANGED sess

(* ... gives the Library client the new credential ...                      *)
RenewsLibrary ==
  /\ renewal.step = "library"
  /\ LET i == renewal.id
     IN  Becomes(i, IF renewal.library THEN [sess[i] EXCEPT !.bearer = sess[i].given] ELSE sess[i])
  /\ renewal' = [renewal EXCEPT !.step = "file"]

(* Mutant: the file is written whether or not it was removed.               *)
RenewFileAlways(s) == [s EXCEPT !.file = s.given]

(* mcpConfig.Renew, which refuses once Remove has run.                      *)
RenewFile(s) == IF s.removed THEN s ELSE [s EXCEPT !.file = s.given]

(* ... and rewrites the file through the configuration it read.             *)
RenewsFile ==
  /\ renewal.step = "file"
  /\ LET i == renewal.id
         s == IF renewal.mcp THEN RenewFile(sess[i]) ELSE sess[i]
         both == renewal.mcp /\ renewal.library /\ ~s.removed
     IN  Becomes(i, [s EXCEPT !.told = IF both THEN s.given ELSE @])
  /\ renewal' = NoRenewal

(* limits.max_duration_seconds.                                             *)
Expires(i) ==
  /\ sess[i].pc \in {"turning", "between", "open"} /\ sess[i].ctx = "live"
  /\ Becomes(i, [sess[i] EXCEPT !.ctx = "expired"])
  /\ UNCHANGED renewal

-----------------------------------------------------------------------------
Own(i) ==
  \/ Resolves(i) \/ WritesConfig(i) \/ ReachesLibrary(i) \/ Refuses(i) \/ StartsTurns(i)
  \/ NextFollowUp(i) \/ HandsOver(i) \/ Teardown(i) \/ RemovesConfig(i) \/ Pushes(i)
  \/ PushFails(i) \/ PanicKeeps(i) \/ SendsEnd(i) \/ Forgets(i)

SessionNext ==
  \/ \E i \in Sessions :
       \/ Own(i) \/ TurnEnds(i) \/ TurnFails(i) \/ PersonLeaves(i) \/ Panics(i) \/ Expires(i)
       \/ StartSession(i) \/ CancelReason(i) \/ FollowUp(i) \/ RenewReads(i)
  \/ StopAllSessions \/ RenewsLibrary \/ RenewsFile

SessionSpec == SessionInit /\ [][SessionNext]_session_vars

(* Both goroutines step, and a turn or a terminal whose context ended       *)
(* returns.  One whose context is live may take as long as it likes.        *)
FairSessionSpec ==
  /\ SessionSpec
  /\ \A i \in Sessions :
       /\ WF_session_vars(Own(i))
       /\ WF_session_vars(sess[i].ctx # "live" /\ (TurnFails(i) \/ PersonLeaves(i)))
  /\ WF_session_vars(RenewsLibrary \/ RenewsFile)

-----------------------------------------------------------------------------
(* Properties                                                              *)

Versions == 0..(MaxRenewals + 1)

Session ==
  [pc : Stages, kind : {"run", "open"}, ctx : {"live", "cancelled", "expired"},
   closed : BOOLEAN, pending : 0..MaxQueued, mcp : BOOLEAN, library : BOOLEAN,
   taken : BOOLEAN, removed : BOOLEAN, file : Versions, bearer : Versions, told : Versions,
   own : BOOLEAN, dir : BOOLEAN, worked : BOOLEAN, pushed : BOOLEAN, panicked : BOOLEAN,
   error : BOOLEAN, messages : 0..MaxMessages, given : Versions]

SessionTypeOK ==
  /\ sess \in [Sessions -> Session]
  /\ renewal = NoRenewal \/ renewal \in [step : {"library", "file"}, id : Sessions,
                                         mcp : BOOLEAN, library : BOOLEAN]

(* When the cluster is told a session is over, its bearer is off the disk, *)
(* and no renewal that was under way meanwhile puts it back.               *)
BearerIsGoneByTheEnd == \A i \in Sessions : sess[i].pc \in {"ending", "ended"} => sess[i].file = 0

(* A session that reports success has run every follow-up it accepted:     *)
(* none comes in between the last look at the queue and the latch.         *)
SuccessRanEverything ==
  \A i \in Sessions : sess[i].pc \in {"ending", "ended"} /\ ~sess[i].error => sess[i].pending = 0

(* The directory this machine made for a session is removed only when what *)
(* the app made in it has been pushed: a failed push or a panic keeps the  *)
(* only copy.                                                              *)
OnlyCopyIsKept ==
  \A i \in Sessions : Listed(i) /\ sess[i].own /\ sess[i].worked /\ ~sess[i].dir => sess[i].pushed

(* A renewal that found the session configured leaves neither the file nor *)
(* the Library client behind it while the session runs.                    *)
RenewalsTake ==
  \A i \in Sessions : sess[i].pc \in Executing /\ ~sess[i].panicked =>
     sess[i].file >= sess[i].told /\ sess[i].bearer >= sess[i].told

(* What the four say of a session that ends.                               *)
SessionsEndWhole ==
  BearerIsGoneByTheEnd /\ SuccessRanEverything /\ OnlyCopyIsKept /\ RenewalsTake

(* A cancelled session ends, whatever it had queued.                       *)
CancelledSessionsEnd ==
  \A i \in Sessions : (Listed(i) /\ sess[i].ctx = "cancelled") ~> ~Listed(i)
=============================================================================
