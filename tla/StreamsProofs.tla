----------------------------- MODULE StreamsProofs -----------------------------
(***************************************************************************)
(* What the connection of a worker guarantees: WorkerStream, for any       *)
(* number of streams, tool calls and tasks, what one stream leaves for the *)
(* next; AppSession, for any number of sessions, follow-ups and renewals,  *)
(* how a session ends; RefusalHold, for any streak, grace and waits, when  *)
(* a home is asked again; Consent, for any homes and calls, what a stop    *)
(* does to the calls it finds.                                             *)
(***************************************************************************)
EXTENDS WorkerStream, AppSession, RefusalHold, Consent, TLAPS

-----------------------------------------------------------------------------
(* WorkerStream                                                            *)

(* A tool call belongs to the current stream and is in toolCallSet; past   *)
(* active.Wait there is none, and past runStream no heartbeat loop.        *)
StreamInv ==
  /\ \A w \in Tools : state[w] # "idle" => on[w] = stream /\ w \in tracked
  /\ recv \in {"joining", "connecting", "returned"} => \A w \in Tools : state[w] = "idle"
  /\ beat \in {0, stream}
  /\ recv \in {"connecting", "returned"} => beat = 0

(* Nothing runs before the first stream.                                   *)
LEMMA StreamInitInv == StreamInit => StreamTypeOK /\ StreamInv
<1> SUFFICES ASSUME StreamInit PROVE StreamTypeOK /\ StreamInv
  OBVIOUS
<1>1. closing \in BOOLEAN
  BY DEF StreamInit
<1>2. QED
  BY <1>1, PlacesAssumption DEF StreamInit, StreamTypeOK, StreamInv, Work, InFlight, Live

(* Every step keeps the types ...                                          *)
LEMMA StreamNextType == StreamTypeOK /\ [StreamNext]_stream_vars => StreamTypeOK'
<1> SUFFICES ASSUME StreamTypeOK, [StreamNext]_stream_vars PROVE StreamTypeOK'
  OBVIOUS
<1> USE PlacesAssumption DEF StreamTypeOK, Work, InFlight, Live
<1>1. CASE Connect
  BY <1>1 DEF Connect
<1>2. CASE LinkGoes
  BY <1>2 DEF LinkGoes
<1>3. CASE Drain
  BY <1>3 DEF Drain
<1>4. CASE DrainReturns
  BY <1>4 DEF DrainReturns
<1>5. CASE RecvFails
  BY <1>5 DEF RecvFails
<1>6. CASE ActiveWaited
  BY <1>6 DEF ActiveWaited
<1>7. CASE Joined
  BY <1>7 DEF Joined
<1>8. CASE RunReturns
  BY <1>8 DEF RunReturns
<1>9. CASE BeatStops
  BY <1>9 DEF BeatStops
<1>10. CASE Close
  BY <1>10 DEF Close
<1>11. ASSUME NEW w \in Work, Dispatch(w) PROVE StreamTypeOK'
  BY <1>11 DEF Dispatch
<1>12. ASSUME NEW w \in Work, Runs(w) PROVE StreamTypeOK'
  BY <1>12 DEF Runs
<1>13. ASSUME NEW w \in Work, Finishes(w) PROVE StreamTypeOK'
  BY <1>13 DEF Finishes
<1>14. ASSUME NEW w \in Work, Reports(w) PROVE StreamTypeOK'
  BY <1>14 DEF Reports
<1>15. ASSUME NEW w \in Tools, ToolCancel(w) PROVE StreamTypeOK'
  BY <1>15 DEF ToolCancel
<1>16. ASSUME NEW w \in Tools, ClusterCancels(w) PROVE StreamTypeOK'
  BY <1>16 DEF ClusterCancels
<1>17. CASE UNCHANGED stream_vars
  BY <1>17 DEF stream_vars
<1>18. QED
  BY <1>1, <1>2, <1>3, <1>4, <1>5, <1>6, <1>7, <1>8, <1>9, <1>10, <1>11, <1>12, <1>13, <1>14, <1>15, <1>16, <1>17 DEF StreamNext, Receiver

(* ... and the order in which a stream is wound up.                        *)
LEMMA NextStream == StreamTypeOK /\ StreamInv /\ [StreamNext]_stream_vars => StreamInv'
<1> SUFFICES ASSUME StreamTypeOK, StreamInv, [StreamNext]_stream_vars PROVE StreamInv'
  OBVIOUS
<1> USE PlacesAssumption DEF StreamTypeOK, StreamInv, Work, InFlight, Live
<1>1. CASE Connect
  BY <1>1 DEF Connect
<1>2. CASE LinkGoes
  BY <1>2 DEF LinkGoes
<1>3. CASE Drain
  BY <1>3 DEF Drain
<1>4. CASE DrainReturns
  BY <1>4 DEF DrainReturns
<1>5. CASE RecvFails
  BY <1>5 DEF RecvFails
<1>6. CASE ActiveWaited
  BY <1>6 DEF ActiveWaited
<1>7. CASE Joined
  BY <1>7 DEF Joined
<1>8. CASE RunReturns
  BY <1>8 DEF RunReturns
<1>9. CASE BeatStops
  BY <1>9 DEF BeatStops
<1>10. CASE Close
  BY <1>10 DEF Close
<1>11. ASSUME NEW w \in Work, Dispatch(w) PROVE StreamInv'
  BY <1>11 DEF Dispatch
<1>12. ASSUME NEW w \in Work, Runs(w) PROVE StreamInv'
  BY <1>12 DEF Runs
<1>13. ASSUME NEW w \in Work, Finishes(w) PROVE StreamInv'
  BY <1>13 DEF Finishes
<1>14. ASSUME NEW w \in Work, Reports(w) PROVE StreamInv'
  BY <1>14 DEF Reports
<1>15. ASSUME NEW w \in Tools, ToolCancel(w) PROVE StreamInv'
  BY <1>15 DEF ToolCancel
<1>16. ASSUME NEW w \in Tools, ClusterCancels(w) PROVE StreamInv'
  BY <1>16 DEF ClusterCancels
<1>17. CASE UNCHANGED stream_vars
  BY <1>17 DEF stream_vars
<1>18. QED
  BY <1>1, <1>2, <1>3, <1>4, <1>5, <1>6, <1>7, <1>8, <1>9, <1>10, <1>11, <1>12, <1>13, <1>14, <1>15, <1>16, <1>17 DEF StreamNext, Receiver

(* The invariant is inductive.                                             *)
LEMMA StreamAlwaysInv == StreamSpec => [](StreamTypeOK /\ StreamInv)
BY StreamInitInv, StreamNextType, NextStream, PTL DEF StreamSpec

-----------------------------------------------------------------------------
(* Every variable keeps its type; only live tool calls can be cancelled.   *)
THEOREM StreamTypeCorrect == StreamSpec => []StreamTypeOK
BY StreamAlwaysInv, PTL

(* However streams are lost, drained and reopened, when one is opened no   *)
(* tool call and no heartbeat loop of an earlier one is left.              *)
THEOREM NothingCrossesStreams == StreamSpec => []StreamsAreApart
<1>1. StreamTypeOK /\ StreamInv => StreamsAreApart
  BY DEF StreamInv, StreamsAreApart, InFlight, Live
<1>2. QED
  BY StreamAlwaysInv, <1>1, PTL

(* A cancel that has been read has ended the call it names, before, while  *)
(* or after the call starts.                                               *)
THEOREM EveryCancelIsHeard == StreamSpec => CancelIsHeard
<1>1. StreamInv => \A w \in Tools : ToolCancel(w) /\ state[w] # "idle" => w \in stopped'
  BY DEF StreamInv, ToolCancel
<1>2. QED
  BY StreamAlwaysInv, <1>1, PTL DEF CancelIsHeard

-----------------------------------------------------------------------------
(* AppSession                                                              *)

(* A session's configuration is its own, or is being taken down, or gone.  *)
Configured(s) == s.mcp \/ (s.taken /\ s.pc = "removing") \/ s.removed

(* What one session keeps, whatever the receive goroutine does: a file     *)
(* somebody still answers for, a queue that is latched before success, a   *)
(* directory that stands until the push, credentials no older than told.   *)
Whole(s) ==
  /\ s.file # 0 => s.mcp \/ (s.taken /\ s.pc = "removing")
  /\ s.pc \in {"removing", "pushing", "ending", "ended"} => ~s.mcp
  /\ s.pc \notin {"turning", "between"} /\ ~s.error => s.closed /\ s.pending = 0
  /\ s.pc \in Executing => ~s.error
  /\ s.worked => s.library /\ (s.dir \/ s.pushed)
  /\ s.pc \in {"placed", "configured", "connected"} => s.dir
  /\ s.pc \in {"forgotten", "resolving", "placed", "configured"} => ~s.library
  /\ s.pc = "connected" => s.library
  /\ s.told > 0 => s.library
  /\ s.told <= s.given
  /\ s.pc \in Executing => s.file >= s.told /\ s.bearer >= s.told

(* What the renewal under way read of its session is still so.             *)
RenewalHolds ==
  renewal.step # "none" =>
    /\ renewal.mcp => Configured(sess[renewal.id])
    /\ renewal.library => sess[renewal.id].library
    /\ renewal.step = "file" /\ renewal.library => sess[renewal.id].bearer = sess[renewal.id].given

SessionInv == (\A i \in Sessions : Whole(sess[i])) /\ RenewalHolds

(* What a session's own step leaves a renewal.                             *)
Keeps(s, t) ==
  /\ Configured(s) => Configured(t)
  /\ s.library => t.library /\ t.bearer = s.bearer
  /\ t.given = s.given

(* A step of one session to a whole one that keeps what a renewal holds.   *)
Steps(i) == \E t \in Session : Becomes(i, t) /\ Whole(t) /\ Keeps(sess[i], t) /\ UNCHANGED renewal

USE DEF Stages, Executing, Versions, BoundsAssumption

(* A session that is not there.                                            *)
LEMMA ForgottenIsWhole == BoundsAssumption => Forgotten \in Session /\ Whole(Forgotten)
  BY DEF Forgotten, Session, Whole

LEMMA SessionInitInv == BoundsAssumption /\ SessionInit => SessionTypeOK /\ SessionInv
  BY ForgottenIsWhole DEF SessionInit, SessionTypeOK, SessionInv, RenewalHolds, NoRenewal

(* Such a step keeps the types and the invariant.                          *)
LEMMA StepsKeepInv ==
  ASSUME SessionTypeOK, SessionInv, NEW i \in Sessions, Steps(i)
  PROVE  SessionTypeOK' /\ SessionInv'
<1>1. PICK t \in Session : Becomes(i, t) /\ Whole(t) /\ Keeps(sess[i], t) /\ UNCHANGED renewal
  BY DEF Steps
<1>2. SessionTypeOK'
  BY <1>1 DEF SessionTypeOK, Becomes
<1>3. \A j \in Sessions : Whole(sess'[j])
  BY <1>1 DEF SessionTypeOK, Becomes, SessionInv
<1>4. RenewalHolds'
  <2>1. SUFFICES ASSUME renewal.step # "none" PROVE RenewalHolds'
    BY <1>1 DEF RenewalHolds
  <2>2. renewal.id \in Sessions
    BY <2>1 DEF SessionTypeOK, NoRenewal
  <2>3. CASE renewal.id = i
    <3>1. sess'[renewal.id] = t
      BY <1>1, <2>3 DEF SessionTypeOK, Becomes
    <3>2. QED
      BY <1>1, <2>3, <3>1 DEF RenewalHolds, SessionInv, Keeps
  <2>4. CASE renewal.id # i
    <3>1. sess'[renewal.id] = sess[renewal.id]
      BY <1>1, <2>2, <2>4 DEF SessionTypeOK, Becomes
    <3>2. QED
      BY <1>1, <3>1 DEF RenewalHolds, SessionInv
  <2>5. QED
    BY <2>3, <2>4
<1>5. QED
  BY <1>2, <1>3, <1>4 DEF SessionInv

(* execute: every step of it, until it returns.                            *)
LEMMA ExecuteSteps ==
  ASSUME BoundsAssumption, SessionTypeOK, SessionInv, NEW i \in Sessions,
         \/ Resolves(i) \/ WritesConfig(i) \/ ReachesLibrary(i) \/ Refuses(i) \/ StartsTurns(i)
         \/ TurnEnds(i) \/ TurnFails(i) \/ NextFollowUp(i) \/ HandsOver(i) \/ PersonLeaves(i)
         \/ Expires(i)
  PROVE  Steps(i)
<1> USE DEF Whole, Keeps, Configured, Steps
<1>0. sess[i] \in Session /\ Whole(sess[i])
  BY DEF SessionTypeOK, SessionInv
<1>a. sess[i] \in Session
  BY <1>0
<1>b. 1 \in Versions
  OBVIOUS
<1>1. CASE Resolves(i)
  <2> DEFINE t == [sess[i] EXCEPT !.pc = "placed", !.dir = TRUE]
  <2>1. t \in Session
    BY <1>0, <1>1 DEF Resolves, Session
  <2>2. Whole(t)
    BY <1>0, <1>1 DEF Resolves, Session
  <2>3. Keeps(sess[i], t)
    BY <1>0, <1>1 DEF Resolves, Session
  <2>4. QED
    BY <1>1, <2>1, <2>2, <2>3 DEF Resolves
<1>2. CASE WritesConfig(i)
  <2> DEFINE t == [sess[i] EXCEPT !.pc = "configured", !.file = 1, !.mcp = TRUE]
  <2>1. ~sess[i].library /\ sess[i].told = 0
    BY <1>0, <1>2 DEF WritesConfig, Session
  <2>2. t \in Session
    BY <1>a, <1>b DEF Session
  <2>3. Whole(t)
    BY <1>0, <1>2, <2>1 DEF WritesConfig, Session
  <2>4. Keeps(sess[i], t)
    BY <1>0, <1>2, <2>1 DEF WritesConfig, Session
  <2>5. QED
    BY <1>2, <2>2, <2>3, <2>4 DEF WritesConfig
<1>3. CASE ReachesLibrary(i)
  <2> DEFINE t == [sess[i] EXCEPT !.pc = "connected", !.bearer = 1, !.library = TRUE]
  <2>1. ~sess[i].library /\ sess[i].told = 0
    BY <1>0, <1>3 DEF ReachesLibrary, Session
  <2>2. t \in Session
    BY <1>a, <1>b DEF Session
  <2>3. Whole(t)
    BY <1>0, <1>3, <2>1 DEF ReachesLibrary, Session
  <2>4. Keeps(sess[i], t)
    BY <1>0, <1>3, <2>1 DEF ReachesLibrary, Session
  <2>5. QED
    BY <1>3, <2>2, <2>3, <2>4 DEF ReachesLibrary
<1>4. CASE Refuses(i) \/ TurnFails(i)
  <2> DEFINE t == [sess[i] EXCEPT !.pc = "leaving", !.error = TRUE]
  <2>1. t \in Session
    BY <1>0, <1>4 DEF Refuses, TurnFails, Session
  <2>2. Whole(t)
    BY <1>0, <1>4 DEF Refuses, TurnFails, Session
  <2>3. Keeps(sess[i], t)
    BY <1>0, <1>4 DEF Refuses, TurnFails, Session
  <2>4. QED
    BY <1>4, <2>1, <2>2, <2>3 DEF Refuses, TurnFails, Leaves
<1>5. CASE StartsTurns(i)
  <2> DEFINE t == [sess[i] EXCEPT !.pc = "turning", !.closed = FALSE, !.worked = TRUE]
  <2>1. t \in Session
    BY <1>0, <1>5 DEF StartsTurns, Session
  <2>2. Whole(t)
    BY <1>0, <1>5 DEF StartsTurns, Session
  <2>3. Keeps(sess[i], t)
    BY <1>0, <1>5 DEF StartsTurns, Session
  <2>4. QED
    BY <1>5, <2>1, <2>2, <2>3 DEF StartsTurns
<1>6. CASE TurnEnds(i)
  <2> DEFINE t == [sess[i] EXCEPT !.pc = "between"]
  <2>1. t \in Session
    BY <1>0, <1>6 DEF TurnEnds, Session
  <2>2. Whole(t)
    BY <1>0, <1>6 DEF TurnEnds, Session
  <2>3. Keeps(sess[i], t)
    BY <1>0, <1>6 DEF TurnEnds, Session
  <2>4. QED
    BY <1>6, <2>1, <2>2, <2>3 DEF TurnEnds, Goes
<1>7. CASE NextFollowUp(i) /\ sess[i].pending = 0
  <2> DEFINE t == [sess[i] EXCEPT !.pc = "leaving", !.closed = TRUE, !.error = (sess[i].ctx # "live")]
  <2>1. t \in Session
    BY <1>a DEF Session
  <2>2. Whole(t)
    BY <1>0, <1>7 DEF NextFollowUp, Session
  <2>3. Keeps(sess[i], t)
    BY <1>0, <1>7 DEF NextFollowUp, Session
  <2>4. QED
    BY <1>7, <2>1, <2>2, <2>3 DEF NextFollowUp
<1>8. CASE NextFollowUp(i) /\ sess[i].pending # 0
  <2> DEFINE t == [sess[i] EXCEPT !.pc = "turning", !.pending = @ - 1]
  <2>1. sess[i].pending - 1 \in 0..MaxQueued
    BY <1>0, <1>8 DEF Session
  <2>2. t \in Session
    BY <1>0, <1>8, <2>1 DEF NextFollowUp, Session
  <2>3. Whole(t)
    BY <1>0, <1>8, <2>1 DEF NextFollowUp, Session
  <2>4. Keeps(sess[i], t)
    BY <1>0, <1>8, <2>1 DEF NextFollowUp, Session
  <2>5. QED
    BY <1>8, <2>2, <2>3, <2>4 DEF NextFollowUp
<1>9. CASE HandsOver(i)
  <2> DEFINE t == [sess[i] EXCEPT !.pc = "open", !.worked = TRUE]
  <2>1. t \in Session
    BY <1>0, <1>9 DEF HandsOver, Session
  <2>2. Whole(t)
    BY <1>0, <1>9 DEF HandsOver, Session
  <2>3. Keeps(sess[i], t)
    BY <1>0, <1>9 DEF HandsOver, Session
  <2>4. QED
    BY <1>9, <2>1, <2>2, <2>3 DEF HandsOver
<1>10. CASE PersonLeaves(i)
  <2> DEFINE t == [sess[i] EXCEPT !.pc = "leaving", !.error = (sess[i].ctx # "live")]
  <2>1. t \in Session
    BY <1>0, <1>10 DEF PersonLeaves, Session
  <2>2. Whole(t)
    BY <1>0, <1>10 DEF PersonLeaves, Session
  <2>3. Keeps(sess[i], t)
    BY <1>0, <1>10 DEF PersonLeaves, Session
  <2>4. QED
    BY <1>10, <2>1, <2>2, <2>3 DEF PersonLeaves, Leaves
<1>11. CASE Expires(i)
  <2> DEFINE t == [sess[i] EXCEPT !.ctx = "expired"]
  <2>1. t \in Session
    BY <1>0, <1>11 DEF Expires, Session
  <2>2. Whole(t)
    BY <1>0, <1>11 DEF Expires, Session
  <2>3. Keeps(sess[i], t)
    BY <1>0, <1>11 DEF Expires, Session
  <2>4. QED
    BY <1>11, <2>1, <2>2, <2>3 DEF Expires
<1>12. QED
  BY <1>1, <1>2, <1>3, <1>4, <1>5, <1>6, <1>7, <1>8, <1>9, <1>10, <1>11

(* run's deferred functions: the panic, the teardown, the push, the End.   *)
LEMMA LeavingSteps ==
  ASSUME BoundsAssumption, SessionTypeOK, SessionInv, NEW i \in Sessions,
         \/ Panics(i) \/ Teardown(i) \/ RemovesConfig(i) \/ Pushes(i) \/ PushFails(i)
         \/ PanicKeeps(i) \/ SendsEnd(i)
  PROVE  Steps(i)
<1> USE DEF Whole, Keeps, Configured, Steps
<1>0. sess[i] \in Session /\ Whole(sess[i])
  BY DEF SessionTypeOK, SessionInv
<1>a. 0 \in Versions
  OBVIOUS
<1>1. CASE Panics(i)
  <2> DEFINE t == [sess[i] EXCEPT !.pc = "leaving", !.panicked = TRUE, !.error = TRUE]
  <2>1. t \in Session
    BY <1>0, <1>1 DEF Panics, Session
  <2>2. Whole(t)
    BY <1>0, <1>1 DEF Panics, Session
  <2>3. Keeps(sess[i], t)
    BY <1>0, <1>1 DEF Panics, Session
  <2>4. QED
    BY <1>1, <2>1, <2>2, <2>3 DEF Panics
<1>2. CASE Teardown(i)
  <2> DEFINE t == [sess[i] EXCEPT !.pc = "removing", !.taken = sess[i].mcp, !.mcp = FALSE]
  <2>1. t \in Session
    BY <1>0, <1>2 DEF Teardown, Session
  <2>2. Whole(t)
    BY <1>0, <1>2 DEF Teardown, Session
  <2>3. Keeps(sess[i], t)
    BY <1>0, <1>2 DEF Teardown, Session
  <2>4. QED
    BY <1>2, <2>1, <2>2, <2>3 DEF Teardown
<1>3. CASE RemovesConfig(i)
  <2> DEFINE t == [sess[i] EXCEPT !.pc = "pushing", !.removed = @ \/ sess[i].taken,
                                  !.file = IF sess[i].taken THEN 0 ELSE @]
  <2>1. t \in Session
    <3>1. sess[i].taken \in BOOLEAN /\ sess[i].removed \in BOOLEAN /\ sess[i].file \in Versions
      BY <1>0 DEF Session
    <3>2. /\ (sess[i].removed \/ sess[i].taken) \in BOOLEAN
          /\ (IF sess[i].taken THEN 0 ELSE sess[i].file) \in Versions
      BY <3>1, <1>a
    <3>3. \A b \in BOOLEAN, v \in Versions :
            [sess[i] EXCEPT !.pc = "pushing", !.removed = b, !.file = v] \in Session
      BY <1>0 DEF Session, Stages
    <3> QED BY <3>2, <3>3
  <2>2. Whole(t)
    BY <1>0, <1>a, <1>3 DEF RemovesConfig, Session
  <2>3. Keeps(sess[i], t)
    BY <1>0, <1>a, <1>3 DEF RemovesConfig, Session
  <2>4. QED
    BY <1>3, <2>1, <2>2, <2>3 DEF RemovesConfig
<1>4. CASE Pushes(i)
  <2> DEFINE t == [sess[i] EXCEPT !.pc = "ending", !.pushed = sess[i].library,
                                  !.dir = @ /\ ~sess[i].own]
  <2>1. t \in Session
    BY <1>0, <1>4 DEF Pushes, Session
  <2>2. Whole(t)
    BY <1>0, <1>4 DEF Pushes, Session
  <2>3. Keeps(sess[i], t)
    BY <1>0, <1>4 DEF Pushes, Session
  <2>4. QED
    BY <1>4, <2>1, <2>2, <2>3 DEF Pushes
<1>5. CASE PushFails(i)
  <2> DEFINE t == [sess[i] EXCEPT !.pc = "ending", !.error = TRUE]
  <2>1. t \in Session
    BY <1>0, <1>5 DEF PushFails, Session
  <2>2. Whole(t)
    BY <1>0, <1>5 DEF PushFails, Session
  <2>3. Keeps(sess[i], t)
    BY <1>0, <1>5 DEF PushFails, Session
  <2>4. QED
    BY <1>5, <2>1, <2>2, <2>3 DEF PushFails
<1>6. ASSUME NEW stage \in {"ending", "ended"}, sess[i].pc \in {"pushing", "ending"}, Goes(i, stage)
      PROVE  Steps(i)
  <2> DEFINE t == [sess[i] EXCEPT !.pc = stage]
  <2>1. t \in Session
    BY <1>0, <1>6 DEF Session
  <2>2. Whole(t)
    BY <1>0, <1>6 DEF Session
  <2>3. Keeps(sess[i], t)
    BY <1>0, <1>6 DEF Session
  <2>4. QED
    BY <1>6, <2>1, <2>2, <2>3 DEF Goes
<1>7. QED
  BY <1>1, <1>2, <1>3, <1>4, <1>5, <1>6 DEF PanicKeeps, SendsEnd

(* A step to a whole session while no renewal is under way.                *)
LEMMA ReceivedKeepsInv ==
  ASSUME SessionTypeOK, SessionInv, Receiving, UNCHANGED renewal, sess' \in [Sessions -> Session],
         \A i \in Sessions : Whole(sess'[i])
  PROVE  SessionTypeOK' /\ SessionInv'
BY DEF SessionTypeOK, SessionInv, Receiving, RenewalHolds, NoRenewal

(* StartSession, Control and StopAllSessions, which the receive goroutine handles between *)
(* two renewals.                                                           *)
LEMMA ReceivesKeepsInv ==
  ASSUME BoundsAssumption, SessionTypeOK, SessionInv,
         StopAllSessions \/ \E i \in Sessions : StartSession(i) \/ CancelReason(i) \/ FollowUp(i)
  PROVE  SessionTypeOK' /\ SessionInv'
<1>0. \A i \in Sessions : sess[i] \in Session /\ Whole(sess[i])
  BY DEF SessionTypeOK, SessionInv
<1>a. \A s \in Session : Whole(s) => Cancelled(s) \in Session /\ Whole(Cancelled(s))
  BY DEF Cancelled, Session, Whole, Configured
<1>b. ASSUME NEW i \in Sessions, NEW t \in Session, Whole(t), Becomes(i, t), Receiving, UNCHANGED renewal
      PROVE  SessionTypeOK' /\ SessionInv'
  <2>1. sess' \in [Sessions -> Session] /\ \A j \in Sessions : Whole(sess'[j])
    BY <1>0, <1>b DEF Becomes, SessionTypeOK
  <2>2. QED
    BY <1>b, <2>1, ReceivedKeepsInv
<1>1. CASE StopAllSessions
  <2>1. sess' \in [Sessions -> Session] /\ \A j \in Sessions : Whole(sess'[j])
    BY <1>0, <1>1, <1>a DEF StopAllSessions, SessionTypeOK
  <2>2. QED
    BY <1>1, <2>1, ReceivedKeepsInv DEF StopAllSessions
<1>2. ASSUME NEW i \in Sessions, StartSession(i) PROVE SessionTypeOK' /\ SessionInv'
  <2>1. PICK kind \in {"run", "open"}, own \in BOOLEAN :
          Becomes(i, [Forgotten EXCEPT !.pc = "resolving", !.kind = kind, !.given = 1,
                                       !.own = own /\ kind = "run"])
    BY <1>2 DEF StartSession
  <2> DEFINE t == [Forgotten EXCEPT !.pc = "resolving", !.kind = kind, !.given = 1,
                                    !.own = own /\ kind = "run"]
  <2>2. (own /\ kind = "run") \in BOOLEAN /\ 1 \in Versions /\ Forgotten \in Session
    BY ForgottenIsWhole
  <2>3. t \in Session
    BY <2>2 DEF Session
  <2>4. Whole(t)
    BY DEF Forgotten, Whole, Configured
  <2>5. QED
    BY <1>2, <1>b, <2>1, <2>3, <2>4 DEF StartSession
<1>3. ASSUME NEW i \in Sessions, CancelReason(i) PROVE SessionTypeOK' /\ SessionInv'
  BY <1>0, <1>3, <1>a, <1>b DEF CancelReason
<1>4. ASSUME NEW i \in Sessions, FollowUp(i) PROVE SessionTypeOK' /\ SessionInv'
  <2> DEFINE t == [QueueFollowUp(sess[i]) EXCEPT !.messages = @ + 1]
  <2>1. QueueFollowUp(sess[i]) \in Session /\ Whole(QueueFollowUp(sess[i]))
    BY <1>0, <1>4 DEF FollowUp, Listed, QueueFollowUp, Session, Whole, Configured
  <2>2. QueueFollowUp(sess[i]).messages + 1 \in 0..MaxMessages
    BY <1>0, <1>4 DEF FollowUp, QueueFollowUp, Session
  <2>3. t \in Session
    BY <2>1, <2>2 DEF Session
  <2>4. Whole(t)
    BY <2>1 DEF Session, Whole, Configured
  <2>5. QED
    BY <1>4, <1>b, <2>3, <2>4 DEF FollowUp
<1>5. QED
  BY <1>1, <1>2, <1>3, <1>4

(* The three steps of a renewal, and a session that is forgotten under it. *)
LEMMA RenewalKeepsInv ==
  ASSUME BoundsAssumption, SessionTypeOK, SessionInv,
         RenewsLibrary \/ RenewsFile \/ \E i \in Sessions : RenewReads(i) \/ Forgets(i)
  PROVE  SessionTypeOK' /\ SessionInv'
<1> USE DEF Whole, Configured, RenewalHolds, NoRenewal
<1>0. \A i \in Sessions : sess[i] \in Session /\ Whole(sess[i])
  BY DEF SessionTypeOK, SessionInv
<1>1. ASSUME NEW i \in Sessions, RenewReads(i) PROVE SessionTypeOK' /\ SessionInv'
  <2> DEFINE t == [sess[i] EXCEPT !.given = @ + 1]
  <2>1. sess[i].given + 1 \in Versions
    BY <1>0, <1>1 DEF RenewReads, Session
  <2>2. t \in Session
    BY <1>0, <2>1 DEF Session
  <2>3. Whole(t)
    BY <1>0, <1>1, <2>1 DEF RenewReads, Session
  <2>4. sess' \in [Sessions -> Session] /\ \A j \in Sessions : Whole(sess'[j])
    BY <1>0, <1>1, <2>2, <2>3 DEF RenewReads, Becomes, SessionTypeOK
  <2>5. sess'[i].mcp = sess[i].mcp /\ sess'[i].library = sess[i].library
    BY <1>0, <1>1 DEF RenewReads, Becomes, SessionTypeOK, Session
  <2>6. SessionTypeOK'
    BY <1>0, <1>1, <2>4 DEF RenewReads, SessionTypeOK, Session
  <2>7. RenewalHolds'
    BY <1>1, <2>5 DEF RenewReads
  <2>8. QED
    BY <2>4, <2>6, <2>7 DEF SessionInv
<1>2. CASE RenewsLibrary
  <2> DEFINE i == renewal.id
             t == [sess[i] EXCEPT !.bearer = sess[i].given]
             u == IF renewal.library THEN t ELSE sess[i]
  <2>1. i \in Sessions /\ renewal \in [step : {"library", "file"}, id : Sessions, mcp : BOOLEAN, library : BOOLEAN]
    BY <1>2 DEF RenewsLibrary, SessionTypeOK
  <2>2. t \in Session
    BY <1>0, <2>1 DEF Session
  <2>3. Whole(t)
    BY <1>0, <2>1 DEF Session
  <2>4. sess' \in [Sessions -> Session] /\ (\A j \in Sessions : Whole(sess'[j])) /\ sess'[i] = u
    BY <1>0, <1>2, <2>1, <2>2, <2>3 DEF RenewsLibrary, Becomes, SessionTypeOK
  <2>5. SessionTypeOK'
    BY <1>2, <2>1, <2>4 DEF RenewsLibrary, SessionTypeOK
  <2>6. u.mcp = sess[i].mcp /\ u.taken = sess[i].taken /\ u.pc = sess[i].pc
        /\ u.removed = sess[i].removed /\ u.library = sess[i].library /\ u.given = sess[i].given
        /\ (renewal.library => u.bearer = u.given)
    BY <1>0, <2>1 DEF Session
  <2>7. renewal' = [renewal EXCEPT !.step = "file"]
    BY <1>2 DEF RenewsLibrary
  <2>8. renewal'.id = i /\ renewal'.mcp = renewal.mcp /\ renewal'.library = renewal.library
    BY <2>1, <2>7
  <2>9. RenewalHolds'
    <3>1. (renewal.mcp => Configured(sess[i])) /\ (renewal.library => sess[i].library)
      BY <1>2 DEF SessionInv, RenewsLibrary
    <3>2. (renewal'.mcp => Configured(sess'[i])) /\ (renewal'.library => sess'[i].library)
          /\ (renewal'.library => sess'[i].bearer = sess'[i].given)
      BY <2>4, <2>6, <2>8, <3>1
    <3>3. QED
      BY <2>8, <3>2
  <2>10. QED
    BY <2>4, <2>5, <2>9 DEF SessionInv
<1>3. CASE RenewsFile
  <2> DEFINE i == renewal.id
             s == IF renewal.mcp THEN RenewFile(sess[i]) ELSE sess[i]
             both == renewal.mcp /\ renewal.library /\ ~s.removed
             t == [s EXCEPT !.told = IF both THEN s.given ELSE @]
  <2>1. i \in Sessions /\ renewal.mcp \in BOOLEAN /\ renewal.library \in BOOLEAN
    BY <1>3 DEF RenewsFile, SessionTypeOK
  <2>2. sess[i] \in Session /\ Whole(sess[i])
    BY <1>0, <2>1
  <2>3. s \in Session
    BY <2>2 DEF RenewFile, Session
  <2>4. t \in Session
    BY <2>3 DEF Session
  <2>5. (renewal.mcp => Configured(sess[i])) /\ (renewal.library => sess[i].library)
        /\ (renewal.library => sess[i].bearer = sess[i].given)
    BY <1>3 DEF SessionInv, RenewsFile
  <2>6. ASSUME ~renewal.mcp \/ sess[i].removed PROVE Whole(t)
    <3>1. s = sess[i] /\ ~both
      BY <2>6 DEF RenewFile
    <3>2. t = sess[i]
      BY <2>2, <3>1 DEF Session
    <3>3. QED
      BY <2>2, <3>2
  <2>7. ASSUME renewal.mcp, ~sess[i].removed PROVE Whole(t)
    <3>1. s = [sess[i] EXCEPT !.file = sess[i].given]
      BY <2>7 DEF RenewFile
    <3>2. CASE renewal.library
      <4>1. t = [sess[i] EXCEPT !.file = sess[i].given, !.told = sess[i].given]
        BY <2>2, <2>7, <3>1, <3>2 DEF Session
      <4>2. sess[i].given \in Nat /\ sess[i].bearer = sess[i].given
            /\ (sess[i].mcp \/ (sess[i].taken /\ sess[i].pc = "removing")) /\ sess[i].library
        BY <2>2, <2>5, <2>7, <3>2 DEF Session
      <4>3. t.file = sess[i].given /\ t.told = sess[i].given /\ t.bearer = sess[i].given
            /\ t.given = sess[i].given
            /\ (t.mcp \/ (t.taken /\ t.pc = "removing")) /\ t.library
        BY <2>2, <4>1, <4>2 DEF Session
      <4>4. t.pc = sess[i].pc /\ t.mcp = sess[i].mcp /\ t.error = sess[i].error
            /\ t.closed = sess[i].closed /\ t.pending = sess[i].pending
            /\ t.worked = sess[i].worked /\ t.dir = sess[i].dir /\ t.pushed = sess[i].pushed
        BY <2>2, <4>1 DEF Session
      <4>5. QED
        BY <2>2, <4>2, <4>3, <4>4
    <3>3. CASE ~renewal.library
      <4>1. ~both
        BY <3>3
      <4>2. t = s
        BY <2>3, <4>1 DEF Session
      <4>3. t = [sess[i] EXCEPT !.file = sess[i].given]
        BY <3>1, <4>2
      <4>4. QED
        BY <2>2, <2>5, <2>7, <3>3, <4>3 DEF Session
    <3>4. QED
      BY <3>2, <3>3
  <2>8. sess' \in [Sessions -> Session] /\ \A j \in Sessions : Whole(sess'[j])
    <3>1. Becomes(i, t)
      BY <1>3 DEF RenewsFile
    <3>2. Whole(t)
      BY <2>1, <2>6, <2>7
    <3>3. sess' \in [Sessions -> Session] /\ sess'[i] = t /\ \A j \in Sessions \ {i} : sess'[j] = sess[j]
      BY <2>1, <2>4, <3>1 DEF Becomes, SessionTypeOK
    <3> HIDE DEF Whole, t
    <3>4. QED
      BY <1>0, <3>2, <3>3
  <2>9. QED
    BY <1>3, <2>8 DEF RenewsFile, SessionTypeOK, SessionInv
<1>4. ASSUME NEW i \in Sessions, Forgets(i) PROVE SessionTypeOK' /\ SessionInv'
  <2>1. sess' \in [Sessions -> Session] /\ \A j \in Sessions : Whole(sess'[j])
    BY <1>0, <1>4, ForgottenIsWhole DEF Forgets, Becomes, SessionTypeOK
  <2>2. renewal' = NoRenewal \/ renewal' \in [step : {"library", "file"}, id : Sessions,
                                             mcp : BOOLEAN, library : BOOLEAN]
    BY <1>4 DEF Forgets, SessionTypeOK
  <2>3. RenewalHolds'
    <3>1. CASE renewal = NoRenewal
      BY <1>4, <3>1 DEF Forgets
    <3>2. CASE renewal # NoRenewal /\ renewal.id = i
      BY <1>4, <3>2 DEF Forgets, SessionTypeOK
    <3>3. CASE renewal # NoRenewal /\ renewal.id # i
      <4>1. renewal' = renewal /\ sess'[renewal.id] = sess[renewal.id]
        BY <1>4, <3>3 DEF Forgets, Becomes, SessionTypeOK
      <4>2. QED
        BY <4>1 DEF SessionInv
    <3>4. QED
      BY <3>1, <3>2, <3>3
  <2>4. QED
    BY <2>1, <2>2, <2>3 DEF SessionTypeOK, SessionInv
<1>5. QED
  BY <1>1, <1>2, <1>3, <1>4

(* Every step, and a stutter.                                              *)
LEMMA NextKeepsInv ==
  ASSUME BoundsAssumption, SessionTypeOK, SessionInv, [SessionNext]_session_vars
  PROVE  SessionTypeOK' /\ SessionInv'
<1>1. CASE UNCHANGED session_vars
  BY <1>1 DEF session_vars, SessionTypeOK, SessionInv, RenewalHolds, Configured
<1>2. ASSUME NEW i \in Sessions, Own(i) \/ TurnEnds(i) \/ TurnFails(i) \/ PersonLeaves(i) \/ Panics(i)
                            \/ Expires(i)
      PROVE  SessionTypeOK' /\ SessionInv'
  <2>1. Steps(i) \/ Forgets(i)
    BY <1>2, ExecuteSteps, LeavingSteps DEF Own
  <2>2. QED
    BY <2>1, StepsKeepInv, RenewalKeepsInv
<1>3. ASSUME NEW i \in Sessions, StartSession(i) \/ CancelReason(i) \/ FollowUp(i) PROVE SessionTypeOK' /\ SessionInv'
  BY <1>3, ReceivesKeepsInv
<1>4. CASE StopAllSessions
  BY <1>4, ReceivesKeepsInv
<1>5. CASE RenewsLibrary \/ RenewsFile \/ \E i \in Sessions : RenewReads(i)
  BY <1>5, RenewalKeepsInv
<1>6. QED
  BY <1>1, <1>2, <1>3, <1>4, <1>5 DEF SessionNext

(* The sessions and the renewal under way have their types.                *)
THEOREM SessionTypeCorrect == ASSUME BoundsAssumption PROVE SessionSpec => []SessionTypeOK
<1>1. SessionInit => SessionTypeOK /\ SessionInv
  BY SessionInitInv
<1>2. SessionTypeOK /\ SessionInv /\ [SessionNext]_session_vars => SessionTypeOK' /\ SessionInv'
  BY NextKeepsInv
<1>3. QED
  BY <1>1, <1>2, PTL DEF SessionSpec

(* However renewals, cancels, follow-ups and panics fall, a session that   *)
(* is told ended has no bearer on the disk, a success ran every follow-up, *)
(* the only copy of unpushed work stands and renewals took.                *)
THEOREM EndsWhole == ASSUME BoundsAssumption PROVE SessionSpec => []SessionsEndWhole
<1>1. SessionInit => SessionTypeOK /\ SessionInv
  BY SessionInitInv
<1>2. SessionTypeOK /\ SessionInv /\ [SessionNext]_session_vars => SessionTypeOK' /\ SessionInv'
  BY NextKeepsInv
<1>3. SessionTypeOK /\ SessionInv => SessionsEndWhole
  <2> SUFFICES ASSUME SessionTypeOK, SessionInv PROVE SessionsEndWhole
    OBVIOUS
  <2>1. \A i \in Sessions : sess[i] \in Session /\ Whole(sess[i])
    BY DEF SessionTypeOK, SessionInv
  <2>2. BearerIsGoneByTheEnd /\ SuccessRanEverything
    BY <2>1 DEF BearerIsGoneByTheEnd, SuccessRanEverything, Whole
  <2>3. OnlyCopyIsKept /\ RenewalsTake
    BY <2>1 DEF OnlyCopyIsKept, RenewalsTake, Whole
  <2>4. QED
    BY <2>2, <2>3 DEF SessionsEndWhole
<1>4. QED
  BY <1>1, <1>2, <1>3, PTL DEF SessionSpec

-----------------------------------------------------------------------------
(* RefusalHold                                                             *)

(* The bounds of the waits are numbers, in this order.                     *)
LEMMA WaitsAreNumbers ==
  /\ RefusalStreak \in Nat /\ RefusalStreak > 0 /\ RefusalGrace \in Nat /\ RefusalGrace > 0
  /\ MinBackoff \in Nat /\ MinBackoff > 0 /\ MaxBackoff \in Nat
  /\ HoldMin \in Nat /\ HoldMin > 0 /\ HoldMax \in Nat
  /\ MinBackoff <= MaxBackoff /\ MaxBackoff <= HoldMin /\ HoldMin <= HoldMax
BY WaitsAssumption

(* The least of two numbers, and what is never waited beyond.              *)
LEMMA LeastOfTwo ==
  ASSUME NEW a \in Int, NEW b \in Int
  PROVE  Min({a, b}) = IF a <= b THEN a ELSE b
<1> DEFINE m == IF a <= b THEN a ELSE b
<1>1. m \in {a, b} /\ \A y \in {a, b} : m <= y
  OBVIOUS
<1>2. \A x \in {a, b} : (\A y \in {a, b} : x <= y) => x = m
  OBVIOUS
<1>3. QED
  BY <1>1, <1>2 DEF Min

(* A wait with its jitter is at least its base, and at most the longest.   *)
LEMMA WaitsAreBounded ==
  ASSUME NEW base \in 0..HoldMax, Sleeps(base)
  PROVE  left' \in 0..Longest(HoldMax) /\ left' >= base
<1>1. HoldMax \in Nat /\ base \in Nat /\ base <= HoldMax
  BY WaitsAreNumbers
<1>2. base \div 4 <= HoldMax \div 4 /\ base \div 4 \in Nat /\ HoldMax \div 4 \in Nat
  BY <1>1
<1>3. QED
  BY <1>1, <1>2 DEF Sleeps, Longest

(* The next backoff is within the bounds of the backoff, and of a hold.    *)
LEMMA BackoffIsBounded ==
  /\ \A b \in MinBackoff..MaxBackoff : NextBackoff(b, MaxBackoff) \in MinBackoff..MaxBackoff
  /\ \A w \in {0} \cup HoldMin..HoldMax : NextBackoff(w, HoldMax) \in {0} \cup HoldMin..HoldMax
<1>1. ASSUME NEW b \in MinBackoff..MaxBackoff PROVE NextBackoff(b, MaxBackoff) \in MinBackoff..MaxBackoff
  BY LeastOfTwo, WaitsAreNumbers DEF NextBackoff
<1>2. ASSUME NEW w \in {0} \cup HoldMin..HoldMax
      PROVE  NextBackoff(w, HoldMax) \in {0} \cup HoldMin..HoldMax
  BY LeastOfTwo, WaitsAreNumbers DEF NextBackoff
<1>3. QED
  BY <1>1, <1>2

Standings == [streak : 0..RefusalStreak, first : 0..RefusalGrace, held : BOOLEAN,
              wait : {0} \cup HoldMin..HoldMax]

(* No hold is a standing, and a standing stays one when it is held, when a *)
(* refusal counts, or when an attempt never got an answer.                 *)
LEMMA StandingsMove ==
  /\ NoHold \in Standings
  /\ \A s \in Standings :
       /\ [s EXCEPT !.held = TRUE, !.wait = HoldMin] \in Standings
       /\ \A w \in {0} \cup HoldMin..HoldMax : [s EXCEPT !.wait = w] \in Standings
       /\ /\ Refusal(s) \in Standings /\ Refusal(s).held = s.held
          /\ Refusal(s).streak = (IF s.streak + 1 <= RefusalStreak THEN s.streak + 1 ELSE RefusalStreak)
          /\ Refusal(s).first = IF s.streak = 0 THEN 0 ELSE s.first
       /\ /\ Unreached(s) \in Standings /\ Unreached(s).held = s.held
          /\ ~s.held => Unreached(s).streak = 0 /\ Unreached(s).first = 0
<1> USE WaitsAreNumbers
<1>1. NoHold \in Standings
  BY DEF NoHold, Standings
<1>2. ASSUME NEW s \in Standings
      PROVE  [s EXCEPT !.held = TRUE, !.wait = HoldMin] \in Standings
  <2>1. HoldMin \in HoldMin..HoldMax
    OBVIOUS
  <2>2. QED
    BY <2>1 DEF Standings
<1>3. ASSUME NEW s \in Standings, NEW w \in {0} \cup HoldMin..HoldMax
      PROVE  [s EXCEPT !.wait = w] \in Standings
  BY DEF Standings
<1>4. ASSUME NEW s \in Standings
      PROVE  /\ Refusal(s) \in Standings /\ Refusal(s).held = s.held
             /\ Refusal(s).streak = (IF s.streak + 1 <= RefusalStreak THEN s.streak + 1 ELSE RefusalStreak)
             /\ Refusal(s).first = IF s.streak = 0 THEN 0 ELSE s.first
  <2> DEFINE streak == IF s.streak + 1 <= RefusalStreak THEN s.streak + 1 ELSE RefusalStreak
             first == IF s.streak = 0 THEN 0 ELSE s.first
  <2>1. streak \in 0..RefusalStreak /\ first \in 0..RefusalGrace
    BY DEF Standings
  <2>2. Min({s.streak + 1, RefusalStreak}) = streak
    BY LeastOfTwo DEF Standings
  <2>3. Refusal(s) = [s EXCEPT !.streak = streak, !.first = first]
    BY <2>2, Zenon DEF Refusal
  <2> HIDE DEF streak, first
  <2>4. Refusal(s) \in Standings /\ Refusal(s).held = s.held
        /\ Refusal(s).streak = streak /\ Refusal(s).first = first
    BY <2>1, <2>3 DEF Standings
  <2>5. QED
    BY <2>4 DEF streak, first
<1>5. ASSUME NEW s \in Standings
      PROVE  /\ Unreached(s) \in Standings /\ Unreached(s).held = s.held
             /\ ~s.held => Unreached(s).streak = 0 /\ Unreached(s).first = 0
  <2>1. CASE s.held
    BY <2>1 DEF Unreached
  <2>2. CASE ~s.held
    <3>1. Unreached(s) = [s EXCEPT !.streak = 0, !.first = 0]
      BY <2>2 DEF Unreached
    <3>2. [s EXCEPT !.streak = 0, !.first = 0] \in Standings
      <4>1. 0 \in 0..RefusalStreak /\ 0 \in 0..RefusalGrace
        OBVIOUS
      <4>2. QED
        BY <4>1 DEF Standings
    <3>3. QED
      BY <3>1, <3>2 DEF Standings
  <2>3. QED
    BY <2>1, <2>2
<1>6. QED
  BY <1>1, <1>2, <1>3, <1>4, <1>5

(* The first process starts from nothing.                                  *)
LEMMA InitRefusalInv == Init => RefusalInv
<1> SUFFICES ASSUME Init PROVE RefusalInv
  OBVIOUS
<1>1. 0 \in 0..Longest(HoldMax)
  BY WaitsAreNumbers DEF Longest
<1>2. NoHold \in Standings
  BY StandingsMove
<1>r. NoRow \in [n : 0..RefusalStreak, age : 0..RefusalGrace]
  BY WaitsAreNumbers DEF NoRow
<1>3. refused \in Standings /\ row \in [n : 0..RefusalStreak, age : 0..RefusalGrace]
      /\ record \in Records /\ failed \in BOOLEAN
  BY <1>2, <1>r DEF Init, Records
<1>4. TypeOK
  BY <1>1, <1>3, WaitsAreNumbers DEF Init, TypeOK, Standings
<1>5. QED
  BY <1>4, WaitsAreNumbers
     DEF Init, RefusalInv, CountIsTrue, HoldsAreOfAttempts, BackoffKeepsUp, RecordIsCurrent, NoHold, NoRow

(* What an attempt that failed leaves, whatever the standing was: a hold   *)
(* goes on, starts with a record of it, or there is none.                  *)
LEMMA AttemptLeaves ==
  ASSUME TypeOK, NEW standing \in Standings, NEW kind,
         \/ standing.held /\ Holds(standing)
         \/ ~standing.held /\ kind \in Kinds /\ HoldStarts(standing, kind)
         \/ ~standing.held /\ BacksOff(standing)
  PROVE  /\ left' \in 0..Longest(HoldMax) /\ backoff' \in MinBackoff..MaxBackoff
         /\ backoff <= backoff'
         /\ refused' \in Standings /\ record' \in Records /\ failed' \in BOOLEAN
         /\ standing.held => refused'.held
         /\ refused'.streak = standing.streak /\ refused'.first = standing.first
         /\ ~failed' /\ refused'.held =>
              \/ standing.held /\ record' = record /\ failed' = failed
              \/ record' = [token |-> token, kind |-> kind]
<1> USE WaitsAreNumbers
<1>1. CASE standing.held /\ Holds(standing)
  <2> DEFINE wait == NextBackoff(standing.wait, HoldMax)
  <2>1. wait \in {0} \cup HoldMin..HoldMax /\ wait \in 0..HoldMax
    BY BackoffIsBounded DEF Standings
  <2>2. refused' = [standing EXCEPT !.wait = wait] /\ Sleeps(wait) /\ UNCHANGED <<backoff, record, failed>>
    BY <1>1 DEF Holds
  <2> HIDE DEF wait
  <2>3. left' \in 0..Longest(HoldMax)
    BY <2>1, <2>2, WaitsAreBounded
  <2>4. refused' \in Standings /\ refused'.held = standing.held
        /\ refused'.streak = standing.streak /\ refused'.first = standing.first
    BY <2>1, <2>2, StandingsMove DEF Standings
  <2>5. QED
    BY <1>1, <2>2, <2>3, <2>4 DEF TypeOK
<1>2. CASE ~standing.held /\ kind \in Kinds /\ HoldStarts(standing, kind)
  <2>1. HoldMin \in 0..HoldMax
    OBVIOUS
  <2>2. left' \in 0..Longest(HoldMax)
    BY <1>2, <2>1, WaitsAreBounded DEF HoldStarts
  <2> DEFINE new == [standing EXCEPT !.held = TRUE, !.wait = HoldMin]
  <2>3. new \in Standings /\ new.streak = standing.streak /\ new.first = standing.first
    BY StandingsMove DEF Standings
  <2>4. refused' = new
    BY <1>2 DEF HoldStarts
  <2> HIDE DEF new
  <2>5. /\ \/ failed' = FALSE /\ record' = [token |-> token, kind |-> kind]
           \/ failed' = TRUE /\ record' = record
        /\ backoff' = backoff
    BY <1>2 DEF HoldStarts, SaveRefusal
  <2>6. record' \in Records
    <3>1. record \in Records /\ token \in Tokens
      BY DEF TypeOK
    <3>2. [token |-> token, kind |-> kind] \in [token : Tokens, kind : Kinds]
      BY <1>2, <3>1
    <3>3. QED
      BY <2>5, <3>1, <3>2 DEF Records
  <2>7. /\ backoff' \in MinBackoff..MaxBackoff /\ backoff <= backoff'
        /\ failed' \in BOOLEAN
    <3>1. backoff \in MinBackoff..MaxBackoff
      BY DEF TypeOK
    <3>2. backoff' = backoff
      BY <2>5
    <3>3. failed' \in BOOLEAN
      BY <2>5
    <3>4. QED
      BY <3>1, <3>2, <3>3
  <2>8. ~failed' => record' = [token |-> token, kind |-> kind]
    BY <2>5
  <2>9. QED
    BY <1>2, <2>2, <2>3, <2>4, <2>6, <2>7, <2>8, Zenon
<1>3. CASE ~standing.held /\ BacksOff(standing)
  <2>1. backoff \in 0..HoldMax
    BY DEF TypeOK
  <2>2. left' \in 0..Longest(HoldMax)
    BY <1>3, <2>1, WaitsAreBounded DEF BacksOff
  <2>3. backoff' \in MinBackoff..MaxBackoff /\ backoff <= backoff'
    BY <1>3, BackoffIsBounded, LeastOfTwo DEF BacksOff, TypeOK, NextBackoff
  <2>4. QED
    BY <1>3, <2>2, <2>3 DEF BacksOff, TypeOK
<1>4. QED
  BY <1>1, <1>2, <1>3

(* An attempt that failed counts towards a hold as the row of refusals     *)
(* does, and starts one only when the row is long and old enough.          *)
LEMMA ConnectFailsKeeps ==
  ASSUME RefusalInv, ConnectFails
  PROVE  /\ RefusalInv'
         /\ ~refused.held /\ refused'.held => row'.n = RefusalStreak /\ row'.age >= RefusalGrace
<1> USE WaitsAreNumbers
<1>t. /\ TypeOK /\ refused \in Standings /\ row \in [n : 0..RefusalStreak, age : 0..RefusalGrace]
      /\ UNCHANGED <<cluster, token, owed>> /\ phase' = "waiting"
  BY DEF RefusalInv, TypeOK, Standings, ConnectFails
<1>1. CASE cluster \in Kinds /\ RefusedAttempt(cluster)
  <2> DEFINE standing == Refusal(refused)
             n == Min({row.n + 1, RefusalStreak})
             age == IF row.n = 0 THEN 0 ELSE row.age
  <2>1. n = (IF row.n + 1 <= RefusalStreak THEN row.n + 1 ELSE RefusalStreak) /\ n \in 0..RefusalStreak
    BY <1>t, LeastOfTwo
  <2>2. /\ standing \in Standings /\ standing.held = refused.held
        /\ standing.streak = (IF refused.streak + 1 <= RefusalStreak THEN refused.streak + 1 ELSE RefusalStreak)
        /\ standing.first = IF refused.streak = 0 THEN 0 ELSE refused.first
    BY <1>t, StandingsMove
  <2>3. row' = IF refused.held THEN row ELSE [n |-> n, age |-> age]
    BY <1>1 DEF RefusedAttempt
  <2>4. \/ standing.held /\ Holds(standing)
        \/ ~standing.held /\ Earned(standing) /\ HoldStarts(standing, cluster)
        \/ ~standing.held /\ BacksOff(standing)
    BY <1>1 DEF RefusedAttempt
  <2>5. ~standing.held /\ refused'.held => Earned(standing)
    BY <2>2, <2>4 DEF BacksOff
  <2> HIDE DEF standing, n
  <2>6. /\ left' \in 0..Longest(HoldMax) /\ backoff' \in MinBackoff..MaxBackoff
        /\ backoff <= backoff'
        /\ refused' \in Standings /\ record' \in Records /\ failed' \in BOOLEAN
        /\ standing.held => refused'.held
        /\ refused'.streak = standing.streak /\ refused'.first = standing.first
        /\ ~failed' /\ refused'.held =>
             \/ standing.held /\ record' = record /\ failed' = failed
             \/ record' = [token |-> token, kind |-> cluster]
    BY <1>1, <1>t, <2>2, <2>4, AttemptLeaves
  <2>7. row' \in [n : 0..RefusalStreak, age : 0..RefusalGrace]
    BY <1>t, <2>1, <2>3
  <2>8. TypeOK'
    BY <1>t, <2>6, <2>7 DEF TypeOK, Standings
  <2>9. ~refused.held => row'.n = standing.streak /\ row'.age = standing.first
    BY <1>t, <2>1, <2>2, <2>3 DEF RefusalInv, CountIsTrue
  <2>10. RecordIsCurrent'
    <3>1. ~failed' /\ refused'.held => record'.token = token /\ record' # NoRecord
      <4>1. CASE standing.held /\ record' = record /\ failed' = failed
        BY <1>t, <2>2, <4>1 DEF RefusalInv, RecordIsCurrent
      <4>2. CASE record' = [token |-> token, kind |-> cluster]
        <5>1. record'.token = token
          BY <4>2
        <5>2. "none" \notin DOMAIN record' /\ "none" \in DOMAIN NoRecord
          BY <4>2 DEF NoRecord
        <5>3. QED
          BY <5>1, <5>2
      <4>3. QED
        BY <2>6, <4>1, <4>2
    <3>2. QED
      BY <1>t, <3>1 DEF RecordIsCurrent
  <2>11. RefusalInv'
    BY <1>t, <2>2, <2>6, <2>8, <2>9, <2>10
       DEF RefusalInv, CountIsTrue, HoldsAreOfAttempts, BackoffKeepsUp, TypeOK
  <2>12. ~refused.held /\ refused'.held => row'.n = RefusalStreak /\ row'.age >= RefusalGrace
    BY <2>2, <2>5, <2>9 DEF Earned, Standings
  <2>13. QED
    BY <2>11, <2>12
<1>2. CASE UnreachedAttempt
  <2> DEFINE standing == Unreached(refused)
  <2>1. /\ standing \in Standings /\ standing.held = refused.held
        /\ ~refused.held => standing.streak = 0 /\ standing.first = 0
    BY <1>t, StandingsMove
  <2>2. row' = IF refused.held THEN row ELSE NoRow
    BY <1>2 DEF UnreachedAttempt
  <2>3. \/ standing.held /\ Holds(standing)
        \/ ~standing.held /\ BacksOff(standing)
    BY <1>2 DEF UnreachedAttempt
  <2>4. ~standing.held => ~refused'.held
    BY <2>1, <2>3 DEF BacksOff
  <2> HIDE DEF standing
  <2>6. /\ left' \in 0..Longest(HoldMax) /\ backoff' \in MinBackoff..MaxBackoff
        /\ backoff <= backoff'
        /\ refused' \in Standings /\ record' \in Records /\ failed' \in BOOLEAN
        /\ standing.held => refused'.held
        /\ refused'.streak = standing.streak /\ refused'.first = standing.first
    BY <1>t, <2>1, <2>3, AttemptLeaves, Zenon
  <2>7. record' = record /\ failed' = failed
    BY <2>3 DEF Holds, BacksOff
  <2>8. TypeOK' /\ RecordIsCurrent'
    BY <1>t, <2>1, <2>2, <2>4, <2>6, <2>7 DEF TypeOK, Standings, NoRow, RefusalInv, RecordIsCurrent
  <2>9. QED
    BY <1>t, <2>1, <2>2, <2>4, <2>6, <2>8
       DEF RefusalInv, CountIsTrue, HoldsAreOfAttempts, BackoffKeepsUp, TypeOK, NoRow
<1>3. QED
  BY <1>1, <1>2 DEF ConnectFails

(* A stream that begins ends every hold; one that ends is waited for as    *)
(* long as the ones lost before it have earned.                            *)
LEMMA StreamKeeps ==
  ASSUME RefusalInv, Connects \/ Beats \/ StreamEnds
  PROVE  RefusalInv' /\ (StreamEnds /\ phase = "up" => left' >= owed)
<1> USE WaitsAreNumbers
<1>t. TypeOK /\ backoff \in MinBackoff..MaxBackoff /\ owed \in MinBackoff..MaxBackoff /\ owed <= backoff
  BY DEF RefusalInv, TypeOK, BackoffKeepsUp
<1>1. CASE Connects
  <2>1. refused' = NoHold /\ row' = NoRow /\ phase' = "up"
        /\ UNCHANGED <<cluster, token, left, backoff, owed>>
    BY <1>1 DEF Connects
  <2>2. \/ failed' = FALSE /\ record' = NoRecord
        \/ failed' = TRUE /\ record' = record
    BY <1>1 DEF Connects, ClearRefusal
  <2>3. record' \in Records
    BY <1>t, <2>2 DEF TypeOK, Records
  <2>4. failed' \in BOOLEAN /\ (~failed' => record' = NoRecord)
    BY <2>2
  <2>5. refused' \in Standings /\ ~refused'.held /\ refused'.streak = 0 /\ refused'.first = 0
    BY <2>1, StandingsMove DEF NoHold
  <2>6. row' \in [n : 0..RefusalStreak, age : 0..RefusalGrace] /\ row'.n = 0 /\ row'.age = 0
    BY <2>1 DEF NoRow
  <2>7. TypeOK'
    BY <1>t, <2>1, <2>3, <2>4, <2>5, <2>6 DEF TypeOK, Standings
  <2>8. RefusalInv'
    BY <1>t, <2>1, <2>4, <2>5, <2>6, <2>7
       DEF RefusalInv, CountIsTrue, HoldsAreOfAttempts, BackoffKeepsUp, RecordIsCurrent
  <2>9. ~StreamEnds \/ phase # "up"
    BY <1>1 DEF Connects, StreamEnds
  <2>10. QED
    BY <2>8, <2>9
<1>2. CASE Beats
  <2>1. RefusalInv'
    BY <1>t, <1>2 DEF Beats, RefusalInv, TypeOK, CountIsTrue, HoldsAreOfAttempts, BackoffKeepsUp,
                      RecordIsCurrent
  <2>2. ~StreamEnds
    BY <1>2 DEF Beats, StreamEnds
  <2>3. QED
    BY <2>1, <2>2
<1>3. CASE StreamEnds
  <2> DEFINE base == IF phase = "proven" THEN MinBackoff ELSE backoff
  <2>1. base \in MinBackoff..MaxBackoff /\ base \in 0..HoldMax
    BY <1>t
  <2>2. Sleeps(base) /\ backoff' = NextBackoff(base, MaxBackoff)
        /\ owed' = (IF phase = "proven" THEN MinBackoff ELSE Min({2 * owed, MaxBackoff}))
        /\ phase' = "waiting" /\ phase \in {"up", "proven"}
        /\ UNCHANGED <<cluster, token, refused, record, failed, row>>
    BY <1>3 DEF StreamEnds
  <2>3. left' \in 0..Longest(HoldMax) /\ left' >= base
    BY <2>1, <2>2, WaitsAreBounded
  <2>4. backoff' = (IF 2 * base <= MaxBackoff THEN 2 * base ELSE MaxBackoff)
    BY <2>1, <2>2, LeastOfTwo DEF NextBackoff
  <2>5. owed' = IF phase = "proven" THEN MinBackoff
                ELSE IF 2 * owed <= MaxBackoff THEN 2 * owed ELSE MaxBackoff
    BY <1>t, <2>2, LeastOfTwo
  <2>6. backoff' \in MinBackoff..MaxBackoff /\ owed' \in MinBackoff..MaxBackoff /\ owed' <= backoff'
    BY <1>t, <2>1, <2>4, <2>5
  <2>7. left' >= owed \/ phase # "up"
    BY <1>t, <2>3, <2>2
  <2> HIDE DEF base
  <2>8. TypeOK'
    BY <1>t, <2>2, <2>3, <2>6 DEF TypeOK
  <2>9. QED
    BY <1>t, <2>2, <2>6, <2>7, <2>8
       DEF RefusalInv, CountIsTrue, HoldsAreOfAttempts, BackoffKeepsUp, RecordIsCurrent
<1>4. QED
  BY <1>1, <1>2, <1>3

(* A process that ends takes its standing with it; the record stays, and   *)
(* so does what it says of the token.                                      *)
LEMMA ProcessKeeps ==
  ASSUME RefusalInv, Stops \/ Restarts \/ AsksAgain \/ ClusterTurns
  PROVE  RefusalInv' /\ (~refused'.held \/ refused' = refused)
<1> USE WaitsAreNumbers
<1>t. TypeOK /\ RefusalInv
  BY DEF RefusalInv
<1>1. CASE Stops
  <2>1. refused' = NoHold /\ row' = NoRow /\ phase' = "stopped" /\ left' = 0
        /\ owed' = MinBackoff /\ backoff' = MinBackoff /\ UNCHANGED <<cluster, token, record, failed>>
    BY <1>1 DEF Stops
  <2>2. refused' \in Standings /\ ~refused'.held /\ refused'.streak = 0 /\ refused'.first = 0
    BY <2>1, StandingsMove DEF NoHold
  <2>3. row' \in [n : 0..RefusalStreak, age : 0..RefusalGrace] /\ row'.n = 0 /\ row'.age = 0
    BY <2>1 DEF NoRow
  <2>4. 0 \in 0..Longest(HoldMax)
    BY DEF Longest
  <2>5. TypeOK'
    BY <1>t, <2>1, <2>2, <2>3, <2>4 DEF TypeOK, Standings
  <2>6. RecordIsCurrent' /\ CountIsTrue' /\ HoldsAreOfAttempts' /\ BackoffKeepsUp'
    BY <2>1, <2>2, <2>3 DEF CountIsTrue, HoldsAreOfAttempts, BackoffKeepsUp, RecordIsCurrent
  <2>7. QED
    BY <2>2, <2>5, <2>6 DEF RefusalInv
<1>2. CASE Restarts
  BY <1>t, <1>2 DEF Restarts, RefusalInv, TypeOK, CountIsTrue, HoldsAreOfAttempts, BackoffKeepsUp,
                    RecordIsCurrent
<1>3. CASE AsksAgain \/ ClusterTurns
  BY <1>t, <1>3 DEF AsksAgain, ClusterTurns, RefusalInv, TypeOK, CountIsTrue, HoldsAreOfAttempts,
                    BackoffKeepsUp, RecordIsCurrent
<1>4. QED
  BY <1>1, <1>2, <1>3

(* Time counts for the refusals of the worker and for the row alike.       *)
LEMMA TickKeeps ==
  ASSUME RefusalInv, Tick
  PROVE  RefusalInv' /\ refused'.held = refused.held
<1> USE WaitsAreNumbers
<1>t. /\ TypeOK /\ refused \in Standings /\ row \in [n : 0..RefusalStreak, age : 0..RefusalGrace]
      /\ UNCHANGED <<cluster, token, phase, backoff, record, failed, owed>>
  BY DEF RefusalInv, TypeOK, Standings, Tick
<1>1. left' \in 0..Longest(HoldMax)
  <2>1. left \in 0..Longest(HoldMax) /\ Longest(HoldMax) \in Nat
    BY <1>t DEF TypeOK, Longest
  <2>2. left' = (IF phase = "waiting" THEN left - 1 ELSE left) /\ (phase = "waiting" => left > 0)
    BY DEF Tick
  <2>3. QED
    BY <2>1, <2>2
<1>2. ASSUME NEW s \in Standings, NEW a \in 0..RefusalGrace
      PROVE  [s EXCEPT !.first = a] \in Standings /\ [s EXCEPT !.first = a].held = s.held
             /\ [s EXCEPT !.first = a].streak = s.streak /\ [s EXCEPT !.first = a].first = a
  BY DEF Standings
<1> DEFINE Next1(a) == Min({a + 1, RefusalGrace})
<1>3. \A a \in 0..RefusalGrace : Next1(a) \in 0..RefusalGrace
  BY LeastOfTwo
<1>4. /\ refused' = (IF refused.streak = 0 \/ refused.held THEN refused
                     ELSE [refused EXCEPT !.first = Next1(refused.first)])
      /\ row' = (IF row.n = 0 \/ refused.held THEN row
                 ELSE [row EXCEPT !.age = Next1(row.age)])
  BY DEF Tick
<1> HIDE DEF Next1
<1>5. refused.first \in 0..RefusalGrace /\ row.age \in 0..RefusalGrace
  BY <1>t DEF Standings
<1>6. /\ refused' \in Standings /\ refused'.held = refused.held /\ refused'.streak = refused.streak
      /\ refused'.first = IF refused.streak = 0 \/ refused.held THEN refused.first
                          ELSE Next1(refused.first)
  BY <1>t, <1>2, <1>3, <1>4, <1>5
<1>7. /\ row' \in [n : 0..RefusalStreak, age : 0..RefusalGrace] /\ row'.n = row.n
      /\ row'.age = IF row.n = 0 \/ refused.held THEN row.age ELSE Next1(row.age)
  BY <1>t, <1>3, <1>4, <1>5
<1>8. TypeOK'
  BY <1>t, <1>1, <1>6, <1>7 DEF TypeOK, Standings
<1>9. QED
  BY <1>t, <1>6, <1>7, <1>8
     DEF RefusalInv, CountIsTrue, HoldsAreOfAttempts, BackoffKeepsUp, RecordIsCurrent

(* What a step of the worker must not do: start a hold that is not earned, *)
(* or come back sooner than the lost streams have earned.                  *)
StepIsEarned ==
  /\ ~refused.held /\ refused'.held => row'.n = RefusalStreak /\ row'.age >= RefusalGrace
  /\ StreamEnds /\ phase = "up" => left' >= owed

LEMMA NextRefusal ==
  ASSUME RefusalInv, [Next]_vars
  PROVE  RefusalInv' /\ (UNCHANGED vars \/ StepIsEarned)
<1>1. CASE ConnectFails
  <2>1. ~StreamEnds
    BY <1>1 DEF ConnectFails, StreamEnds
  <2>2. QED
    BY <1>1, <2>1, ConnectFailsKeeps DEF StepIsEarned
<1>2. CASE Connects \/ Beats \/ StreamEnds
  <2>1. refused' = NoHold \/ refused' = refused
    BY <1>2 DEF Connects, Beats, StreamEnds
  <2>2. ~(~refused.held /\ refused'.held)
    BY <2>1 DEF NoHold
  <2>3. QED
    BY <1>2, <2>2, StreamKeeps DEF StepIsEarned
<1>3. CASE Stops \/ Restarts \/ AsksAgain \/ ClusterTurns
  <2>1. ~(StreamEnds /\ phase = "up")
    BY <1>3 DEF Stops, Restarts, AsksAgain, ClusterTurns, StreamEnds
  <2>2. QED
    BY <1>3, <2>1, ProcessKeeps DEF StepIsEarned
<1>4. CASE Tick
  <2>1. ~StreamEnds
    BY <1>4 DEF Tick, StreamEnds
  <2>2. QED
    BY <1>4, <2>1, TickKeeps DEF StepIsEarned
<1>5. CASE UNCHANGED vars
  BY <1>5 DEF vars, RefusalInv, TypeOK, CountIsTrue, HoldsAreOfAttempts, BackoffKeepsUp, RecordIsCurrent
<1>6. QED
  BY <1>1, <1>2, <1>3, <1>4, <1>5 DEF Next

(* What Run and refused.json keep has its type (Runner in refusal.go).     *)
THEOREM RefusalTypeCorrect == Spec => []TypeOK
<1>1. RefusalInv => TypeOK
  BY DEF RefusalInv
<1>2. RefusalInv /\ [Next]_vars => RefusalInv'
  BY NextRefusal
<1>3. QED
  BY InitRefusalInv, <1>1, <1>2, PTL DEF Spec

(* However long a streak, a grace and the waits are, a hold starts only    *)
(* after a whole streak of refusals in a row over the whole grace, the     *)
(* n-th stream in a row that is lost unproven waits n - 1 doublings of the *)
(* backoff, and unless the disk failed the record is of the hold and the   *)
(* token in use (afterConnectFailure, afterConnect, Run).                  *)
THEOREM WaitsAreAlwaysEarned == Spec => WaitsAreEarned
<1>1. RefusalInv => RecordIsCurrent
  BY DEF RefusalInv
<1>2. RefusalInv /\ [Next]_vars => RefusalInv'
  BY NextRefusal
<1>3. RefusalInv /\ [Next]_vars =>
        [~refused.held /\ refused'.held => row'.n = RefusalStreak /\ row'.age >= RefusalGrace]_vars
  BY NextRefusal DEF StepIsEarned
<1>4. RefusalInv /\ [Next]_vars => [StreamEnds /\ phase = "up" => left' >= owed]_vars
  BY NextRefusal DEF StepIsEarned
<1>5. QED
  BY InitRefusalInv, <1>1, <1>2, <1>3, <1>4, PTL
     DEF Spec, WaitsAreEarned, HoldIsEarned, FlappingBacksOff

-----------------------------------------------------------------------------
(* Consent                                                                 *)

(* A save that succeeds leaves what it was asked to on the disk; without   *)
(* late failures one that fails leaves the disk as it was.                 *)
LEMMA SavesAreTold ==
    ASSUME NEW h, NEW what, NEW s \in Saves(h, what)
    PROVE  /\ s.ok \in BOOLEAN /\ s.disk \in {what, disk[h]}
           /\ s.ok => s.disk = what
           /\ ~s.ok => failures < MaxFailures
           /\ ~s.ok /\ ~LateSyncFails => s.disk = disk[h]
<1>1. CASE s = [ok |-> TRUE, disk |-> what]
  BY <1>1
<1>2. CASE failures < MaxFailures /\ s = [ok |-> FALSE, disk |-> disk[h]]
  BY <1>2
<1>3. CASE failures < MaxFailures /\ LateSyncFails /\ s = [ok |-> FALSE, disk |-> what]
  BY <1>3
<1>4. QED
  BY <1>1, <1>2, <1>3, Zenon DEF Saves

(* No call is at a screen at first, and nothing is stopped.                *)
LEMMA InitConsentInv ==
    ASSUME ConsentAssumption, ConsentInit
    PROVE  ConsentInv
<1>1. NoCall \in CallStates
  BY DEF NoCall, CallStates
<1>2. ConsentTypeOK
  BY <1>1 DEF ConsentAssumption, ConsentInit, ConsentTypeOK, NoRevoke, Windows
<1>3. \A c \in Calls : call[c].st = "new"
  BY DEF ConsentInit, NoCall
<1>4. AnswerIsOwed
  BY <1>3 DEF AnswerIsOwed
<1>5. QED
  BY <1>2, <1>4 DEF ConsentInv, ConsentInit, StopsSurvive, SavedIsOnDisk, RevokeIsBetween, NoRevoke

(* The steps of a call move that call alone, and leave to its box what its *)
(* box may hold.                                                           *)
LEMMA CallMoves ==
    ASSUME ConsentTypeOK, NEW c \in Calls, Arrives(c) \/ CallSteps(c)
    PROVE  /\ call' \in [Calls -> CallStates]
           /\ \A d \in Calls \ {c} : call'[d] = call[d] /\ box'[d] = box[d]
           /\ box' \in [Calls -> {"empty", "yes", "no"}]
           /\ UNCHANGED <<window, paused, disk, stop, kill, grants, stops, failures>>
<1>1. CASE Arrives(c)
  BY <1>1 DEF Arrives, ConsentTypeOK, CallStates
<1>2. CASE AllowsDirectoryRead(c)
  BY <1>2 DEF AllowsDirectoryRead, Ends, ConsentTypeOK, CallStates
<1>3. CASE AllowsAt(c)
  <2>1. PICK st \in {"refused", "asking", "ran"} : Ends(c, st)
    BY <1>3 DEF AllowsAt
  <2>2. QED
    BY <1>3, <2>1 DEF AllowsAt, Ends, ConsentTypeOK, CallStates
<1>4. CASE Enters(c)
  <2> DEFINE behind == stop[call[c].home] # "none"
             new == [call[c] EXCEPT !.st = "entered", !.late = behind]
  <2>1. new \in CallStates
    <3>1. ASSUME NEW r \in CallStates
          PROVE  /\ [r EXCEPT !.st = "entered", !.late = TRUE] \in CallStates
                 /\ [r EXCEPT !.st = "entered", !.late = FALSE] \in CallStates
      BY DEF CallStates
    <3>2. call[c] \in CallStates
      BY DEF ConsentTypeOK
    <3>3. behind = TRUE \/ behind = FALSE
      BY Zenon
    <3>4. QED
      BY <3>1, <3>2, <3>3, Zenon
  <2>2. call' = [call EXCEPT ![c] = new]
    BY <1>4, Zenon DEF Enters
  <2>3. UNCHANGED <<window, paused, disk, stop, box, kill, grants, stops, failures>>
    BY <1>4 DEF Enters
  <2> HIDE DEF new
  <2>4. QED
    BY <2>1, <2>2, <2>3 DEF ConsentTypeOK
<1>5. CASE Waits(c)
  BY <1>5 DEF Waits, Ends, ConsentTypeOK, CallStates
<1>6. CASE Hears(c)
  <2>1. PICK st \in {"allowed", "told"} : Ends(c, st)
    BY <1>6 DEF Hears
  <2>2. QED
    BY <1>6, <2>1 DEF Hears, Ends, ConsentTypeOK, CallStates
<1>7. CASE TimesOut(c)
  BY <1>7 DEF TimesOut, Ends, ConsentTypeOK, CallStates
<1>8. CASE LeavesGate(c)
  BY <1>8 DEF LeavesGate, Ends, ConsentTypeOK, CallStates
<1>9. QED
  BY <1>1, <1>2, <1>3, <1>4, <1>5, <1>6, <1>7, <1>8 DEF CallSteps

(* Every step keeps the types.                                             *)
LEMMA ConsentTypePreserved ==
    ASSUME ConsentAssumption, ConsentTypeOK, [ConsentNext]_consent_vars
    PROVE  ConsentTypeOK'
<1> USE DEF ConsentAssumption
<1>1. ASSUME NEW h \in Homes, Grant(h) PROVE ConsentTypeOK'
  <2>1. PICK s \in Saves(h, "running"), w \in Windows :
              /\ disk' = [disk EXCEPT ![h] = s.disk]
              /\ failures' = IF s.ok THEN failures ELSE failures + 1
              /\ \/ /\ paused' = [paused EXCEPT ![h] = FALSE]
                    /\ window' = [window EXCEPT ![h] = w]
                    /\ stop' = [stop EXCEPT ![h] = "none"]
                 \/ UNCHANGED <<paused, window, stop>>
    BY <1>1 DEF Grant
  <2>2. s.ok \in BOOLEAN /\ s.disk \in {"running", disk[h]} /\ (~s.ok => failures < MaxFailures)
    BY SavesAreTold
  <2>3. disk' \in [Homes -> {"none", "paused", "running"}]
    BY <2>1, <2>2 DEF ConsentTypeOK
  <2>4. grants' \in 0..MaxGrants /\ failures' \in 0..MaxFailures
    BY <1>1, <2>1, <2>2 DEF Grant, ConsentTypeOK
  <2>5. paused' \in [Homes -> BOOLEAN] /\ window' \in [Homes -> Windows]
        /\ stop' \in [Homes -> {"none", "unsaved", "saved"}]
    <3>1. CASE UNCHANGED <<paused, window, stop>>
      BY <3>1 DEF ConsentTypeOK
    <3>2. CASE /\ paused' = [paused EXCEPT ![h] = FALSE]
               /\ window' = [window EXCEPT ![h] = w]
               /\ stop' = [stop EXCEPT ![h] = "none"]
      BY <3>2 DEF ConsentTypeOK
    <3>3. QED
      BY <2>1, <3>1, <3>2
  <2>6. QED
    BY <1>1, <2>3, <2>4, <2>5 DEF Grant, ConsentTypeOK
<1>2. ASSUME NEW h \in Homes, WindowExpires(h) PROVE ConsentTypeOK'
  BY <1>2 DEF WindowExpires, ConsentTypeOK, Windows
<1>3. ASSUME NEW homes \in SUBSET Homes, Revoke(homes) PROVE ConsentTypeOK'
  <2>1. kill' = [left |-> homes, home |-> None, todo |-> {}, closed |-> FALSE]
    BY <1>3 DEF Revoke, NoRevoke
  <2>2. stops' \in 0..MaxStops
    BY <1>3 DEF Revoke, ConsentTypeOK
  <2>3. QED
    BY <1>3, <2>1, <2>2 DEF Revoke, ConsentTypeOK
<1>4. ASSUME NEW h \in Homes, StopsReads(h) PROVE ConsentTypeOK'
  <2>1. PICK s \in Saves(h, "paused") :
              /\ disk' = [disk EXCEPT ![h] = s.disk]
              /\ stop' = [stop EXCEPT ![h] = IF s.ok THEN "saved" ELSE "unsaved"]
              /\ failures' = IF s.ok THEN failures ELSE failures + 1
    BY <1>4 DEF StopsReads
  <2>2. s.ok \in BOOLEAN /\ s.disk \in {"paused", disk[h]} /\ (~s.ok => failures < MaxFailures)
    BY SavesAreTold
  <2>3. disk' \in [Homes -> {"none", "paused", "running"}] /\ failures' \in 0..MaxFailures
        /\ stop' \in [Homes -> {"none", "unsaved", "saved"}]
    BY <2>1, <2>2 DEF ConsentTypeOK
  <2>4. kill' = [left |-> kill.left \ {h}, home |-> h, todo |-> kill.todo, closed |-> kill.closed]
    BY <1>4 DEF StopsReads, ConsentTypeOK
  <2>5. QED
    BY <1>4, <2>3, <2>4 DEF StopsReads, ConsentTypeOK, Windows
<1>5. CASE Takes \/ Moves
  <2>1. \/ kill' = [left |-> kill.left, home |-> kill.home, todo |-> Waiting(kill.home), closed |-> TRUE]
        \/ kill' = [left |-> kill.left, home |-> None, todo |-> kill.todo, closed |-> FALSE]
    BY <1>5 DEF Takes, Moves, ConsentTypeOK
  <2>2. Waiting(kill.home) \subseteq Calls
    BY DEF Waiting
  <2>3. QED
    BY <1>5, <2>1, <2>2 DEF Takes, Moves, ConsentTypeOK
<1>6. ASSUME NEW c \in Calls, Denies(c) \/ AnswersCall(c, "yes") \/ AnswersCall(c, "no") PROVE ConsentTypeOK'
  BY <1>6 DEF Denies, AnswersCall, Puts, ConsentTypeOK
<1>7. ASSUME NEW c \in Calls, Arrives(c) \/ CallSteps(c) PROVE ConsentTypeOK'
  BY <1>7, CallMoves DEF ConsentTypeOK
<1>8. CASE Restart
  <2>1. call' \in [Calls -> CallStates]
    <3>1. ASSUME NEW c \in Calls PROVE call[c] \in CallStates /\ [call[c] EXCEPT !.st = "refused"] \in CallStates
      BY DEF ConsentTypeOK, CallStates
    <3>2. QED
      BY <1>8, <3>1, Zenon DEF Restart
  <2>2. \A h \in Homes, readable \in BOOLEAN : Loads(h, readable) \in BOOLEAN
    BY DEF Loads
  <2>3. QED
    BY <1>8, <2>1, <2>2 DEF Restart, NoRevoke, ConsentTypeOK, Windows
<1>9. CASE UNCHANGED consent_vars
  BY <1>9 DEF consent_vars, ConsentTypeOK, Waiting
<1>10. QED
  BY <1>1, <1>2, <1>3, <1>4, <1>5, <1>6, <1>7, <1>8, <1>9 DEF ConsentNext

(* Every step keeps a stop: what the person is told of it is in memory,    *)
(* and on the disk once it was saved.                                      *)
LEMMA StopsPreserved ==
    ASSUME LateSyncFails = FALSE, ConsentTypeOK, StopsSurvive, SavedIsOnDisk,
           [ConsentNext]_consent_vars
    PROVE  StopsSurvive' /\ SavedIsOnDisk'
<1> USE DEF ConsentTypeOK, StopsSurvive, SavedIsOnDisk
<1>1. ASSUME NEW h \in Homes, Grant(h) PROVE StopsSurvive' /\ SavedIsOnDisk'
  <2>1. PICK s \in Saves(h, "running") :
              /\ disk' = [disk EXCEPT ![h] = s.disk]
              /\ \/ /\ s.ok
                    /\ paused' = [paused EXCEPT ![h] = FALSE]
                    /\ stop' = [stop EXCEPT ![h] = "none"]
                 \/ ~s.ok /\ UNCHANGED <<paused, stop>>
    BY <1>1 DEF Grant
  <2>2. ~s.ok => s.disk = disk[h]
    BY SavesAreTold
  <2>3. QED
    BY <2>1, <2>2
<1>2. ASSUME NEW h \in Homes, StopsReads(h) PROVE StopsSurvive' /\ SavedIsOnDisk'
  <2>1. PICK s \in Saves(h, "paused") :
              /\ disk' = [disk EXCEPT ![h] = s.disk]
              /\ stop' = [stop EXCEPT ![h] = IF s.ok THEN "saved" ELSE "unsaved"]
    BY <1>2 DEF StopsReads
  <2>2. s.ok => s.disk = "paused"
    BY SavesAreTold
  <2>3. QED
    BY <1>2, <2>1, <2>2 DEF StopsReads
<1>3. CASE Restart
  BY <1>3 DEF Restart, Loads
<1>4. CASE UNCHANGED <<paused, disk, stop>>
  BY <1>4
<1>5. ASSUME NEW c \in Calls, Arrives(c) \/ CallSteps(c) PROVE UNCHANGED <<paused, disk, stop>>
  BY <1>5, CallMoves
<1>6. QED
  BY <1>1, <1>2, <1>3, <1>4, <1>5
     DEF ConsentNext, consent_vars, WindowExpires, Revoke, Takes, Moves, Denies, AnswersCall

(* Every step of a revoke, of the person and of a call leaves an answer in *)
(* the box of each call from before the stop, or a revoke that owes it.    *)
LEMMA AnswersPreserved ==
    ASSUME ConsentAssumption, ConsentTypeOK, RevokeIsBetween, AnswerIsOwed,
           [ConsentNext]_consent_vars
    PROVE  RevokeIsBetween' /\ AnswerIsOwed'
<1> USE DEF ConsentTypeOK, RevokeIsBetween, AnswerIsOwed
<1>1. ASSUME NEW h \in Homes, Grant(h) PROVE RevokeIsBetween' /\ AnswerIsOwed'
  <2>1. UNCHANGED <<call, box, kill>> /\ \A g \in Homes : stop'[g] # "none" => stop[g] # "none"
    BY <1>1 DEF Grant
  <2>2. QED
    BY <2>1
<1>2. ASSUME NEW homes \in SUBSET Homes, Revoke(homes) PROVE RevokeIsBetween' /\ AnswerIsOwed'
  BY <1>2 DEF Revoke, NoRevoke, ConsentAssumption
<1>3. ASSUME NEW h \in Homes, StopsReads(h) PROVE RevokeIsBetween' /\ AnswerIsOwed'
  <2>1. /\ kill.home = None /\ ~kill.closed /\ kill.todo = {}
        /\ kill'.home = h /\ ~kill'.closed /\ h # None
        /\ UNCHANGED <<call, box>>
        /\ \A g \in Homes \ {h} : stop'[g] = stop[g]
    BY <1>3 DEF StopsReads, ConsentAssumption
  <2>2. QED
    BY <2>1, ConsentAssumption DEF ConsentAssumption
<1>4. CASE Takes
  <2>1. \A c \in Calls : call[c].st \in {"entered", "waiting"} /\ call[c].home = kill.home
                         => c \in kill'.todo
    BY <1>4 DEF Takes, Waiting, Pending
  <2>2. QED
    BY <1>4, <2>1 DEF Takes
<1>5. CASE Moves
  BY <1>5 DEF Moves, ConsentAssumption
<1>6. ASSUME NEW c \in Calls, Denies(c) PROVE RevokeIsBetween' /\ AnswerIsOwed'
  <2>1. /\ box'[c] # "empty" /\ \A d \in Calls \ {c} : box'[d] = box[d]
        /\ kill'.todo = kill.todo \ {c} /\ kill'.home = kill.home /\ kill'.closed = kill.closed
        /\ UNCHANGED <<call, stop>>
    BY <1>6 DEF Denies, Puts
  <2>2. QED
    BY <2>1
<1>7. ASSUME NEW c \in Calls, NEW answer \in {"yes", "no"}, AnswersCall(c, answer)
      PROVE  RevokeIsBetween' /\ AnswerIsOwed'
  BY <1>7 DEF AnswersCall, Puts
<1>8. ASSUME NEW c \in Calls, Arrives(c) \/ CallSteps(c) PROVE RevokeIsBetween' /\ AnswerIsOwed'
  <2>1. /\ UNCHANGED <<stop, kill>>
        /\ \A d \in Calls \ {c} : call'[d] = call[d] /\ box'[d] = box[d]
    BY <1>8, CallMoves
  <2>2. ASSUME call'[c].st \in {"entered", "waiting"}, ~call'[c].late,
               call'[c].home \in Homes, stop'[call'[c].home] # "none"
        PROVE  call[c].st = "entered" /\ call'[c].home = call[c].home /\ ~call[c].late
               /\ box'[c] = box[c]
    BY <1>8, <2>1, <2>2 DEF Arrives, CallSteps, AllowsDirectoryRead, AllowsAt, Enters, Waits, Hears,
                            TimesOut, LeavesGate, Ends, CallStates
  <2>3. QED
    BY <2>1, <2>2
<1>9. CASE Restart
  <2>1. \A c \in Calls : call'[c].st \notin {"entered", "waiting"}
    BY <1>9 DEF Restart, CallStates
  <2>2. QED
    BY <1>9, <2>1 DEF Restart, NoRevoke
<1>10. CASE UNCHANGED <<stop, call, box, kill>>
  BY <1>10
<1>11. QED
  BY <1>1, <1>2, <1>3, <1>4, <1>5, <1>6, <1>7, <1>8, <1>9, <1>10
     DEF ConsentNext, consent_vars, WindowExpires

(* The windows, the pauses, the calls and their boxes keep their types     *)
(* (Manager in manager.go), whatever a save does.                          *)
THEOREM ConsentTypeCorrect ==
    ASSUME ConsentAssumption
    PROVE  ConsentSpec => []ConsentTypeOK
<1>1. ConsentInit => ConsentTypeOK
  BY InitConsentInv DEF ConsentInv
<1>2. ConsentTypeOK /\ [ConsentNext]_consent_vars => ConsentTypeOK'
  BY ConsentTypePreserved
<1>3. QED
  BY <1>1, <1>2, PTL DEF ConsentSpec

(* A stop holds until a grant succeeds, through every failing save and     *)
(* every restart once it was saved, and answers every call that was on a   *)
(* screen before it (Manager.Revoke, cancelAllPending, loadDirectoryPause),*)
(* however many homes, calls, grants and revokes there are, as long as the *)
(* sync of the directory does not fail by itself: without that a grant     *)
(* that failed has the next start forget the stop.                         *)
THEOREM StopsAlwaysTakeHold ==
    ASSUME ConsentAssumption, LateSyncFails = FALSE
    PROVE  ConsentSpec => []StopsTakeHold
<1>1. ConsentInit => ConsentInv
  BY InitConsentInv
<1>2. ConsentInv /\ [ConsentNext]_consent_vars => ConsentInv'
  BY ConsentTypePreserved, StopsPreserved, AnswersPreserved DEF ConsentInv
<1>3. ConsentInv => StopsTakeHold
  BY DEF ConsentInv, StopsTakeHold, StopsReachThePending, Stopped, AnswerIsOwed
<1>4. QED
  BY <1>1, <1>2, <1>3, PTL DEF ConsentSpec
=============================================================================
