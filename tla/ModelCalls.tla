------------------------------ MODULE ModelCalls ------------------------------
(***************************************************************************)
(* The model calls of one machine: internal/worker/modelcall/session.go    *)
(* (one Manager per cluster "home") and limiter.go (the ONE Limiter every  *)
(* Manager shares).                                                        *)
(*                                                                         *)
(* A call is one ModelCallStart message.  Manager.Start registers it       *)
(* synchronously, then a goroutine of its own resolves the model, takes a  *)
(* concurrency slot (waiting for one on a broadcast channel), runs the     *)
(* generation, sends the one ModelCallEnd and gives the slot back.  Cancel,*)
(* StopAll, the watchdog and the call's context deadline race with it.     *)
(*                                                                         *)
(* A member of Calls is a place for one call in flight: when its goroutine *)
(* is gone the place is idle and takes a later call.  The step of the      *)
(* goroutine is pc[c]:                                                     *)
(*   "idle"      no call                                                   *)
(*   "resolving" registered in Manager.live, goroutine before resolve      *)
(*   "claim"     resolved, before admit's first claim                      *)
(*   "watch"     top of admit's loop, before limiter.changed()             *)
(*   "recheck"   holds a freed channel, before the second claim            *)
(*   "parked"    blocked in admit's select                                 *)
(*   "running"   in run, the runtime client has the call                   *)
(*   "returned"  the client returned, before the End is built              *)
(*   "ended"     End sent, deferred release not begun                      *)
(*   "dropped"   out of Manager.live, the slot not given back yet          *)
(***************************************************************************)
EXTENDS Integers, FiniteSets, Functions

CONSTANTS
  Calls,        \* places for the calls in flight at once (one goroutine each)
  Homes,        \* clusters this machine serves: one Manager each
  Ids,          \* request ids a cluster may use
  Models,       \* model ids
  Inventories,  \* the inventories the owner's policy may advertise
  NoCall, NoModel, NoReq

(* An inventory maps a model to its MaxConcurrent: NotOffered when the     *)
(* model is not advertised, 0 when no ceiling is stated.                   *)
NotOffered == -1

Advertised(i) == {m \in Models : i[m] # NotOffered}

(* The machine-wide ceiling: the sum of the advertised numbers.            *)
machineCap(i) == FoldFunctionOnSet(+, 0, i, Advertised(i))

ASSUME ConstantsAssumption ==
  /\ IsFiniteSet(Calls)
  /\ Inventories # {}
  /\ Inventories \subseteq [Models -> Nat \cup {NotOffered}]
  /\ NoCall \notin Calls
  /\ NoModel \notin Models

(* What machineCap computes is a natural number for every inventory.       *)
ASSUME MachineCapAssumption == \A i \in Inventories : machineCap(i) \in Nat

VARIABLES
  inv,       \* the inventory the machine advertises now
  pc,        \* where each call's goroutine is
  req,       \* home, request id and model of each call in flight
  live,      \* Manager.live of each home
  modelID,   \* call.modelID: the model whose slot the call took
  caps,      \* the two ceilings the call read when it resolved
  freed,     \* the freed channel a waiter holds: "none", "open" or "closed"
  perModel,  \* Limiter.perModel
  total,     \* Limiter.total
  reason,    \* call.reason: the first abort
  ctx,       \* the call's context: "live", "canceled" or "deadline"
  end        \* the finish or error code of the ModelCallEnd the call sent

limiter == <<perModel, total>>
vars == <<inv, pc, req, live, modelID, caps, freed, perModel, total, reason, ctx, end>>

-----------------------------------------------------------------------------

Registered == {"resolving", "claim", "watch", "recheck", "parked", "running",
               "returned", "ended"}
Steps == Registered \cup {"idle", "dropped"}
Waiting == {"claim", "watch", "recheck", "parked"}

Reasons == {"none", "cancelled", "timeout", "worker_stopped"}
Codes == Reasons \cup {"model_not_offered", "refused", "model_concurrency_exceeded",
                       "runtime_error", "stop"}

Requests == [home : Homes, id : Ids, model : Models]

(* A call holds a slot from claim until limiter.release.                   *)
Holders == {c \in Calls : modelID[c] # NoModel}
HoldersOf(m) == {c \in Calls : modelID[c] = m}

NoCaps == [model |-> 0, machine |-> 0]

TypeOK ==
  /\ inv \in Inventories
  /\ pc \in [Calls -> Steps]
  /\ req \in [Calls -> Requests \cup {NoReq}]
  /\ live \in [Homes -> [Ids -> Calls \cup {NoCall}]]
  /\ modelID \in [Calls -> Models \cup {NoModel}]
  /\ caps \in [Calls -> [model : Nat, machine : Nat]]
  /\ freed \in [Calls -> {"none", "open", "closed"}]
  /\ perModel \in [Models -> Nat]
  /\ total \in Nat
  /\ reason \in [Calls -> Reasons]
  /\ ctx \in [Calls -> {"live", "canceled", "deadline"}]
  /\ end \in [Calls -> Codes]

Init ==
  /\ inv \in Inventories
  /\ pc = [c \in Calls |-> "idle"]
  /\ req = [c \in Calls |-> NoReq]
  /\ live = [h \in Homes |-> [i \in Ids |-> NoCall]]
  /\ modelID = [c \in Calls |-> NoModel]
  /\ caps = [c \in Calls |-> NoCaps]
  /\ freed = [c \in Calls |-> "none"]
  /\ perModel = [m \in Models |-> 0]
  /\ total = 0
  /\ reason = [c \in Calls |-> "none"]
  /\ ctx = [c \in Calls |-> "live"]
  /\ end = [c \in Calls |-> "none"]

-----------------------------------------------------------------------------
(* Limiter                                                                 *)

(* Mutant: the comparisons are off by one.                                 *)
tryAcquireOvershoot(m, cap) ==
  /\ ~(cap.model > 0 /\ perModel[m] > cap.model)
  /\ ~(cap.machine > 0 /\ total > cap.machine)

tryAcquire(m, cap) ==
  /\ ~(cap.model > 0 /\ perModel[m] >= cap.model)
  /\ ~(cap.machine > 0 /\ total >= cap.machine)

(* Mutant: the slot is given back twice (a release and a deferred one).    *)
releaseTwice(m) ==
  /\ perModel' = [perModel EXCEPT ![m] = IF @ <= 1 THEN 0 ELSE @ - 1]
  /\ total' = total - 2
  /\ freed' = [c \in Calls |-> IF freed[c] = "open" THEN "closed" ELSE freed[c]]

(* release closes the channel every waiter took, and replaces it.          *)
release(m) ==
  /\ perModel' = [perModel EXCEPT ![m] = IF @ <= 1 THEN 0 ELSE @ - 1]
  /\ total' = IF total > 0 THEN total - 1 ELSE 0
  /\ freed' = [c \in Calls |-> IF freed[c] = "open" THEN "closed" ELSE freed[c]]

-----------------------------------------------------------------------------
(* The recv goroutine of home h: Start, Cancel, StopAll                    *)

(* A request id already live is refused and never registered, which        *)
(* changes no state of the machine.                                        *)
Start(c, r) ==
  /\ pc[c] = "idle"
  /\ live[r.home][r.id] = NoCall
  /\ req' = [req EXCEPT ![c] = r]
  /\ live' = [live EXCEPT ![r.home][r.id] = c]
  /\ pc' = [pc EXCEPT ![c] = "resolving"]
  /\ UNCHANGED <<inv, modelID, caps, freed, limiter, reason, ctx, end>>

(* Mutant: the last abort wins.                                            *)
abortAllLast(S, why) ==
  /\ reason' = [c \in Calls |-> IF c \in S THEN why ELSE reason[c]]
  /\ ctx' = [c \in Calls |-> IF c \in S /\ ctx[c] = "live" THEN "canceled" ELSE ctx[c]]
  /\ UNCHANGED <<inv, pc, req, live, modelID, caps, freed, limiter, end>>

(* The first abort records its reason; a context ends once.                *)
abortAll(S, why) ==
  /\ reason' = [c \in Calls |-> IF c \in S /\ reason[c] = "none" THEN why ELSE reason[c]]
  /\ ctx' = [c \in Calls |-> IF c \in S /\ ctx[c] = "live" THEN "canceled" ELSE ctx[c]]
  /\ UNCHANGED <<inv, pc, req, live, modelID, caps, freed, limiter, end>>

(* A cancel for an id that is not live is ignored.                         *)
Cancel(h, i) ==
  /\ live[h][i] # NoCall
  /\ abortAll({live[h][i]}, "cancelled")

StopAll(h) ==
  LET S == {live[h][i] : i \in Ids} \ {NoCall}
  IN  S # {} /\ abortAll(S, "worker_stopped")

-----------------------------------------------------------------------------
(* The call's goroutine: resolve and admit                                 *)

SendEnd(c, code) ==
  /\ pc' = [pc EXCEPT ![c] = "ended"]
  /\ end' = [end EXCEPT ![c] = code]

(* resolve reads the inventory once and refuses a model it does not offer. *)
ResolveNotOffered(c) ==
  /\ pc[c] = "resolving"
  /\ inv[req[c].model] = NotOffered
  /\ SendEnd(c, "model_not_offered")
  /\ UNCHANGED <<inv, req, live, modelID, caps, freed, limiter, reason, ctx>>

(* ... or a kind, schema, tools, modality or payload the call cannot have. *)
ResolveRefused(c) ==
  /\ pc[c] = "resolving"
  /\ SendEnd(c, "refused")
  /\ UNCHANGED <<inv, req, live, modelID, caps, freed, limiter, reason, ctx>>

Resolve(c) ==
  /\ pc[c] = "resolving"
  /\ inv[req[c].model] # NotOffered
  /\ caps' = [caps EXCEPT ![c] = [model |-> inv[req[c].model], machine |-> machineCap(inv)]]
  /\ pc' = [pc EXCEPT ![c] = "claim"]
  /\ UNCHANGED <<inv, req, live, modelID, freed, limiter, reason, ctx, end>>

(* claim takes the slot and records which one, under the call's lock.      *)
claim(c) ==
  LET m == req[c].model
  IN  /\ tryAcquire(m, caps[c])
      /\ perModel' = [perModel EXCEPT ![m] = @ + 1]
      /\ total' = total + 1
      /\ modelID' = [modelID EXCEPT ![c] = m]
      /\ pc' = [pc EXCEPT ![c] = "running"]
      /\ freed' = [freed EXCEPT ![c] = "none"]
      /\ UNCHANGED <<inv, req, live, caps, reason, ctx, end>>

Claim(c) == pc[c] \in {"claim", "recheck"} /\ claim(c)

ClaimFull(c) ==
  /\ pc[c] \in {"claim", "recheck"}
  /\ ~tryAcquire(req[c].model, caps[c])
  /\ pc' = [pc EXCEPT ![c] = IF @ = "claim" THEN "watch" ELSE "parked"]
  /\ UNCHANGED <<inv, req, live, modelID, caps, freed, limiter, reason, ctx, end>>

(* Mutant: the channel is taken after the last claim, with no re-check.    *)
WatchNoRecheck(c) ==
  /\ pc[c] = "watch"
  /\ freed' = [freed EXCEPT ![c] = "open"]
  /\ pc' = [pc EXCEPT ![c] = "parked"]
  /\ UNCHANGED <<inv, req, live, modelID, caps, limiter, reason, ctx, end>>

(* changed(): the channel the NEXT release closes.                         *)
Watch(c) ==
  /\ pc[c] = "watch"
  /\ freed' = [freed EXCEPT ![c] = "open"]
  /\ pc' = [pc EXCEPT ![c] = "recheck"]
  /\ UNCHANGED <<inv, req, live, modelID, caps, limiter, reason, ctx, end>>

(* A closed channel or a keepalive tick sends the waiter round the loop.   *)
Wake(c) ==
  /\ pc[c] = "parked"
  /\ freed[c] = "closed"
  /\ pc' = [pc EXCEPT ![c] = "watch"]
  /\ UNCHANGED <<inv, req, live, modelID, caps, freed, limiter, reason, ctx, end>>

Keepalive(c) ==
  /\ pc[c] = "parked"
  /\ pc' = [pc EXCEPT ![c] = "watch"]
  /\ UNCHANGED <<inv, req, live, modelID, caps, freed, limiter, reason, ctx, end>>

(* The other ways out of the select: the stream went, the idle ceiling     *)
(* passed without a slot, or the call's context ended.                     *)
WaitStreamGone(c) ==
  /\ pc[c] = "parked"
  /\ SendEnd(c, "worker_stopped")
  /\ UNCHANGED <<inv, req, live, modelID, caps, freed, limiter, reason, ctx>>

WaitDeadline(c) ==
  /\ pc[c] = "parked"
  /\ SendEnd(c, "model_concurrency_exceeded")
  /\ UNCHANGED <<inv, req, live, modelID, caps, freed, limiter, reason, ctx>>

(* The recorded abort wins over the context error it produced.             *)
classify(c) ==
  IF reason[c] # "none" THEN {reason[c]}
  ELSE CASE ctx[c] = "deadline" -> {"timeout"}
         [] ctx[c] = "canceled" -> {"cancelled"}
         [] OTHER -> {"runtime_error"}

(* Mutant: the wait ends on its own deadline only, not on a cancel.        *)
WaitAbortedByDeadline(c) ==
  /\ pc[c] = "parked"
  /\ ctx[c] = "deadline"
  /\ \E code \in classify(c) : SendEnd(c, code)
  /\ UNCHANGED <<inv, req, live, modelID, caps, freed, limiter, reason, ctx>>

WaitAborted(c) ==
  /\ pc[c] = "parked"
  /\ ctx[c] # "live"
  /\ \E code \in classify(c) : SendEnd(c, code)
  /\ UNCHANGED <<inv, req, live, modelID, caps, freed, limiter, reason, ctx>>

-----------------------------------------------------------------------------
(* run, its watchdog and the context deadline                              *)

(* The client returns with a result or with an error; the End is built in  *)
(* a later step, and an abort may land between the two.                    *)
RuntimeReturns(c) ==
  /\ pc[c] = "running"
  /\ pc' = [pc EXCEPT ![c] = "returned"]
  /\ UNCHANGED <<inv, req, live, modelID, caps, freed, limiter, reason, ctx, end>>

EndOK(c) ==
  /\ pc[c] = "returned"
  /\ SendEnd(c, "stop")
  /\ UNCHANGED <<inv, req, live, modelID, caps, freed, limiter, reason, ctx>>

(* The runtime's own error may also be what came back first.               *)
EndError(c) ==
  /\ pc[c] = "returned"
  /\ \E code \in classify(c) \cup (IF reason[c] = "none" THEN {"runtime_error"} ELSE {}) :
       SendEnd(c, code)
  /\ UNCHANGED <<inv, req, live, modelID, caps, freed, limiter, reason, ctx>>

(* The runtime went quiet past the idle ceiling.  The watchdog is told to  *)
(* stop when the client returns but is not waited for.                     *)
WatchdogIdle(c) ==
  /\ pc[c] \in {"running", "returned", "ended"}
  /\ ctx[c] = "live"
  /\ abortAll({c}, "timeout")

(* A keepalive the stream refused cancels the call and records nothing.    *)
WatchdogStreamGone(c) ==
  /\ pc[c] \in {"running", "returned", "ended"}
  /\ ctx[c] = "live"
  /\ ctx' = [ctx EXCEPT ![c] = "canceled"]
  /\ UNCHANGED <<inv, pc, req, live, modelID, caps, freed, limiter, reason, end>>

(* Mutant: the timeout is armed when the generation starts, not before.    *)
CtxDeadlineLate(c) ==
  /\ pc[c] \in {"running", "returned", "ended"}
  /\ ctx[c] = "live"
  /\ ctx' = [ctx EXCEPT ![c] = "deadline"]
  /\ UNCHANGED <<inv, pc, req, live, modelID, caps, freed, limiter, reason, end>>

(* context.WithTimeout's deadline, from Start until the goroutine is gone. *)
CtxDeadline(c) ==
  /\ pc[c] \in Registered
  /\ ctx[c] = "live"
  /\ ctx' = [ctx EXCEPT ![c] = "deadline"]
  /\ UNCHANGED <<inv, pc, req, live, modelID, caps, freed, limiter, reason, end>>

-----------------------------------------------------------------------------
(* The deferred release: out of live first, then the slot; then nothing    *)
(* refers to the call any more.                                            *)

ReleaseLive(c) ==
  /\ pc[c] = "ended"
  /\ live' = [live EXCEPT ![req[c].home][req[c].id] = NoCall]
  /\ pc' = [pc EXCEPT ![c] = "dropped"]
  /\ UNCHANGED <<inv, req, modelID, caps, freed, limiter, reason, ctx, end>>

(* Mutant: a slot is given back for every call, taken or not.              *)
ReleaseSlotAlways(c) ==
  /\ pc[c] = "dropped"
  /\ release(req[c].model)
  /\ pc' = [pc EXCEPT ![c] = "idle"]
  /\ req' = [req EXCEPT ![c] = NoReq]
  /\ modelID' = [modelID EXCEPT ![c] = NoModel]
  /\ caps' = [caps EXCEPT ![c] = NoCaps]
  /\ reason' = [reason EXCEPT ![c] = "none"]
  /\ ctx' = [ctx EXCEPT ![c] = "live"]
  /\ end' = [end EXCEPT ![c] = "none"]
  /\ UNCHANGED <<inv, live>>

ReleaseSlot(c) ==
  /\ pc[c] = "dropped"
  /\ IF modelID[c] # NoModel THEN release(modelID[c]) ELSE UNCHANGED <<limiter, freed>>
  /\ pc' = [pc EXCEPT ![c] = "idle"]
  /\ req' = [req EXCEPT ![c] = NoReq]
  /\ modelID' = [modelID EXCEPT ![c] = NoModel]
  /\ caps' = [caps EXCEPT ![c] = NoCaps]
  /\ reason' = [reason EXCEPT ![c] = "none"]
  /\ ctx' = [ctx EXCEPT ![c] = "live"]
  /\ end' = [end EXCEPT ![c] = "none"]
  /\ UNCHANGED <<inv, live>>

(* The owner edits models.allow or a runtime comes or goes.                *)
InventoryChanges ==
  /\ inv' \in Inventories
  /\ UNCHANGED <<pc, req, live, modelID, caps, freed, limiter, reason, ctx, end>>

-----------------------------------------------------------------------------

Admission(c) == Claim(c) \/ ClaimFull(c) \/ Watch(c) \/ Wake(c) \/ WaitAborted(c)
Resolution(c) == ResolveNotOffered(c) \/ ResolveRefused(c) \/ Resolve(c)
Ending(c) == EndOK(c) \/ EndError(c) \/ ReleaseLive(c) \/ ReleaseSlot(c)

Next ==
  \/ \E c \in Calls, r \in Requests : Start(c, r)
  \/ \E h \in Homes : StopAll(h) \/ \E i \in Ids : Cancel(h, i)
  \/ \E c \in Calls :
       \/ Resolution(c) \/ Admission(c)
       \/ Keepalive(c) \/ WaitStreamGone(c) \/ WaitDeadline(c)
       \/ RuntimeReturns(c) \/ WatchdogIdle(c) \/ WatchdogStreamGone(c) \/ CtxDeadline(c)
       \/ Ending(c)
  \/ InventoryChanges

Spec == Init /\ [][Next]_vars

(* A goroutine that can run does, a deadline that is armed fires, and a    *)
(* runtime client whose context ended returns (net/http honours it).       *)
(* WaitAborted is strongly fair: Go's select picks at random among the     *)
(* ready cases, so a waiter whose channel keeps closing still notices, one *)
(* time or another, that its context has ended.                            *)
Fairness ==
  \A c \in Calls :
    /\ WF_vars(Resolution(c))
    /\ WF_vars(Admission(c))
    /\ SF_vars(WaitAborted(c))
    /\ WF_vars(CtxDeadline(c))
    /\ WF_vars(ctx[c] # "live" /\ RuntimeReturns(c))
    /\ WF_vars(Ending(c))

FairSpec == Spec /\ Fairness

-----------------------------------------------------------------------------
(* Properties                                                              *)

(* The Limiter's counts are exactly the calls that hold a slot: a release  *)
(* by a call that never took one, a slot never given back, or one given    *)
(* back twice would let the machine past its ceiling or wedge it.          *)
SlotAccounting ==
  /\ \A m \in Models : perModel[m] = Cardinality(HoldersOf(m))
  /\ total = Cardinality(Holders)

(* The ceilings hold whatever order calls come in and however the owner's  *)
(* numbers move: of the calls holding a model (or the machine), at most k  *)
(* were admitted under a ceiling of k or less; and no count, which is what *)
(* the code compares, goes below zero (TypeOK).                            *)
ModelCeiling ==
  \A m \in Models : \A k \in 1..Cardinality(Calls) :
    Cardinality({c \in HoldersOf(m) : caps[c].model \in 1..k}) <= k
MachineCeiling ==
  \A k \in 1..Cardinality(Calls) :
    Cardinality({c \in Holders : caps[c].machine \in 1..k}) <= k
CallsAreUnderCeilings == ModelCeiling /\ MachineCeiling
CeilingsHold == TypeOK /\ CallsAreUnderCeilings

(* A release between a failed claim and the wait is never missed: a call   *)
(* asleep on an open channel has no slot it could take.                    *)
NoLostWakeup ==
  \A c \in Calls : (pc[c] = "parked" /\ freed[c] = "open") => ~tryAcquire(req[c].model, caps[c])

(* Manager.live is exact: a call is found under its own home and id from   *)
(* Start to release, so a Cancel that follows a Start always finds it, and *)
(* nothing else is found there.                                            *)
LiveIsExact ==
  \A h \in Homes, i \in Ids : \A c \in Calls :
    live[h][i] = c <=> (pc[c] \in Registered /\ req[c].home = h /\ req[c].id = i)

(* What one step may do to a call that was aborted.                        *)
AbortTold(c) ==
  reason[c] # "none" =>
    /\ reason'[c] = reason[c] \/ pc[c] = "dropped"
    /\ (pc[c] # "ended" /\ pc'[c] = "ended"
          /\ end'[c] \in {"cancelled", "timeout", "runtime_error"})
         => end'[c] = reason[c]

(* The End of a call that was aborted names its FIRST abort: cancelled,    *)
(* timed out and stopped are different answers, and no later abort, nor    *)
(* the context error the abort itself produced, replaces the recorded one. *)
AbortsTold == \A c \in Calls : AbortTold(c)
FirstAbortIsTold == [][AbortsTold]_vars

(* Every call that starts ends, and gives back what it holds.              *)
CallsEnd == \A c \in Calls : pc[c] = "resolving" ~> pc[c] = "idle"

(* A call the cluster cancels does not wait out its timeout in the queue:  *)
(* it is over, or it is running with its context already ended.            *)
CancelEndsWait ==
  \A c \in Calls : (pc[c] \in Waiting /\ ctx[c] = "canceled") ~> (pc[c] \notin Waiting)

-----------------------------------------------------------------------------
(* What the Limiter promises, without its counters                         *)

(* The pairs of ceilings an inventory may tell a call.                     *)
Ceilings == {[model |-> i[m], machine |-> machineCap(i)] : i \in Inventories, m \in Models}

Rationed == INSTANCE RationedCalls WITH
  Places <- Calls,
  slot <- modelID,
  inFlight <- {c \in Calls : pc[c] # "idle"}

(* The calls admitted are rationed by counting the calls themselves.       *)
ImplementsRationedCalls == Rationed!Spec
=============================================================================
