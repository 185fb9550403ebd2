--------------------------- MODULE ModelCallsProofs ---------------------------
(***************************************************************************)
(* What ModelCalls guarantees for any number of calls, clusters, models    *)
(* and inventories, HostResources for any number of processes, calls and   *)
(* models, DeltaStream for any ceilings, cadences and deadlines, and       *)
(* RuntimeAnswer for answers of any length.                                *)
(***************************************************************************)
EXTENDS ModelCalls, DeltaStream, RuntimeAnswer, HostResources, FiniteSetTheorems, TLAPS

(* Where a call can stand while it holds a slot, and what it has by then.  *)
Owning == {"running", "returned", "ended", "dropped"}
StepOK ==
  \A c \in Calls :
    /\ pc[c] # "idle" => req[c] \in Requests
    /\ modelID[c] # NoModel => pc[c] \in Owning

BaseInv == TypeOK /\ StepOK

-----------------------------------------------------------------------------
(* Type correctness                                                        *)

LEMMA InitBase == Init => BaseInv
  BY ConstantsAssumption
     DEF Init, BaseInv, TypeOK, StepOK, Steps, Registered, Reasons, Codes, NoCaps, Owning

LEMMA NextBase == BaseInv /\ [Next]_vars => BaseInv'
<1> SUFFICES ASSUME BaseInv, [Next]_vars PROVE BaseInv'
  OBVIOUS
<1> USE DEF BaseInv, TypeOK, StepOK, Steps, Registered, Reasons, Codes, NoCaps, Owning,
            Requests, limiter
<1>1. ASSUME NEW c \in Calls, NEW r \in Requests, Start(c, r) PROVE BaseInv'
  BY <1>1 DEF Start
<1>2. ASSUME NEW h \in Homes, StopAll(h) PROVE BaseInv'
  BY <1>2 DEF StopAll, abortAll
<1>3. ASSUME NEW h \in Homes, NEW i \in Ids, Cancel(h, i) PROVE BaseInv'
  BY <1>3 DEF Cancel, abortAll
<1>4. ASSUME NEW c \in Calls, Resolution(c) PROVE BaseInv'
  <2>1. CASE ResolveNotOffered(c)
    BY <2>1 DEF ResolveNotOffered, SendEnd
  <2>2. CASE ResolveRefused(c)
    BY <2>2 DEF ResolveRefused, SendEnd
  <2>3. CASE Resolve(c)
    <3>1. inv[req[c].model] \in Nat /\ machineCap(inv) \in Nat
      BY <2>3, ConstantsAssumption, MachineCapAssumption DEF Resolve, NotOffered
    <3>2. QED
      BY <2>3, <3>1 DEF Resolve
  <2>4. QED
    BY <1>4, <2>1, <2>2, <2>3 DEF Resolution
<1>5. ASSUME NEW c \in Calls, Admission(c) PROVE BaseInv'
  <2>1. CASE Claim(c)
    BY <2>1 DEF Claim, claim
  <2>2. CASE ClaimFull(c)
    BY <2>2 DEF ClaimFull
  <2>3. CASE Watch(c)
    BY <2>3 DEF Watch
  <2>4. CASE Wake(c)
    BY <2>4 DEF Wake
  <2>5. CASE WaitAborted(c)
    BY <2>5 DEF WaitAborted, SendEnd, classify
  <2>6. QED
    BY <1>5, <2>1, <2>2, <2>3, <2>4, <2>5 DEF Admission
<1>6. ASSUME NEW c \in Calls,
             Keepalive(c) \/ WaitStreamGone(c) \/ WaitDeadline(c) \/ RuntimeReturns(c)
      PROVE BaseInv'
  <2>1. CASE Keepalive(c)
    BY <2>1 DEF Keepalive
  <2>2. CASE WaitStreamGone(c)
    BY <2>2 DEF WaitStreamGone, SendEnd
  <2>3. CASE WaitDeadline(c)
    BY <2>3 DEF WaitDeadline, SendEnd
  <2>4. CASE RuntimeReturns(c)
    BY <2>4 DEF RuntimeReturns
  <2>5. QED
    BY <1>6, <2>1, <2>2, <2>3, <2>4
<1>7. ASSUME NEW c \in Calls, WatchdogIdle(c) \/ WatchdogStreamGone(c) \/ CtxDeadline(c)
      PROVE BaseInv'
  BY <1>7 DEF WatchdogIdle, WatchdogStreamGone, CtxDeadline, abortAll
<1>8. ASSUME NEW c \in Calls, Ending(c) PROVE BaseInv'
  <2>1. CASE EndOK(c)
    BY <2>1 DEF EndOK, SendEnd
  <2>2. CASE EndError(c)
    BY <2>2 DEF EndError, SendEnd, classify
  <2>3. CASE ReleaseLive(c)
    BY <2>3 DEF ReleaseLive
  <2>4. CASE ReleaseSlot(c)
    BY <2>4 DEF ReleaseSlot, release
  <2>5. QED
    BY <1>8, <2>1, <2>2, <2>3, <2>4 DEF Ending
<1>9. CASE InventoryChanges
  BY <1>9 DEF InventoryChanges
<1>10. CASE UNCHANGED vars
  BY <1>10 DEF vars
<1>11. QED
  BY <1>1, <1>2, <1>3, <1>4, <1>5, <1>6, <1>7, <1>8, <1>9, <1>10 DEF Next

(* Every variable keeps its type in every reachable state.                 *)
THEOREM TypeCorrect == Spec => []TypeOK
<1>1. BaseInv => TypeOK
  BY DEF BaseInv
<1>2. QED
  BY InitBase, NextBase, <1>1, PTL DEF Spec

-----------------------------------------------------------------------------
(* The Limiter's counts                                                    *)

(* Only a successful claim and the deferred release touch the slots; a     *)
(* call's ceilings do not move while it holds one.                         *)
SlotsStay ==
  /\ UNCHANGED <<modelID, perModel, total>>
  /\ \A c \in Calls : modelID[c] # NoModel => caps'[c] = caps[c]

LEMMA SlotSteps ==
  ASSUME BaseInv, [Next]_vars
  PROVE  \/ \E c \in Calls : Claim(c)
         \/ \E c \in Calls : ReleaseSlot(c)
         \/ SlotsStay
<1> USE DEF BaseInv, TypeOK, StepOK, Owning, limiter, SlotsStay
<1>1. ASSUME NEW c \in Calls, NEW r \in Requests, Start(c, r) PROVE SlotsStay
  BY <1>1 DEF Start
<1>2. ASSUME NEW h \in Homes, StopAll(h) PROVE SlotsStay
  BY <1>2 DEF StopAll, abortAll
<1>3. ASSUME NEW h \in Homes, NEW i \in Ids, Cancel(h, i) PROVE SlotsStay
  BY <1>3 DEF Cancel, abortAll
<1>4. ASSUME NEW c \in Calls, Resolution(c) PROVE SlotsStay
  BY <1>4 DEF Resolution, ResolveNotOffered, ResolveRefused, Resolve
<1>5. ASSUME NEW c \in Calls, Admission(c), ~Claim(c) PROVE SlotsStay
  BY <1>5 DEF Admission, ClaimFull, Watch, Wake, WaitAborted
<1>6. ASSUME NEW c \in Calls,
             Keepalive(c) \/ WaitStreamGone(c) \/ WaitDeadline(c) \/ RuntimeReturns(c)
      PROVE SlotsStay
  BY <1>6 DEF Keepalive, WaitStreamGone, WaitDeadline, RuntimeReturns
<1>7. ASSUME NEW c \in Calls, WatchdogIdle(c) \/ WatchdogStreamGone(c) \/ CtxDeadline(c)
      PROVE SlotsStay
  BY <1>7 DEF WatchdogIdle, WatchdogStreamGone, CtxDeadline, abortAll
<1>8. ASSUME NEW c \in Calls, Ending(c), ~ReleaseSlot(c) PROVE SlotsStay
  BY <1>8 DEF Ending, EndOK, EndError, ReleaseLive
<1>9. CASE InventoryChanges
  BY <1>9 DEF InventoryChanges
<1>10. CASE UNCHANGED vars
  BY <1>10 DEF vars
<1>11. QED
  BY <1>1, <1>2, <1>3, <1>4, <1>5, <1>6, <1>7, <1>8, <1>9, <1>10 DEF Next

LEMMA HoldersFinite ==
  /\ IsFiniteSet(Holders) /\ Cardinality(Holders) \in Nat
  /\ \A m \in Models : IsFiniteSet(HoldersOf(m)) /\ Cardinality(HoldersOf(m)) \in Nat
<1>1. Holders \subseteq Calls /\ \A m \in Models : HoldersOf(m) \subseteq Calls
  BY DEF Holders, HoldersOf
<1>2. QED
  BY <1>1, ConstantsAssumption, FS_Subset, FS_CardinalityType

(* A claim adds the call to the holders of its model; a release removes it.*)
LEMMA ClaimHolders ==
  ASSUME BaseInv, NEW c \in Calls, Claim(c)
  PROVE  \E m \in Models :
           /\ m = req[c].model /\ modelID[c] = NoModel
           /\ perModel' = [perModel EXCEPT ![m] = @ + 1] /\ total' = total + 1
           /\ tryAcquire(m, caps[c]) /\ caps' = caps
           /\ Holders' = Holders \cup {c} /\ c \notin Holders
           /\ HoldersOf(m)' = HoldersOf(m) \cup {c} /\ c \notin HoldersOf(m)
           /\ \A n \in Models \ {m} : HoldersOf(n)' = HoldersOf(n)
<1>1. req[c] \in Requests /\ modelID[c] = NoModel
  BY DEF BaseInv, StepOK, Owning, Claim
<1>2. PICK m \in Models : m = req[c].model
  BY <1>1 DEF Requests
<1>3. modelID' = [modelID EXCEPT ![c] = m]
  BY <1>2 DEF Claim, claim
<1>4. m # NoModel
  BY ConstantsAssumption
<1>5. /\ Holders' = Holders \cup {c} /\ c \notin Holders
      /\ HoldersOf(m)' = HoldersOf(m) \cup {c} /\ c \notin HoldersOf(m)
      /\ \A n \in Models \ {m} : HoldersOf(n)' = HoldersOf(n)
  BY <1>1, <1>3, <1>4, ConstantsAssumption DEF Holders, HoldersOf, BaseInv, TypeOK
<1>6. /\ perModel' = [perModel EXCEPT ![m] = @ + 1] /\ total' = total + 1
      /\ tryAcquire(m, caps[c]) /\ caps' = caps
  BY <1>2 DEF Claim, claim
<1>7. QED
  BY <1>1, <1>2, <1>5, <1>6

LEMMA ReleaseHolders ==
  ASSUME BaseInv, NEW c \in Calls, ReleaseSlot(c)
  PROVE  /\ Holders' = Holders \ {c}
         /\ \A m \in Models : HoldersOf(m)' = HoldersOf(m) \ {c}
         /\ \A d \in Calls \ {c} : modelID'[d] = modelID[d] /\ caps'[d] = caps[d]
<1>1. /\ modelID' = [modelID EXCEPT ![c] = NoModel]
      /\ caps' = [caps EXCEPT ![c] = NoCaps]
  BY DEF ReleaseSlot
<1>2. \A d \in Calls : modelID'[d] = IF d = c THEN NoModel ELSE modelID[d]
  BY <1>1 DEF BaseInv, TypeOK
<1>3. Holders' = Holders \ {c}
  BY <1>2 DEF Holders
<1>4. \A m \in Models : HoldersOf(m)' = HoldersOf(m) \ {c}
  BY <1>2, ConstantsAssumption DEF HoldersOf
<1>5. \A d \in Calls \ {c} : caps'[d] = caps[d]
  BY <1>1 DEF BaseInv, TypeOK
<1>6. QED
  BY <1>2, <1>3, <1>4, <1>5

LEMMA NextAccounting == BaseInv /\ SlotAccounting /\ [Next]_vars => SlotAccounting'
<1> SUFFICES ASSUME BaseInv, SlotAccounting, [Next]_vars PROVE SlotAccounting'
  OBVIOUS
<1>1. ASSUME NEW c \in Calls, Claim(c) PROVE SlotAccounting'
  <2>1. PICK m \in Models :
          /\ perModel' = [perModel EXCEPT ![m] = @ + 1] /\ total' = total + 1
          /\ Holders' = Holders \cup {c} /\ c \notin Holders
          /\ HoldersOf(m)' = HoldersOf(m) \cup {c} /\ c \notin HoldersOf(m)
          /\ \A n \in Models \ {m} : HoldersOf(n)' = HoldersOf(n)
    BY <1>1, ClaimHolders
  <2>2. Cardinality(Holders') = Cardinality(Holders) + 1
    BY <2>1, HoldersFinite, FS_AddElement
  <2>3. Cardinality(HoldersOf(m)') = Cardinality(HoldersOf(m)) + 1
    BY <2>1, HoldersFinite, FS_AddElement
  <2>4. \A n \in Models : perModel'[n] = Cardinality(HoldersOf(n)')
    BY <2>1, <2>3 DEF SlotAccounting, BaseInv, TypeOK
  <2>5. QED
    BY <2>1, <2>2, <2>4 DEF SlotAccounting
<1>2. ASSUME NEW c \in Calls, ReleaseSlot(c) PROVE SlotAccounting'
  <2>1. CASE modelID[c] = NoModel
    <3>1. UNCHANGED <<perModel, total>>
      BY <1>2, <2>1 DEF ReleaseSlot, limiter
    <3>2. c \notin Holders /\ \A m \in Models : c \notin HoldersOf(m)
      BY <2>1, ConstantsAssumption DEF Holders, HoldersOf
    <3>3. Holders' = Holders /\ \A m \in Models : HoldersOf(m)' = HoldersOf(m)
      BY <1>2, <3>2, ReleaseHolders
    <3>4. QED
      BY <3>1, <3>3 DEF SlotAccounting
  <2>2. CASE modelID[c] # NoModel
    <3>1. PICK m \in Models : m = modelID[c]
      BY <2>2 DEF BaseInv, TypeOK
    <3>2. /\ perModel' = [perModel EXCEPT ![m] = IF @ <= 1 THEN 0 ELSE @ - 1]
          /\ total' = IF total > 0 THEN total - 1 ELSE 0
      BY <1>2, <2>2, <3>1 DEF ReleaseSlot, release
    <3>3. c \in Holders /\ c \in HoldersOf(m)
      BY <2>2, <3>1 DEF Holders, HoldersOf
    <3>4. Cardinality(Holders') = Cardinality(Holders) - 1 /\ Cardinality(Holders) > 0
      BY <1>2, <3>3, ReleaseHolders, HoldersFinite, FS_RemoveElement, FS_EmptySet
    <3>5. /\ Cardinality(HoldersOf(m)') = Cardinality(HoldersOf(m)) - 1
          /\ Cardinality(HoldersOf(m)) > 0
      BY <1>2, <3>1, <3>3, ReleaseHolders, HoldersFinite, FS_RemoveElement, FS_EmptySet
    <3>6. \A n \in Models \ {m} : c \notin HoldersOf(n)
      BY <3>1 DEF HoldersOf
    <3>7. \A n \in Models \ {m} : HoldersOf(n)' = HoldersOf(n)
      BY <1>2, <3>6, ReleaseHolders
    <3>8. perModel'[m] = Cardinality(HoldersOf(m)')
      BY <3>2, <3>5, HoldersFinite DEF SlotAccounting, BaseInv, TypeOK
    <3>9. total' = Cardinality(Holders')
      BY <3>2, <3>4, HoldersFinite DEF SlotAccounting, BaseInv, TypeOK
    <3>10. \A n \in Models \ {m} : perModel'[n] = Cardinality(HoldersOf(n)')
      BY <3>2, <3>7 DEF SlotAccounting, BaseInv, TypeOK
    <3>11. QED
      BY <3>8, <3>9, <3>10 DEF SlotAccounting
  <2>3. QED
    BY <2>1, <2>2
<1>3. CASE SlotsStay
  BY <1>3 DEF SlotsStay, SlotAccounting, Holders, HoldersOf
<1>4. QED
  BY <1>1, <1>2, <1>3, SlotSteps

LEMMA InitAccounting == Init => SlotAccounting
<1> SUFFICES ASSUME Init PROVE SlotAccounting
  OBVIOUS
<1>1. Holders = {} /\ \A m \in Models : HoldersOf(m) = {}
  BY ConstantsAssumption DEF Init, Holders, HoldersOf
<1>2. QED
  BY <1>1, FS_EmptySet DEF Init, SlotAccounting

(* Limiter.perModel and Limiter.total are exactly the calls that hold a    *)
(* slot, in every reachable state.                                         *)
THEOREM CountsAreExact == Spec => []SlotAccounting
  BY InitBase, NextBase, InitAccounting, NextAccounting, PTL DEF Spec

-----------------------------------------------------------------------------
(* The ceilings                                                            *)

CallsOf(m, k) == {c \in HoldersOf(m) : caps[c].model \in 1..k}
CallsUnder(k) == {c \in Holders : caps[c].machine \in 1..k}

LEMMA BoundedSubset ==
  ASSUME NEW S, IsFiniteSet(S), NEW T \in SUBSET S, NEW k \in Nat, Cardinality(S) <= k
  PROVE  IsFiniteSet(T) /\ Cardinality(T) <= k
BY FS_Subset, FS_CardinalityType

(* A holder that joins under a ceiling of k or less found fewer than k     *)
(* before it; one that joins under a larger ceiling is not counted at k.   *)
LEMMA NextCeilings ==
  BaseInv /\ SlotAccounting /\ CallsAreUnderCeilings /\ [Next]_vars => CallsAreUnderCeilings'
<1> SUFFICES ASSUME BaseInv, SlotAccounting, CallsAreUnderCeilings, [Next]_vars PROVE CallsAreUnderCeilings'
  OBVIOUS
<1> DEFINE N == Cardinality(Calls)
<1>a. N \in Nat
  BY ConstantsAssumption, FS_CardinalityType
<1>b. /\ \A m \in Models : \A k \in 1..N : Cardinality(CallsOf(m, k)) <= k
      /\ \A k \in 1..N : Cardinality(CallsUnder(k)) <= k
  BY DEF CallsAreUnderCeilings, ModelCeiling, MachineCeiling, CallsOf, CallsUnder
<1>c. SUFFICES ASSUME NEW k \in 1..N
               PROVE  /\ \A m \in Models : Cardinality(CallsOf(m, k)') <= k
                      /\ Cardinality(CallsUnder(k)') <= k
  BY DEF CallsAreUnderCeilings, ModelCeiling, MachineCeiling, CallsOf, CallsUnder
<1>d. k \in Nat
  BY <1>a
<1>e. /\ \A m \in Models : IsFiniteSet(CallsOf(m, k))
      /\ IsFiniteSet(CallsUnder(k))
  <2>1. /\ \A m \in Models : CallsOf(m, k) \subseteq Calls
        /\ CallsUnder(k) \subseteq Calls
    BY DEF CallsOf, CallsUnder, HoldersOf, Holders
  <2>2. QED
    BY <2>1, ConstantsAssumption, FS_Subset
<1>1. ASSUME NEW c \in Calls, Claim(c)
      PROVE  /\ \A m \in Models : Cardinality(CallsOf(m, k)') <= k
             /\ Cardinality(CallsUnder(k)') <= k
  <2>1. PICK m \in Models :
          /\ tryAcquire(m, caps[c]) /\ caps' = caps
          /\ Holders' = Holders \cup {c} /\ c \notin Holders
          /\ HoldersOf(m)' = HoldersOf(m) \cup {c} /\ c \notin HoldersOf(m)
          /\ \A n \in Models \ {m} : HoldersOf(n)' = HoldersOf(n)
    BY <1>1, ClaimHolders
  <2>2. caps[c].model \in Nat /\ caps[c].machine \in Nat
    BY DEF BaseInv, TypeOK
  <2>3. Cardinality(CallsOf(m, k)') <= k
    <3>1. CASE caps[c].model \in 1..k
      <4>1. Cardinality(HoldersOf(m)) < k
        BY <2>1, <2>2, <3>1, <1>d DEF tryAcquire, SlotAccounting, BaseInv, TypeOK
      <4>a. /\ IsFiniteSet(HoldersOf(m)')
            /\ Cardinality(HoldersOf(m)') = Cardinality(HoldersOf(m)) + 1
        BY <2>1, HoldersFinite, FS_AddElement
      <4>2. IsFiniteSet(HoldersOf(m)') /\ Cardinality(HoldersOf(m)') <= k
        BY <4>a, <4>1, <1>d, HoldersFinite
      <4>3. CallsOf(m, k)' \subseteq HoldersOf(m)'
        BY DEF CallsOf
      <4>4. QED
        BY <4>2, <4>3, <1>d, BoundedSubset
    <3>2. CASE caps[c].model \notin 1..k
      <4>1. CallsOf(m, k)' = CallsOf(m, k)
        BY <2>1, <3>2 DEF CallsOf
      <4>2. QED
        BY <4>1, <1>b
    <3>3. QED
      BY <3>1, <3>2
  <2>4. ASSUME NEW n \in Models \ {m} PROVE Cardinality(CallsOf(n, k)') <= k
    <3>1. CallsOf(n, k)' = CallsOf(n, k)
      BY <2>1 DEF CallsOf
    <3>2. QED
      BY <3>1, <1>b
  <2>5. Cardinality(CallsUnder(k)') <= k
    <3>1. CASE caps[c].machine \in 1..k
      <4>1. Cardinality(Holders) < k
        BY <2>1, <2>2, <3>1, <1>d DEF tryAcquire, SlotAccounting, BaseInv, TypeOK
      <4>a. /\ IsFiniteSet(Holders')
            /\ Cardinality(Holders') = Cardinality(Holders) + 1
        BY <2>1, HoldersFinite, FS_AddElement
      <4>2. IsFiniteSet(Holders') /\ Cardinality(Holders') <= k
        BY <4>a, <4>1, <1>d, HoldersFinite
      <4>3. CallsUnder(k)' \subseteq Holders'
        BY DEF CallsUnder
      <4>4. QED
        BY <4>2, <4>3, <1>d, BoundedSubset
    <3>2. CASE caps[c].machine \notin 1..k
      <4>1. CallsUnder(k)' = CallsUnder(k)
        BY <2>1, <3>2 DEF CallsUnder
      <4>2. QED
        BY <4>1, <1>b
    <3>3. QED
      BY <3>1, <3>2
  <2>6. QED
    BY <2>3, <2>4, <2>5
<1>2. ASSUME /\ \A m \in Models : HoldersOf(m)' \subseteq HoldersOf(m)
             /\ Holders' \subseteq Holders
             /\ \A d \in Holders' : caps'[d] = caps[d]
      PROVE  /\ \A m \in Models : Cardinality(CallsOf(m, k)') <= k
             /\ Cardinality(CallsUnder(k)') <= k
  <2>1. \A m \in Models : HoldersOf(m)' \subseteq Holders'
    BY ConstantsAssumption DEF HoldersOf, Holders
  <2>2. /\ \A m \in Models : CallsOf(m, k)' \subseteq CallsOf(m, k)
        /\ CallsUnder(k)' \subseteq CallsUnder(k)
    BY <1>2, <2>1 DEF CallsOf, CallsUnder
  <2>3. QED
    BY <2>2, <1>b, <1>d, <1>e, BoundedSubset
<1>3. ASSUME NEW c \in Calls, ReleaseSlot(c)
      PROVE  /\ \A m \in Models : Cardinality(CallsOf(m, k)') <= k
             /\ Cardinality(CallsUnder(k)') <= k
  <2>1. \A d \in Holders' : caps'[d] = caps[d]
    BY <1>3, ReleaseHolders DEF Holders
  <2>2. QED
    BY <1>2, <1>3, <2>1, ReleaseHolders
<1>4. ASSUME SlotsStay
      PROVE  /\ \A m \in Models : Cardinality(CallsOf(m, k)') <= k
             /\ Cardinality(CallsUnder(k)') <= k
  BY <1>2, <1>4 DEF SlotsStay, Holders, HoldersOf
<1>5. QED
  BY <1>1, <1>3, <1>4, SlotSteps

LEMMA InitCeilings == Init => CallsAreUnderCeilings
<1> SUFFICES ASSUME Init PROVE CallsAreUnderCeilings
  OBVIOUS
<1>1. /\ \A m \in Models, k \in Nat : {c \in HoldersOf(m) : caps[c].model \in 1..k} = {}
      /\ \A k \in Nat : {c \in Holders : caps[c].machine \in 1..k} = {}
  BY ConstantsAssumption DEF Init, Holders, HoldersOf
<1>2. Cardinality(Calls) \in Nat
  BY ConstantsAssumption, FS_CardinalityType
<1>3. \A k \in 1..Cardinality(Calls) : k \in Nat /\ Cardinality({}) <= k
  BY <1>2, FS_EmptySet
<1>4. ModelCeiling
  BY <1>1, <1>3 DEF ModelCeiling
<1>5. MachineCeiling
  BY <1>1, <1>3 DEF MachineCeiling
<1>6. QED
  BY <1>4, <1>5 DEF CallsAreUnderCeilings

(* Both ceilings hold however the owner's numbers move while calls run.    *)
THEOREM CeilingsAreHeld == Spec => []CeilingsHold
<1>1. BaseInv /\ SlotAccounting /\ CallsAreUnderCeilings /\ [Next]_vars => CallsAreUnderCeilings'
  BY NextCeilings
<1>2. BaseInv /\ CallsAreUnderCeilings => CeilingsHold
  BY DEF BaseInv, CeilingsHold
<1>3. QED
  BY InitBase, NextBase, InitAccounting, NextAccounting, InitCeilings, <1>1, <1>2, PTL DEF Spec

-----------------------------------------------------------------------------
(* Waiting, cancelling, aborting                                           *)

(* What a waiter asleep on an open channel, or about to be, knows.         *)
WaiterInv == BaseInv /\ NoLostWakeup

LEMMA NextWaiter == WaiterInv /\ [Next]_vars => NoLostWakeup'
<1> SUFFICES ASSUME WaiterInv, [Next]_vars PROVE NoLostWakeup'
  OBVIOUS
<1> USE DEF WaiterInv, NoLostWakeup, BaseInv, TypeOK, StepOK, Owning, Requests, limiter
<1>1. ASSUME NEW c \in Calls, NEW r \in Requests, Start(c, r) PROVE NoLostWakeup'
  BY <1>1 DEF Start, tryAcquire
<1>2. ASSUME NEW h \in Homes, StopAll(h) PROVE NoLostWakeup'
  BY <1>2 DEF StopAll, abortAll, tryAcquire
<1>3. ASSUME NEW h \in Homes, NEW i \in Ids, Cancel(h, i) PROVE NoLostWakeup'
  BY <1>3 DEF Cancel, abortAll, tryAcquire
<1>4. ASSUME NEW c \in Calls, Resolution(c) PROVE NoLostWakeup'
  <2>1. CASE ResolveNotOffered(c)
    BY <2>1 DEF ResolveNotOffered, SendEnd, tryAcquire
  <2>2. CASE ResolveRefused(c)
    BY <2>2 DEF ResolveRefused, SendEnd, tryAcquire
  <2>3. CASE Resolve(c)
    BY <2>3 DEF Resolve, tryAcquire
  <2>4. QED
    BY <1>4, <2>1, <2>2, <2>3 DEF Resolution
<1>5. ASSUME NEW c \in Calls, Claim(c) PROVE NoLostWakeup'
  (* Counts only grow, so what was full stays full.                        *)
  <2>1. PICK m \in Models : m = req[c].model
    BY <1>5 DEF Claim
  <2>2. /\ perModel' = [perModel EXCEPT ![m] = @ + 1] /\ total' = total + 1
        /\ pc' = [pc EXCEPT ![c] = "running"] /\ freed' = [freed EXCEPT ![c] = "none"]
        /\ UNCHANGED <<req, caps>>
    BY <1>5, <2>1 DEF Claim, claim
  <2>3. SUFFICES ASSUME NEW d \in Calls \ {c}, pc[d] = "parked", freed[d] = "open"
                 PROVE  ~tryAcquire(req[d].model, caps[d])'
    BY <2>2
  <2>4. ~tryAcquire(req[d].model, caps[d])
    BY <2>3
  <2>5. req[d].model \in Models /\ caps[d].model \in Nat /\ caps[d].machine \in Nat
    BY <2>3
  <2>6. QED
    BY <2>2, <2>4, <2>5 DEF tryAcquire
<1>6. ASSUME NEW c \in Calls, ClaimFull(c) PROVE NoLostWakeup'
  BY <1>6 DEF ClaimFull, tryAcquire
<1>7. ASSUME NEW c \in Calls, Watch(c) PROVE NoLostWakeup'
  BY <1>7 DEF Watch, tryAcquire
<1>8. ASSUME NEW c \in Calls, Wake(c) PROVE NoLostWakeup'
  BY <1>8 DEF Wake, tryAcquire
<1>9. ASSUME NEW c \in Calls, WaitAborted(c) PROVE NoLostWakeup'
  BY <1>9 DEF WaitAborted, SendEnd, tryAcquire
<1>10. ASSUME NEW c \in Calls, Keepalive(c) PROVE NoLostWakeup'
  BY <1>10 DEF Keepalive, tryAcquire
<1>11. ASSUME NEW c \in Calls, WaitStreamGone(c) \/ WaitDeadline(c) PROVE NoLostWakeup'
  BY <1>11 DEF WaitStreamGone, WaitDeadline, SendEnd, tryAcquire
<1>12. ASSUME NEW c \in Calls, RuntimeReturns(c) PROVE NoLostWakeup'
  BY <1>12 DEF RuntimeReturns, tryAcquire
<1>13. ASSUME NEW c \in Calls, WatchdogIdle(c) \/ WatchdogStreamGone(c) \/ CtxDeadline(c)
       PROVE NoLostWakeup'
  BY <1>13 DEF WatchdogIdle, WatchdogStreamGone, CtxDeadline, abortAll, tryAcquire
<1>14. ASSUME NEW c \in Calls, EndOK(c) \/ EndError(c) \/ ReleaseLive(c) PROVE NoLostWakeup'
  BY <1>14 DEF EndOK, EndError, ReleaseLive, SendEnd, tryAcquire
<1>15. ASSUME NEW c \in Calls, ReleaseSlot(c) PROVE NoLostWakeup'
  <2>1. CASE modelID[c] # NoModel
    BY <1>15, <2>1 DEF ReleaseSlot, release
  <2>2. CASE modelID[c] = NoModel
    BY <1>15, <2>2 DEF ReleaseSlot, tryAcquire
  <2>3. QED
    BY <2>1, <2>2
<1>16. CASE InventoryChanges
  BY <1>16 DEF InventoryChanges, tryAcquire
<1>17. CASE UNCHANGED vars
  BY <1>17 DEF vars, tryAcquire
<1>18. QED
  BY <1>1, <1>2, <1>3, <1>4, <1>5, <1>6, <1>7, <1>8, <1>9, <1>10, <1>11, <1>12, <1>13,
     <1>14, <1>15, <1>16, <1>17 DEF Next, Admission, Ending

(* No release is missed: a call asleep on an open channel has no slot it   *)
(* could take, so the broadcast of Limiter.release loses no wakeup.        *)
THEOREM WakeupsAreNotLost == Spec => []NoLostWakeup
<1>1. Init => NoLostWakeup
  BY DEF Init, NoLostWakeup
<1>2. BaseInv /\ NoLostWakeup /\ [Next]_vars => NoLostWakeup'
  BY NextWaiter DEF WaiterInv
<1>3. QED
  BY InitBase, NextBase, <1>1, <1>2, PTL DEF Spec

(* Manager.live holds a call, under its own home and id, exactly from      *)
(* Start to its release.                                                   *)
LEMMA NextLive == BaseInv /\ LiveIsExact /\ [Next]_vars => LiveIsExact'
<1> SUFFICES ASSUME BaseInv, LiveIsExact, [Next]_vars PROVE LiveIsExact'
  OBVIOUS
<1> USE ConstantsAssumption DEF BaseInv, TypeOK, StepOK, Steps, Registered, Requests, LiveIsExact
<1>1. ASSUME NEW c \in Calls, NEW r \in Requests, Start(c, r) PROVE LiveIsExact'
  BY <1>1 DEF Start
<1>2. ASSUME NEW h \in Homes, StopAll(h) PROVE LiveIsExact'
  BY <1>2 DEF StopAll, abortAll
<1>3. ASSUME NEW h \in Homes, NEW i \in Ids, Cancel(h, i) PROVE LiveIsExact'
  BY <1>3 DEF Cancel, abortAll
<1>4. ASSUME NEW c \in Calls, ResolveNotOffered(c) PROVE LiveIsExact'
  BY <1>4 DEF ResolveNotOffered, SendEnd
<1>5. ASSUME NEW c \in Calls, ResolveRefused(c) PROVE LiveIsExact'
  BY <1>5 DEF ResolveRefused, SendEnd
<1>6. ASSUME NEW c \in Calls, Resolve(c) PROVE LiveIsExact'
  BY <1>6 DEF Resolve
<1>7. ASSUME NEW c \in Calls, Claim(c) PROVE LiveIsExact'
  BY <1>7 DEF Claim, claim
<1>8. ASSUME NEW c \in Calls, ClaimFull(c) PROVE LiveIsExact'
  BY <1>8 DEF ClaimFull
<1>9. ASSUME NEW c \in Calls, Watch(c) PROVE LiveIsExact'
  BY <1>9 DEF Watch
<1>10. ASSUME NEW c \in Calls, Wake(c) PROVE LiveIsExact'
  BY <1>10 DEF Wake
<1>11. ASSUME NEW c \in Calls, WaitAborted(c) PROVE LiveIsExact'
  BY <1>11 DEF WaitAborted, SendEnd
<1>12. ASSUME NEW c \in Calls, Keepalive(c) PROVE LiveIsExact'
  BY <1>12 DEF Keepalive
<1>13. ASSUME NEW c \in Calls, WaitStreamGone(c) PROVE LiveIsExact'
  BY <1>13 DEF WaitStreamGone, SendEnd
<1>14. ASSUME NEW c \in Calls, WaitDeadline(c) PROVE LiveIsExact'
  BY <1>14 DEF WaitDeadline, SendEnd
<1>15. ASSUME NEW c \in Calls, RuntimeReturns(c) PROVE LiveIsExact'
  BY <1>15 DEF RuntimeReturns
<1>16. ASSUME NEW c \in Calls, WatchdogIdle(c) PROVE LiveIsExact'
  BY <1>16 DEF WatchdogIdle, abortAll
<1>17. ASSUME NEW c \in Calls, WatchdogStreamGone(c) PROVE LiveIsExact'
  BY <1>17 DEF WatchdogStreamGone
<1>18. ASSUME NEW c \in Calls, CtxDeadline(c) PROVE LiveIsExact'
  BY <1>18 DEF CtxDeadline
<1>19. ASSUME NEW c \in Calls, EndOK(c) PROVE LiveIsExact'
  BY <1>19 DEF EndOK, SendEnd
<1>20. ASSUME NEW c \in Calls, EndError(c) PROVE LiveIsExact'
  BY <1>20 DEF EndError, SendEnd
<1>21. ASSUME NEW c \in Calls, ReleaseLive(c) PROVE LiveIsExact'
  BY <1>21 DEF ReleaseLive
<1>22. ASSUME NEW c \in Calls, ReleaseSlot(c) PROVE LiveIsExact'
  BY <1>22 DEF ReleaseSlot
<1>23. CASE InventoryChanges
  BY <1>23 DEF InventoryChanges
<1>24. CASE UNCHANGED vars
  BY <1>24 DEF vars
<1>25. QED
  BY <1>1, <1>2, <1>3, <1>4, <1>5, <1>6, <1>7, <1>8, <1>9, <1>10, <1>11, <1>12,
     <1>13, <1>14, <1>15, <1>16, <1>17, <1>18, <1>19, <1>20, <1>21, <1>22,
     <1>23, <1>24
     DEF Next, Resolution, Admission, Ending

(* A Cancel that follows a Start finds the call, and no other.             *)
THEOREM LiveCallsAreFound == Spec => []LiveIsExact
<1>1. Init => LiveIsExact
  BY ConstantsAssumption DEF Init, LiveIsExact, Registered
<1>2. QED
  BY InitBase, NextBase, <1>1, NextLive, PTL DEF Spec

LEMMA StepTellsAbort == ASSUME BaseInv, Next, NEW d \in Calls PROVE AbortTold(d)
<1> USE DEF BaseInv, TypeOK, StepOK, AbortTold, limiter
<1>1. ASSUME NEW c \in Calls, NEW r \in Requests, Start(c, r) PROVE AbortTold(d)
  BY <1>1 DEF Start
<1>2. ASSUME NEW h \in Homes, StopAll(h) PROVE AbortTold(d)
  BY <1>2 DEF StopAll, abortAll
<1>3. ASSUME NEW h \in Homes, NEW i \in Ids, Cancel(h, i) PROVE AbortTold(d)
  BY <1>3 DEF Cancel, abortAll
<1>4. ASSUME NEW c \in Calls, ResolveNotOffered(c) PROVE AbortTold(d)
  BY <1>4 DEF ResolveNotOffered, SendEnd
<1>5. ASSUME NEW c \in Calls, ResolveRefused(c) PROVE AbortTold(d)
  BY <1>5 DEF ResolveRefused, SendEnd
<1>6. ASSUME NEW c \in Calls, Resolve(c) PROVE AbortTold(d)
  BY <1>6 DEF Resolve
<1>7. ASSUME NEW c \in Calls, Claim(c) PROVE AbortTold(d)
  BY <1>7 DEF Claim, claim
<1>8. ASSUME NEW c \in Calls, ClaimFull(c) PROVE AbortTold(d)
  BY <1>8 DEF ClaimFull
<1>9. ASSUME NEW c \in Calls, Watch(c) PROVE AbortTold(d)
  BY <1>9 DEF Watch
<1>10. ASSUME NEW c \in Calls, Wake(c) PROVE AbortTold(d)
  BY <1>10 DEF Wake
<1>11. ASSUME NEW c \in Calls, WaitAborted(c) PROVE AbortTold(d)
  BY <1>11 DEF WaitAborted, SendEnd, classify
<1>12. ASSUME NEW c \in Calls, Keepalive(c) PROVE AbortTold(d)
  BY <1>12 DEF Keepalive
<1>13. ASSUME NEW c \in Calls, WaitStreamGone(c) PROVE AbortTold(d)
  BY <1>13 DEF WaitStreamGone, SendEnd
<1>14. ASSUME NEW c \in Calls, WaitDeadline(c) PROVE AbortTold(d)
  BY <1>14 DEF WaitDeadline, SendEnd
<1>15. ASSUME NEW c \in Calls, RuntimeReturns(c) PROVE AbortTold(d)
  BY <1>15 DEF RuntimeReturns
<1>16. ASSUME NEW c \in Calls, WatchdogIdle(c) PROVE AbortTold(d)
  BY <1>16 DEF WatchdogIdle, abortAll
<1>17. ASSUME NEW c \in Calls, WatchdogStreamGone(c) PROVE AbortTold(d)
  BY <1>17 DEF WatchdogStreamGone
<1>18. ASSUME NEW c \in Calls, CtxDeadline(c) PROVE AbortTold(d)
  BY <1>18 DEF CtxDeadline
<1>19. ASSUME NEW c \in Calls, EndOK(c) PROVE AbortTold(d)
  BY <1>19 DEF EndOK, SendEnd
<1>20. ASSUME NEW c \in Calls, EndError(c) PROVE AbortTold(d)
  BY <1>20 DEF EndError, SendEnd, classify
<1>21. ASSUME NEW c \in Calls, ReleaseLive(c) PROVE AbortTold(d)
  BY <1>21 DEF ReleaseLive
<1>22. ASSUME NEW c \in Calls, ReleaseSlot(c) PROVE AbortTold(d)
  BY <1>22 DEF ReleaseSlot
<1>23. ASSUME InventoryChanges PROVE AbortTold(d)
  BY <1>23 DEF InventoryChanges
<1>24. QED
  BY <1>1, <1>2, <1>3, <1>4, <1>5, <1>6, <1>7, <1>8, <1>9, <1>10, <1>11, <1>12,
     <1>13, <1>14, <1>15, <1>16, <1>17, <1>18, <1>19, <1>20, <1>21, <1>22,
     <1>23
     DEF Next, Resolution, Admission, Ending

(* The End of an aborted call names its first abort, in every behaviour.   *)
THEOREM FirstAbortWins == Spec => FirstAbortIsTold
<1>1. BaseInv /\ [Next]_vars => [AbortsTold]_vars
  <2>1. ASSUME BaseInv, Next PROVE \A c \in Calls : AbortTold(c)
    <3> TAKE c \in Calls
    <3> QED
      BY <2>1, StepTellsAbort
  <2>2. QED
    BY <2>1 DEF AbortsTold
<1>2. QED
  BY InitBase, NextBase, <1>1, PTL DEF Spec, FirstAbortIsTold

-----------------------------------------------------------------------------
(* ModelCalls implements RationedCalls                                     *)

(* A call that may still claim carries ceilings some inventory told it.    *)
CapsOK == \A c \in Calls : pc[c] \in Waiting => caps[c] \in Ceilings

LEMMA NextCaps == BaseInv /\ CapsOK /\ [Next]_vars => CapsOK'
<1> SUFFICES ASSUME BaseInv, CapsOK, [Next]_vars PROVE CapsOK'
  OBVIOUS
<1> USE DEF BaseInv, TypeOK, StepOK, Steps, Registered, Waiting, Requests, CapsOK
<1>1. ASSUME NEW c \in Calls, NEW r \in Requests, Start(c, r) PROVE CapsOK'
  BY <1>1 DEF Start
<1>2. ASSUME NEW h \in Homes, StopAll(h) PROVE CapsOK'
  BY <1>2 DEF StopAll, abortAll
<1>3. ASSUME NEW h \in Homes, NEW i \in Ids, Cancel(h, i) PROVE CapsOK'
  BY <1>3 DEF Cancel, abortAll
<1>4. ASSUME NEW c \in Calls, ResolveNotOffered(c) PROVE CapsOK'
  BY <1>4 DEF ResolveNotOffered, SendEnd
<1>5. ASSUME NEW c \in Calls, ResolveRefused(c) PROVE CapsOK'
  BY <1>5 DEF ResolveRefused, SendEnd
<1>6. ASSUME NEW c \in Calls, Resolve(c) PROVE CapsOK'
  BY <1>6 DEF Resolve, Ceilings
<1>7. ASSUME NEW c \in Calls, Claim(c) PROVE CapsOK'
  BY <1>7 DEF Claim, claim
<1>8. ASSUME NEW c \in Calls, ClaimFull(c) PROVE CapsOK'
  BY <1>8 DEF ClaimFull
<1>9. ASSUME NEW c \in Calls, Watch(c) PROVE CapsOK'
  BY <1>9 DEF Watch
<1>10. ASSUME NEW c \in Calls, Wake(c) PROVE CapsOK'
  BY <1>10 DEF Wake
<1>11. ASSUME NEW c \in Calls, WaitAborted(c) PROVE CapsOK'
  BY <1>11 DEF WaitAborted, SendEnd
<1>12. ASSUME NEW c \in Calls, Keepalive(c) PROVE CapsOK'
  BY <1>12 DEF Keepalive
<1>13. ASSUME NEW c \in Calls, WaitStreamGone(c) PROVE CapsOK'
  BY <1>13 DEF WaitStreamGone, SendEnd
<1>14. ASSUME NEW c \in Calls, WaitDeadline(c) PROVE CapsOK'
  BY <1>14 DEF WaitDeadline, SendEnd
<1>15. ASSUME NEW c \in Calls, RuntimeReturns(c) PROVE CapsOK'
  BY <1>15 DEF RuntimeReturns
<1>16. ASSUME NEW c \in Calls, WatchdogIdle(c) PROVE CapsOK'
  BY <1>16 DEF WatchdogIdle, abortAll
<1>17. ASSUME NEW c \in Calls, WatchdogStreamGone(c) PROVE CapsOK'
  BY <1>17 DEF WatchdogStreamGone
<1>18. ASSUME NEW c \in Calls, CtxDeadline(c) PROVE CapsOK'
  BY <1>18 DEF CtxDeadline
<1>19. ASSUME NEW c \in Calls, EndOK(c) PROVE CapsOK'
  BY <1>19 DEF EndOK, SendEnd
<1>20. ASSUME NEW c \in Calls, EndError(c) PROVE CapsOK'
  BY <1>20 DEF EndError, SendEnd
<1>21. ASSUME NEW c \in Calls, ReleaseLive(c) PROVE CapsOK'
  BY <1>21 DEF ReleaseLive
<1>22. ASSUME NEW c \in Calls, ReleaseSlot(c) PROVE CapsOK'
  BY <1>22 DEF ReleaseSlot
<1>23. CASE InventoryChanges
  BY <1>23 DEF InventoryChanges
<1>24. CASE UNCHANGED vars
  BY <1>24 DEF vars
<1>25. QED
  BY <1>1, <1>2, <1>3, <1>4, <1>5, <1>6, <1>7, <1>8, <1>9, <1>10, <1>11, <1>12,
     <1>13, <1>14, <1>15, <1>16, <1>17, <1>18, <1>19, <1>20, <1>21, <1>22,
     <1>23, <1>24
     DEF Next, Resolution, Admission, Ending

(* Every step of the machine admits, loses or accepts one call as the      *)
(* abstract ceiling allows, or is invisible to it.                         *)
InFlight == {c \in Calls : pc[c] # "idle"}

LEMMA RefinesNext ==
  BaseInv /\ SlotAccounting /\ CapsOK /\ [Next]_vars => [Rationed!Next]_<<modelID, InFlight>>
<1> SUFFICES ASSUME BaseInv, SlotAccounting, CapsOK, [Next]_vars
             PROVE  [Rationed!Next]_<<modelID, InFlight>>
  OBVIOUS
<1>1. ASSUME NEW c \in Calls, NEW r \in Requests, Start(c, r)
      PROVE  Rationed!Next
  <2>1. Rationed!Arrive(c)
    BY <1>1 DEF Start, Rationed!Arrive, BaseInv, TypeOK
  <2>2. QED
    BY <2>1 DEF Rationed!Next
<1>2. ASSUME NEW c \in Calls, Claim(c) PROVE Rationed!Next
  <2>1. PICK m \in Models :
          /\ m = req[c].model /\ modelID[c] = NoModel /\ tryAcquire(m, caps[c])
    BY <1>2, ClaimHolders
  <2>2. PICK cap \in Ceilings : cap = caps[c]
    BY <1>2 DEF CapsOK, Claim, Waiting
  <2>3. cap.model \in Nat /\ cap.machine \in Nat
    BY <2>2 DEF BaseInv, TypeOK
  <2>4. /\ modelID' = [modelID EXCEPT ![c] = m]
        /\ InFlight' = InFlight /\ c \in InFlight
    BY <1>2, <2>1 DEF Claim, claim, InFlight, BaseInv, TypeOK
  <2>5. cap.model = 0 \/ Cardinality(HoldersOf(m)) < cap.model
    BY <2>1, <2>2, <2>3, HoldersFinite DEF tryAcquire, SlotAccounting
  <2>6. cap.machine = 0 \/ Cardinality(Holders) < cap.machine
    BY <2>1, <2>2, <2>3, HoldersFinite DEF tryAcquire, SlotAccounting
  <2>a. Rationed!Holders = Holders /\ Rationed!HoldersOf(m) = HoldersOf(m)
    BY DEF Rationed!Holders, Rationed!HoldersOf, Holders, HoldersOf
  <2>b. /\ Rationed!Cardinality(HoldersOf(m)) = Cardinality(HoldersOf(m))
        /\ Rationed!Cardinality(Holders) = Cardinality(Holders)
    BY Zenon DEF Rationed!Cardinality, Cardinality, Rationed!IsFiniteSet, IsFiniteSet
  <2>7. Rationed!Admit(c, m, cap)
    BY <2>1, <2>4, <2>5, <2>6, <2>a, <2>b DEF Rationed!Admit, InFlight
  <2>8. QED
    BY <2>7 DEF Rationed!Next
<1>3. ASSUME NEW c \in Calls, ReleaseSlot(c) PROVE Rationed!Next
  <2>1. Rationed!Leave(c)
    BY <1>3 DEF ReleaseSlot, Rationed!Leave, BaseInv, TypeOK
  <2>2. QED
    BY <2>1 DEF Rationed!Next
<1> DEFINE Stays == UNCHANGED <<modelID, InFlight>>
<1>4. ASSUME NEW h \in Homes, StopAll(h) PROVE Stays
  BY <1>4 DEF StopAll, abortAll, InFlight
<1>5. ASSUME NEW h \in Homes, NEW i \in Ids, Cancel(h, i) PROVE Stays
  BY <1>5 DEF Cancel, abortAll, InFlight
<1>6. ASSUME NEW c \in Calls, ResolveNotOffered(c) PROVE Stays
  BY <1>6 DEF ResolveNotOffered, SendEnd, InFlight, limiter, BaseInv, TypeOK
<1>7. ASSUME NEW c \in Calls, ResolveRefused(c) PROVE Stays
  BY <1>7 DEF ResolveRefused, SendEnd, InFlight, limiter, BaseInv, TypeOK
<1>8. ASSUME NEW c \in Calls, Resolve(c) PROVE Stays
  BY <1>8 DEF Resolve, InFlight, limiter, BaseInv, TypeOK
<1>9. ASSUME NEW c \in Calls, ClaimFull(c) PROVE Stays
  BY <1>9 DEF ClaimFull, InFlight, limiter, BaseInv, TypeOK
<1>10. ASSUME NEW c \in Calls, Watch(c) PROVE Stays
  BY <1>10 DEF Watch, InFlight, limiter, BaseInv, TypeOK
<1>11. ASSUME NEW c \in Calls, Wake(c) PROVE Stays
  BY <1>11 DEF Wake, InFlight, limiter, BaseInv, TypeOK
<1>12. ASSUME NEW c \in Calls, WaitAborted(c) PROVE Stays
  BY <1>12 DEF WaitAborted, SendEnd, InFlight, limiter, BaseInv, TypeOK
<1>13. ASSUME NEW c \in Calls, Keepalive(c) PROVE Stays
  BY <1>13 DEF Keepalive, InFlight, limiter, BaseInv, TypeOK
<1>14. ASSUME NEW c \in Calls, WaitStreamGone(c) PROVE Stays
  BY <1>14 DEF WaitStreamGone, SendEnd, InFlight, limiter, BaseInv, TypeOK
<1>15. ASSUME NEW c \in Calls, WaitDeadline(c) PROVE Stays
  BY <1>15 DEF WaitDeadline, SendEnd, InFlight, limiter, BaseInv, TypeOK
<1>16. ASSUME NEW c \in Calls, RuntimeReturns(c) PROVE Stays
  BY <1>16 DEF RuntimeReturns, InFlight, limiter, BaseInv, TypeOK
<1>17. ASSUME NEW c \in Calls, WatchdogIdle(c) PROVE Stays
  BY <1>17 DEF WatchdogIdle, abortAll, InFlight, limiter, BaseInv, TypeOK
<1>18. ASSUME NEW c \in Calls, WatchdogStreamGone(c) PROVE Stays
  BY <1>18 DEF WatchdogStreamGone, InFlight, limiter, BaseInv, TypeOK
<1>19. ASSUME NEW c \in Calls, CtxDeadline(c) PROVE Stays
  BY <1>19 DEF CtxDeadline, InFlight, limiter, BaseInv, TypeOK
<1>20. ASSUME NEW c \in Calls, EndOK(c) PROVE Stays
  BY <1>20 DEF EndOK, SendEnd, InFlight, limiter, BaseInv, TypeOK
<1>21. ASSUME NEW c \in Calls, EndError(c) PROVE Stays
  BY <1>21 DEF EndError, SendEnd, InFlight, limiter, BaseInv, TypeOK
<1>22. ASSUME NEW c \in Calls, ReleaseLive(c) PROVE Stays
  BY <1>22 DEF ReleaseLive, InFlight, limiter, BaseInv, TypeOK
<1>23. ASSUME InventoryChanges PROVE Stays
  BY <1>23 DEF InventoryChanges, InFlight
<1>24. ASSUME UNCHANGED vars PROVE Stays
  BY <1>24 DEF vars, InFlight
<1>25. QED
  BY <1>1, <1>2, <1>3, <1>4, <1>5, <1>6, <1>7, <1>8, <1>9, <1>10, <1>11, <1>12,
     <1>13, <1>14, <1>15, <1>16, <1>17, <1>18, <1>19, <1>20, <1>21, <1>22,
     <1>23, <1>24
     DEF Next, Resolution, Admission, Ending

(* The counters, the queue of waiters and the broadcast channel implement  *)
(* the ceiling stated on the calls themselves.                             *)
THEOREM ModelCallsImplementsRationedCalls == Spec => ImplementsRationedCalls
<1>1. Init => Rationed!Init
  BY DEF Init, Rationed!Init
<1>2. Init => CapsOK
  BY DEF Init, CapsOK, Waiting
<1>3. QED
  BY InitBase, NextBase, InitAccounting, NextAccounting, NextCaps, RefinesNext, <1>1, <1>2, PTL
     DEF Spec, ImplementsRationedCalls, Rationed!Spec, InFlight

-----------------------------------------------------------------------------
(* The memory of the machine (HostResources)                               *)

(* A place that asks for nothing.                                          *)
LEMMA NoAskIsAsking == HostAssumption => NoAsk \in Askings
BY DEF HostAssumption, NoAsk, Askings, Places

(* Nothing is asked of the machine at first, and nothing is held.          *)
LEMMA InitHostInv == HostAssumption /\ HostInit => HostTypeOK /\ HostInv
<1> SUFFICES ASSUME HostAssumption, HostInit PROVE HostTypeOK /\ HostInv
  OBVIOUS
<1>1. HostTypeOK
  BY NoAskIsAsking DEF HostAssumption, HostInit, HostTypeOK
<1>2. HostInv
  BY DEF HostInit, HostInv, LoadedIsOnRecord, OnDemandRuns, SeatSays, Runners, NoAsk, Using
<1>3. QED
  BY <1>1, <1>2

(* No model, no units; and one model has as many units as it holds.        *)
LEMMA HeldOfNone ==
  ASSUME NEW S, \A m \in S : held[m] = 0
  PROVE  Held(S) = 0
<1>1. UNION {{m} \X (1..held[m]) : m \in S} = {}
  <2>1. \A m \in S : {m} \X (1..held[m]) = {}
    OBVIOUS
  <2>2. QED
    BY <2>1
<1>2. QED
  BY <1>1, FS_EmptySet DEF Held

(* One model alone holds what it has.                                      *)
LEMMA HeldOfOne ==
  ASSUME NEW S, NEW m \in S, held[m] \in Nat, \A n \in S \ {m} : held[n] = 0
  PROVE  Held(S) = held[m]
<1>1. UNION {{n} \X (1..held[n]) : n \in S} = {m} \X (1..held[m])
  <2>1. \A n \in S \ {m} : {n} \X (1..held[n]) = {}
    OBVIOUS
  <2>2. QED
    BY <2>1
<1>2. IsFiniteSet({m}) /\ Cardinality({m}) = 1
  BY FS_Singleton
<1>3. IsFiniteSet(1..held[m]) /\ Cardinality(1..held[m]) = held[m]
  BY FS_Interval
<1>4. Cardinality({m} \X (1..held[m])) = 1 * held[m]
  <2>1. Cardinality({m} \X (1..held[m])) = Cardinality({m}) * Cardinality(1..held[m])
    BY <1>2, <1>3, FS_Product, Zenon
  <2>2. QED
    BY <1>2, <1>3, <2>1
<1>5. QED
  BY <1>1, <1>4 DEF Held

(* What a step of another call does not take away from this one: what one  *)
(* that uses the machine has, no step of another changes, but to unload.   *)
LEMMA OthersStay ==
  ASSUME HostAssumption, HostTypeOK, HostTypeOK', NEW d \in Seats, SeatSays(d), ask'[d] = ask[d],
         ask[d].at \in Using =>
           lease' = lease /\ record' = record /\ \A m \in Runners : held'[m] <= held[m]
  PROVE  SeatSays(d)'
<1>1. CASE ask[d].at \notin Using
  BY <1>1 DEF SeatSays, Using, ToUnload
<1>2. CASE ask[d].at \in Using
  <2>0. \A m \in Runners : held[m] \in Nat /\ held'[m] \in Nat
    <3>1. WorkingSets \cup {0} \subseteq Nat
      BY DEF HostAssumption
    <3>2. held \in [Runners -> WorkingSets \cup {0}] /\ held' \in [Runners -> WorkingSets \cup {0}]
      BY DEF HostTypeOK
    <3>3. QED
      BY <3>1, <3>2
  <2>1. lease' = lease /\ record' = record /\ \A m \in Runners : held'[m] <= held[m]
    BY <1>2
  <2>2. CASE ask[d].at = "reclaim"
    BY <2>1, <2>2 DEF SeatSays, Using, HostTypeOK
  <2>3. CASE ask[d].at = "unloaded"
    <3>1. ask[d].old \in Runners
      BY <2>3 DEF SeatSays, Runners
    <3>2. QED
      BY <2>0, <2>1, <2>3, <3>1 DEF SeatSays, Using, HostTypeOK
  <2>4. CASE ask[d].at = "probed"
    <3>1. ask[d].model \in Runners /\ ask[d].free \in Nat /\ ask[d].seen \in Nat /\ Total \in Nat
      BY <2>4 DEF SeatSays, Using, HostTypeOK, Askings, HostAssumption
    <3>2. ToUnload(d)' = ToUnload(d)
      BY DEF ToUnload
    <3>3. QED
      BY <2>0, <2>1, <2>4, <3>1, <3>2 DEF SeatSays, Using
  <2>5. CASE ask[d].at = "running"
    <3>1. \A m \in Runners \ {ask[d].model} : held'[m] = 0
      BY <2>0, <2>1, <2>5 DEF SeatSays
    <3>2. QED
      BY <2>1, <2>5, <3>1 DEF SeatSays, Using
  <2>6. QED
    BY <1>2, <2>2, <2>3, <2>4, <2>5 DEF Using
<1>3. QED
  BY <1>1, <1>2

(* Only the holder of the lease uses the machine.                          *)
LEMMA HolderIsAlone ==
  ASSUME HostInv, NEW c \in Seats, ask[c].at \in Using, NEW d \in Seats, d # c
  PROVE  lease = c /\ ask[d].at \notin Using
BY DEF HostInv, SeatSays

(* Memory is what a runtime has been asked for.                            *)
LEMMA HeldIsNat == HostAssumption /\ HostTypeOK => \A m \in Runners : held[m] \in Nat
<1> SUFFICES ASSUME HostAssumption, HostTypeOK PROVE \A m \in Runners : held[m] \in Nat
  OBVIOUS
<1>1. WorkingSets \cup {0} \subseteq Nat
  BY DEF HostAssumption
<1>2. held \in [Runners -> WorkingSets \cup {0}]
  BY DEF HostTypeOK
<1>3. QED
  BY <1>1, <1>2

(* ... and stays so.                                                       *)
LEMMA HeldStaysNat == HostAssumption /\ HostTypeOK' => \A m \in Runners : held'[m] \in Nat
<1> SUFFICES ASSUME HostAssumption, HostTypeOK' PROVE \A m \in Runners : held'[m] \in Nat
  OBVIOUS
<1>1. WorkingSets \cup {0} \subseteq Nat
  BY DEF HostAssumption
<1>2. held' \in [Runners -> WorkingSets \cup {0}]
  BY DEF HostTypeOK
<1>3. QED
  BY <1>1, <1>2

(* What a call asks for, and what it was told of the memory, are numbers.  *)
LEMMA AskedIsNat ==
  ASSUME HostAssumption, HostTypeOK, NEW c \in Seats
  PROVE  ask[c].want \in Nat /\ ask[c].seen \in Nat /\ ask[c].free \in Nat
<1>1. WorkingSets \cup {0} \subseteq Nat /\ 0..MaxOther \subseteq Nat /\ 0..Total \subseteq Nat
  BY DEF HostAssumption
<1>2. ask[c] \in Askings
  BY DEF HostTypeOK
<1>3. ask[c].want \in WorkingSets \cup {0} /\ ask[c].seen \in 0..MaxOther /\ ask[c].free \in 0..Total
  BY <1>2 DEF Askings
<1>4. QED
  BY <1>1, <1>3

(* With nothing left to unload, only the model that is wanted is in memory.*)
LEMMA OneModelIsLeft ==
  ASSUME HostAssumption, HostTypeOK, HostInv, NEW c \in Seats,
         ask[c].at \in {"reclaim", "probed"}, ToUnload(c) = {}
  PROVE  /\ ask[c].model \in Runners
         /\ \A m \in Runners \ {ask[c].model} : held[m] = 0
         /\ Held(Runners) = held[ask[c].model]
<1>1. ask[c].at \in Using \ {"running"} /\ ToUnload(c) = {}
  BY DEF Using
<1>2. ask[c].model \in Runners /\ ask[c].owned = record
  BY <1>1 DEF HostInv, SeatSays, Using
<1>3. \A m \in Runners : held[m] \in Nat
  BY HeldIsNat
<1>4. \A m \in Warm \ {ask[c].model} : held[m] = 0
  BY <1>1, <1>2, <1>3 DEF ToUnload, HostInv, LoadedIsOnRecord, Runners
<1>5. \A m \in OnDemand : held[m] = 0
  <2>1. \A d \in Seats : ask[d].at # "running"
    BY <1>1, HolderIsAlone DEF Using
  <2>2. QED
    BY <1>3, <2>1 DEF HostInv, OnDemandRuns, Running, Runners
<1>6. \A m \in Runners \ {ask[c].model} : held[m] = 0
  BY <1>4, <1>5 DEF Runners
<1>7. QED
  BY <1>2, <1>3, <1>6, HeldOfOne

(* The types, through the steps of a call ...                              *)
LEMMA CallTypes ==
  ASSUME HostAssumption, HostTypeOK, HostInv, NEW c \in Seats,
         \/ \E p \in Procs, m \in Runners, size \in WorkingSets : Asks(c, p, m, size)
         \/ TakesGate(c) \/ TakesLease(c) \/ GivesUp(c) \/ Forgets(c) \/ ReadsMemory(c)
         \/ Waits(c) \/ Admits(c) \/ Loads(c) \/ Ends(c)
         \/ \E m \in Warm : Unloads(c, m) \/ DoesNotConfirm(c, m)
  PROVE  HostTypeOK'
<1> USE DEF HostTypeOK
<1>0. ask[c] \in Askings
  OBVIOUS
<1>a. ASSUME NEW at \in Places, Goes(c, at) PROVE ask' \in [Seats -> Askings]
  <2>1. [ask[c] EXCEPT !.at = at] \in Askings
    BY <1>0 DEF Askings
  <2>2. QED
    BY <1>a, <2>1 DEF Goes
<1>d. ASSUME NEW t \in Askings, ask' = [ask EXCEPT ![c] = t] PROVE ask' \in [Seats -> Askings]
  BY <1>d
<1>b. Fault => faults' \in 0..MaxFaults
  BY DEF Fault, HostAssumption
<1>c. Releases(c) => /\ lease' \in Seats \cup {None} /\ gate' \in [Procs -> Seats \cup {None}]
                     /\ ask' \in [Seats -> Askings]
  <2>1. NoAsk \in Askings
    BY NoAskIsAsking
  <2>2. QED
    BY <2>1 DEF Releases
<1>1. ASSUME NEW p \in Procs, NEW m \in Runners, NEW size \in WorkingSets, Asks(c, p, m, size)
      PROVE  HostTypeOK'
  <2>1. [NoAsk EXCEPT !.at = "gate", !.proc = p, !.model = m, !.want = size] \in Askings
    BY NoAskIsAsking DEF Askings, Places
  <2>2. QED
    BY <1>1, <1>d, <2>1 DEF Asks
<1>2. CASE TakesGate(c)
  BY <1>2, <1>a DEF TakesGate, Places
<1>3. CASE TakesLease(c)
  <2>1. record \in SUBSET Runners
    BY DEF Runners
  <2>2. [ask[c] EXCEPT !.at = "reclaim", !.owned = record] \in Askings
    BY <1>0, <2>1 DEF Askings, Places
  <2>3. ask' \in [Seats -> Askings]
    BY <1>3, <2>2 DEF TakesLease
  <2>4. QED
    BY <1>3, <2>3 DEF TakesLease
<1>4. CASE GivesUp(c)
  BY <1>4, <1>c DEF GivesUp
<1>5. CASE Forgets(c)
  <2>1. ask[c].owned \in SUBSET Runners
    BY <1>0 DEF Askings
  <2>2. [ask[c] EXCEPT !.at = "reclaim", !.owned = @ \ {ask[c].old}] \in Askings
    BY <1>0, <2>1 DEF Askings, Places
  <2>3. ask' \in [Seats -> Askings]
    BY <1>5, <1>c, <2>2 DEF Forgets
  <2>4. record' \subseteq Warm
    BY <1>5 DEF Forgets
  <2>5. QED
    BY <1>5, <1>b, <1>c, <2>3, <2>4 DEF Forgets
<1>6. CASE ReadsMemory(c)
  <2>1. Held(Runners) \in Nat
    BY <1>6, OneModelIsLeft, HeldIsNat DEF ReadsMemory
  <2> DEFINE free == Total - Least(Total, other + Held(Runners))
  <2>2. free \in 0..Total
    BY <2>1 DEF Least, HostAssumption
  <2>3. ask' = [ask EXCEPT ![c].at = "probed", ![c].seen = other, ![c].free = free]
    BY <1>6 DEF ReadsMemory
  <2>4. [ask[c] EXCEPT !.at = "probed", !.seen = other, !.free = free] \in Askings
    <3> HIDE DEF free
    <3>1. QED
      BY <1>0, <2>2 DEF Askings, Places
  <2>5. ask' \in [Seats -> Askings]
    <3> HIDE DEF free
    <3>1. QED
      BY <2>3, <2>4
  <2>6. QED
    BY <1>6, <2>5 DEF ReadsMemory
<1>7. CASE Waits(c)
  BY <1>7, <1>a DEF Waits, Places
<1>8. CASE Admits(c)
  BY <1>8, <1>a, <1>b, <1>c DEF Admits, Places
<1>9. CASE Loads(c)
  <2>1. ask[c].want \in WorkingSets \cup {0}
    BY <1>0 DEF Askings
  <2>2. held' \in [Runners -> WorkingSets \cup {0}]
    BY <1>9, <2>1 DEF Loads
  <2>3. QED
    BY <1>9, <2>2 DEF Loads
<1>10. CASE Ends(c)
  BY <1>10, <1>c DEF Ends, Kept
<1>11. ASSUME NEW m \in Warm, Unloads(c, m) PROVE HostTypeOK'
  <2>1. [ask[c] EXCEPT !.at = "unloaded", !.old = m] \in Askings
    BY <1>0 DEF Askings, Places
  <2>2. ask' \in [Seats -> Askings] /\ held' \in [Runners -> WorkingSets \cup {0}]
    BY <1>11, <2>1 DEF Unloads
  <2>3. QED
    BY <1>11, <2>2 DEF Unloads
<1>12. ASSUME NEW m \in Warm, DoesNotConfirm(c, m) PROVE HostTypeOK'
  BY <1>12, <1>b, <1>c DEF DoesNotConfirm
<1>13. QED
  BY <1>1, <1>2, <1>3, <1>4, <1>5, <1>6, <1>7, <1>8, <1>9, <1>10, <1>11, <1>12

(* ... and through those of the machine.                                   *)
LEMMA MachineTypes ==
  ASSUME HostAssumption, HostTypeOK,
         OthersChange \/ (\E p \in Procs : Dies(p)) \/ (\E m \in Warm : Expires(m))
  PROVE  HostTypeOK'
<1> USE DEF HostTypeOK
<1>1. CASE OthersChange
  BY <1>1 DEF OthersChange
<1>2. ASSUME NEW m \in Warm, Expires(m) PROVE HostTypeOK'
  BY <1>2 DEF Expires
<1>3. ASSUME NEW p \in Procs, Dies(p) PROVE HostTypeOK'
  <2>1. ask' \in [Seats -> Askings]
    BY <1>3, NoAskIsAsking DEF Dies
  <2>2. held' \in [Runners -> WorkingSets \cup {0}]
    BY <1>3 DEF Dies, Kept
  <2>3. faults' \in 0..MaxFaults
    BY <1>3 DEF Dies, Fault, HostAssumption
  <2>4. QED
    BY <1>3, <2>1, <2>2, <2>3 DEF Dies
<1>4. QED
  BY <1>1, <1>2, <1>3

(* A step of one call keeps the invariant if it keeps what the record and  *)
(* the runtimes say, leaves the call with something true of it, and takes  *)
(* nothing from who uses the machine.                                      *)
LEMMA CallKeepsInv ==
  ASSUME HostAssumption, HostTypeOK, HostTypeOK', HostInv, NEW c \in Seats,
         NEW t, ask' = [ask EXCEPT ![c] = t], SeatSays(c)', LoadedIsOnRecord', OnDemandRuns',
         \A d \in Seats \ {c} : ask[d].at \in Using =>
           lease' = lease /\ record' = record /\ \A m \in Runners : held'[m] <= held[m]
  PROVE  HostInv'
<1>1. ASSUME NEW d \in Seats, d # c PROVE SeatSays(d)'
  <2>1. ask'[d] = ask[d]
    BY <1>1 DEF HostTypeOK
  <2>2. QED
    BY <1>1, <2>1, OthersStay DEF HostInv
<1>2. QED
  BY <1>1 DEF HostInv

(* Giving everything back, with no more in memory than before.             *)
LEMMA ReleaseKeepsInv ==
  ASSUME HostAssumption, HostTypeOK, HostTypeOK', HostInv, NEW c \in Seats, Releases(c),
         LoadedIsOnRecord', OnDemandRuns', \A m \in Runners : held'[m] <= held[m],
         record' = record
  PROVE  HostInv'
<1>1. SeatSays(c)'
  BY DEF Releases, SeatSays, NoAsk, Using, HostTypeOK
<1>2. ASSUME NEW d \in Seats \ {c}, ask[d].at \in Using PROVE lease' = lease
  BY <1>2 DEF HostInv, SeatSays, Releases
<1>3. QED
  BY <1>1, <1>2, CallKeepsInv DEF Releases

(* A runtime that gives its memory back goes on as long as its run does.   *)
LEMMA RunsGoOn ==
  ASSUME HostAssumption, HostTypeOK, HostTypeOK', HostInv, NEW c \in Seats,
         NEW t, ask' = [ask EXCEPT ![c] = t],
         \A m \in OnDemand : held'[m] <= held[m],
         ask[c].at # "running" \/ (t.at = "running" /\ t.model = ask[c].model)
           \/ ask[c].model \notin OnDemand \/ held'[ask[c].model] = 0
  PROVE  OnDemandRuns'
<1> SUFFICES ASSUME NEW m \in OnDemand, held'[m] > 0 PROVE Running(m)'
  BY DEF OnDemandRuns
<1>1. held[m] > 0
  <2>1. held[m] \in Nat /\ held'[m] \in Nat
    <3>1. m \in Runners
      BY DEF Runners
    <3>2. QED
      BY <3>1, HeldIsNat, HeldStaysNat
  <2>2. QED
    BY <2>1
<1>2. PICK d \in Seats : ask[d].at = "running" /\ ask[d].model = m
  BY <1>1 DEF HostInv, OnDemandRuns, Running
<1>3. ask'[d] = IF d = c THEN t ELSE ask[d]
  BY DEF HostTypeOK
<1>4. CASE d = c
  BY <1>2, <1>3, <1>4 DEF Running
<1>5. CASE d # c
  BY <1>2, <1>3, <1>5 DEF Running
<1>6. QED
  BY <1>4, <1>5

(* Waiting and giving up: nothing in memory or on record moves.            *)
LEMMA WaitingKeepsInv ==
  ASSUME HostAssumption, HostTypeOK, HostTypeOK', HostInv, NEW c \in Seats,
         \/ \E p \in Procs, m \in Runners, size \in WorkingSets : Asks(c, p, m, size)
         \/ TakesGate(c) \/ TakesLease(c) \/ GivesUp(c) \/ Waits(c)
  PROVE  HostInv'
<1>0. record' = record /\ held' = held /\ LoadedIsOnRecord' /\ \A m \in Runners : held'[m] <= held[m]
  <2>1. record' = record /\ held' = held
    BY DEF Asks, TakesGate, TakesLease, GivesUp, Waits
  <2>2. LoadedIsOnRecord'
    BY <2>1 DEF HostInv, LoadedIsOnRecord
  <2>3. \A m \in Runners : held'[m] <= held[m]
    BY <2>1, HeldIsNat
  <2>4. QED
    BY <2>1, <2>2, <2>3
<1>1. CASE GivesUp(c)
  <2>1. OnDemandRuns'
    BY <1>0, <1>1, RunsGoOn DEF GivesUp, Releases, Runners
  <2>2. QED
    BY <1>0, <1>1, <2>1, ReleaseKeepsInv DEF GivesUp
<1>2. ASSUME NEW t, ask' = [ask EXCEPT ![c] = t], ask[c].at # "running", SeatSays(c)',
             lease' = lease \/ lease = None
      PROVE  HostInv'
  <2>1. OnDemandRuns'
    BY <1>0, <1>2, RunsGoOn DEF Runners
  <2>2. ASSUME NEW d \in Seats, ask[d].at \in Using PROVE lease' = lease
    BY <1>2, <2>2 DEF HostInv, SeatSays, HostAssumption
  <2>3. QED
    BY <1>0, <1>2, <2>1, <2>2, CallKeepsInv
<1>3. ASSUME NEW p \in Procs, NEW m \in Runners, NEW size \in WorkingSets, Asks(c, p, m, size)
      PROVE  HostInv'
  <2> DEFINE t == [NoAsk EXCEPT !.at = "gate", !.proc = p, !.model = m, !.want = size]
  <2>a. t.at = "gate" /\ t.model = m
    BY DEF NoAsk
  <2>b. ask' = [ask EXCEPT ![c] = t]
    BY <1>3 DEF Asks
  <2> HIDE DEF t
  <2>0. ask'[c].at = "gate" /\ ask'[c].model \in Runners
    BY <2>a, <2>b DEF HostTypeOK
  <2>1. SeatSays(c)'
    BY <2>0 DEF SeatSays, Using
  <2>2. QED
    BY <1>2, <1>3, <2>1 DEF Asks
<1>4. CASE TakesGate(c)
  <2>0. ask[c].model \in Runners
    BY <1>4 DEF TakesGate, HostInv, SeatSays
  <2>a. ask'[c].at = "lease" /\ ask'[c].model = ask[c].model
    BY <1>4 DEF TakesGate, Goes, HostTypeOK, Askings
  <2>1. SeatSays(c)'
    BY <2>0, <2>a DEF SeatSays, Using
  <2>2. QED
    BY <1>2, <1>4, <2>1 DEF TakesGate, Goes
<1>5. CASE TakesLease(c)
  <2>1. ask[c].model \in Runners
    BY <1>5 DEF TakesLease, HostInv, SeatSays
  <2>2. SeatSays(c)'
    BY <1>5, <2>1 DEF TakesLease, SeatSays, Using, HostTypeOK, Askings
  <2>3. QED
    BY <1>2, <1>5, <2>2 DEF TakesLease
<1>6. CASE Waits(c)
  <2>1. SeatSays(c)'
    BY <1>6 DEF Waits, Goes, HostInv, SeatSays, Using, HostTypeOK, Askings
  <2>2. QED
    BY <1>2, <1>6, <2>1 DEF Waits, Goes
<1>7. QED
  BY <1>1, <1>3, <1>4, <1>5, <1>6

(* reclaim: the models that are not wanted are unloaded, then struck off.  *)
LEMMA ReclaimKeepsInv ==
  ASSUME HostAssumption, HostTypeOK, HostTypeOK', HostInv, NEW c \in Seats,
         (\E m \in Warm : Unloads(c, m) \/ DoesNotConfirm(c, m)) \/ Forgets(c)
  PROVE  HostInv'
<1>0. ask[c].at \in Using
  BY DEF Unloads, DoesNotConfirm, Forgets, Using
<1>a. \A d \in Seats \ {c} : ask[d].at \notin Using
  BY <1>0, HolderIsAlone
<1>b. \A m \in Runners : held[m] \in Nat
  BY HeldIsNat
<1>c. Warm \subseteq Runners /\ OnDemand \subseteq Runners
  BY DEF Runners
<1>1. ASSUME NEW m \in Warm, held' \in {held, [held EXCEPT ![m] = 0]}
      PROVE  (\A n \in Runners : held'[n] <= held[n]) /\ (record' = record => LoadedIsOnRecord')
  BY <1>1, <1>b, <1>c DEF HostTypeOK, HostInv, LoadedIsOnRecord
<1>2. ASSUME NEW m \in Warm, Unloads(c, m) PROVE HostInv'
  <2>1. LoadedIsOnRecord' /\ \A n \in Runners : held'[n] <= held[n]
    BY <1>1, <1>2 DEF Unloads
  <2>2. OnDemandRuns'
    BY <1>2, <1>c, <2>1, RunsGoOn DEF Unloads
  <2>3. held'[m] = 0 /\ record' = record /\ lease' = lease
    BY <1>2, <1>c DEF Unloads, HostTypeOK
  <2>4. ask'[c] = [ask[c] EXCEPT !.at = "unloaded", !.old = m] /\ ask[c] \in Askings
    BY <1>2 DEF Unloads, HostTypeOK
  <2>5. /\ ask'[c].at = "unloaded" /\ ask'[c].old = m /\ ask'[c].owned = ask[c].owned
        /\ ask'[c].model = ask[c].model
    BY <2>4 DEF Askings
  <2>6. SeatSays(c) /\ ask[c].at = "reclaim"
    BY <1>2 DEF HostInv, Unloads
  <2>7. SeatSays(c)'
    BY <2>3, <2>5, <2>6 DEF SeatSays, Using
  <2>8. QED
    BY <1>2, <1>a, <2>1, <2>2, <2>7, CallKeepsInv DEF Unloads
<1>3. ASSUME NEW m \in Warm, DoesNotConfirm(c, m) PROVE HostInv'
  <2>1. LoadedIsOnRecord' /\ \A n \in Runners : held'[n] <= held[n]
    BY <1>1, <1>3 DEF DoesNotConfirm
  <2>2. OnDemandRuns'
    BY <1>3, <1>c, <2>1, RunsGoOn DEF DoesNotConfirm, Releases
  <2>3. QED
    BY <1>3, <2>1, <2>2, ReleaseKeepsInv DEF DoesNotConfirm
<1>4. CASE Forgets(c)
  <2>0. held' = held /\ ask[c].at = "unloaded" /\ SeatSays(c) /\ ask[c] \in Askings
    BY <1>4 DEF Forgets, HostInv, HostTypeOK
  <2>1. \A n \in Runners : held'[n] <= held[n]
    BY <1>b, <2>0
  <2>2. OnDemandRuns'
    BY <1>4, <1>c, <2>0, <2>1, RunsGoOn DEF Forgets, Releases
  <2>3. CASE Releases(c) /\ record' = record
    <3>1. LoadedIsOnRecord'
      BY <2>0, <2>3 DEF HostInv, LoadedIsOnRecord
    <3>2. QED
      BY <2>1, <2>2, <2>3, <3>1, ReleaseKeepsInv
  <2>4. CASE /\ record' = (ask[c].owned \cap Warm) \ {ask[c].old} /\ lease' = lease
             /\ ask' = [ask EXCEPT ![c].at = "reclaim", ![c].owned = @ \ {ask[c].old}]
    <3>1. record' = record \ {ask[c].old} /\ held[ask[c].old] = 0 /\ ask[c].owned = record
      BY <2>0, <2>4 DEF SeatSays, HostTypeOK
    <3>2. LoadedIsOnRecord'
      BY <2>0, <3>1 DEF HostInv, LoadedIsOnRecord
    <3>3. /\ ask'[c].at = "reclaim" /\ ask'[c].owned = ask[c].owned \ {ask[c].old}
          /\ ask'[c].model = ask[c].model
      BY <2>0, <2>4 DEF Askings, HostTypeOK
    <3>4. SeatSays(c)'
      BY <2>0, <2>4, <3>1, <3>3 DEF SeatSays, Using
    <3>5. QED
      BY <1>a, <2>2, <2>4, <3>2, <3>4, CallKeepsInv
  <2>5. QED
    BY <1>4, <2>3, <2>4 DEF Forgets
<1>5. QED
  BY <1>2, <1>3, <1>4

(* The probe and the verdict on it: a model that is admitted has its room. *)
LEMMA AdmissionKeepsInv ==
  ASSUME HostAssumption, HostTypeOK, HostTypeOK', HostInv, NEW c \in Seats,
         ReadsMemory(c) \/ Admits(c)
  PROVE  HostInv'
<1>0. ask[c].at \in {"reclaim", "probed"} /\ ToUnload(c) = {} /\ SeatSays(c) /\ ask[c] \in Askings
  BY DEF ReadsMemory, Admits, HostInv, SeatSays, HostTypeOK
<1> DEFINE model == ask[c].model
<1>1. /\ model \in Runners /\ Held(Runners) = held[model]
      /\ \A m \in Runners \ {model} : held[m] = 0
  BY <1>0, OneModelIsLeft
<1>2. held[model] \in Nat
  BY <1>1, HeldIsNat
<1>a. \A d \in Seats \ {c} : ask[d].at \notin Using
  BY <1>0, HolderIsAlone DEF Using
<1>b. held' = held /\ \A m \in OnDemand : held'[m] <= held[m]
  BY HeldIsNat DEF ReadsMemory, Admits, Runners
<1>c. Total \in Nat /\ Reserve \in Nat \ {0} /\ other \in Nat
  BY DEF HostAssumption, HostTypeOK
<1>3. CASE ReadsMemory(c)
  <2> DEFINE free == Total - Least(Total, other + held[model])
  <2>1. free = 0 \/ free + other + held[model] <= Total
    BY <1>2, <1>c DEF Least
  <2>2. ask' = [ask EXCEPT ![c].at = "probed", ![c].seen = other, ![c].free = free]
    BY <1>1, <1>3 DEF ReadsMemory
  <2> HIDE DEF free
  <2>3. /\ ask'[c].at = "probed" /\ ask'[c].seen = other /\ ask'[c].free = free
        /\ ask'[c].model = model /\ ask'[c].owned = ask[c].owned
    BY <1>0, <2>2 DEF Askings, HostTypeOK
  <2>4. lease' = lease /\ record' = record
    BY <1>3 DEF ReadsMemory
  <2>5. ToUnload(c)' = {} /\ lease = c /\ ask[c].owned = record
    BY <1>0, <2>3 DEF ToUnload, SeatSays, Using
  <2>6. SeatSays(c)'
    BY <1>1, <1>b, <2>1, <2>3, <2>4, <2>5 DEF SeatSays, Using
  <2>7. LoadedIsOnRecord'
    BY <1>b, <2>4 DEF HostInv, LoadedIsOnRecord
  <2>8. ask[c].at # "running"
    BY <1>0
  <2> DEFINE t == [ask[c] EXCEPT !.at = "probed", !.seen = other, !.free = free]
  <2>9. ask' = [ask EXCEPT ![c] = t]
    BY <2>2
  <2> HIDE DEF t
  <2>10. OnDemandRuns'
    BY <1>b, <2>8, <2>9, RunsGoOn
  <2>11. QED
    BY <1>a, <2>4, <2>6, <2>7, <2>9, <2>10, CallKeepsInv
<1>4. CASE Admits(c)
  <2>1. ask[c].at = "probed" /\ Room(c) /\ ask[c].owned = record /\ lease = c
    BY <1>0, <1>4 DEF Admits, SeatSays, Using
  <2>2. ask[c].at # "running"
    BY <2>1
  <2>3. CASE Fault /\ Releases(c) /\ UNCHANGED record
    <3>1. LoadedIsOnRecord'
      BY <1>b, <2>3 DEF HostInv, LoadedIsOnRecord
    <3>2. OnDemandRuns'
      BY <1>b, <2>2, <2>3, RunsGoOn DEF Releases
    <3>3. \A m \in Runners : held'[m] <= held[m]
      BY <1>b, HeldIsNat
    <3>4. QED
      BY <2>3, <3>1, <3>2, <3>3, ReleaseKeepsInv
  <2>4. CASE /\ record' = (ask[c].owned \cup {model}) \cap Warm
             /\ Goes(c, "running") /\ lease' = lease
    <3>1. /\ ask'[c].at = "running" /\ ask'[c].model = model /\ ask'[c].want = ask[c].want
          /\ ask'[c].seen = ask[c].seen
      BY <1>0, <2>4 DEF Goes, Askings, HostTypeOK
    <3>2. model \in record' \cup OnDemand
      BY <1>1, <2>4 DEF Runners
    <3>3. ask[c].want + ask[c].seen + Reserve <= Total
      <4>1. ask[c].want \in Nat /\ ask[c].seen \in Nat /\ ask[c].free \in Nat
        BY AskedIsNat
      <4>2. ask[c].free = 0 \/ ask[c].free + ask[c].seen + held[model] <= Total
        BY <1>0, <2>1 DEF SeatSays
      <4>3. \/ Reserve + ask[c].want - Least(ask[c].want, held[model]) <= ask[c].free
            \/ Reserve + ask[c].want - Least(ask[c].want, 0) <= ask[c].free
        BY <2>1 DEF Room
      <4>4. QED
        BY <1>2, <1>c, <4>1, <4>2, <4>3 DEF Least
    <3>4. SeatSays(c)'
      BY <1>1, <1>b, <2>1, <2>4, <3>1, <3>2, <3>3 DEF SeatSays, Using
    <3>5. LoadedIsOnRecord'
      BY <1>b, <2>1, <2>4 DEF HostInv, LoadedIsOnRecord
    <3>6. OnDemandRuns'
      BY <1>b, <2>2, <2>4, RunsGoOn DEF Goes
    <3>7. QED
      BY <1>a, <2>4, <3>4, <3>5, <3>6, CallKeepsInv DEF Goes
  <2>5. QED
    BY <1>4, <2>3, <2>4 DEF Admits
<1>5. QED
  BY <1>3, <1>4

(* The run: its model grows to what it was promised, and what is not kept  *)
(* is given back at the end.                                               *)
LEMMA RunKeepsInv ==
  ASSUME HostAssumption, HostTypeOK, HostTypeOK', HostInv, NEW c \in Seats, Loads(c) \/ Ends(c)
  PROVE  HostInv'
<1>0. ask[c].at = "running" /\ SeatSays(c) /\ record' = record
  BY DEF Loads, Ends, HostInv
<1> DEFINE model == ask[c].model
<1>1. /\ model \in Runners /\ lease = c /\ model \in record \cup OnDemand
      /\ \A m \in Runners \ {model} : held[m] = 0
  BY <1>0 DEF SeatSays, Using
<1>a. \A d \in Seats \ {c} : ask[d].at \notin Using
  BY <1>0, HolderIsAlone DEF Using
<1>b. \A m \in Runners : held[m] \in Nat
  BY HeldIsNat
<1>c. Warm \subseteq Runners /\ OnDemand \subseteq Runners /\ Warm \cap OnDemand = {}
  BY DEF Runners, HostAssumption
<1>2. CASE Loads(c)
  <2>1. held' = [held EXCEPT ![model] = ask[c].want] /\ ask' = ask /\ lease' = lease
    BY <1>2 DEF Loads
  <2>2. \A m \in Runners \ {model} : held'[m] = held[m]
    BY <2>1 DEF HostTypeOK
  <2>3. SeatSays(c)'
    BY <1>0, <1>1, <2>1, <2>2 DEF SeatSays, Using
  <2>4. LoadedIsOnRecord'
    BY <1>0, <1>1, <1>c, <2>2 DEF HostInv, LoadedIsOnRecord
  <2>5. OnDemandRuns'
    BY <1>0, <1>c, <2>1, <2>2 DEF HostInv, OnDemandRuns, Running
  <2>6. ask' = [ask EXCEPT ![c] = ask[c]]
    BY <2>1 DEF HostTypeOK
  <2>7. QED
    BY <1>a, <2>3, <2>4, <2>5, <2>6, CallKeepsInv
<1>3. CASE Ends(c)
  <2>1. held' = [held EXCEPT ![model] = Kept(model)] /\ Releases(c)
    BY <1>3 DEF Ends
  <2>2. \A m \in Runners : held'[m] <= held[m]
    BY <1>1, <1>b, <2>1 DEF Kept, HostTypeOK
  <2>3. \A m \in Warm : held'[m] = held[m]
    BY <1>1, <1>c, <2>1 DEF Kept, HostTypeOK
  <2>4. LoadedIsOnRecord'
    BY <1>0, <2>3 DEF HostInv, LoadedIsOnRecord
  <2>5. model \notin OnDemand \/ held'[model] = 0
    BY <1>1, <1>c, <2>1 DEF Kept, HostTypeOK
  <2>6. OnDemandRuns'
    BY <1>c, <2>1, <2>2, <2>5, RunsGoOn DEF Releases
  <2>7. QED
    BY <1>0, <2>1, <2>2, <2>4, <2>6, ReleaseKeepsInv
<1>4. QED
  BY <1>2, <1>3

(* What the machine does by itself: other programs come and go, a model    *)
(* expires, a process dies with its calls.                                 *)
LEMMA MachineKeepsInv ==
  ASSUME HostAssumption, HostTypeOK, HostTypeOK', HostInv,
         OthersChange \/ (\E p \in Procs : Dies(p)) \/ (\E m \in Warm : Expires(m))
  PROVE  HostInv'
<1>b. \A m \in Runners : held[m] \in Nat
  BY HeldIsNat
<1>c. Warm \subseteq Runners /\ OnDemand \subseteq Runners /\ Warm \cap OnDemand = {}
  BY DEF Runners, HostAssumption
<1>1. CASE OthersChange
  <2>1. lease' = lease /\ record' = record /\ ask' = ask /\ held' = held
    BY <1>1 DEF OthersChange
  <2>2. \A d \in Seats : SeatSays(d)'
    BY <2>1, <1>b, OthersStay DEF HostInv
  <2>3. QED
    BY <2>1, <2>2 DEF HostInv, LoadedIsOnRecord, OnDemandRuns, Running
<1>2. ASSUME NEW m \in Warm, Expires(m) PROVE HostInv'
  <2>1. lease' = lease /\ record' = record /\ ask' = ask
    BY <1>2 DEF Expires
  <2>2. \A n \in Runners : held'[n] <= held[n] /\ (held'[n] > 0 => held[n] > 0)
    BY <1>2, <1>b, <1>c DEF Expires, HostTypeOK
  <2>3. \A d \in Seats : SeatSays(d)'
    BY <2>1, <2>2, OthersStay DEF HostInv
  <2>4. QED
    BY <1>c, <2>1, <2>2, <2>3 DEF HostInv, LoadedIsOnRecord, OnDemandRuns, Running
<1>3. ASSUME NEW p \in Procs, Dies(p) PROVE HostInv'
  <2> DEFINE ours == {c \in Seats : ask[c].proc = p}
  <2>1. /\ record' = record /\ lease' = (IF lease \in ours THEN None ELSE lease)
        /\ ask' = [c \in Seats |-> IF c \in ours THEN NoAsk ELSE ask[c]]
        /\ held' = [m \in Runners |->
             IF \E c \in ours : ask[c].at = "running" /\ ask[c].model = m THEN Kept(m) ELSE held[m]]
    BY <1>3 DEF Dies
  <2>2. \A m \in Runners : held'[m] <= held[m] /\ (held'[m] > 0 => held[m] > 0)
    <3>1. ASSUME NEW m \in Runners PROVE held'[m] \in {0, held[m]}
      BY <2>1 DEF Kept
    <3>2. QED
      BY <1>b, <3>1
  <2>3. LoadedIsOnRecord'
    BY <1>c, <2>1, <2>2 DEF HostInv, LoadedIsOnRecord
  <2>4. ASSUME NEW m \in OnDemand, held'[m] > 0 PROVE Running(m)'
    <3>1. held[m] > 0
      BY <1>c, <2>2, <2>4
    <3>2. PICK c \in Seats : ask[c].at = "running" /\ ask[c].model = m
      BY <3>1 DEF HostInv, OnDemandRuns, Running
    <3>3. c \notin ours
      <4>1. SUFFICES ASSUME c \in ours PROVE held'[m] = 0
        BY <2>4
      <4>2. QED
        BY <1>c, <2>1, <3>2, <4>1 DEF Kept
    <3>4. ask'[c] = ask[c]
      BY <2>1, <3>3
    <3>5. QED
      BY <3>2, <3>4 DEF Running
  <2>5. ASSUME NEW d \in Seats PROVE SeatSays(d)'
    <3>1. CASE d \in ours
      <4>1. ask'[d] = NoAsk
        BY <2>1, <3>1
      <4>2. QED
        BY <4>1 DEF SeatSays, NoAsk, Using
    <3>2. CASE d \notin ours
      <4>1. ask'[d] = ask[d]
        BY <2>1, <3>2
      <4>2. ask[d].at \in Using => lease' = lease
        BY <2>1, <3>2 DEF HostInv, SeatSays
      <4>3. QED
        BY <2>1, <2>2, <4>1, <4>2, OthersStay DEF HostInv
    <3>3. QED
      BY <3>1, <3>2
  <2>6. QED
    BY <2>3, <2>4, <2>5 DEF HostInv, OnDemandRuns
<1>4. QED
  BY <1>1, <1>2, <1>3

(* Every step keeps the types and the invariant.                           *)
LEMMA HostNextKeeps ==
  ASSUME HostAssumption, HostTypeOK, HostInv, [HostNext]_host_vars
  PROVE  HostTypeOK' /\ HostInv'
<1>1. CASE UNCHANGED host_vars
  <2>1. HostTypeOK'
    BY <1>1 DEF host_vars, HostTypeOK
  <2>2. HostInv'
    BY <1>1 DEF host_vars, HostInv, LoadedIsOnRecord, OnDemandRuns, Running, SeatSays, ToUnload
  <2>3. QED
    BY <2>1, <2>2
<1>2. ASSUME NEW c \in Seats,
             \/ \E p \in Procs, m \in Runners, size \in WorkingSets : Asks(c, p, m, size)
             \/ TakesGate(c) \/ TakesLease(c) \/ GivesUp(c) \/ Forgets(c) \/ ReadsMemory(c)
             \/ Waits(c) \/ Admits(c) \/ Loads(c) \/ Ends(c)
             \/ \E m \in Warm : Unloads(c, m) \/ DoesNotConfirm(c, m)
      PROVE  HostTypeOK' /\ HostInv'
  <2>1. HostTypeOK'
    BY <1>2, CallTypes
  <2>2. QED
    BY <1>2, <2>1, WaitingKeepsInv, ReclaimKeepsInv, AdmissionKeepsInv, RunKeepsInv
<1>3. CASE OthersChange \/ (\E p \in Procs : Dies(p)) \/ (\E m \in Warm : Expires(m))
  BY <1>3, MachineTypes, MachineKeepsInv
<1>4. QED
  BY <1>1, <1>2, <1>3 DEF HostNext

(* What the invariant says of the machine: a run is alone on it, and what  *)
(* it may grow to, beside others' memory and the reserve, fits.            *)
LEMMA RoomFollows == HostAssumption /\ HostTypeOK /\ HostInv => MachineHasRoom
<1> SUFFICES ASSUME HostAssumption, HostTypeOK, HostInv PROVE MachineHasRoom
  OBVIOUS
<1>1. TakesTurns
  BY DEF TakesTurns, HostInv, SeatSays
<1>2. ReserveIsKept
  <2> SUFFICES ASSUME NEW c \in Seats, ask[c].at = "running"
               PROVE  Held(Runners \ {ask[c].model}) + ask[c].want + ask[c].seen + Reserve <= Total
    BY DEF ReserveIsKept
  <2>1. Held(Runners \ {ask[c].model}) = 0
    BY HeldOfNone DEF HostInv, SeatSays
  <2>2. ask[c].want + ask[c].seen + Reserve <= Total
    BY DEF HostInv, SeatSays
  <2>3. ask[c].want \in Nat /\ ask[c].seen \in Nat /\ Reserve \in Nat
    BY AskedIsNat DEF HostAssumption
  <2>4. QED
    BY <2>1, <2>2, <2>3
<1>3. QED
  BY <1>1, <1>2 DEF MachineHasRoom, HostInv

(* hostResources.acquire, with any number of worker processes, calls and   *)
(* models, through failed saves, unconfirmed unloads and deaths: one call  *)
(* of all processes uses the machine at a time, it leaves the reserve free *)
(* however far it grows, and every model that stays in memory at a         *)
(* worker's asking is in the shared record.                                *)
THEOREM MachineAlwaysHasRoom == ASSUME HostAssumption PROVE HostSpec => []MachineHasRoom
<1>1. HostInit => HostTypeOK /\ HostInv
  BY InitHostInv
<1>2. HostTypeOK /\ HostInv /\ [HostNext]_host_vars => HostTypeOK' /\ HostInv'
  BY HostNextKeeps
<1>3. HostTypeOK /\ HostInv => MachineHasRoom
  BY RoomFollows
<1>4. QED
  BY <1>1, <1>2, <1>3, PTL DEF HostSpec

-----------------------------------------------------------------------------
(* DeltaStream                                                             *)

(* What the two goroutines have in hand: the watchdog never a piece of the *)
(* answer, and the call's nothing once its client has returned.            *)
HandsOK ==
  /\ \A s \in Senders : ~AtRest(s) =>
       /\ numbered[s].seq \in 0..(seq - 1)
       /\ numbered[s].kind \in {"content", "keepalive"}
  /\ numbered["dog"].kind # "content"
  /\ ~AtRest("dog") <=> dog = "sending"
  /\ call \in {"returned", "ended"} => AtRest("call")
  /\ call = "waiting" => dog = "off"
  /\ ~AtRest("call") /\ ~AtRest("dog") => numbered["call"].seq # numbered["dog"].seq

(* What the connection took: numbers given once, the answer's in order.    *)
Deltas == {i \in 1..Len(wire) : wire[i].kind # "end"}
WireOK ==
  /\ \A i \in Deltas :
       /\ wire[i].seq \in 0..(seq - 1)
       /\ \A j \in Deltas : i # j => wire[i].seq # wire[j].seq
       /\ \A s \in Senders : ~AtRest(s) => numbered[s].seq # wire[i].seq
  /\ \A i \in Content :
       /\ \A j \in Content : i < j => wire[i].seq < wire[j].seq
       /\ ~AtRest("call") => wire[i].seq < numbered["call"].seq

(* An End is the last word of an ended call.                               *)
EndIsLast ==
  /\ EndsSent # {} => call = "ended"
  /\ \A i \in EndsSent : (\A j \in EndsSent : i = j) /\ (\A j \in Content : j < i)

(* Where the watchdog of a running call is, by the two clocks it reads.    *)
Silent == started /\ observeIdle
DogOK ==
  /\ call = "waiting" => ~started
  /\ call = "running" /\ started => contentAge = silence
  /\ call = "running" /\ callCtx = "live" =>
       /\ dog \notin {"off", "gone"}
       /\ dog = "select" => /\ nextTick <= tick
                            /\ sendAge + nextTick <= cadence - 1 + tick
                            /\ Silent => contentAge + nextTick <= Idle - 1 + tick
       /\ dog # "select" => /\ nextTick = tick
                            /\ sendAge <= cadence - 1 + tick
                            /\ Silent => contentAge <= Idle - 1 + tick
       /\ dog \in {"cadence", "keepalive", "sending"} => (Silent => contentAge <= Idle - 1)
       /\ dog = "sending" => sendAge = 0

DeltaInv == HandsOK /\ WireOK /\ EndIsLast /\ DogOK

-----------------------------------------------------------------------------
(* The cadence and its half.                                               *)
LEMMA Units ==
  ASSUME UnitsAssumption
  PROVE  /\ cadence \in Nat \ {0} /\ tick \in 1..cadence
         /\ 2 * tick <= cadence + 2 /\ AgeBound \in Nat
<1>1. cadence \in Nat \ {0}
  BY DEF UnitsAssumption, cadence
<1>2. tick \in 1..cadence /\ 2 * tick <= cadence + 2
  BY <1>1 DEF tick
<1>3. QED
  BY <1>1, <1>2 DEF UnitsAssumption, AgeBound

(* The message a goroutine has numbered is none of those that wait.        *)
LEMMA NumberedIsInHand ==
  ASSUME DeltaTypeOK, NEW s \in Senders, NEW kind, number(s, kind)
  PROVE  /\ ~AtRest(s)' /\ numbered'[s] = [seq |-> seq, kind |-> kind]
         /\ \A r \in Senders \ {s} : numbered'[r] = numbered[r]
  BY DEF DeltaTypeOK, number, AtRest, Nothing

(* Types.                                                                  *)
LEMMA DeltasAre ==
  /\ Nothing \in Delta /\ [seq |-> -1, kind |-> "end"] \in Delta
  /\ \A n \in Nat, kind \in {"content", "keepalive"} : [seq |-> n, kind |-> kind] \in Delta
  BY DEF Nothing, Delta

LEMMA InitTypes == ASSUME UnitsAssumption PROVE DeltaInit => DeltaTypeOK
<1> SUFFICES ASSUME DeltaInit PROVE DeltaTypeOK
  OBVIOUS
<1>1. numbered \in [Senders -> Delta] /\ wire \in Seq(Delta)
  BY DeltasAre DEF DeltaInit
<1>2. sendAge \in Ages /\ contentAge \in Ages /\ silence \in Ages
  BY Units DEF DeltaInit, Ages
<1>3. nextTick \in 0..cadence /\ age \in 0..Timeout
  BY Units DEF DeltaInit, UnitsAssumption
<1>4. QED
  BY <1>1, <1>2, <1>3 DEF DeltaInit, DeltaTypeOK

LEMMA NextTypes ==
  ASSUME UnitsAssumption, DeltaTypeOK, [DeltaNext]_delta_vars PROVE DeltaTypeOK'
<1> USE Units DEF DeltaTypeOK, Ages
<1>1. ASSUME NEW s \in Senders, HandOver(s) PROVE DeltaTypeOK'
  <2>1. numbered[s] \in Delta /\ Nothing \in Delta
    BY DeltasAre
  <2>2. wire' \in Seq(Delta) /\ numbered' \in [Senders -> Delta]
    BY <1>1, <2>1 DEF HandOver
  <2>3. QED
    BY <1>1, <2>2 DEF HandOver, clocks
<1>2. ASSUME NEW s \in Senders, NEW kind \in {"content", "keepalive"}, number(s, kind)
      PROVE  /\ numbered' \in [Senders -> Delta] /\ seq' \in Nat /\ started' \in BOOLEAN
             /\ sendAge' \in Ages /\ contentAge' \in Ages
  <2>1. [seq |-> seq, kind |-> kind] \in Delta
    BY DeltasAre
  <2>2. numbered' \in [Senders -> Delta]
    BY <1>2, <2>1 DEF number
  <2>3. seq' \in Nat
    BY <1>2 DEF number
  <2>6. started' \in BOOLEAN
    BY <1>2, Zenon DEF number
  <2>4. sendAge' \in Ages /\ contentAge' \in Ages
    BY <1>2 DEF number
  <2>5. QED
    BY <2>2, <2>3, <2>4, <2>6
<1>3. CASE AdmitKeepalive
  BY <1>2, <1>3 DEF AdmitKeepalive, Senders
<1>4. CASE RuntimeOutput
  BY <1>2, <1>4 DEF RuntimeOutput, Senders
<1>5. CASE DogKeepalive
  BY <1>2, <1>5 DEF DogKeepalive, Senders
<1>6. CASE SendsEnd
  <2>1. [seq |-> -1, kind |-> "end"] \in Delta
    BY DeltasAre
  <2>2. wire' \in Seq(Delta)
    BY <1>6, <2>1 DEF SendsEnd
  <2>3. QED
    BY <1>6, <2>2 DEF SendsEnd, clocks
<1>7. CASE Admitted \/ RuntimeProgress \/ ClientReturns \/ CtxEnds \/ StreamBreaks
  <2>1. CASE Admitted
    BY <2>1 DEF Admitted
  <2>2. CASE RuntimeProgress
    BY <2>2 DEF RuntimeProgress
  <2>5. CASE ClientReturns
    BY <2>5 DEF ClientReturns, clocks
  <2>3. CASE CtxEnds \/ StreamBreaks
    BY <2>3 DEF CtxEnds, StreamBreaks, clocks
  <2>4. QED
    BY <1>7, <2>1, <2>2, <2>3, <2>5
<1>8. CASE DogStops \/ DogTick \/ DogIdle \/ DogNotIdle \/ DogCadence
  <2>1. CASE DogTick
    BY <2>1 DEF DogTick
  <2>2. CASE DogStops \/ DogIdle \/ DogNotIdle \/ DogCadence
    BY <2>2 DEF DogStops, DogIdle, DogNotIdle, DogCadence, clocks
  <2>3. QED
    BY <1>8, <2>1, <2>2
<1>9. CASE Tick
  <2>1. \A a \in Ages : Older(a) \in Ages
    BY DEF Older
  <2>2. nextTick' \in 0..cadence /\ age' \in 0..Timeout /\ callCtx' \in {"live", "ended"}
    BY <1>9 DEF Tick, UnitsAssumption
  <2>3. QED
    BY <1>9, <2>1, <2>2 DEF Tick
<1>10. CASE UNCHANGED delta_vars
  BY <1>10 DEF delta_vars, clocks
<1>11. QED
  BY <1>1, <1>3, <1>4, <1>5, <1>6, <1>7, <1>8, <1>9, <1>10 DEF DeltaNext

(* Every step numbers a delta, hands one over, sends the End, or leaves    *)
(* the numbers, the hands and the wire alone.                              *)
QuietStep == \/ Admitted \/ RuntimeProgress \/ ClientReturns \/ CtxEnds \/ StreamBreaks
            \/ DogStops \/ DogTick \/ DogIdle \/ DogNotIdle \/ DogCadence \/ Tick
            \/ UNCHANGED delta_vars

LEMMA QuietStepKeeps ==
  ASSUME QuietStep
  PROVE  UNCHANGED <<numbered, seq, wire>>
  BY DEF QuietStep, Admitted, RuntimeProgress, ClientReturns, CtxEnds, StreamBreaks,
         DogStops, DogTick, DogIdle, DogNotIdle, DogCadence, Tick, delta_vars, clocks

LEMMA HandsStep ==
  ASSUME DeltaTypeOK, HandsOK, [DeltaNext]_delta_vars PROVE HandsOK'
<1> USE DEF DeltaTypeOK, HandsOK, Senders
<1>1. ASSUME NEW s \in Senders, HandOver(s) PROVE HandsOK'
  BY <1>1 DEF HandOver, AtRest, Nothing, clocks
<1>2. CASE AdmitKeepalive
  BY <1>2 DEF AdmitKeepalive, number, AtRest, Nothing
<1>3. CASE RuntimeOutput
  BY <1>3 DEF RuntimeOutput, number, AtRest, Nothing
<1>4. CASE DogKeepalive
  BY <1>4 DEF DogKeepalive, number, AtRest, Nothing
<1>5. CASE SendsEnd
  BY <1>5 DEF SendsEnd, clocks, AtRest
<1>6. CASE QuietStep
  <2>1. UNCHANGED <<numbered, seq>>
    BY <1>6, QuietStepKeeps
  <2>2. (dog = "sending" <=> dog' = "sending") /\ (call' = "waiting" => dog' = "off") /\ (call' = call \/ call' = "running" \/ AtRest("call"))
    <3>1. CASE Admitted \/ ClientReturns
      BY <3>1 DEF Admitted, ClientReturns, clocks
    <3>2. CASE RuntimeProgress \/ CtxEnds \/ StreamBreaks \/ Tick \/ UNCHANGED delta_vars
      BY <3>2 DEF RuntimeProgress, CtxEnds, StreamBreaks, Tick, delta_vars
    <3>3. CASE DogStops \/ DogTick \/ DogIdle \/ DogNotIdle \/ DogCadence
      BY <3>3 DEF DogStops, DogTick, DogIdle, DogNotIdle, DogCadence
    <3>4. QED
      BY <1>6, <3>1, <3>2, <3>3 DEF QuietStep
  <2>3. QED
    BY <2>1, <2>2 DEF AtRest
<1>7. QED
  BY <1>1, <1>2, <1>3, <1>4, <1>5, <1>6 DEF DeltaNext, QuietStep

LEMMA WireStep ==
  ASSUME DeltaTypeOK, HandsOK, WireOK, [DeltaNext]_delta_vars PROVE WireOK'
<1> USE DEF DeltaTypeOK, Senders
<1>1. ASSUME NEW s \in Senders, NEW kind, number(s, kind), UNCHANGED wire PROVE WireOK'
  <2>1. ~AtRest(s)' /\ numbered'[s].seq = seq /\ seq' = seq + 1
    BY <1>1, NumberedIsInHand DEF number
  <2>2. \A r \in Senders \ {s} : numbered'[r] = numbered[r]
    BY <1>1, NumberedIsInHand
  <2>3. Deltas' = Deltas /\ Content' = Content
    BY <1>1 DEF Deltas, Content
  <2>4. Content \subseteq Deltas
    BY DEF Deltas, Content
  <2>5. \A i \in Deltas : wire[i].seq \in 0..(seq - 1)
    BY DEF WireOK
  <2>6. QED
    BY <1>1, <2>1, <2>2, <2>3, <2>4, <2>5 DEF WireOK, AtRest
<1>2. ASSUME NEW d \in Delta, wire' = Append(wire, d)
      PROVE  /\ Len(wire') = Len(wire) + 1 /\ wire'[Len(wire) + 1] = d
             /\ \A i \in 1..Len(wire) : wire'[i] = wire[i]
             /\ Deltas' = IF d.kind = "end" THEN Deltas ELSE Deltas \cup {Len(wire) + 1}
             /\ Content' = IF d.kind = "content" THEN Content \cup {Len(wire) + 1} ELSE Content
  <2>1. /\ Len(wire') = Len(wire) + 1 /\ wire'[Len(wire) + 1] = d /\ Len(wire) \in Nat
        /\ \A i \in 1..Len(wire) : wire'[i] = wire[i]
    BY <1>2
  <2>2. QED
    BY <2>1 DEF Deltas, Content
<1>3. ASSUME NEW s \in Senders, HandOver(s) PROVE WireOK'
  <2>1. AtRest(s)' /\ (\A r \in Senders \ {s} : numbered'[r] = numbered[r]) /\ seq' = seq
    BY <1>3 DEF HandOver, AtRest
  <2>2. CASE ~open
    <3>1. wire' = wire
      BY <1>3, <2>2 DEF HandOver
    <3>2. Deltas' = Deltas /\ Content' = Content
      BY <3>1 DEF Deltas, Content
    <3>3. QED
      BY <2>1, <3>1, <3>2 DEF WireOK, AtRest
  <2>3. CASE open
    <3> DEFINE n == Len(wire) + 1
               d == numbered[s]
    <3>1. wire' = Append(wire, d) /\ d \in Delta /\ ~AtRest(s)
      BY <1>3, <2>3 DEF HandOver
    <3>2. d.seq \in 0..(seq - 1) /\ d.kind \in {"content", "keepalive"}
      BY <3>1 DEF HandsOK
    <3>3. /\ wire'[n] = d /\ \A i \in 1..Len(wire) : wire'[i] = wire[i]
          /\ Deltas' = Deltas \cup {n}
          /\ Content' = IF d.kind = "content" THEN Content \cup {n} ELSE Content
      BY <1>2, <3>1, <3>2
    <3>4. Deltas \subseteq 1..Len(wire) /\ Content \subseteq Deltas /\ Len(wire) \in Nat
      BY DEF Deltas, Content
    <3>5. \A i \in Deltas : i # n /\ wire'[i] = wire[i] /\ wire'[i].seq # d.seq
      BY <3>1, <3>3, <3>4 DEF WireOK
    <3>6. \A r \in Senders : ~AtRest(r)' => r # s /\ ~AtRest(r) /\ numbered'[r].seq # d.seq
      BY <2>1, <3>1 DEF HandsOK, AtRest
    <3>7. \A i \in Deltas' :
             /\ wire'[i].seq \in 0..(seq' - 1)
             /\ \A j \in Deltas' : i # j => wire'[i].seq # wire'[j].seq
             /\ \A r \in Senders : ~AtRest(r)' => numbered'[r].seq # wire'[i].seq
      BY <2>1, <3>2, <3>3, <3>5, <3>6 DEF WireOK, AtRest
    <3>8. \A i \in Content' :
             /\ \A j \in Content' : i < j => wire'[i].seq < wire'[j].seq
             /\ ~AtRest("call")' => wire'[i].seq < numbered'["call"].seq
      <4>1. CASE d.kind = "content"
        <5>1. s = "call"
          BY <4>1 DEF HandsOK
        <5>2. \A i \in Content : wire[i].seq < d.seq /\ i < n
          BY <5>1, <3>1, <3>4 DEF WireOK
        <5>3. QED
          <6>1. ~AtRest("call")' => FALSE
            BY <5>1, <2>1, <3>6
          <6>2. \A i, j \in Content' : i < j => wire'[i].seq < wire'[j].seq
            <7>1. TAKE i \in Content', j \in Content'
            <7>2. CASE i = n
              BY <7>2, <5>2, <3>3, <3>4
            <7>3. CASE j = n /\ i # n
              BY <7>3, <4>1, <5>2, <3>3, <3>4, <3>5
            <7>4. CASE i # n /\ j # n
              BY <7>4, <3>3, <3>4, <3>5 DEF WireOK
            <7>5. QED
              BY <7>2, <7>3, <7>4
          <6>3. QED
            BY <6>1, <6>2
      <4>2. CASE d.kind # "content"
        BY <4>2, <2>1, <3>3, <3>4, <3>5 DEF WireOK, AtRest
      <4>3. QED
        BY <4>1, <4>2
    <3>9. QED
      BY <3>7, <3>8 DEF WireOK
  <2>4. QED
    BY <2>2, <2>3
<1>4. CASE SendsEnd
  <2> DEFINE e == [seq |-> -1, kind |-> "end"]
  <2>1. UNCHANGED <<numbered, seq>> /\ (wire' = wire \/ wire' = Append(wire, e))
    BY <1>4 DEF SendsEnd
  <2>2. Deltas' = Deltas /\ Content' = Content /\ \A i \in Deltas : wire'[i] = wire[i]
    <3>1. CASE wire' = wire
      BY <3>1 DEF Deltas, Content
    <3>2. CASE wire' = Append(wire, e)
      <4>1. e \in Delta
        BY DeltasAre
      <4>2. Deltas' = Deltas /\ Content' = Content
        BY <3>2, <4>1, <1>2
      <4>3. \A i \in Deltas : wire'[i] = wire[i]
        BY <3>2, <4>1, <1>2 DEF Deltas
      <4>4. QED
        BY <4>2, <4>3
    <3>3. QED
      BY <2>1, <3>1, <3>2
  <2>3. Content \subseteq Deltas
    BY DEF Deltas, Content
  <2>4. \A i \in Deltas :
          /\ wire'[i].seq \in 0..(seq' - 1)
          /\ \A j \in Deltas : i # j => wire'[i].seq # wire'[j].seq
          /\ \A s \in Senders : ~AtRest(s)' => numbered'[s].seq # wire'[i].seq
    BY <2>1, <2>2 DEF WireOK, AtRest
  <2>5. \A i \in Content :
          /\ \A j \in Content : i < j => wire'[i].seq < wire'[j].seq
          /\ ~AtRest("call")' => wire'[i].seq < numbered'["call"].seq
    BY <2>1, <2>2, <2>3 DEF WireOK, AtRest
  <2>6. QED
    BY <2>2, <2>4, <2>5 DEF WireOK
<1>5. CASE QuietStep
  <2>1. UNCHANGED <<numbered, seq, wire>>
    BY <1>5, QuietStepKeeps
  <2>2. QED
    BY <2>1 DEF WireOK, AtRest, Deltas, Content
<1>6. QED
  <2>1. CASE AdmitKeepalive
    BY <1>1, <2>1 DEF AdmitKeepalive
  <2>2. CASE RuntimeOutput
    BY <1>1, <2>2 DEF RuntimeOutput
  <2>3. CASE DogKeepalive
    BY <1>1, <2>3 DEF DogKeepalive
  <2>4. QED
    BY <2>1, <2>2, <2>3, <1>3, <1>4, <1>5 DEF DeltaNext, QuietStep

LEMMA EndStep ==
  ASSUME DeltaTypeOK, HandsOK, EndIsLast, [DeltaNext]_delta_vars PROVE EndIsLast'
<1> USE DEF DeltaTypeOK, Senders
<1>1. ASSUME wire' = wire, call = "ended" => call' = "ended" PROVE EndIsLast'
  BY <1>1 DEF EndIsLast, EndsSent, Content
<1>2. ASSUME NEW s \in Senders, HandOver(s), open PROVE EndIsLast'
  <2> DEFINE n == Len(wire) + 1
             d == numbered[s]
  <2>1. wire' = Append(wire, d) /\ d \in Delta /\ d.kind \in {"content", "keepalive"}
    BY <1>2 DEF HandOver, HandsOK
  <2>2. /\ Len(wire) \in Nat /\ Len(wire') = n /\ wire'[n] = d
        /\ \A i \in 1..Len(wire) : wire'[i] = wire[i]
    BY <2>1
  <2>3. EndsSent' = EndsSent
    BY <2>1, <2>2 DEF EndsSent
  <2>4. call' = call
    BY <1>2 DEF HandOver
  <2>5. CASE EndsSent = {}
    BY <2>3, <2>5 DEF EndIsLast
  <2>6. CASE EndsSent # {}
    <3>1. call = "ended" /\ s = "dog"
      BY <1>2, <2>6 DEF EndIsLast, HandsOK, HandOver
    <3>2. Content' = Content
      BY <3>1, <2>1, <2>2 DEF Content, HandsOK
    <3>3. QED
      BY <2>3, <2>4, <3>2 DEF EndIsLast
  <2>7. QED
    BY <2>5, <2>6
<1>3. CASE SendsEnd /\ open
  <2> DEFINE n == Len(wire) + 1
             e == [seq |-> -1, kind |-> "end"]
  <2>1. wire' = Append(wire, e) /\ e \in Delta /\ call' = "ended" /\ call # "ended"
    BY <1>3, DeltasAre DEF SendsEnd
  <2>2. /\ Len(wire) \in Nat /\ Len(wire') = n /\ wire'[n] = e
        /\ \A i \in 1..Len(wire) : wire'[i] = wire[i]
    BY <2>1
  <2>3. EndsSent = {}
    BY <2>1 DEF EndIsLast
  <2>4. EndsSent' = {n} /\ \A j \in Content' : j < n
    BY <2>2, <2>3 DEF EndsSent, Content
  <2>5. QED
    BY <2>1, <2>4 DEF EndIsLast
<1>4. CASE QuietStep
  <2>1. wire' = wire
    BY <1>4, QuietStepKeeps
  <2>2. call = "ended" => call' = "ended"
    BY <1>4 DEF QuietStep, Admitted, RuntimeProgress, ClientReturns, CtxEnds, StreamBreaks,
         DogStops, DogTick, DogIdle, DogNotIdle, DogCadence, Tick, delta_vars, clocks
  <2>3. QED
    BY <1>1, <2>1, <2>2
<1>5. CASE AdmitKeepalive \/ RuntimeOutput \/ DogKeepalive
  BY <1>1, <1>5 DEF AdmitKeepalive, RuntimeOutput, DogKeepalive
<1>6. ASSUME NEW s \in Senders, HandOver(s), ~open PROVE EndIsLast'
  <2>1. wire' = wire /\ (call = "ended" => call' = "ended")
    BY <1>6 DEF HandOver, HandsOK
  <2>2. QED
    BY <1>1, <2>1
<1>7. CASE SendsEnd /\ ~open
  BY <1>1, <1>7 DEF SendsEnd
<1>8. QED
  BY <1>2, <1>3, <1>4, <1>5, <1>6, <1>7 DEF DeltaNext, QuietStep

(* The watchdog's own steps, and those of the call, the context and time.  *)
LEMMA DogStep ==
  ASSUME UnitsAssumption, DeltaTypeOK, HandsOK, DogOK, [DeltaNext]_delta_vars PROVE DogOK'
<1> USE Units DEF DeltaTypeOK, Senders, Silent, Ages
<1>1. /\ Idle \in Nat \ {0, 1} /\ cadence \in Nat \ {0} /\ tick \in 1..cadence
  BY DEF UnitsAssumption
<1>2. ASSUME NEW s \in Senders, HandOver(s) PROVE DogOK'
  BY <1>1, <1>2 DEF HandOver, DogOK, HandsOK, clocks
<1>3. CASE AdmitKeepalive
  BY <1>1, <1>3 DEF AdmitKeepalive, number, DogOK
<1>4. CASE Admitted
  BY <1>1, <1>4 DEF Admitted, DogOK
<1>5. CASE RuntimeOutput
  BY <1>1, <1>5 DEF RuntimeOutput, number, DogOK
<1>6. CASE RuntimeProgress
  BY <1>1, <1>6 DEF RuntimeProgress, DogOK
<1>7. CASE ClientReturns \/ SendsEnd
  BY <1>1, <1>7 DEF ClientReturns, SendsEnd, DogOK, clocks
<1>8. CASE DogStops
  BY <1>1, <1>8 DEF DogStops, DogOK, clocks
<1>9. CASE DogTick
  BY <1>1, <1>9 DEF DogTick, DogOK
<1>10. CASE DogIdle \/ DogNotIdle
  BY <1>1, <1>10 DEF DogIdle, DogNotIdle, idleExpired, DogOK, clocks
<1>11. CASE DogCadence
  BY <1>1, <1>11 DEF DogCadence, DogOK, clocks
<1>12. CASE DogKeepalive
  BY <1>1, <1>12 DEF DogKeepalive, number, DogOK
<1>13. CASE CtxEnds \/ StreamBreaks
  BY <1>1, <1>13 DEF CtxEnds, StreamBreaks, DogOK, clocks
<1>14. CASE Tick
  BY <1>1, <1>14 DEF Tick, Older, DogOK
<1>15. CASE UNCHANGED delta_vars
  BY <1>15 DEF delta_vars, clocks, DogOK
<1>16. QED
  BY <1>2, <1>3, <1>4, <1>5, <1>6, <1>7, <1>8, <1>9, <1>10, <1>11, <1>12, <1>13, <1>14, <1>15
     DEF DeltaNext

LEMMA InitDelta == ASSUME UnitsAssumption PROVE DeltaInit => DeltaTypeOK /\ DeltaInv
<1> SUFFICES ASSUME DeltaInit PROVE DeltaInv
  BY InitTypes
<1>1. wire = <<>> /\ Len(wire) = 0
  BY DEF DeltaInit
<1>2. Deltas = {} /\ Content = {} /\ EndsSent = {}
  BY <1>1 DEF Deltas, Content, EndsSent
<1>3. \A s \in Senders : numbered[s] = Nothing
  BY DEF DeltaInit
<1>4. HandsOK
  BY <1>3 DEF DeltaInit, HandsOK, AtRest, Nothing, Senders
<1>5. WireOK /\ EndIsLast
  BY <1>2 DEF WireOK, EndIsLast
<1>6. DogOK
  BY DEF DeltaInit, DogOK
<1>7. QED
  BY <1>4, <1>5, <1>6 DEF DeltaInv

LEMMA DeltaNextKeeps ==
  ASSUME UnitsAssumption
  PROVE  DeltaTypeOK /\ DeltaInv /\ [DeltaNext]_delta_vars => DeltaTypeOK' /\ DeltaInv'
  BY NextTypes, HandsStep, WireStep, EndStep, DogStep DEF DeltaInv

(* The order on the wire, from the order of the hands.                     *)
LEMMA OrderFollows == ASSUME DeltaTypeOK, DeltaInv PROVE AnswerIsInOrder
<1> USE DEF DeltaTypeOK, DeltaInv
<1>1. /\ DOMAIN Numbers = Deltas /\ Content \subseteq Deltas
      /\ \A i \in Deltas : Numbers[i] = wire[i].seq
  BY DEF Numbers, Deltas, Content
<1>2. Range(Numbers) = {wire[i].seq : i \in Deltas}
  BY <1>1 DEF Range
<1>3. OneNumbering
  BY <1>1, <1>2 DEF OneNumbering, WireOK
<1>4. Cardinality(EndsSent) <= 1
  <2>1. CASE EndsSent = {}
    BY <2>1, FS_EmptySet
  <2>2. ASSUME NEW i \in EndsSent PROVE Cardinality(EndsSent) <= 1
    <3>1. EndsSent = {i}
      BY <2>2 DEF EndIsLast
    <3>2. Cardinality({i}) = 1
      BY FS_Singleton
    <3>3. QED
      BY <3>1, <3>2
  <2>3. QED
    BY <2>1, <2>2
<1>5. AnswerBeforeEnd
  BY <1>4 DEF AnswerBeforeEnd, EndIsLast, HandsOK
<1>6. QED
  BY <1>3, <1>5 DEF AnswerIsInOrder

LEMMA SilenceFollows == ASSUME UnitsAssumption, DeltaTypeOK, DeltaInv PROVE SilenceIsBounded
<1> USE Units DEF DeltaTypeOK, DeltaInv, Ages
<1>1. Idle \in Nat
  BY DEF UnitsAssumption
<1>2. QuietRuntimeIsStopped
  BY <1>1 DEF QuietRuntimeIsStopped, DogOK, Silent
<1>3. KeepaliveCadence
  <2> SUFFICES ASSUME call = "running", callCtx = "live" PROVE 2 * sendAge <= 3 * cadence
    BY DEF KeepaliveCadence
  <2>1. sendAge <= cadence - 1 + tick
    BY DEF DogOK
  <2>2. 2 * tick <= cadence + 2
    BY Units
  <2>3. QED
    BY <2>1, <2>2
<1>4. QED
  BY <1>2, <1>3 DEF SilenceIsBounded

(* deltaStream and Manager.watchdog, for any ceilings, cadences and        *)
(* deadlines: what the fields of a call's stream may hold.                 *)
THEOREM DeltaTypeCorrect == ASSUME UnitsAssumption PROVE DeltaSpec => []DeltaTypeOK
<1>1. DeltaInit => DeltaTypeOK
  BY InitTypes
<1>2. DeltaTypeOK /\ [DeltaNext]_delta_vars => DeltaTypeOK'
  BY NextTypes
<1>3. QED
  BY <1>1, <1>2, PTL DEF DeltaSpec

(* The cluster sees one numbering, the answer's pieces in their order, and *)
(* one End behind them, although two goroutines number and send            *)
(* (deltaStream.send, Manager.run).                                        *)
THEOREM AnswersComeInOrder == ASSUME UnitsAssumption PROVE DeltaSpec => []AnswerIsInOrder
<1>1. DeltaInit => DeltaTypeOK /\ DeltaInv
  BY InitDelta
<1>2. DeltaTypeOK /\ DeltaInv /\ [DeltaNext]_delta_vars => DeltaTypeOK' /\ DeltaInv'
  BY DeltaNextKeeps
<1>3. DeltaTypeOK /\ DeltaInv => AnswerIsInOrder
  BY OrderFollows
<1>4. QED
  BY <1>1, <1>2, <1>3, PTL DEF DeltaSpec

(* A runtime gone quiet is stopped within a tick of the ceiling, whatever  *)
(* keepalives went out meanwhile, and one that works in silence is heard   *)
(* of within one and a half keepalives (Manager.watchdog).                 *)
THEOREM SilenceIsAlwaysBounded == ASSUME UnitsAssumption PROVE DeltaSpec => []SilenceIsBounded
<1>1. DeltaInit => DeltaTypeOK /\ DeltaInv
  BY InitDelta
<1>2. DeltaTypeOK /\ DeltaInv /\ [DeltaNext]_delta_vars => DeltaTypeOK' /\ DeltaInv'
  BY DeltaNextKeeps
<1>3. DeltaTypeOK /\ DeltaInv => SilenceIsBounded
  BY SilenceFollows
<1>4. QED
  BY <1>1, <1>2, <1>3, PTL DEF DeltaSpec

-----------------------------------------------------------------------------
(* RuntimeAnswer                                                           *)

(* What is read of an answer is what was written of it, and how much of it *)
(* there is while the call is at work.                                     *)
AnswerInv ==
  /\ heard = calling /\ told + backheld <= meant
  /\ api = "ollama" \/ (ending /\ why = "stop") =>
       \A c \in ToolCalls : calling[c] \in {0, Fragments}
  /\ asked # "none" => want.kind \in Chats
  /\ request # "ended" => /\ Honest => told + backheld = meant
                          /\ asked = "prompt" => told = 0
  /\ request \in {"asking", "body"} => /\ meant = 0 /\ told = 0 /\ backheld = 0 /\ ~ending
                                       /\ \A c \in ToolCalls : calling[c] = 0
  /\ request = "body" => want.kind \in Whole

(* The ends of an answer: what was told of it is settled.                  *)
Settled == SuccessIsWhole /\ NoHalfCall /\ CheckedBeforeTold

LEMMA NoEndIs == NoEnd.finish = "" /\ NoEnd.calls = {} /\ NoEnd.texts = 0
  BY DEF NoEnd

(* One body has no piece kept back.                                        *)
LEMMA NoneKeptBack == \A n \in 0 .. 1 : n + 0 <= n
  OBVIOUS

LEMMA InitAnswer ==
  ASSUME AnswerAssumption PROVE AnswerInit => AnswerTypeOK /\ AnswerInv /\ Settled
<1> SUFFICES ASSUME AnswerInit PROVE AnswerTypeOK /\ AnswerInv /\ Settled
  OBVIOUS
<1> USE DEF AnswerInit, AnswerAssumption
<1>1. AnswerTypeOK
  <2>1. calling \in [ToolCalls -> 0 .. Fragments] /\ heard \in [ToolCalls -> 0 .. Fragments]
    OBVIOUS
  <2>2. meant \in 0 .. MaxPieces /\ told \in 0 .. MaxPieces /\ backheld \in 0 .. MaxPieces
    OBVIOUS
  <2>3. QED
    BY <2>1, <2>2 DEF AnswerTypeOK
<1>2. AnswerInv
  BY DEF AnswerInv, Servable
<1>3. Settled
  BY DEF Settled, SuccessIsWhole, NoHalfCall, CheckedBeforeTold, Succeeded, NoEnd
<1>4. QED
  BY <1>1, <1>2, <1>3

(* A client that failed ends the call, with no half of a tool call.        *)
LEMMA FailedEnds ==
  ASSUME AnswerTypeOK, AnswerInv, Fails
  PROVE  /\ request' = "ended" /\ result' # NoEnd
         /\ result'.finish \notin {"stop", "length"}
         /\ result'.calls \subseteq Complete(calling)
<1>1. result'.finish \in {"stopped", "error"} /\ request' = "ended"
  BY DEF Fails, EndsWith, classified
<1>2. result' # NoEnd
  BY <1>1, NoEndIs
<1>3. result'.calls \subseteq Complete(calling)
  BY DEF Fails, EndsWith, Complete, Begun, AnswerInv, AnswerTypeOK
<1>4. QED
  BY <1>1, <1>2, <1>3

LEMMA NextAnswer ==
  ASSUME AnswerAssumption, AnswerTypeOK, AnswerInv, Settled, Honest, [AnswerNext]_answer_vars
  PROVE  AnswerTypeOK' /\ AnswerInv' /\ Settled'
<1> USE DEF AnswerTypeOK, AnswerAssumption, ghosts
(* A step that fails the call, and at most adds a piece nobody is told.    *)
<1>1. ASSUME Fails, request # "ended", UNCHANGED <<api, want, calling, heard, why, told, backheld>>,
             UNCHANGED <<asked, fits, ending>>, meant' \in meant .. MaxPieces, thought' = thought
      PROVE  AnswerTypeOK' /\ AnswerInv' /\ Settled'
  <2>1. /\ request' = "ended" /\ result' # NoEnd
        /\ result'.finish \notin {"stop", "length"} /\ result'.calls \subseteq Complete(calling)
    BY <1>1, FailedEnds
  <2>2. AnswerTypeOK'
    BY <1>1, <2>1
  <2>3. AnswerInv'
    BY <1>1, <2>1 DEF AnswerInv
  <2>4. asked' = "prompt" => ~(told' > 0)
    BY <1>1 DEF AnswerInv
  <2>5. Settled'
    BY <1>1, <2>1, <2>4 DEF Settled, SuccessIsWhole, NoHalfCall, CheckedBeforeTold, Succeeded, Complete
  <2>6. QED
    BY <2>2, <2>3, <2>5
(* A step before the end, after which nothing is settled yet.              *)
<1>2. ASSUME request # "ended", request' # "ended", AnswerTypeOK', AnswerInv'
      PROVE  Settled'
  <2>1. result' = NoEnd /\ (asked' = "prompt" => told' = 0)
    BY <1>2 DEF AnswerInv
  <2>2. ~Succeeded' /\ NoHalfCall'
    BY <2>1, NoEndIs DEF Succeeded, NoHalfCall
  <2>3. QED
    BY <2>1, <2>2 DEF Settled, SuccessIsWhole, CheckedBeforeTold
<1>3. CASE Accepted
  <2>1. AnswerTypeOK' /\ request # "ended" /\ request' # "ended"
    BY <1>3 DEF Accepted
  <2>2. AnswerInv'
    BY <1>3 DEF Accepted, AnswerInv
  <2>3. QED
    BY <1>2, <2>1, <2>2
<1>4. CASE Unsupported
  <2>1. CASE want.tools
    BY <1>1, <1>4, <2>1 DEF Unsupported
  <2>2. CASE ~want.tools
    <3>1. AnswerTypeOK' /\ request # "ended" /\ request' # "ended"
      BY <1>4, <2>2 DEF Unsupported
    <3>2. AnswerInv'
      BY <1>4, <2>2 DEF Unsupported, AnswerInv
    <3>3. QED
      BY <1>2, <3>1, <3>2
  <2>3. QED
    BY <2>1, <2>2
<1>5. CASE Refused
  BY <1>1, <1>5 DEF Refused
<1>6. CASE CutOff
  BY <1>1, <1>6 DEF CutOff, Reading
<1>7. CASE EmitFails
  BY <1>1, <1>7 DEF EmitFails, Writing, Reading
<1>8. CASE Garbled
  BY <1>1, <1>8 DEF Garbled, Writing, Reading
<1>9. CASE ReportsError
  BY <1>1, <1>9 DEF ReportsError, Writing, Reading
<1>10. CASE Text
  <2>1. request = "reading" /\ request' = "reading" /\ result' = result
    BY <1>10 DEF Text, Writing, Reading
  <2>2. AnswerInv'
    BY <1>10, <2>1 DEF Text, AnswerInv, KeptBack
  <2>3. AnswerTypeOK'
    BY <1>10, <2>1, <2>2 DEF Text, AnswerInv
  <2>4. QED
    BY <1>2, <2>1, <2>2, <2>3
<1>11. CASE Thinks
  <2>1. AnswerTypeOK' /\ request = "reading" /\ request' = "reading"
    BY <1>11 DEF Thinks, Writing, Reading
  <2>2. AnswerInv'
    BY <1>11 DEF Thinks, AnswerInv
  <2>3. QED
    BY <1>2, <2>1, <2>2
<1>12. ASSUME NEW c \in ToolCalls, CallsTool(c) PROVE AnswerTypeOK' /\ AnswerInv' /\ Settled'
  <2>1. request = "reading" /\ request' = "reading" /\ result' = result /\ ~ending
    BY <1>12 DEF CallsTool, Writing, Reading
  <2>2. heard' = calling' /\ calling' \in [ToolCalls -> 0 .. Fragments]
    BY <1>12 DEF CallsTool, AnswerInv
  <2>3. AnswerTypeOK'
    BY <1>12, <2>1, <2>2 DEF CallsTool
  <2>4. AnswerInv'
    BY <1>12, <2>1, <2>2 DEF CallsTool, AnswerInv
  <2>5. QED
    BY <1>2, <2>1, <2>3, <2>4
<1>13. CASE Finishes
  <2>1. AnswerTypeOK' /\ request = "reading" /\ request' = "reading"
    BY <1>13 DEF Finishes, Writing, Reading
  <2>2. AnswerInv'
    BY <1>13, <2>1 DEF Finishes, AnswerInv
  <2>3. QED
    BY <1>2, <2>1, <2>2
<1>14. CASE Done
  <2>1. CASE \/ api = "ollama" /\ want.schema /\ ~Answered /\ thought
             \/ asked = "prompt" /\ ~(fits /\ backheld > 0)
    BY <1>1, <1>14, <2>1 DEF Done, Reading
  <2>2. CASE ~(\/ api = "ollama" /\ want.schema /\ ~Answered /\ thought
               \/ asked = "prompt" /\ ~(fits /\ backheld > 0))
    <3>1. /\ told' = meant /\ backheld' = 0 /\ request' = "ended" /\ ending
          /\ result' = [finish |-> why, calls |-> Begun(heard), texts |-> told']
          /\ UNCHANGED <<api, want, asked, ghosts, thought, heard, why, stopped>>
      BY <1>14, <2>2 DEF Done, EndsWith, Reading, AnswerInv
    <3>2. Begun(heard) = Begun(calling) /\ (why # "length" => Begun(heard) = Complete(calling))
      BY <3>1 DEF Complete, Begun, AnswerInv
    <3>3. AnswerTypeOK'
      <4>1. result'.finish # ""
        BY <3>1
      <4>2. result' # NoEnd
        BY <4>1, NoEndIs
      <4>3. QED
        BY <3>1, <4>2
    <3>4. AnswerInv'
      BY <3>1 DEF AnswerInv
    <3>5. SuccessIsWhole' /\ NoHalfCall'
      BY <3>1, <3>2 DEF SuccessIsWhole, NoHalfCall, Complete, Begun
    <3>6. CheckedBeforeTold'
      BY <2>2, <3>1 DEF CheckedBeforeTold
    <3>7. QED
      BY <3>3, <3>4, <3>5, <3>6 DEF Settled
  <2>3. QED
    BY <2>1, <2>2
<1>15. ASSUME NEW body \in Bodies, ReadsBody(body) PROVE AnswerTypeOK' /\ AnswerInv' /\ Settled'
  <2>1. /\ meant' \in 0 .. 1 /\ told' = meant' /\ request = "body"
        /\ ending' = (body = "whole") /\ backheld' = 0 /\ asked' = "none"
        /\ UNCHANGED <<api, want, asked, calling, fits, thought, backheld, heard, why, stopped>>
    BY <1>15 DEF ReadsBody, Words, AnswerInv, Whole, Chats
  <2>2. \A c \in ToolCalls : calling[c] = 0
    BY <2>1 DEF AnswerInv
  <2>3. Begun(heard) = {}
    BY <2>2 DEF Begun, AnswerInv
  <2>4. Fails \/ (EndsWith("stop", {}, told') /\ body = "whole")
    <3>1. ~Unseen(body)
      BY <1>15 DEF ReadsBody
    <3>2. CASE body = "whole"
      <4>1. EndsWith("stop", {}, told')
        BY <1>15, <3>2, Zenon DEF ReadsBody
      <4>2. QED
        BY <3>2, <4>1
    <3>3. CASE body # "whole"
      BY <1>15, <3>1, <3>3, Zenon DEF ReadsBody
    <3>4. QED
      BY <3>2, <3>3
  <2>9. /\ request' = "ended" /\ result' # NoEnd /\ result'.calls = {}
        /\ Succeeded' => ending' /\ result'.texts = meant'
    <3>1. CASE Fails
      <4>1. /\ result'.finish \in {"stopped", "error"} /\ request' = "ended"
            /\ result'.calls = {}
        BY <3>1, <2>3 DEF Fails, EndsWith, classified
      <4>2. QED
        BY <4>1, NoEndIs DEF Succeeded
    <3>2. CASE EndsWith("stop", {}, told') /\ body = "whole"
      <4>1. result'.finish = "stop" /\ result'.calls = {} /\ result'.texts = told' /\ request' = "ended"
        BY <3>2 DEF EndsWith
      <4>2. QED
        BY <2>1, <3>2, <4>1, NoEndIs
    <3>3. QED
      BY <2>4, <3>1, <3>2
  <2>5. AnswerTypeOK'
    BY <2>1, <2>9
  <2>6. AnswerInv'
    <3>1. heard' = calling' /\ \A c \in ToolCalls : calling'[c] = 0
      BY <2>1, <2>2 DEF AnswerInv
    <3>2. meant' \in 0 .. 1 /\ told' = meant' /\ backheld' = 0
      BY <2>1
    <3>3. told' + backheld' <= meant'
      BY <3>2, NoneKeptBack
    <3>4. asked' = "none"
      BY <2>1
    <3>5. QED
      BY <2>9, <3>1, <3>3, <3>4 DEF AnswerInv
  <2>7. SuccessIsWhole' /\ NoHalfCall' /\ CheckedBeforeTold'
    BY <2>1, <2>2, <2>9 DEF SuccessIsWhole, NoHalfCall, CheckedBeforeTold, Begun
  <2>8. QED
    BY <2>5, <2>6, <2>7 DEF Settled
<1>16. CASE Stops
  <2>1. AnswerTypeOK' /\ request # "ended" /\ request' # "ended"
    BY <1>16 DEF Stops
  <2>2. AnswerInv'
    BY <1>16 DEF Stops, AnswerInv
  <2>3. QED
    BY <1>2, <2>1, <2>2
<1>17. CASE UNCHANGED answer_vars
  BY <1>17 DEF answer_vars, AnswerInv, Settled, SuccessIsWhole, NoHalfCall, CheckedBeforeTold,
               Succeeded, Complete, Begun
<1>18. QED
  BY <1>3, <1>4, <1>5, <1>6, <1>7, <1>8, <1>9, <1>10, <1>11, <1>12, <1>13, <1>14, <1>15, <1>16,
     <1>17 DEF AnswerNext, Over

(* readChat, chatRaw and runModality, for any answer of any runtime that   *)
(* lets no failure look like an end (Honest), broken off at any point: an  *)
(* End without an error is of an answer the runtime finished, with all its *)
(* text and all its tool calls, no End carries half a call unless it says  *)
(* that the output bound cut the answer short, and nothing is told of an   *)
(* answer that must be checked first.                                      *)
THEOREM AnswersAreWhole ==
  ASSUME AnswerAssumption, Honest PROVE AnswerSpec => []AnswerIsWhole
<1>1. AnswerInit => AnswerTypeOK /\ AnswerInv /\ Settled
  BY InitAnswer
<1>2. AnswerTypeOK /\ AnswerInv /\ Settled /\ [AnswerNext]_answer_vars
        => AnswerTypeOK' /\ AnswerInv' /\ Settled'
  BY NextAnswer
<1>3. AnswerTypeOK /\ AnswerInv /\ Settled => AnswerIsWhole
  BY DEF AnswerIsWhole, Settled
<1>4. QED
  BY <1>1, <1>2, <1>3, PTL DEF AnswerSpec
=============================================================================
