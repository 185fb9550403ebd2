------------------------ MODULE MachineCapacityProofs ------------------------
(***************************************************************************)
(* What keeps a machine in order: MachineCapacity, for any number of       *)
(* processes, goals, slots and crashes, and whatever memory the machine    *)
(* has; ModelPull, for any number of models and pulls of them;             *)
(* BuildContainer, for any services, attempts and mishaps.                 *)
(***************************************************************************)
EXTENDS MachineCapacity, ModelPull, BuildContainer, FiniteSetTheorems, TLAPS

-----------------------------------------------------------------------------
(* MachineCapacity                                                         *)

(* Where a key has a slot and no record in it, and where it has one.       *)
Fresh == {"looked", "reserved", "admitted"}
OnRecord == {"journaled", "executing", "idle", "ending", "tombed", "clearing", "uncertain"}

(* What each step of a holder says of the record in its slot.              *)
HolderSays(h) ==
  /\ h \in Procs => step[h] \in CleanSteps \cup {"none", "holding"}
  /\ h \in Keys =>
       /\ step[h] # "holding"
       /\ step[h] \in Fresh => names[h] < MaxNames
       /\ step[h] \in OnRecord => names[h] # 0 /\ slotRecord[slot[h]] = Named(h)
  /\ step[h] = "admitted" => slotRecord[slot[h]] = NoRecord
  /\ step[h] \in CleanSteps => slotRecord[slot[h]] # NoRecord
  /\ step[h] \in {"clearing", "removed", "buried"} => slotRecord[slot[h]] \notin containers
HolderOK == \A h \in Holders : HolderSays(h)

(* No container is on two records, and none is on no record.               *)
RecordOK ==
  /\ \A i \in Slots : slotRecord[i] # NoRecord => slotRecord[i].name <= names[slotRecord[i].key]
  /\ \A i, j \in Slots : slotRecord[i] = slotRecord[j] => i = j \/ slotRecord[i] = NoRecord
  /\ \A c \in containers : \E i \in Slots : slotRecord[i] = c

(* A build excludes another, every workspace and its record; a workspace   *)
(* that is locked or on record excludes a build's record.                  *)
FenceOK ==
  /\ \A p, q \in Procs : build[p] # "none" /\ build[q] # "none" => p = q
  /\ Building # {} => Locked = {} /\ Active = {}
  /\ Locked # {} \/ Active # {} => pipeRecord = "none"

(* What each step of a build says of its record and its directory.         *)
BuildOK ==
  /\ work # "none" => pipeRecord = work
  /\ scratch => pipeRecord # "none"
  /\ \A p \in Procs :
       /\ build[p] \in {"torn", "stopped"} => work = "none" /\ pipeRecord # "none"
       /\ build[p] \in {"dropped", "named", "made", "fetched", "emptied"} => pipeRecord = "cleanup"
       /\ build[p] \in {"dropped", "named", "emptied"} => ~scratch
       /\ build[p] = "clean" => pipeRecord = "none"
       /\ build[p] \in {"recorded", "working"} => pipeRecord \in {"checkout", "native", "container"}
       /\ build[p] = "finishing" => pipeRecord # "none"

(* Memory is charged when it is measured, under the admission lock.        *)
RoomOK ==
  /\ \A j, k \in Keys : j \in Admitting /\ k \in Admitting => j = k
  /\ Cardinality(Active) <= room
  /\ \A k \in Keys : step[k] = "admitted" => Cardinality(Active) < room

IInv == TypeOK /\ HolderOK /\ RecordOK /\ FenceOK /\ BuildOK /\ RoomOK

-----------------------------------------------------------------------------
(* Type correctness                                                        *)

(* The invariant holds when nothing has been started.                     *)
LEMMA InitIInv == Init => IInv
<1> SUFFICES ASSUME Init PROVE IInv
  OBVIOUS
<1>1. TypeOK
  <2>1. /\ 0 \in 0..MaxNames
        /\ crashes \in 0..MaxCrashes /\ outages \in 0..MaxOutages
        /\ pipeRecord \in Executions /\ work \in {"none", "checkout", "native", "container"}
    BY CapacityAssumption DEF Init, Executions
  <2>2. /\ step \in [Holders -> WorkspaceSteps \cup CleanSteps \cup {"holding"}]
        /\ slot \in [Holders -> Slots \cup {NoSlot}]
        /\ build \in [Procs -> BuildSteps]
        /\ slotRecord \in [Slots -> Records \cup {NoRecord}]
        /\ names \in [Keys -> 0..MaxNames]
    BY <2>1 DEF Init, WorkspaceSteps, BuildSteps
  <2>3. /\ \A g, h \in Holders : g # h /\ slot[g] = slot[h] => slot[g] = NoSlot
        /\ \A h \in Holders : slot[h] = NoSlot <=> step[h] \in {"none", "looked"}
    BY DEF Init
  <2>4. scratch \in BOOLEAN /\ docker \in BOOLEAN
    BY DEF Init
  <2>5. ended \subseteq Keys /\ containers \subseteq Records /\ room \in Rooms
    BY DEF Init
  <2>6. QED
    BY <2>1, <2>2, <2>3, <2>4, <2>5 DEF TypeOK
<1>2. Locked = {} /\ Active = {} /\ Building = {} /\ Admitting = {}
  BY DEF Init, Locked, Active, Building, Admitting, Holders
<1>3. HolderOK /\ RecordOK
  BY CapacityAssumption DEF Init, HolderOK, HolderSays, RecordOK, Fresh, OnRecord, CleanSteps, Holders
<1>4. FenceOK /\ BuildOK
  BY <1>2 DEF Init, FenceOK, BuildOK
<1>5. RoomOK
  BY <1>2, CapacityAssumption, FS_EmptySet DEF Init, RoomOK, Holders
<1>6. QED
  BY <1>1, <1>3, <1>4, <1>5 DEF IInv

(* A step of a workspace, of a reconciler, or of the machine.              *)
WorkspaceStep ==
  \/ \E k \in Keys : Creation(k) \/ Use(k) \/ Retirement(k)
  \/ \E h \in Holders : Reconciliation(h)
  \/ \E p \in Procs : \E i \in Slots : ReconcileTakes(p, i)
  \/ \E p \in Procs : ReconcileReads(p) \/ ReconcileLeaves(p)

(* Neither touches what the other keeps.                                   *)
LEMMA WorkspaceLeavesBuilds ==
  ASSUME WorkspaceStep
  PROVE  UNCHANGED <<build, pipeRecord, scratch, work, docker, room, bounds>>
<1> USE DEF files, bounds
<1>1. CASE \E k \in Keys : Creation(k)
  BY <1>1 DEF Creation, Look, Reserve, ReserveFails, Admit, CreateRefused, Journal, Create,
              CreateFails, To, Release
<1>2. CASE \E k \in Keys : Use(k) \/ Retirement(k)
  BY <1>2 DEF Use, Execute, Executed, Retire, Retirement, RetireBuries, RetireRemoves,
              RetireEnds, To, Release
<1>3. CASE \E h \in Holders : Reconciliation(h)
  BY <1>3 DEF Reconciliation, RemoveRecorded, RemoveUnconfirmed, BuryRecorded, ClearRecorded,
              To, Release
<1>4. CASE \E p \in Procs : (\E i \in Slots : ReconcileTakes(p, i))
                              \/ ReconcileReads(p) \/ ReconcileLeaves(p)
  BY <1>4 DEF ReconcileTakes, ReconcileReads, ReconcileLeaves, To, Release
<1>5. QED
  BY <1>1, <1>2, <1>3, <1>4 DEF WorkspaceStep

(* A build's step touches nothing of the workbenches.                     *)
LEMMA BuildLeavesWorkbench ==
  ASSUME NEW p \in Procs, Recovery(p) \/ Build(p)
  PROVE  UNCHANGED workbench
BY DEF Recovery, Build, workbench, Acquire, TearDown, TornReady, DropsOld, ClearsOld, Gives,
       NamesWorkspace, MakesWorkspace, MkdirFails, Begin, Starts, Stops, CleanupReady,
       Finishes, Finished, BuildTo

(* TypeOK in two parts: who is where with which lock, and everything else. *)
StepNames == WorkspaceSteps \cup CleanSteps \cup {"holding"}
Unlocked == {"none", "looked"}
Locking ==
  /\ step \in [Holders -> StepNames]
  /\ slot \in [Holders -> Slots \cup {NoSlot}]
  /\ \A g, h \in Holders : g # h /\ slot[g] = slot[h] => slot[g] = NoSlot
  /\ \A h \in Holders : slot[h] = NoSlot <=> step[h] \in Unlocked
Keeping ==
  /\ slotRecord \in [Slots -> Records \cup {NoRecord}]
  /\ containers \subseteq Records
  /\ names \in [Keys -> 0..MaxNames]
  /\ ended \subseteq Keys
BuildTypes ==
  /\ build \in [Procs -> BuildSteps]
  /\ pipeRecord \in Executions
  /\ scratch \in BOOLEAN
  /\ work \in {"none", "checkout", "native", "container"}
  /\ room \in Rooms /\ crashes \in 0..MaxCrashes /\ outages \in 0..MaxOutages

(* The parts are all of it, before a step and after.                      *)
LEMMA TypeParts == TypeOK <=> Locking /\ Keeping /\ BuildTypes /\ docker \in BOOLEAN
BY DEF TypeOK, Locking, Keeping, BuildTypes, StepNames, Unlocked

LEMMA TypePartsNext == (Locking /\ Keeping /\ BuildTypes /\ docker \in BOOLEAN)' => TypeOK'
BY TypeParts, PTL

(* A step between two places that hold no slot, or two that hold one.     *)
LEMMA Moves ==
  ASSUME Locking, NEW h \in Holders, NEW s \in StepNames, To(h, s), UNCHANGED slot,
         s \in Unlocked <=> step[h] \in Unlocked
  PROVE  Locking'
BY DEF Locking, To

(* Giving the slot back.                                                  *)
LEMMA ReleasesKeep ==
  ASSUME Locking, NEW h \in Holders, Release(h)
  PROVE  Locking'
BY DEF Locking, Release, To, Unlocked, StepNames, WorkspaceSteps

(* Taking a slot that nobody has.                                         *)
LEMMA Takes ==
  ASSUME Locking, NEW h \in Holders, NEW i \in Slots \ Locked, NEW s \in StepNames \ Unlocked,
         To(h, s), slot' = [slot EXCEPT ![h] = i]
  PROVE  Locking'
BY CapacityAssumption DEF Locking, To, Locked

(* The name on record is one that was drawn.                              *)
LEMMA NamedIsRecord ==
  ASSUME Keeping, HolderOK, NEW k \in Keys, step[k] \in OnRecord
  PROVE  Named(k) \in Records
<1>1. names[k] \in 1..MaxNames
  BY CapacityAssumption DEF Keeping, HolderOK, HolderSays, Holders
<1>2. QED
  BY <1>1 DEF Named, Records

(* The four groups of workspace steps keep the types.                     *)
LEMMA CreationTypes ==
  ASSUME Locking, Keeping, HolderOK, NEW k \in Keys, Creation(k)
  PROVE  Locking' /\ Keeping'
<1> USE DEF Unlocked, StepNames, WorkspaceSteps, CleanSteps
<1>1. k \in Holders
  BY DEF Holders
<1>2. CASE Look(k)
  <2>1. Locking'
    BY <1>1, <1>2, Moves DEF Look, Locking
  <2>2. Keeping'
    BY <1>1, <1>2 DEF Look, Keeping, files
  <2>3. QED
    BY <2>1, <2>2
<1>3. CASE Reserve(k)
  <2>1. Locking'
    BY <1>1, <1>3, Takes DEF Reserve, reserveAt, Locking
  <2>2. Keeping'
    BY <1>1, <1>3 DEF Reserve, Keeping, files
  <2>3. QED
    BY <2>1, <2>2
<1>4. CASE ReserveFails(k)
  <2>1. Locking'
    BY <1>1, <1>4, ReleasesKeep DEF ReserveFails
  <2>2. Keeping'
    BY <1>1, <1>4 DEF ReserveFails, Keeping, files
  <2>3. QED
    BY <2>1, <2>2
<1>5. CASE Admit(k)
  <2>1. Locking'
    BY <1>1, <1>5, Moves DEF Admit, Locking
  <2>2. Keeping'
    BY <1>1, <1>5 DEF Admit, Keeping, files
  <2>3. QED
    BY <2>1, <2>2
<1>6. CASE CreateRefused(k)
  <2>1. Locking'
    BY <1>1, <1>6, ReleasesKeep DEF CreateRefused
  <2>2. Keeping'
    BY <1>1, <1>6 DEF CreateRefused, Keeping, files
  <2>3. QED
    BY <2>1, <2>2
<1>7. CASE Journal(k)
  <2>1. Locking'
    BY <1>1, <1>7, Moves DEF Journal, Locking
  <2>2. Keeping'
    <3>1. names[k] + 1 \in 1..MaxNames /\ slot[k] \in Slots
      BY <1>1, <1>7, CapacityAssumption DEF Journal, Keeping, Locking, HolderOK, HolderSays, Fresh
    <3>2. Named(k)' \in Records
      BY <1>7, <3>1 DEF Journal, Keeping, Named, Records
    <3>3. QED
      BY <1>7, <3>1, <3>2 DEF Journal, Keeping
  <2>3. QED
    BY <2>1, <2>2
<1>8. CASE Create(k)
  <2>1. Locking'
    BY <1>1, <1>8, Moves DEF Create, Locking
  <2>2. Keeping'
    <3>1. Named(k) \in Records
      BY <1>8, NamedIsRecord DEF Create, OnRecord
    <3>2. QED
      BY <1>8, <3>1 DEF Create, Keeping, files
  <2>3. QED
    BY <2>1, <2>2
<1>9. CASE CreateFails(k)
  <2>1. Locking'
    BY <1>1, <1>9, Moves DEF CreateFails, Locking
  <2>2. Keeping'
    <3>1. Named(k) \in Records
      BY <1>9, NamedIsRecord DEF CreateFails, OnRecord
    <3>2. QED
      BY <1>9, <3>1 DEF CreateFails, Keeping, files
  <2>3. QED
    BY <2>1, <2>2
<1>10. QED
  BY <1>2, <1>3, <1>4, <1>5, <1>6, <1>7, <1>8, <1>9 DEF Creation

LEMMA RetirementTypes ==
  ASSUME Locking, Keeping, HolderOK, NEW k \in Keys, Use(k) \/ Retirement(k)
  PROVE  Locking' /\ Keeping'
<1> USE DEF Unlocked, StepNames, WorkspaceSteps, CleanSteps
<1>1. k \in Holders
  BY DEF Holders
<1>2. CASE Execute(k)
  BY <1>1, <1>2, Moves DEF Execute, Keeping, files
<1>3. CASE Executed(k)
  BY <1>1, <1>3, Moves DEF Executed, Keeping, files
<1>4. CASE Retire(k)
  BY <1>1, <1>4, Moves DEF Retire, Keeping, files
<1>5. CASE RetireBuries(k)
  BY <1>1, <1>5, Moves DEF RetireBuries, Keeping
<1>6. CASE RetireRemoves(k)
  <2>1. Locking'
    BY <1>1, <1>6, Moves DEF RetireRemoves
  <2>2. Keeping'
    BY <1>6 DEF RetireRemoves, Keeping, files
  <2>3. QED
    BY <2>1, <2>2
<1>7. CASE RetireEnds(k)
  <2>1. Locking'
    BY <1>1, <1>7, ReleasesKeep DEF RetireEnds
  <2>2. Keeping'
    BY <1>7 DEF RetireEnds, Keeping
  <2>3. QED
    BY <2>1, <2>2
<1>8. QED
  BY <1>2, <1>3, <1>4, <1>5, <1>6, <1>7 DEF Use, Retirement

LEMMA ReconciliationTypes ==
  ASSUME Locking, Keeping, HolderOK, NEW h \in Holders, Reconciliation(h)
  PROVE  Locking' /\ Keeping'
<1> USE DEF Unlocked, StepNames, WorkspaceSteps, CleanSteps
<1>1. CASE RemoveRecorded(h)
  BY <1>1, Moves DEF RemoveRecorded, Keeping, files
<1>2. CASE RemoveUnconfirmed(h)
  BY <1>2, ReleasesKeep DEF RemoveUnconfirmed, Keeping, files
<1>3. CASE BuryRecorded(h)
  <2>1. Locking'
    BY <1>3, Moves DEF BuryRecorded
  <2>2. slot[h] \in Slots /\ slotRecord[slot[h]] \in Records
    BY <1>3 DEF BuryRecorded, Locking, Keeping, HolderOK, HolderSays
  <2>3. ended' \subseteq Keys
    BY <1>3, <2>2 DEF BuryRecorded, Keeping, Records
  <2>4. QED
    BY <1>3, <2>1, <2>3 DEF BuryRecorded, Keeping
<1>4. CASE ClearRecorded(h)
  BY <1>4, ReleasesKeep DEF ClearRecorded, Keeping
<1>5. QED
  BY <1>1, <1>2, <1>3, <1>4 DEF Reconciliation

LEMMA ReconcileTypes ==
  ASSUME Locking, Keeping, NEW p \in Procs,
         \/ \E i \in Slots : ReconcileTakes(p, i)
         \/ ReconcileReads(p) \/ ReconcileLeaves(p)
  PROVE  Locking' /\ Keeping'
<1> USE DEF Unlocked, StepNames, WorkspaceSteps, CleanSteps
<1>1. p \in Holders
  BY DEF Holders
<1>2. ASSUME NEW i \in Slots, ReconcileTakes(p, i) PROVE Locking' /\ Keeping'
  BY <1>1, <1>2, Takes DEF ReconcileTakes, reserveAt, Keeping, files
<1>3. CASE ReconcileReads(p)
  BY <1>1, <1>3, Moves DEF ReconcileReads, Keeping, files
<1>4. CASE ReconcileLeaves(p)
  BY <1>1, <1>4, ReleasesKeep DEF ReconcileLeaves, Keeping, files
<1>5. QED
  BY <1>2, <1>3, <1>4

-----------------------------------------------------------------------------
(* Records and containers                                                  *)

WorkspaceInv == Locking /\ Keeping /\ HolderOK /\ RecordOK

(* A step of h that keeps to its own slot, and starts or removes only the  *)
(* container on record there, makes no other holder's word untrue.         *)
OwnSlotOnly(h) ==
  /\ \A g \in Holders \ {h} : step'[g] = step[g] /\ slot'[g] = slot[g]
  /\ \A i \in Slots : i # slot[h] => slotRecord'[i] = slotRecord[i]
  /\ \A k \in Keys \ {h} : names'[k] = names[k]
  /\ \A c \in containers' \ containers : slot[h] \in Slots /\ slotRecord[slot[h]] = c

LEMMA OthersStay ==
  ASSUME WorkspaceInv, Keeping', NEW h \in Holders, OwnSlotOnly(h), HolderSays(h)'
  PROVE  HolderOK'
<1>1. SUFFICES ASSUME NEW g \in Holders \ {h} PROVE HolderSays(g)'
  BY DEF HolderOK
<1>2. step'[g] = step[g] /\ slot'[g] = slot[g] /\ HolderSays(g)
  BY DEF OwnSlotOnly, WorkspaceInv, HolderOK
<1>3. g \in Keys => names'[g] = names[g] /\ Named(g)' = Named(g)
  BY DEF OwnSlotOnly, Named
<1>4. CASE step[g] \in Unlocked
  BY <1>2, <1>3, <1>4 DEF HolderSays, Unlocked, Fresh, OnRecord, CleanSteps
<1>5. CASE step[g] \notin Unlocked
  <2>1. slot[g] \in Slots /\ slot[g] # slot[h]
    BY <1>5 DEF WorkspaceInv, Locking
  <2>2. slotRecord'[slot[g]] = slotRecord[slot[g]]
    BY <2>1 DEF OwnSlotOnly
  <2>3. slotRecord[slot[g]] \notin containers => slotRecord[slot[g]] \notin containers'
    <3>1. ASSUME slotRecord[slot[g]] \in containers', slotRecord[slot[g]] \notin containers
          PROVE FALSE
      <4>1. slot[h] \in Slots /\ slotRecord[slot[h]] = slotRecord[slot[g]]
        BY <3>1 DEF OwnSlotOnly
      <4>2. slotRecord[slot[g]] = NoRecord
        BY <2>1, <4>1 DEF WorkspaceInv, RecordOK
      <4>3. QED
        BY <3>1, <4>2, CapacityAssumption DEF Keeping
    <3>2. QED
      BY <3>1
  <2>4. QED
    BY <1>2, <1>3, <2>2, <2>3 DEF HolderSays
<1>6. QED
  BY <1>4, <1>5

(* Each group keeps what holders say, and the records.                    *)
LEMMA CreationHolders ==
  ASSUME WorkspaceInv, Locking', Keeping', NEW k \in Keys, Creation(k)
  PROVE  HolderOK' /\ RecordOK'
<1>1. k \in Holders /\ k \notin Procs /\ HolderSays(k)
  BY CapacityAssumption DEF Holders, WorkspaceInv, HolderOK
<1> USE DEF Fresh, OnRecord, CleanSteps, Unlocked, WorkspaceInv
<1>2. CASE Look(k)
  <2>1. OwnSlotOnly(k)
    BY <1>2 DEF Look, To, OwnSlotOnly, Locking, files
  <2>2. HolderSays(k)'
    BY <1>1, <1>2 DEF Look, To, HolderSays, Locking, Named, files
  <2>3. RecordOK'
    BY <1>2 DEF Look, RecordOK, files
  <2>4. QED
    BY <1>1, <2>1, <2>2, <2>3, OthersStay
<1>3. CASE Reserve(k)
  <2>1. OwnSlotOnly(k)
    BY <1>3 DEF Reserve, To, OwnSlotOnly, Locking, files
  <2>2. HolderSays(k)'
    BY <1>1, <1>3 DEF Reserve, To, HolderSays, Locking, Named, files
  <2>3. RecordOK'
    BY <1>3 DEF Reserve, RecordOK, files
  <2>4. QED
    BY <1>1, <2>1, <2>2, <2>3, OthersStay
<1>4. CASE ReserveFails(k)
  <2>1. OwnSlotOnly(k)
    BY <1>4 DEF ReserveFails, Release, To, OwnSlotOnly, Locking, files
  <2>2. HolderSays(k)'
    BY <1>1, <1>4 DEF ReserveFails, Release, To, HolderSays, Locking, Named, files
  <2>3. RecordOK'
    BY <1>4 DEF ReserveFails, RecordOK, files
  <2>4. QED
    BY <1>1, <2>1, <2>2, <2>3, OthersStay
<1>5. CASE Admit(k)
  <2>1. OwnSlotOnly(k)
    BY <1>5 DEF Admit, To, OwnSlotOnly, Locking, files
  <2>2. HolderSays(k)'
    BY <1>1, <1>5 DEF Admit, To, HolderSays, Locking, Named, files
  <2>3. RecordOK'
    BY <1>5 DEF Admit, RecordOK, files
  <2>4. QED
    BY <1>1, <2>1, <2>2, <2>3, OthersStay
<1>6. CASE CreateRefused(k)
  <2>1. OwnSlotOnly(k)
    BY <1>6 DEF CreateRefused, Release, To, OwnSlotOnly, Locking, files
  <2>2. HolderSays(k)'
    BY <1>1, <1>6 DEF CreateRefused, Release, To, HolderSays, Locking, Named, files
  <2>3. RecordOK'
    BY <1>6 DEF CreateRefused, RecordOK, files
  <2>4. QED
    BY <1>1, <2>1, <2>2, <2>3, OthersStay
<1>7. CASE Journal(k)
  <2>1. names[k] \in Nat /\ slot[k] \in Slots /\ slotRecord[slot[k]] = NoRecord
    BY <1>1, <1>7, CapacityAssumption DEF Journal, Locking, Keeping, HolderSays
  <2>2. /\ names' = [names EXCEPT ![k] = names[k] + 1]
        /\ Named(k)' = [key |-> k, name |-> names[k] + 1]
        /\ slotRecord' = [slotRecord EXCEPT ![slot[k]] = Named(k)']
    BY <1>7 DEF Journal, Keeping, Named
  <2>3. OwnSlotOnly(k)
    BY <1>7, <2>1, <2>2 DEF Journal, To, OwnSlotOnly, Locking, Keeping
  <2>4. HolderSays(k)'
    BY <1>1, <1>7, <2>1, <2>2 DEF Journal, To, HolderSays, Locking, Keeping
  <2>5. RecordOK'
    <3>1. ASSUME NEW i \in Slots, slotRecord'[i] # NoRecord
          PROVE  slotRecord'[i].name <= names'[slotRecord'[i].key]
      <4>1. CASE i = slot[k]
        BY <2>1, <2>2, <4>1 DEF Keeping
      <4>2. CASE i # slot[k]
        <5>1. slotRecord'[i] = slotRecord[i] /\ slotRecord[i] \in Records
          BY <2>2, <3>1, <4>2 DEF Keeping
        <5>2. slotRecord[i].name <= names[slotRecord[i].key]
          BY <3>1, <5>1 DEF RecordOK
        <5>3. QED
          BY <2>1, <2>2, <5>1, <5>2, CapacityAssumption DEF Keeping, Records
      <4>3. QED
        BY <4>1, <4>2
    <3>2. ASSUME NEW i \in Slots \ {slot[k]} PROVE slotRecord[i] # Named(k)'
      <4>1. SUFFICES ASSUME slotRecord[i] = Named(k)' PROVE FALSE
        OBVIOUS
      <4>2. Named(k)' \in Records
        <5>1. names[k] + 1 \in 1..MaxNames
          BY <2>1, <2>2, CapacityAssumption DEF Keeping
        <5>2. QED
          BY <2>2, <5>1 DEF Records
      <4>3. Named(k)'.name = names[k] + 1 /\ Named(k)'.key = k
        BY <2>2
      <4>4. slotRecord[i].name <= names[slotRecord[i].key]
        BY <4>1, <4>2, CapacityAssumption DEF RecordOK
      <4>5. QED
        BY <2>1, <4>1, <4>3, <4>4
    <3>3. ASSUME NEW i \in Slots, NEW j \in Slots, slotRecord'[i] = slotRecord'[j]
          PROVE  i = j \/ slotRecord'[i] = NoRecord
      BY <2>1, <2>2, <3>2, <3>3 DEF RecordOK, Keeping
    <3>4. ASSUME NEW c \in containers' PROVE \E i \in Slots : slotRecord'[i] = c
      <4>1. c \in containers /\ c # NoRecord
        BY <1>7, CapacityAssumption DEF Journal, Keeping
      <4>2. PICK i \in Slots : slotRecord[i] = c
        BY <4>1 DEF RecordOK
      <4>3. slotRecord'[i] = c
        BY <2>1, <2>2, <4>1, <4>2 DEF Keeping
      <4>4. QED
        BY <4>3
    <3>5. QED
      BY <3>1, <3>3, <3>4 DEF RecordOK
  <2>6. QED
    BY <1>1, <2>3, <2>4, <2>5, OthersStay
<1>8. CASE Create(k)
  <2>1. slot[k] \in Slots /\ slotRecord[slot[k]] = Named(k)
    BY <1>1, <1>8 DEF Create, Locking, HolderSays
  <2>2. OwnSlotOnly(k)
    BY <1>8, <2>1 DEF Create, To, OwnSlotOnly, Locking, files
  <2>3. HolderSays(k)'
    BY <1>1, <1>8 DEF Create, To, HolderSays, Locking, Named, files
  <2>4. RecordOK'
    BY <1>8, <2>1 DEF Create, RecordOK, files
  <2>5. QED
    BY <1>1, <2>2, <2>3, <2>4, OthersStay
<1>9. CASE CreateFails(k)
  <2>1. slot[k] \in Slots /\ slotRecord[slot[k]] = Named(k)
    BY <1>1, <1>9 DEF CreateFails, Locking, HolderSays
  <2>2. OwnSlotOnly(k)
    BY <1>9, <2>1 DEF CreateFails, To, OwnSlotOnly, Locking, files
  <2>3. HolderSays(k)'
    BY <1>1, <1>9 DEF CreateFails, To, HolderSays, Locking, Named, files
  <2>4. RecordOK'
    BY <1>9, <2>1 DEF CreateFails, RecordOK, files
  <2>5. QED
    BY <1>1, <2>2, <2>3, <2>4, OthersStay
<1>10. QED
  BY <1>2, <1>3, <1>4, <1>5, <1>6, <1>7, <1>8, <1>9 DEF Creation

LEMMA RetirementHolders ==
  ASSUME WorkspaceInv, Locking', Keeping', NEW k \in Keys, Use(k) \/ Retirement(k)
  PROVE  HolderOK' /\ RecordOK'
<1>1. k \in Holders /\ k \notin Procs /\ HolderSays(k)
  BY CapacityAssumption DEF Holders, WorkspaceInv, HolderOK
<1> USE DEF Fresh, OnRecord, CleanSteps, Unlocked, WorkspaceInv
<1>2. CASE Execute(k)
  <2>1. OwnSlotOnly(k)
    BY <1>2 DEF Execute, To, OwnSlotOnly, Locking, files
  <2>2. HolderSays(k)'
    BY <1>1, <1>2 DEF Execute, To, HolderSays, Locking, Named, files
  <2>3. RecordOK'
    BY <1>2 DEF Execute, RecordOK, files
  <2>4. QED
    BY <1>1, <2>1, <2>2, <2>3, OthersStay
<1>3. CASE Executed(k)
  <2>1. OwnSlotOnly(k)
    BY <1>3 DEF Executed, To, OwnSlotOnly, Locking, files
  <2>2. HolderSays(k)'
    BY <1>1, <1>3 DEF Executed, To, HolderSays, Locking, Named, files
  <2>3. RecordOK'
    BY <1>3 DEF Executed, RecordOK, files
  <2>4. QED
    BY <1>1, <2>1, <2>2, <2>3, OthersStay
<1>4. CASE Retire(k)
  <2>1. OwnSlotOnly(k)
    BY <1>4 DEF Retire, To, OwnSlotOnly, Locking, files
  <2>2. HolderSays(k)'
    BY <1>1, <1>4 DEF Retire, To, HolderSays, Locking, Named, files
  <2>3. RecordOK'
    BY <1>4 DEF Retire, RecordOK, files
  <2>4. QED
    BY <1>1, <2>1, <2>2, <2>3, OthersStay
<1>5. CASE RetireBuries(k)
  <2>1. OwnSlotOnly(k)
    BY <1>5 DEF RetireBuries, To, OwnSlotOnly, Locking
  <2>2. HolderSays(k)'
    BY <1>1, <1>5 DEF RetireBuries, To, HolderSays, Locking, Named
  <2>3. RecordOK'
    BY <1>5 DEF RetireBuries, RecordOK
  <2>4. QED
    BY <1>1, <2>1, <2>2, <2>3, OthersStay
<1>6. CASE RetireRemoves(k)
  <2>1. OwnSlotOnly(k)
    BY <1>6 DEF RetireRemoves, To, OwnSlotOnly, Locking, files
  <2>2. HolderSays(k)'
    BY <1>1, <1>6 DEF RetireRemoves, To, HolderSays, Locking, Named, files
  <2>3. RecordOK'
    BY <1>6 DEF RetireRemoves, RecordOK, files
  <2>4. QED
    BY <1>1, <2>1, <2>2, <2>3, OthersStay
<1>7. CASE RetireEnds(k)
  <2>1. OwnSlotOnly(k)
    BY <1>7 DEF RetireEnds, Release, To, OwnSlotOnly, Locking, Keeping
  <2>2. HolderSays(k)'
    BY <1>1, <1>7 DEF RetireEnds, Release, To, HolderSays, Locking, Named
  <2>3. RecordOK'
    BY <1>1, <1>7 DEF RetireEnds, RecordOK, HolderSays, Keeping, Locking
  <2>4. QED
    BY <1>1, <2>1, <2>2, <2>3, OthersStay
<1>8. QED
  BY <1>2, <1>3, <1>4, <1>5, <1>6, <1>7 DEF Use, Retirement

LEMMA ReconciliationHolders ==
  ASSUME WorkspaceInv, Locking', Keeping', NEW h \in Holders, Reconciliation(h)
  PROVE  HolderOK' /\ RecordOK'
<1>1. HolderSays(h)
  BY DEF WorkspaceInv, HolderOK
<1> USE DEF Fresh, OnRecord, CleanSteps, Unlocked, WorkspaceInv
<1>2. CASE RemoveRecorded(h)
  <2>1. OwnSlotOnly(h)
    BY <1>2 DEF RemoveRecorded, To, OwnSlotOnly, Locking, files
  <2>2. HolderSays(h)'
    BY <1>1, <1>2 DEF RemoveRecorded, To, HolderSays, Locking, Named, files
  <2>3. RecordOK'
    BY <1>2 DEF RemoveRecorded, RecordOK, files
  <2>4. QED
    BY <1>1, <2>1, <2>2, <2>3, OthersStay
<1>3. CASE RemoveUnconfirmed(h)
  <2>1. OwnSlotOnly(h)
    BY <1>3 DEF RemoveUnconfirmed, Release, To, OwnSlotOnly, Locking, files
  <2>2. HolderSays(h)'
    BY <1>1, <1>3 DEF RemoveUnconfirmed, Release, To, HolderSays, Locking, Named, files
  <2>3. RecordOK'
    BY <1>3 DEF RemoveUnconfirmed, RecordOK, files
  <2>4. QED
    BY <1>1, <2>1, <2>2, <2>3, OthersStay
<1>4. CASE BuryRecorded(h)
  <2>1. OwnSlotOnly(h)
    BY <1>4 DEF BuryRecorded, To, OwnSlotOnly, Locking
  <2>2. HolderSays(h)'
    BY <1>1, <1>4 DEF BuryRecorded, To, HolderSays, Locking, Named
  <2>3. RecordOK'
    BY <1>4 DEF BuryRecorded, RecordOK
  <2>4. QED
    BY <1>1, <2>1, <2>2, <2>3, OthersStay
<1>5. CASE ClearRecorded(h)
  <2>1. OwnSlotOnly(h)
    BY <1>5 DEF ClearRecorded, Release, To, OwnSlotOnly, Locking, Keeping
  <2>2. HolderSays(h)'
    BY <1>1, <1>5 DEF ClearRecorded, Release, To, HolderSays, Locking, Named
  <2>3. RecordOK'
    BY <1>1, <1>5 DEF ClearRecorded, RecordOK, HolderSays, Keeping, Locking
  <2>4. QED
    BY <1>1, <2>1, <2>2, <2>3, OthersStay
<1>6. QED
  BY <1>2, <1>3, <1>4, <1>5 DEF Reconciliation

LEMMA ReconcileHolders ==
  ASSUME WorkspaceInv, Locking', Keeping', NEW p \in Procs,
         \/ \E i \in Slots : ReconcileTakes(p, i)
         \/ ReconcileReads(p) \/ ReconcileLeaves(p)
  PROVE  HolderOK' /\ RecordOK'
<1>1. p \in Holders /\ p \notin Keys /\ HolderSays(p)
  BY CapacityAssumption DEF Holders, WorkspaceInv, HolderOK
<1> USE DEF Fresh, OnRecord, CleanSteps, Unlocked, WorkspaceInv
<1>2. ASSUME NEW i \in Slots, ReconcileTakes(p, i) PROVE HolderOK' /\ RecordOK'
  <2>1. OwnSlotOnly(p)
    BY <1>2 DEF ReconcileTakes, To, OwnSlotOnly, Locking, files
  <2>2. HolderSays(p)'
    BY <1>1, <1>2 DEF ReconcileTakes, To, HolderSays, Locking, Named, files
  <2>3. RecordOK'
    BY <1>2 DEF ReconcileTakes, RecordOK, files
  <2>4. QED
    BY <1>1, <2>1, <2>2, <2>3, OthersStay
<1>3. CASE ReconcileReads(p)
  <2>1. OwnSlotOnly(p)
    BY <1>3 DEF ReconcileReads, To, OwnSlotOnly, Locking, files
  <2>2. HolderSays(p)'
    BY <1>1, <1>3 DEF ReconcileReads, To, HolderSays, Locking, Named, files
  <2>3. RecordOK'
    BY <1>3 DEF ReconcileReads, RecordOK, files
  <2>4. QED
    BY <1>1, <2>1, <2>2, <2>3, OthersStay
<1>4. CASE ReconcileLeaves(p)
  <2>1. OwnSlotOnly(p)
    BY <1>4 DEF ReconcileLeaves, Release, To, OwnSlotOnly, Locking, files
  <2>2. HolderSays(p)'
    BY <1>1, <1>4 DEF ReconcileLeaves, Release, To, HolderSays, Locking, Named, files
  <2>3. RecordOK'
    BY <1>4 DEF ReconcileLeaves, RecordOK, files
  <2>4. QED
    BY <1>1, <2>1, <2>2, <2>3, OthersStay
<1>5. QED
  BY <1>2, <1>3, <1>4

-----------------------------------------------------------------------------
(* The fence between builds and workspaces                                 *)

(* A workspace's step adds a lock or a record only where no build is, and  *)
(* none is on record.                                                      *)
LEMMA WorkspaceFence ==
  ASSUME WorkspaceInv, FenceOK, WorkspaceStep
  PROVE  \/ Locked' \subseteq Locked /\ Active' \subseteq Active
         \/ Building = {} /\ pipeRecord = "none"
<1> DEFINE Goal == \/ Locked' \subseteq Locked /\ Active' \subseteq Active
                   \/ Building = {} /\ pipeRecord = "none"
<1>1. ASSUME UNCHANGED <<slot, slotRecord>> PROVE Goal
  BY <1>1 DEF Locked, Active
<1>2. ASSUME NEW h \in Holders, Release(h), UNCHANGED slotRecord PROVE Goal
  BY <1>2 DEF Release, Locked, Active, WorkspaceInv, Locking
<1>3. ASSUME NEW i \in Slots, reserveAt(i) PROVE Goal
  BY <1>3 DEF reserveAt
<1>4. ASSUME NEW h \in Holders, NEW i \in Slots, Release(h),
             slotRecord' = [slotRecord EXCEPT ![i] = NoRecord]
      PROVE Goal
  BY <1>4 DEF Release, Locked, Active, WorkspaceInv, Locking, Keeping
<1> HIDE DEF Goal
<1>5. ASSUME NEW k \in Keys, Creation(k) PROVE Goal
  <2>1. k \in Holders
    BY DEF Holders
  <2>2. CASE Look(k) \/ Admit(k) \/ Create(k) \/ CreateFails(k)
    BY <1>1, <2>2 DEF Look, Admit, Create, CreateFails, files
  <2>3. CASE Reserve(k)
    BY <1>3, <2>3 DEF Reserve
  <2>4. CASE ReserveFails(k) \/ CreateRefused(k)
    BY <1>2, <2>1, <2>4 DEF ReserveFails, CreateRefused, files
  <2>5. CASE Journal(k)
    <3>1. slot[k] \in Locked
      BY <2>1, <2>5 DEF Journal, Locked, WorkspaceInv, Locking, Unlocked
    <3>2. QED
      BY <3>1 DEF FenceOK, Goal
  <2>6. QED
    BY <1>5, <2>2, <2>3, <2>4, <2>5 DEF Creation
<1>6. ASSUME NEW k \in Keys, Use(k) \/ Retirement(k) PROVE Goal
  <2>1. k \in Holders
    BY DEF Holders
  <2>2. CASE Use(k) \/ RetireBuries(k) \/ RetireRemoves(k)
    BY <1>1, <2>2 DEF Use, Execute, Executed, Retire, RetireBuries, RetireRemoves, files
  <2>3. CASE RetireEnds(k)
    <3>1. slot[k] \in Slots
      BY <2>1, <2>3 DEF RetireEnds, WorkspaceInv, Locking, Unlocked
    <3>2. CASE step[k] = "clearing"
      BY <1>4, <2>1, <2>3, <3>1, <3>2 DEF RetireEnds
    <3>3. CASE step[k] # "clearing"
      <4>1. slotRecord' = slotRecord
        BY <2>3, <3>3 DEF RetireEnds, WorkspaceInv, Keeping
      <4>2. QED
        BY <1>2, <2>1, <2>3, <4>1 DEF RetireEnds
    <3>4. QED
      BY <3>2, <3>3
  <2>4. QED
    BY <1>6, <2>2, <2>3 DEF Retirement
<1>7. ASSUME NEW h \in Holders, Reconciliation(h) PROVE Goal
  <2>1. CASE RemoveRecorded(h) \/ BuryRecorded(h)
    BY <1>1, <2>1 DEF RemoveRecorded, BuryRecorded, files
  <2>2. CASE RemoveUnconfirmed(h)
    BY <1>2, <2>2 DEF RemoveUnconfirmed, files
  <2>3. CASE ClearRecorded(h)
    <3>1. slot[h] \in Slots
      BY <2>3 DEF ClearRecorded, WorkspaceInv, Locking, Unlocked
    <3>2. QED
      BY <1>4, <2>3, <3>1 DEF ClearRecorded
  <2>4. QED
    BY <1>7, <2>1, <2>2, <2>3 DEF Reconciliation
<1>8. ASSUME NEW p \in Procs, \/ \E i \in Slots : ReconcileTakes(p, i)
                              \/ ReconcileReads(p) \/ ReconcileLeaves(p)
      PROVE Goal
  <2>1. p \in Holders
    BY DEF Holders
  <2>2. ASSUME NEW i \in Slots, ReconcileTakes(p, i) PROVE Goal
    BY <1>3, <2>2 DEF ReconcileTakes
  <2>3. CASE ReconcileReads(p)
    BY <1>1, <2>3 DEF ReconcileReads, files
  <2>4. CASE ReconcileLeaves(p)
    BY <1>2, <2>1, <2>4 DEF ReconcileLeaves, files
  <2>5. QED
    BY <1>8, <2>2, <2>3, <2>4
<1>9. QED
  BY <1>5, <1>6, <1>7, <1>8 DEF WorkspaceStep, Goal

(* So a workspace's step leaves the fence standing.                       *)
LEMMA WorkspaceKeepsFence ==
  ASSUME WorkspaceInv, FenceOK, BuildOK, WorkspaceStep
  PROVE  FenceOK' /\ BuildOK'
<1>1. UNCHANGED <<build, pipeRecord, scratch, work>> /\ Building' = Building
  BY WorkspaceLeavesBuilds DEF Building
<1>2. BuildOK'
  BY <1>1 DEF BuildOK
<1>3. FenceOK'
  BY <1>1, WorkspaceFence DEF FenceOK
<1>4. QED
  BY <1>2, <1>3

(* A build's step, whatever it does to its record, is alone.               *)
LEMMA BuildKeepsFence ==
  ASSUME BuildTypes, FenceOK, NEW p \in Procs, Recovery(p) \/ Build(p)
  PROVE  FenceOK' /\ Locked = {} /\ Active = {} /\ \A q \in Procs \ {p} : build[q] = "none"
<1>1. UNCHANGED workbench
  BY BuildLeavesWorkbench
<1>2. Locked' = Locked /\ Active' = Active
  BY <1>1 DEF workbench, Locked, Active
<1>3. PICK s : build' = [build EXCEPT ![p] = s]
  BY DEF Recovery, Build, Acquire, TearDown, TornReady, DropsOld, ClearsOld, Gives,
         NamesWorkspace, MakesWorkspace, MkdirFails, Begin, Starts, Stops, CleanupReady,
         Finishes, Finished, BuildTo
<1>4. build[p] # "none" \/ Acquire(p)
  BY DEF Recovery, Build, TearDown, TornReady, DropsOld, ClearsOld, Gives,
         NamesWorkspace, MakesWorkspace, MkdirFails, Begin, Starts, Stops, CleanupReady,
         Finishes, Finished
<1>5. Locked = {} /\ Active = {} /\ \A q \in Procs \ {p} : build[q] = "none"
  BY <1>4 DEF Acquire, FenceOK, Building
<1>6. QED
  BY <1>2, <1>3, <1>5 DEF FenceOK, BuildTypes

(* And keeps the order: recorded before started, stopped before released. *)
LEMMA BuildStepOK ==
  ASSUME BuildTypes, BuildOK, NEW p \in Procs, Recovery(p) \/ Build(p),
         \A q \in Procs \ {p} : build[q] = "none"
  PROVE  BuildOK' /\ BuildTypes'
<1> USE DEF BuildTypes, BuildOK, BuildSteps, Executions, BuildTo, workbench, bounds
<1>1. CASE Acquire(p)
  BY <1>1 DEF Acquire
<1>2. CASE TearDown(p)
  BY <1>2 DEF TearDown
<1>3. CASE TornReady(p)
  BY <1>3 DEF TornReady
<1>4. CASE DropsOld(p)
  BY <1>4 DEF DropsOld
<1>5. CASE ClearsOld(p)
  BY <1>5 DEF ClearsOld
<1>6. CASE Gives(p)
  BY <1>6 DEF Gives
<1>7. CASE NamesWorkspace(p)
  BY <1>7 DEF NamesWorkspace
<1>8. CASE MakesWorkspace(p)
  BY <1>8 DEF MakesWorkspace
<1>9. CASE MkdirFails(p)
  BY <1>9 DEF MkdirFails
<1>10. CASE Begin(p)
  BY <1>10 DEF Begin
<1>11. CASE Starts(p)
  BY <1>11 DEF Starts
<1>12. CASE Stops(p)
  BY <1>12 DEF Stops
<1>13. CASE CleanupReady(p)
  BY <1>13 DEF CleanupReady
<1>14. CASE Finishes(p)
  BY <1>14 DEF Finishes
<1>15. CASE Finished(p)
  BY <1>15 DEF Finished
<1>16. QED
  BY <1>1, <1>2, <1>3, <1>4, <1>5, <1>6, <1>7, <1>8, <1>9, <1>10, <1>11, <1>12, <1>13, <1>14, <1>15 DEF Recovery, Build
-----------------------------------------------------------------------------
(* The machine's memory                                                    *)

(* There are finitely many slots, so the records can be counted.          *)
LEMMA ActiveFinite == IsFiniteSet(Active) /\ Cardinality(Active) \in Nat
<1>1. IsFiniteSet(Slots)
  BY CapacityAssumption, FS_Interval DEF Slots
<1>2. Active \subseteq Slots
  BY DEF Active
<1>3. QED
  BY <1>1, <1>2, FS_Subset, FS_CardinalityType

(* A step that neither admits a workspace nor records one.                 *)
LEMMA RoomQuiet ==
  ASSUME RoomOK, room \in Nat, room' = room, Active' \subseteq Active,
         Admitting' \subseteq Admitting,
         \A k \in Keys : step'[k] = "admitted" => step[k] = "admitted"
  PROVE  RoomOK'
<1>1. Cardinality(Active') <= Cardinality(Active) /\ Cardinality(Active') \in Nat
  BY ActiveFinite, FS_Subset, FS_CardinalityType
<1>2. \A j, k \in Keys : j \in Admitting' /\ k \in Admitting' => j = k
  BY DEF RoomOK
<1>3. QED
  BY <1>1, <1>2, ActiveFinite DEF RoomOK

(* Room is measured with nobody else between measuring and recording.     *)
LEMMA RoomAdmit ==
  ASSUME WorkspaceInv, RoomOK, room \in Nat, NEW k \in Keys, Admit(k)
  PROVE  RoomOK'
<1>1. Active' = Active /\ room' = room
  BY DEF Admit, Active, files
<1>2. \A j \in Keys \ {k} : j \notin Admitting'
  <2>1. \A j \in Keys \ {k} : step'[j] = step[j]
    BY DEF Admit, To, WorkspaceInv, Locking, Holders
  <2>2. Admitting = {}
    BY DEF Admit
  <2>3. QED
    BY <2>1, <2>2 DEF Admitting
<1>3. step'[k] = "admitted" => Cardinality(Active) < room
  BY DEF Admit, To, Headroom, WorkspaceInv, Locking, Holders
<1>4. \A j \in Keys \ {k} : step'[j] # "admitted"
  BY <1>2 DEF Admitting
<1>5. QED
  BY <1>1, <1>2, <1>3, <1>4 DEF RoomOK

(* The one admitted workspace takes the room that was measured for it.    *)
LEMMA RoomJournal ==
  ASSUME WorkspaceInv, RoomOK, room \in Nat, NEW k \in Keys, Journal(k)
  PROVE  RoomOK'
<1>1. room' = room
  BY DEF Journal
<1>2. Active' \subseteq Active \cup {slot[k]}
  BY DEF Journal, Active, WorkspaceInv, Keeping
<1>3. Cardinality(Active) < room /\ Cardinality(Active') <= Cardinality(Active) + 1
  <2>1. IsFiniteSet(Active \cup {slot[k]})
        /\ Cardinality(Active \cup {slot[k]}) <= Cardinality(Active) + 1
    BY ActiveFinite, FS_AddElement
  <2>2. Cardinality(Active') <= Cardinality(Active \cup {slot[k]})
    BY <1>2, <2>1, FS_Subset
  <2>3. Cardinality(Active') \in Nat /\ Cardinality(Active \cup {slot[k]}) \in Nat
    BY <1>2, <2>1, FS_Subset, FS_CardinalityType
  <2>4. QED
    BY <2>1, <2>2, <2>3, ActiveFinite DEF Journal, RoomOK
<1>4. Cardinality(Active') \in Nat
  BY <1>2, ActiveFinite, FS_AddElement, FS_Subset, FS_CardinalityType
<1>5. Admitting' \subseteq Admitting
  BY DEF Journal, To, Admitting, WorkspaceInv, Locking, Holders
<1>6. \A j \in Keys : step'[j] # "admitted"
  <2>1. \A j \in Keys \ {k} : step'[j] = step[j]
    BY DEF Journal, To, WorkspaceInv, Locking, Holders
  <2>2. step'[k] = "journaled"
    BY DEF Journal, To, WorkspaceInv, Locking, Holders
  <2>3. \A j \in Keys \ {k} : step[j] # "admitted"
    BY DEF Journal, RoomOK, Admitting
  <2>4. QED
    BY <2>1, <2>2, <2>3
<1>7. \A i, j \in Keys : i \in Admitting' /\ j \in Admitting' => i = j
  BY <1>5 DEF RoomOK
<1>8. QED
  BY <1>1, <1>3, <1>4, <1>6, <1>7, ActiveFinite DEF RoomOK

(* The steps that are neither.                                             *)
LEMMA RoomOtherwise ==
  ASSUME WorkspaceInv, RoomOK, room \in Nat, WorkspaceStep,
         \A k \in Keys : ~Admit(k) /\ ~Journal(k)
  PROVE  RoomOK'
<1>1. room' = room
  BY WorkspaceLeavesBuilds
<1>2. ASSUME NEW h \in Holders, NEW s \in StepNames \ {"admitted"}, To(h, s),
             s \in CleanSteps => h \notin Keys \/ step[h] \in CleanSteps,
             s = "journaled" => step[h] = "journaled",
             Active' \subseteq Active
      PROVE RoomOK'
  <2>1. \A k \in Keys : step'[k] = "admitted" => step[k] = "admitted"
    BY <1>2 DEF To, WorkspaceInv, Locking, Holders
  <2>2. Admitting' \subseteq Admitting
    BY <1>2 DEF To, WorkspaceInv, Locking, Holders, Admitting, CleanSteps
  <2>3. QED
    BY <1>1, <1>2, <2>1, <2>2, RoomQuiet
<1>3. UNCHANGED slotRecord => Active' \subseteq Active
  BY DEF Active
<1>4. ASSUME NEW i \in Slots, slotRecord' = [slotRecord EXCEPT ![i] = NoRecord]
      PROVE Active' \subseteq Active
  BY <1>4 DEF Active, WorkspaceInv, Keeping
<1> USE DEF StepNames, WorkspaceSteps, CleanSteps
<1>5. ASSUME NEW k \in Keys, Creation(k) PROVE RoomOK'
  <2>1. k \in Holders
    BY DEF Holders
  <2>2. CASE Look(k)
    BY <1>2, <1>3, <2>1, <2>2 DEF Look, files
  <2>3. CASE Reserve(k)
    BY <1>2, <1>3, <2>1, <2>3 DEF Reserve, files
  <2>4. CASE ReserveFails(k) \/ CreateRefused(k)
    BY <1>2, <1>3, <2>1, <2>4 DEF ReserveFails, CreateRefused, Release, files
  <2>5. CASE Create(k)
    BY <1>2, <1>3, <2>1, <2>5 DEF Create, files
  <2>6. CASE CreateFails(k)
    BY <1>2, <1>3, <2>1, <2>6 DEF CreateFails, files
  <2>7. QED
    BY <1>5, <2>2, <2>3, <2>4, <2>5, <2>6 DEF Creation
<1>6. ASSUME NEW k \in Keys, Use(k) \/ Retirement(k) PROVE RoomOK'
  <2>1. k \in Holders
    BY DEF Holders
  <2>2. CASE Use(k)
    BY <1>2, <1>3, <2>1, <2>2 DEF Use, Execute, Executed, Retire, files
  <2>3. CASE RetireBuries(k)
    BY <1>2, <1>3, <2>1, <2>3 DEF RetireBuries
  <2>4. CASE RetireRemoves(k)
    BY <1>2, <1>3, <2>1, <2>4 DEF RetireRemoves, files
  <2>5. CASE RetireEnds(k)
    <3>1. slot[k] \in Slots
      BY <2>1, <2>5 DEF RetireEnds, WorkspaceInv, Locking, Unlocked
    <3>2. Active' \subseteq Active
      BY <2>5, <3>1 DEF RetireEnds, Active, WorkspaceInv, Keeping
    <3>3. QED
      BY <1>2, <2>1, <2>5, <3>2 DEF RetireEnds, Release
  <2>6. QED
    BY <1>6, <2>2, <2>3, <2>4, <2>5 DEF Retirement
<1>7. ASSUME NEW h \in Holders, Reconciliation(h) PROVE RoomOK'
  <2>1. CASE RemoveRecorded(h)
    BY <1>2, <1>3, <2>1 DEF RemoveRecorded, files
  <2>2. CASE RemoveUnconfirmed(h)
    BY <1>2, <1>3, <2>2 DEF RemoveUnconfirmed, Release, files
  <2>3. CASE BuryRecorded(h)
    BY <1>2, <1>3, <2>3 DEF BuryRecorded
  <2>4. CASE ClearRecorded(h)
    <3>1. slot[h] \in Slots
      BY <2>4 DEF ClearRecorded, WorkspaceInv, Locking, Unlocked
    <3>2. QED
      BY <1>2, <1>4, <2>4, <3>1 DEF ClearRecorded, Release
  <2>5. QED
    BY <1>7, <2>1, <2>2, <2>3, <2>4 DEF Reconciliation
<1>8. ASSUME NEW p \in Procs, \/ \E i \in Slots : ReconcileTakes(p, i)
                              \/ ReconcileReads(p) \/ ReconcileLeaves(p)
      PROVE RoomOK'
  <2>1. p \in Holders /\ p \notin Keys
    BY CapacityAssumption DEF Holders
  <2>2. ASSUME NEW i \in Slots, ReconcileTakes(p, i) PROVE RoomOK'
    BY <1>2, <1>3, <2>1, <2>2 DEF ReconcileTakes, files
  <2>3. CASE ReconcileReads(p)
    BY <1>2, <1>3, <2>1, <2>3 DEF ReconcileReads, files
  <2>4. CASE ReconcileLeaves(p)
    BY <1>2, <1>3, <2>1, <2>4 DEF ReconcileLeaves, Release, files
  <2>5. QED
    BY <1>8, <2>2, <2>3, <2>4
<1>9. QED
  BY <1>5, <1>6, <1>7, <1>8 DEF WorkspaceStep
-----------------------------------------------------------------------------
(* The inductive step                                                      *)

(* A process dies: its holders let go, and nothing else moves.             *)
LEMMA CrashKeeps ==
  ASSUME IInv, NEW p \in Procs, Crash(p)
  PROVE  IInv'
<1>1. /\ Locking /\ Keeping /\ BuildTypes /\ docker \in BOOLEAN
      /\ HolderOK /\ RecordOK /\ FenceOK /\ BuildOK /\ RoomOK
  BY TypeParts DEF IInv
<1>2. UNCHANGED <<slotRecord, ended, pipeRecord, scratch, containers, work, docker, room, names>>
  BY DEF Crash, files
<1>3. \A h \in Holders : \/ step'[h] = step[h] /\ slot'[h] = slot[h]
                         \/ step'[h] = "none" /\ slot'[h] = NoSlot
  BY DEF Crash
<1>4. Locking'
  <2>1. step' \in [Holders -> StepNames] /\ slot' \in [Holders -> Slots \cup {NoSlot}]
    <3>1. /\ step' = [h \in Holders |-> step'[h]] /\ slot' = [h \in Holders |-> slot'[h]]
      BY DEF Crash
    <3>2. QED
      BY <1>1, <1>3, <3>1 DEF Locking, StepNames, WorkspaceSteps
  <2>2. QED
    BY <1>1, <1>3, <2>1 DEF Locking, Unlocked
<1>5. Keeping' /\ RecordOK' /\ docker' \in BOOLEAN
  BY <1>1, <1>2 DEF Keeping, RecordOK
<1>6. build' = [build EXCEPT ![p] = "none"]
  BY DEF Crash, BuildTo
<1>7. BuildTypes'
  <2>1. crashes' \in 0..MaxCrashes /\ outages' \in 0..MaxOutages
    BY <1>1, CapacityAssumption DEF Crash, BuildTypes
  <2>2. QED
    BY <1>1, <1>2, <1>6, <2>1 DEF BuildTypes, BuildSteps
<1>8. HolderOK'
  BY <1>1, <1>2, <1>3
     DEF HolderOK, HolderSays, Named, Fresh, OnRecord, CleanSteps
<1>9. FenceOK'
  <2>1. Locked' \subseteq Locked /\ Active' = Active
    BY <1>2, <1>3 DEF Locked, Active
  <2>2. \A q \in Procs : build'[q] # "none" => build[q] # "none"
    BY <1>1, <1>6 DEF BuildTypes
  <2>3. Building' \subseteq Building
    BY <2>2 DEF Building
  <2>4. QED
    BY <1>1, <1>2, <2>1, <2>2, <2>3 DEF FenceOK
<1>10. BuildOK'
  BY <1>1, <1>2, <1>6 DEF BuildOK, BuildTypes
<1>11. RoomOK'
  <2>1. Active' \subseteq Active /\ Admitting' \subseteq Admitting
    BY <1>2, <1>3 DEF Active, Admitting, Holders
  <2>2. \A k \in Keys : step'[k] = "admitted" => step[k] = "admitted"
    BY <1>3 DEF Holders
  <2>3. room \in Nat
    BY <1>1, CapacityAssumption DEF BuildTypes
  <2>4. QED
    BY <1>1, <1>2, <2>1, <2>2, <2>3, RoomQuiet
<1>12. QED
  BY <1>4, <1>5, <1>7, <1>8, <1>9, <1>10, <1>11, TypePartsNext DEF IInv

(* Every part, for a workspace's step; then for any step.                 *)
LEMMA WorkspaceKeeps ==
  ASSUME IInv, WorkspaceStep
  PROVE  IInv'
<1>1. /\ WorkspaceInv /\ BuildTypes /\ docker \in BOOLEAN
      /\ FenceOK /\ BuildOK /\ RoomOK /\ room \in Nat
  BY TypeParts, CapacityAssumption DEF IInv, WorkspaceInv, BuildTypes
<1>2. Locking' /\ Keeping'
  BY <1>1, CreationTypes, RetirementTypes, ReconciliationTypes, ReconcileTypes
     DEF WorkspaceStep, WorkspaceInv
<1>3. HolderOK' /\ RecordOK'
  BY <1>1, <1>2, CreationHolders, RetirementHolders, ReconciliationHolders, ReconcileHolders
     DEF WorkspaceStep
<1>4. BuildTypes' /\ docker' \in BOOLEAN
  BY <1>1, WorkspaceLeavesBuilds DEF BuildTypes, bounds
<1>5. FenceOK' /\ BuildOK'
  BY <1>1, WorkspaceKeepsFence
<1>6. RoomOK'
  BY <1>1, RoomAdmit, RoomJournal, RoomOtherwise
<1>7. QED
  BY <1>2, <1>3, <1>4, <1>5, <1>6, TypePartsNext DEF IInv

(* A step that leaves the workbench alone.                                 *)
LEMMA WorkbenchUnmoved ==
  ASSUME WorkspaceInv, RoomOK, UNCHANGED <<step, slot, slotRecord, ended, containers, room, names>>
  PROVE  WorkspaceInv' /\ RoomOK' /\ Locked' = Locked /\ Active' = Active
<1>1. Locking' /\ Keeping'
  BY DEF WorkspaceInv, Locking, Keeping
<1>2. HolderOK' /\ RecordOK'
  BY DEF WorkspaceInv, HolderOK, HolderSays, RecordOK, Named
<1>3. Locked' = Locked /\ Active' = Active /\ Admitting' = Admitting
  BY DEF Locked, Active, Admitting
<1>4. RoomOK'
  BY <1>3 DEF RoomOK
<1>5. QED
  BY <1>1, <1>2, <1>3, <1>4 DEF WorkspaceInv

LEMMA NextIInv == IInv /\ [Next]_vars => IInv'
<1> SUFFICES ASSUME IInv, [Next]_vars PROVE IInv'
  OBVIOUS
<1>1. /\ WorkspaceInv /\ BuildTypes /\ docker \in BOOLEAN
      /\ FenceOK /\ BuildOK /\ RoomOK
  BY TypeParts DEF IInv, WorkspaceInv
<1>2. CASE WorkspaceStep
  BY <1>2, WorkspaceKeeps
<1>3. ASSUME NEW p \in Procs, Recovery(p) \/ Build(p) PROVE IInv'
  <2>1. WorkspaceInv' /\ RoomOK' /\ docker' \in BOOLEAN
    BY <1>1, <1>3, BuildLeavesWorkbench, WorkbenchUnmoved DEF workbench
  <2>2. FenceOK' /\ BuildOK' /\ BuildTypes'
    BY <1>1, <1>3, BuildKeepsFence, BuildStepOK
  <2>3. QED
    BY <2>1, <2>2, TypePartsNext DEF IInv, WorkspaceInv
<1>4. ASSUME NEW p \in Procs, Crash(p) PROVE IInv'
  BY <1>4, CrashKeeps
<1>5. CASE OrphanEnds \/ DockerGoes \/ DockerComes \/ UNCHANGED vars
  <2>1. /\ UNCHANGED <<step, slot, slotRecord, ended, containers, room, names>>
        /\ UNCHANGED <<build, pipeRecord, scratch>>
    BY <1>5 DEF OrphanEnds, DockerGoes, DockerComes, vars, files
  <2>2. docker' \in BOOLEAN
    BY <1>1, <1>5 DEF OrphanEnds, DockerGoes, DockerComes, vars
  <2>3. work' = work \/ work' = "none"
    BY <1>5 DEF OrphanEnds, DockerGoes, DockerComes, vars
  <2>4. crashes' \in 0..MaxCrashes /\ outages' \in 0..MaxOutages
    BY <1>1, <1>5, CapacityAssumption
       DEF BuildTypes, OrphanEnds, DockerGoes, DockerComes, vars, bounds
  <2>5. WorkspaceInv' /\ RoomOK' /\ Locked' = Locked /\ Active' = Active
    BY <1>1, <2>1, WorkbenchUnmoved
  <2>6. FenceOK'
    BY <1>1, <2>1, <2>5 DEF FenceOK, Building
  <2>7. BuildOK'
    BY <1>1, <2>1, <2>3 DEF BuildOK
  <2>8. BuildTypes'
    BY <1>1, <2>1, <2>3, <2>4 DEF BuildTypes
  <2>9. QED
    BY <2>2, <2>5, <2>6, <2>7, <2>8, TypePartsNext DEF IInv, WorkspaceInv
<1>6. QED
  BY <1>2, <1>3, <1>4, <1>5 DEF Next, WorkspaceStep, Reconcile

(* The invariant is inductive.                                            *)
LEMMA AlwaysIInv == Spec => []IInv
BY InitIInv, NextIInv, PTL DEF Spec

-----------------------------------------------------------------------------
(* What it gives                                                           *)

(* Every variable keeps its type, and no slot has two holders.             *)
THEOREM TypeCorrect == Spec => []TypeOK
<1>1. IInv => TypeOK
  BY DEF IInv
<1>2. QED
  BY AlwaysIInv, <1>1, PTL

(* Whatever dies at whatever step, and whatever the daemon leaves          *)
(* unconfirmed, a running workspace is on a slot's record and a build's    *)
(* container and directory are on the build's; no slot has two holders.    *)
THEOREM RunningIsOnRecord == Spec => []NothingIsUnaccounted
<1>1. IInv => NothingIsUnaccounted
  BY DEF IInv, RecordOK, BuildOK, NothingIsUnaccounted
<1>2. QED
  BY AlwaysIInv, <1>1, PTL

(* No build is recorded beside a workspace's record, or works beside a     *)
(* running workspace, those of dead processes included.                    *)
THEOREM BuildsExcludeWorkspaces == Spec => []BuildsAreAlone
<1>1. IInv => BuildsAreAlone
  <2>1. SUFFICES ASSUME IInv PROVE BuildsAreAlone
    OBVIOUS
  <2>2. containers # {} => Active # {}
    <3>1. SUFFICES ASSUME NEW c \in containers PROVE Active # {}
      OBVIOUS
    <3>2. PICK i \in Slots : slotRecord[i] = c
      BY <2>1 DEF IInv, RecordOK
    <3>3. c # NoRecord
      BY <2>1, CapacityAssumption DEF IInv, TypeOK
    <3>4. QED
      BY <3>2, <3>3 DEF Active
  <2>3. QED
    BY <2>1, <2>2 DEF IInv, FenceOK, BuildOK, BuildsAreAlone
<1>2. QED
  BY AlwaysIInv, <1>1, PTL

(* However many processes admit workspaces, those that run never take more *)
(* than the machine had room for.                                          *)
THEOREM MemoryIsSpentOnce == Spec => []RoomIsSpentOnce
<1>1. IInv => RoomIsSpentOnce
  <2>1. SUFFICES ASSUME IInv PROVE Cardinality(containers) <= room
    BY DEF RoomIsSpentOnce
  <2> DEFINE recorded == {slotRecord[i] : i \in Active}
             recordOf == [i \in Active |-> slotRecord[i]]
  <2>2. recordOf \in Surjection(Active, recorded)
    BY DEF Surjection
  <2>3. IsFiniteSet(recorded) /\ Cardinality(recorded) <= Cardinality(Active)
    BY <2>2, ActiveFinite, FS_Surjection
  <2>4. containers \subseteq recorded
    BY <2>1, CapacityAssumption DEF IInv, TypeOK, RecordOK, Active
  <2>5. Cardinality(containers) <= Cardinality(recorded)
    BY <2>3, <2>4, FS_Subset
  <2>6. Cardinality(containers) \in Nat /\ Cardinality(recorded) \in Nat /\ room \in Nat
    BY <2>1, <2>3, <2>4, FS_Subset, FS_CardinalityType, CapacityAssumption DEF IInv, TypeOK
  <2>7. QED
    BY <2>1, <2>3, <2>5, <2>6, ActiveFinite DEF IInv, RoomOK
<1>2. QED
  BY AlwaysIInv, <1>1, PTL

-----------------------------------------------------------------------------
(* ModelPull                                                               *)

\* What is so of a pull at each step of it: past the fetch its bytes are here,
\* what it read of policy.yaml is of such models, and what it said is settled
\* by the time it no longer counts as work.
PullSays(m) ==
    /\ pull[m].st \in {"fetched", "editing", "allowed"} => m \in runtime
    /\ pull[m].seen \subseteq runtime
    /\ m \notin Live => Settled(m)

\* A worker about to close its stream found no pull at work, but late ones.
CloseIsIdle == verdict => \A m \in Models \ late : m \notin Live /\ Settled(m)

PullInv == OfferedIsPulled /\ CloseIsIdle /\ \A m \in Models : PullSays(m)

(* Nothing is pulled at first.                                             *)
LEMMA InitPullInv == PullInit => PullTypeOK /\ PullInv
<1> SUFFICES ASSUME PullInit PROVE PullTypeOK /\ PullInv
  OBVIOUS
<1>1. NoPull \in Pulls
  BY DEF NoPull, Pulls, States
<1>2. PullTypeOK
  BY <1>1 DEF PullInit, PullTypeOK
<1>3. \A m \in Models : PullSays(m)
  BY DEF PullInit, NoPull, PullSays, Settled
<1>4. QED
  BY <1>2, <1>3 DEF PullInit, PullInv, OfferedIsPulled, CloseIsIdle

(* The step of one pull keeps the types if it leaves a pull of its own ... *)
LEMMA OneMoves ==
    ASSUME PullTypeOK, NEW m \in Models, NEW p \in Pulls, pull' = [pull EXCEPT ![m] = p]
    PROVE  /\ pull' \in [Models -> Pulls] /\ pull'[m] = p
           /\ \A n \in Models \ {m} : pull'[n] = pull[n]
BY DEF PullTypeOK

(* ... and the invariant, if what it leaves is so of it, the runtime only  *)
(* gains, and it does not begin to work, or unsettle, behind the verdict.  *)
LEMMA OneKeepsInv ==
    ASSUME PullTypeOK, PullInv, NEW m \in Models, NEW p \in Pulls, pull' = [pull EXCEPT ![m] = p],
           runtime \subseteq runtime', OfferedIsPulled', PullSays(m)',
           verdict' = verdict, late \subseteq late',
           verdict => m \in late' \/ (m \in Live' => m \in Live)
    PROVE  PullInv'
<1>1. /\ pull'[m] = p
      /\ \A n \in Models \ {m} : pull'[n] = pull[n]
  BY OneMoves
<1>2. \A n \in Models \ {m} : (n \in Live' <=> n \in Live) /\ (Settled(n)' <=> Settled(n))
  BY <1>1 DEF Live, Settled
<1>3. \A n \in Models \ {m} : PullSays(n)'
  BY <1>1, <1>2 DEF PullInv, PullSays
<1>4. CloseIsIdle'
  <2> SUFFICES ASSUME verdict, NEW n \in Models \ late' PROVE n \notin Live' /\ Settled(n)'
    BY DEF CloseIsIdle
  <2>1. n \notin Live /\ Settled(n)
    BY DEF PullInv, CloseIsIdle
  <2>2. CASE n = m
    BY <2>1, <2>2 DEF PullSays
  <2>3. CASE n # m
    BY <2>1, <2>3, <1>2
  <2>4. QED
    BY <2>2, <2>3
<1>5. QED
  BY <1>3, <1>4 DEF PullInv

(* The steps of a pull, from its start to the re-advertise it asks for.    *)
LEMMA PullKeepsInv ==
    ASSUME PullTypeOK, PullInv, NEW m \in Models, Start(m) \/ Cancel(m) \/ Runs(m)
    PROVE  PullTypeOK' /\ PullInv'
<1>0. pull[m] \in Pulls /\ PullSays(m) /\ OfferedIsPulled
  BY DEF PullTypeOK, PullInv
<1>t. /\ conn' \in {"up", "lost", "down"} /\ shown' \subseteq Models
      /\ asked' \in BOOLEAN /\ verdict' \in BOOLEAN /\ late' \subseteq Models
      /\ verdict' = verdict /\ late \subseteq late'
  BY DEF PullTypeOK, Start, Cancel, Runs, Fetches, Reads, Writes, Reloads, Flushes, Releases,
         Readvertises
<1>k. ASSUME NEW p \in Pulls, pull' = [pull EXCEPT ![m] = p],
             runtime \subseteq runtime', runtime' \subseteq Models,
             policy' \subseteq runtime', live' \subseteq runtime',
             p.st \in {"fetched", "editing", "allowed"} => m \in runtime',
             p.seen \subseteq runtime',
             p.st \in {"none", "released", "done"} => (p.ok => p.end # "queued" \/ p.cut),
             p.st \in {"none", "released", "done"} \/ pull[m].st \notin {"none", "released", "done"}
               \/ (verdict => m \in late')
      PROVE  PullTypeOK' /\ PullInv'
  <2>1. pull' \in [Models -> Pulls] /\ pull'[m] = p
    BY <1>k, OneMoves
  <2>2. PullTypeOK'
    BY <1>k, <1>t, <2>1 DEF PullTypeOK
  <2>3. (m \in Live' <=> p.st \notin {"none", "released", "done"})
        /\ (m \in Live <=> pull[m].st \notin {"none", "released", "done"})
    BY <1>0, <2>1 DEF Live, Pulls, States
  <2>4. PullSays(m)'
    BY <1>k, <2>1, <2>3 DEF PullSays, Settled
  <2>5. OfferedIsPulled'
    BY <1>k DEF OfferedIsPulled
  <2>6. QED
    BY <1>k, <1>t, <2>2, <2>3, <2>4, <2>5, OneKeepsInv
<1>e. ASSUME NEW ok \in BOOLEAN
      PROVE  /\ EndOf(pull[m], ok) \in Pulls
             /\ EndOf(pull[m], ok).st = "ended" /\ EndOf(pull[m], ok).seen = pull[m].seen
  BY <1>0 DEF EndOf, Pulls, States
<1>f. ASSUME Fails(m), pull[m].st \in {"fetching", "fetched", "editing", "allowed"}
      PROVE  PullTypeOK' /\ PullInv'
  <2> DEFINE p == EndOf(pull[m], FALSE)
  <2>1. p \in Pulls /\ p.st = "ended" /\ p.seen = pull[m].seen
    BY <1>e
  <2>2. pull' = [pull EXCEPT ![m] = p]
    BY <1>f DEF Fails
  <2> HIDE DEF p
  <2>3. QED
    BY <1>0, <1>f, <1>k, <2>1, <2>2 DEF Fails, PullSays, OfferedIsPulled, PullTypeOK
<1>s. runtime \subseteq Models /\ pull[m].seen \subseteq runtime /\ policy \subseteq runtime
      /\ live \subseteq runtime
  BY <1>0 DEF PullTypeOK, PullSays, OfferedIsPulled
<1>1. CASE Start(m)
  <2> DEFINE p == [NoPull EXCEPT !.st = "fetching"]
  <2>1. p \in Pulls /\ p.st = "fetching" /\ p.seen = {}
    BY DEF NoPull, Pulls, States
  <2>2. pull' = [pull EXCEPT ![m] = p] /\ (verdict => m \in late')
    BY <1>1 DEF Start
  <2> HIDE DEF p
  <2>3. QED
    BY <1>1, <1>k, <1>s, <2>1, <2>2 DEF Start
<1>2. CASE Cancel(m)
  <2> DEFINE p == [pull[m] EXCEPT !.cut = TRUE]
  <2>1. p \in Pulls /\ p.st = pull[m].st /\ p.seen = pull[m].seen /\ p.cut
    BY <1>0 DEF Pulls
  <2>2. pull' = [pull EXCEPT ![m] = p]
    BY <1>2 DEF Cancel
  <2> HIDE DEF p
  <2>3. pull[m].st \in {"fetched", "editing", "allowed"} => m \in runtime
    BY <1>0 DEF PullSays
  <2>4. QED
    BY <1>2, <1>k, <1>s, <2>1, <2>2, <2>3 DEF Cancel
<1>3. CASE Fetches(m)
  <2>1. CASE pull' = [pull EXCEPT ![m].st = "fetched"] /\ runtime' = runtime \cup {m}
             /\ UNCHANGED <<policy, live>>
    <3> DEFINE p == [pull[m] EXCEPT !.st = "fetched"]
    <3>1. p \in Pulls /\ p.st = "fetched" /\ p.seen = pull[m].seen
      BY <1>0 DEF Pulls, States
    <3>2. pull' = [pull EXCEPT ![m] = p]
      BY <2>1
    <3> HIDE DEF p
    <3>3. pull[m].st = "fetching"
      BY <1>3 DEF Fetches
    <3>4. QED
      BY <1>k, <1>s, <2>1, <3>1, <3>2, <3>3
  <2>2. QED
    BY <1>3, <1>f, <2>1 DEF Fetches
<1>4. CASE Reads(m)
  <2>1. CASE pull' = [pull EXCEPT ![m].st = "editing", ![m].seen = policy]
             /\ UNCHANGED <<runtime, policy, live>>
    <3> DEFINE p == [pull[m] EXCEPT !.st = "editing", !.seen = policy]
    <3>1. p \in Pulls /\ p.st = "editing" /\ p.seen = policy
      BY <1>0, <1>s DEF Pulls, States
    <3>2. pull' = [pull EXCEPT ![m] = p]
      BY <2>1
    <3> HIDE DEF p
    <3>3. pull[m].st = "fetched" /\ m \in runtime
      BY <1>0, <1>4 DEF Reads, PullSays
    <3>4. QED
      BY <1>k, <1>s, <2>1, <3>1, <3>2, <3>3
  <2>2. QED
    BY <1>4, <1>f, <2>1 DEF Reads
<1>5. CASE Writes(m)
  <2>1. CASE /\ policy' = IF m \in pull[m].seen THEN policy ELSE pull[m].seen \cup {m}
             /\ pull' = [pull EXCEPT ![m].st = "allowed"] /\ UNCHANGED <<runtime, live>>
    <3> DEFINE p == [pull[m] EXCEPT !.st = "allowed"]
    <3>1. p \in Pulls /\ p.st = "allowed" /\ p.seen = pull[m].seen
      BY <1>0 DEF Pulls, States
    <3>2. pull' = [pull EXCEPT ![m] = p]
      BY <2>1
    <3> HIDE DEF p
    <3>3. pull[m].st = "editing" /\ m \in runtime
      BY <1>0, <1>5 DEF Writes, PullSays
    <3>4. QED
      BY <1>k, <1>s, <2>1, <3>1, <3>2, <3>3
  <2>2. QED
    BY <1>5, <1>f, <2>1 DEF Writes
<1>6. CASE Reloads(m)
  <2>1. CASE live' = live \cup policy /\ pull' = [pull EXCEPT ![m] = EndOf(@, TRUE)]
             /\ UNCHANGED <<runtime, policy>>
    <3> DEFINE p == EndOf(pull[m], TRUE)
    <3>1. p \in Pulls /\ p.st = "ended" /\ p.seen = pull[m].seen
      BY <1>e
    <3>2. pull' = [pull EXCEPT ![m] = p]
      BY <2>1
    <3> HIDE DEF p
    <3>3. pull[m].st = "allowed"
      BY <1>6 DEF Reloads
    <3>4. QED
      BY <1>k, <1>s, <2>1, <3>1, <3>2, <3>3
  <2>2. QED
    BY <1>6, <1>f, <2>1 DEF Reloads
<1>7. CASE Flushes(m)
  <2> DEFINE p == [pull[m] EXCEPT !.end = "heard"]
  <2>1. p \in Pulls /\ p.st = pull[m].st /\ p.seen = pull[m].seen /\ p.end = "heard"
    BY <1>0 DEF Pulls
  <2>2. pull' = [pull EXCEPT ![m] = p]
    BY <1>7 DEF Flushes
  <2> HIDE DEF p
  <2>3. pull[m].st \in {"fetched", "editing", "allowed"} => m \in runtime
    BY <1>0 DEF PullSays
  <2>4. QED
    BY <1>7, <1>k, <1>s, <2>1, <2>2, <2>3 DEF Flushes
<1>8. CASE Releases(m)
  <2> DEFINE p == [pull[m] EXCEPT !.st = IF pull[m].ok THEN "released" ELSE "done"]
  <2>1. /\ p \in Pulls /\ p.st \in {"released", "done"} /\ p.seen = pull[m].seen
        /\ p.ok = pull[m].ok /\ p.end = pull[m].end /\ p.cut = pull[m].cut
    BY <1>0 DEF Pulls, States
  <2>2. pull' = [pull EXCEPT ![m] = p] /\ Settled(m)
    BY <1>8 DEF Releases
  <2> HIDE DEF p
  <2>3. QED
    BY <1>8, <1>k, <1>s, <2>1, <2>2 DEF Releases, Settled
<1>9. CASE Readvertises(m)
  <2> DEFINE p == [pull[m] EXCEPT !.st = "done"]
  <2>1. /\ p \in Pulls /\ p.st = "done" /\ p.seen = pull[m].seen
        /\ p.ok = pull[m].ok /\ p.end = pull[m].end /\ p.cut = pull[m].cut
    BY <1>0 DEF Pulls, States
  <2>2. pull' = [pull EXCEPT ![m] = p] /\ Settled(m)
    BY <1>0, <1>9 DEF Readvertises, PullSays, Live
  <2> HIDE DEF p
  <2>3. QED
    BY <1>9, <1>k, <1>s, <2>1, <2>2 DEF Readvertises, Settled
<1>10. QED
  BY <1>1, <1>2, <1>3, <1>4, <1>5, <1>6, <1>7, <1>8, <1>9 DEF Runs

(* The steps of the connection: what a close drops is an End that was due, *)
(* and it moves no pull.                                                   *)
LEMMA StreamKeepsInv ==
    ASSUME PullTypeOK, PullInv, Looks \/ Closes \/ Breaks \/ StopAll \/ Registers
    PROVE  PullTypeOK' /\ PullInv'
<1>1. runtime' = runtime /\ policy' = policy /\ live' = live
  BY DEF Looks, Closes, Breaks, StopAll, Registers
<1>2. OfferedIsPulled'
  BY <1>1 DEF PullInv, OfferedIsPulled
<1>3. ASSUME NEW m \in Models
      PROVE  /\ pull'[m] \in Pulls
             /\ pull'[m].st = pull[m].st /\ pull'[m].seen = pull[m].seen
             /\ Settled(m) => Settled(m)'
  <2>0. pull[m] \in Pulls
    BY DEF PullTypeOK
  <2>1. CASE Looks \/ Registers
    BY <2>0, <2>1 DEF Looks, Registers, Settled
  <2>2. CASE Closes \/ Breaks
    <3>1. pull'[m] = Dropped(pull[m])
      BY <2>2 DEF Closes, Breaks
    <3>2. /\ pull'[m] \in Pulls /\ pull'[m].st = pull[m].st /\ pull'[m].seen = pull[m].seen
          /\ pull'[m].ok = pull[m].ok /\ pull'[m].cut = pull[m].cut
          /\ pull'[m].end \in {pull[m].end, "lost"}
      BY <2>0, <3>1 DEF Dropped, Pulls
    <3>3. QED
      BY <3>2 DEF Settled
  <2>3. CASE StopAll
    <3>1. /\ pull'[m] \in Pulls /\ pull'[m].st = pull[m].st /\ pull'[m].seen = pull[m].seen
          /\ pull'[m].ok = pull[m].ok /\ pull'[m].end = pull[m].end
          /\ pull[m].cut => pull'[m].cut
      BY <2>0, <2>3 DEF StopAll, Pulls
    <3>2. QED
      BY <3>1 DEF Settled
  <2>4. QED
    BY <2>1, <2>2, <2>3
<1>4. pull' \in [Models -> Pulls]
  <2>1. pull' = [m \in Models |-> pull'[m]]
    BY DEF Looks, Closes, Breaks, StopAll, Registers, PullTypeOK
  <2>2. QED
    BY <1>3, <2>1
<1>5. PullTypeOK'
  BY <1>1, <1>4 DEF PullTypeOK, Looks, Closes, Breaks, StopAll, Registers, Offered
<1>6. Live' = Live
  BY <1>3 DEF Live
<1>7. \A m \in Models : PullSays(m)'
  BY <1>1, <1>3, <1>6 DEF PullInv, PullSays
<1>8. CloseIsIdle'
  <2>1. CASE Looks
    <3>1. verdict' => Live = {}
      BY <2>1 DEF Looks, Idle
    <3>2. QED
      BY <1>6, <1>7, <3>1 DEF CloseIsIdle, PullSays
  <2>2. CASE Closes \/ Breaks
    BY <2>2 DEF Closes, Breaks, CloseIsIdle
  <2>3. CASE StopAll \/ Registers
    BY <1>3, <1>6, <2>3 DEF StopAll, Registers, CloseIsIdle, PullInv
  <2>4. QED
    BY <2>1, <2>2, <2>3
<1>9. QED
  BY <1>2, <1>5, <1>7, <1>8 DEF PullInv

(* Every step keeps the types and the invariant.                           *)
LEMMA PullNextKeeps ==
    ASSUME PullTypeOK, PullInv, [PullNext]_pull_vars
    PROVE  PullTypeOK' /\ PullInv'
<1>1. CASE UNCHANGED pull_vars
  <2>1. PullTypeOK'
    BY <1>1 DEF pull_vars, PullTypeOK
  <2>2. QED
    BY <1>1, <2>1 DEF pull_vars, PullInv, OfferedIsPulled, CloseIsIdle, PullSays, Live, Settled
<1>2. ASSUME NEW m \in Models, Start(m) \/ Cancel(m) \/ Runs(m) PROVE PullTypeOK' /\ PullInv'
  BY <1>2, PullKeepsInv
<1>3. CASE Looks \/ Closes \/ Breaks \/ StopAll \/ Registers
  BY <1>3, StreamKeepsInv
<1>4. QED
  BY <1>1, <1>2, <1>3 DEF PullNext

(* The pulls of any number of models: what policy.yaml or the running      *)
(* worker allows, the runtime has.                                         *)
THEOREM AllowedAfterThePull == PullSpec => []OfferedIsPulled
<1>1. PullInit => PullTypeOK /\ PullInv
  BY InitPullInv
<1>2. PullTypeOK /\ PullInv /\ [PullNext]_pull_vars => PullTypeOK' /\ PullInv'
  BY PullNextKeeps
<1>3. PullInv => OfferedIsPulled
  BY DEF PullInv
<1>4. QED
  BY <1>1, <1>2, <1>3, PTL DEF PullSpec

(* The reconnect one pull earns cuts no sibling short and drops no End of  *)
(* a success, however many pulls there are.                                *)
THEOREM CloseCutsNothing == PullSpec => OwnCloseCutsNothing
<1>1. PullInit => PullTypeOK /\ PullInv
  BY InitPullInv
<1>2. PullTypeOK /\ PullInv /\ [PullNext]_pull_vars => PullTypeOK' /\ PullInv'
  BY PullNextKeeps
<1>3. PullInv => [ClosesIdle]_pull_vars
  <2> SUFFICES ASSUME PullInv, Closes, NEW m \in Models \ late
               PROVE  m \notin Live /\ (pull[m].ok /\ pull[m].end = "queued" => pull[m].cut)
    BY DEF ClosesIdle
  <2>1. m \notin Live /\ Settled(m)
    BY DEF Closes, PullInv, CloseIsIdle
  <2>2. QED
    BY <2>1 DEF Settled
<1>4. QED
  BY <1>1, <1>2, <1>3, PTL DEF PullSpec, OwnCloseCutsNothing

-----------------------------------------------------------------------------
(* BuildContainer                                                          *)

(* Up to the command, and while it is waited for.                          *)
Setup == {"begin", "create", "check", "start", "ready"}
Waiting == {"attached", "inspect", "still"}

(* The members an attempt has.                                             *)
Own == {Command} \cup (IF services = 0 THEN {} ELSE Network..services)

(* The record holds from before the first call to after the last removal.  *)
RecordHolds ==
  /\ ~Is("idle") \/ record # "none" => attempt \in Attempts
  /\ Is("begin") => record = "cleanup" /\ dir /\ cache
  /\ place.step \in (Setup \ {"begin"}) \cup Waiting \cup {"remove", "settle"} => record = "attempt"
  /\ Is("clear") => record = "cleanup"
  /\ record = "attempt" => dir /\ cache
  /\ place.step \in {"create", "check", "start", "remove"} => place.of \in Own
  /\ place.step \in {"ready", "still"} => place.of \in Services
  /\ place.step \in Setup \cup Waiting => result # "exit"

(* Of an attempt at most one client was lost, and the last.                *)
OneIsLost ==
  /\ \A op, other \in lost : op[1] = other[1] => op = other
  /\ \A op \in lost : op[1] <= attempt
  /\ place.step \in Setup \cup {"attached"} => \A op \in lost : op[1] # attempt

(* It does not run, and nobody asked for it to be started.                 *)
Quiet(a, m) ==
  /\ state[a][m] # "running"
  /\ state[a][m] = "created" => <<a, "start", m>> \notin lost

(* What no record names is quiet: an attempt to come, one that is over, a  *)
(* member that an attempt has not.                                         *)
OthersAreQuiet ==
  /\ \A a \in Attempts, m \in Members :
       /\ a > attempt => state[a][m] = "absent"
       /\ a < attempt => Quiet(a, m)
  /\ attempt \in Attempts /\ record # "attempt" => \A m \in Members : Quiet(attempt, m)

OnlyOwnAreMade ==
  attempt \in Attempts =>
    \A m \in Members \ Own : Mine(m) = "absent" /\ \A op \in lost : op[1] = attempt => op[3] # m

(* And so is what a removal has passed, for as long as it is sure.         *)
Passed ==
  IF Is("settle") THEN Own ELSE IF place.of = Command THEN {} ELSE {m \in Own : m > place.of}
RemovedAreQuiet ==
  place.step \in {"remove", "settle"} /\ ~unsure => \A m \in Passed : Quiet(attempt, m)

(* The command is made when the services run.                              *)
ServicesCameFirst ==
  /\ place.step \in Setup => Mine(Command) \in {"absent", "created"}
  /\ place.step \in Waiting \/ (place.step \in {"create", "check", "start"} /\ place.of = Command)
       => \A m \in Services : Mine(m) \in {"running", "exited"}
  /\ Is("ready") => \A m \in Services : m < place.of => Mine(m) \in {"running", "exited"}
  /\ place.step \in Waiting => \A op \in lost : op[1] = attempt => op[2] # "create"

(* A command that ended without them leaves one that can be seen to have   *)
(* ended.                                                                  *)
LossIsSeen ==
  /\ place.step \in {"attached", "inspect"} /\ Mine(Command) = "exited" /\ ~healthy
       => \E m \in Services : Mine(m) = "exited"
  /\ Is("still") =>
       /\ Mine(Command) = "exited"
       /\ ~healthy => \E m \in Services : m >= place.of /\ Mine(m) = "exited"

(* An exit stays what it was, and what is removed is gone.                 *)
ExitIsKept ==
  building /\ result = "exit" =>
    /\ healthy /\ place.step \in {"remove", "settle", "finish", "clear", "retain"}
    /\ \A op \in lost : op[1] = attempt => op[2] # "create"
    /\ Mine(Command) \in {"exited", "absent"}
    /\ place.step \in {"remove", "settle"} /\ ~unsure => \A m \in Passed : Mine(m) = "absent"
    /\ Is("finish") => \A m \in Members : Mine(m) = "absent"

ContainerInv ==
  /\ ContainerTypeOK /\ RecordHolds /\ OneIsLost /\ OthersAreQuiet /\ OnlyOwnAreMade
  /\ RemovedAreQuiet /\ ServicesCameFirst /\ LossIsSeen /\ ExitIsKept

(* What the daemon holds when it is told to change one member.             *)
LEMMA OneMember ==
  ASSUME ContainerTypeOK, NEW a \in Attempts, NEW m \in Members,
         NEW v \in {"absent", "created", "running", "exited"}
  PROVE  /\ [state EXCEPT ![a][m] = v] \in
              [Attempts -> [Members -> {"absent", "created", "running", "exited"}]]
         /\ \A b \in Attempts, n \in Members :
              [state EXCEPT ![a][m] = v][b][n] = IF b = a /\ n = m THEN v ELSE state[b][n]
<1>1. state \in [Attempts -> [Members -> {"absent", "created", "running", "exited"}]]
  BY DEF ContainerTypeOK
<1>2. [state[a] EXCEPT ![m] = v] \in [Members -> {"absent", "created", "running", "exited"}]
  BY <1>1
<1>3. [state EXCEPT ![a][m] = v] = [state EXCEPT ![a] = [state[a] EXCEPT ![m] = v]]
  BY <1>1
<1> QED
  BY <1>1, <1>2, <1>3

(* A client that is lost leaves no more than what the daemon was told.     *)
LEMMA ClientsAreLost ==
  ASSUME ContainerTypeOK, SetupFails \/ Detaches \/ Stopped \/ WorkerDies
  PROVE  /\ UNCHANGED <<attempt, services, record, dir, cache, state, healthy, unsure>>
         /\ lost' = lost \/ lost' = lost \cup Asked
         /\ place'.step \in {"remove", "inspect", "idle"} /\ place'.of = Command
         /\ result' \in {result, "failed", "none"}
         /\ place'.step = "remove" => result' = "failed"
         /\ place'.step = "inspect" => (Is("start") \/ Is("attached")) /\ result' = result
BY DEF SetupFails, Detaches, Stopped, WorkerDies, Attaching, Concludes, At, Is

LEMMA AskedForOne ==
  ASSUME ContainerInv
  PROVE  /\ Asked \subseteq Attempts \X {"create", "start"} \X Own
         /\ \A op \in Asked : op = <<attempt, place.step, place.of>> /\ \A other \in lost : other[1] # attempt
BY DEF Asked, ContainerInv, RecordHolds, OneIsLost, Is, Setup, Waiting

(* What the daemon does for a client that is gone.                         *)
LEMMA DaemonDoes ==
  ASSUME ContainerTypeOK, DaemonActs
  PROVE  \E op \in lost :
           /\ lost' = lost \ {op}
           /\ state' \in [Attempts -> [Members -> {"absent", "created", "running", "exited"}]]
           /\ \A a \in Attempts, m \in Members :
                \/ state'[a][m] = state[a][m]
                \/ /\ op = <<a, "create", m>>
                   /\ state[a][m] = "absent" /\ state'[a][m] = "created"
                \/ /\ op = <<a, "start", m>>
                   /\ state[a][m] = "created" /\ state'[a][m] = "running"
<1>1. PICK op \in lost : state' = Performed(op[1], op[2], op[3]) /\ lost' = lost \ {op}
  BY DEF DaemonActs
<1>2. op[1] \in Attempts /\ op[2] \in {"create", "start"} /\ op[3] \in Members /\ op = <<op[1], op[2], op[3]>>
  BY DEF ContainerTypeOK
<1>3. CASE state' = state
  BY <1>1, <1>3 DEF ContainerTypeOK
<1>4. CASE op[2] = "create" /\ state[op[1]][op[3]] = "absent"
  <2>1. state' = [state EXCEPT ![op[1]][op[3]] = "created"]
    BY <1>1, <1>4 DEF Performed
  <2>2. op = <<op[1], "create", op[3]>> /\ op[1] \in Attempts /\ op[3] \in Members
    BY <1>2, <1>4
  <2>3. state' \in [Attempts -> [Members -> {"absent", "created", "running", "exited"}]]
        /\ \A a \in Attempts, m \in Members :
             state'[a][m] = IF a = op[1] /\ m = op[3] THEN "created" ELSE state[a][m]
    BY <2>1, <2>2, OneMember
  <2> QED
    BY <1>1, <1>4, <2>2, <2>3
<1>5. CASE op[2] = "start" /\ state[op[1]][op[3]] = "created"
  BY <1>1, <1>2, <1>5, OneMember DEF Performed
<1> QED
  BY <1>1, <1>2, <1>3, <1>4, <1>5 DEF Performed

(* Every step keeps the types.                                             *)
LEMMA ContainerTypes ==
  ASSUME ContainerAssumption, ContainerInv, [ContainerNext]_container_vars
  PROVE  ContainerTypeOK'
<1> DEFINE Shapes == [Attempts -> [Members -> {"absent", "created", "running", "exited"}]]
<1> DEFINE Places == [step : {"idle", "begin", "create", "check", "start", "ready", "attached",
                             "inspect", "still", "remove", "settle", "finish", "clear", "retain"},
                     of : Members]
<1>0. /\ ContainerTypeOK /\ RecordHolds /\ MaxServices \in Nat /\ MaxAttempts \in Nat /\ MaxMishaps \in Nat
      /\ state \in Shapes /\ Command \in Members /\ Network \in Members
  BY DEF ContainerInv, ContainerTypeOK, ContainerAssumption, Command, Members, Network
<1>1. ASSUME Mishap PROVE mishaps' \in 0..MaxMishaps
  BY <1>0, <1>1 DEF Mishap, ContainerTypeOK
<1>2. Services \subseteq Members /\ Own \subseteq Members
  BY <1>0 DEF ContainerTypeOK, Services, Members, Command, Own, Network
<1> HIDE DEF Shapes
<1>3. CASE Begins
  <2>1. {building', dir', cache', daemon', over', unsure', healthy'} \subseteq BOOLEAN
    BY <1>0, <1>3 DEF Begins, ContainerTypeOK, outside
  <2>2. place' \in Places
    BY <1>0, <1>3 DEF Begins, At
  <2> QED
    BY <1>0, <1>3, <2>1, <2>2 DEF Begins, ContainerTypeOK, outside
<1>4. CASE RecordsNames \/ Checks \/ Ready
  BY <1>0, <1>1, <1>2, <1>4 DEF RecordsNames, Checks, Ready, At, Is, First, ContainerTypeOK, RecordHolds, outside, Services, Members, Command
<1>5. CASE Inspects \/ StillRuns
  BY <1>0, <1>1, <1>2, <1>5 DEF Inspects, StillRuns, Concludes, At, Is, ContainerTypeOK, RecordHolds, outside, Services, Members, Command
<1>6. CASE Settles \/ Clears \/ Prunes \/ Reconciles
  <2>1. {building', dir', cache', daemon', over', unsure', healthy'} \subseteq BOOLEAN
    BY <1>0, <1>6 DEF Settles, Clears, Prunes, Reconciles, ContainerTypeOK, outside
  <2>2. place' \in Places
    BY <1>0, <1>6 DEF Settles, Clears, Prunes, Reconciles, At
  <2> QED
    BY <1>0, <1>1, <1>6, <2>1, <2>2 DEF Settles, Clears, Prunes, Reconciles, ContainerTypeOK, outside
<1>7. CASE FinishesWorkspace
  <2>1. {building', dir', cache', daemon', over', unsure', healthy'} \subseteq BOOLEAN
    BY <1>0, <1>7 DEF FinishesWorkspace, ContainerTypeOK, outside
  <2>2. place' \in Places
    BY <1>0, <1>7 DEF FinishesWorkspace, At
  <2> QED
    BY <1>0, <1>1, <1>7, <2>1, <2>2 DEF FinishesWorkspace, ContainerTypeOK, outside
<1>8. CASE FindsNothing \/ ContextEnds \/ DaemonComes \/ UNCHANGED container_vars
  BY <1>0, <1>8 DEF FindsNothing, ContextEnds, DaemonComes, container_vars, ContainerTypeOK, outside
<1>9. CASE Creates \/ StartsContainer
  <2>1. attempt \in Attempts /\ place.of \in Members /\ place.of \in Own
    BY <1>0, <1>2, <1>9 DEF Creates, StartsContainer, RecordHolds, Is
  <2>2. state' \in Shapes
    BY <1>0, <1>9, <2>1, OneMember DEF Creates, StartsContainer, Performed, Shapes
  <2>3. place'.of \in Members /\ place'.step \in {"create", "check", "start", "ready", "attached"} /\ place' = [step |-> place'.step, of |-> place'.of]
    BY <1>0, <1>9, <2>1 DEF Creates, StartsContainer, Proceeds, At, Own, Network, Services, Members, Command, ContainerTypeOK
  <2> QED
    BY <1>0, <1>9, <2>2, <2>3 DEF Creates, StartsContainer, ContainerTypeOK, Shapes
<1>10. CASE Removes
  <2>1. attempt \in Attempts /\ place.of \in Members /\ place.of \in Own
    BY <1>0, <1>2, <1>10 DEF Removes, RecordHolds, Is
  <2>2. state' \in Shapes
    BY <1>0, <1>10, <2>1, OneMember DEF Removes, Shapes
  <2>3. place'.of \in Members /\ place'.step \in {"remove", "settle"} /\ place' = [step |-> place'.step, of |-> place'.of]
    BY <1>0, <1>10, <2>1 DEF Removes, Onward, First, At, Own, Network, Members, Command, ContainerTypeOK
  <2>4. unsure' \in BOOLEAN /\ mishaps' \in 0..MaxMishaps
    BY <1>0, <1>1, <1>10 DEF Removes, ContainerTypeOK
  <2> QED
    BY <1>0, <1>10, <2>2, <2>3, <2>4 DEF Removes, ContainerTypeOK, Shapes
<1>11. CASE SetupFails \/ Detaches \/ Stopped \/ WorkerDies
  <2>1. lost' \subseteq Attempts \X {"create", "start"} \X Members
    BY <1>0, <1>2, <1>11, ClientsAreLost, AskedForOne DEF ContainerTypeOK
  <2>2. place' = [step |-> place'.step, of |-> place'.of]
    BY <1>11 DEF SetupFails, Detaches, Stopped, WorkerDies, Concludes, At
  <2>3. mishaps' \in 0..MaxMishaps /\ building' \in BOOLEAN /\ daemon' = daemon /\ over' = over
    BY <1>0, <1>1, <1>11 DEF SetupFails, Detaches, Stopped, WorkerDies, ContainerTypeOK
  <2> QED
    BY <1>0, <1>11, <2>1, <2>2, <2>3, ClientsAreLost DEF ContainerTypeOK
<1>12. CASE DaemonActs
  <2>1. state' \in Shapes /\ lost' \subseteq lost
    BY <1>0, <1>12, DaemonDoes DEF Shapes
  <2> QED
    BY <1>0, <1>12, <2>1 DEF DaemonActs, ContainerTypeOK, Shapes
<1>13. CASE Exits
  <2>1. state' \in Shapes
    BY <1>0, <1>13, OneMember DEF Exits, Running, Shapes
  <2>2. healthy' \in BOOLEAN
    BY <1>0, <1>13 DEF Exits, ContainerTypeOK
  <2> QED
    BY <1>0, <1>13, <2>1, <2>2 DEF Exits, ContainerTypeOK, Shapes
<1>14. CASE DaemonGoes
  <2>1. state' \in Shapes
    BY <1>0, <1>14 DEF DaemonGoes, Running, Shapes
  <2>2. healthy' \in BOOLEAN /\ lost' \subseteq lost /\ mishaps' \in 0..MaxMishaps
    BY <1>0, <1>1, <1>14 DEF DaemonGoes, ContainerTypeOK
  <2> QED
    BY <1>0, <1>14, <2>1, <2>2 DEF DaemonGoes, ContainerTypeOK, Shapes
<1> QED
  BY <1>3, <1>4, <1>5, <1>6, <1>7, <1>8, <1>9, <1>10, <1>11, <1>12, <1>13, <1>14, Zenon DEF ContainerNext, Working

(* What runs is on record.                                                 *)
LEMMA OnlyRecordedRun ==
  ASSUME ContainerAssumption, ContainerInv
  PROVE  /\ \A a \in Attempts, m \in Members : state[a][m] = "running" => a = attempt /\ record = "attempt"
         /\ RunsAreRecorded
<1>1. \A a \in Attempts, m \in Members : state[a][m] = "running" => a = attempt /\ record = "attempt"
  <2>1. /\ OthersAreQuiet /\ attempt \in 0..MaxAttempts /\ MaxAttempts \in Nat
    BY DEF ContainerAssumption, ContainerInv, ContainerTypeOK
  <2>2. ASSUME NEW a \in Attempts, NEW m \in Members, state[a][m] = "running"
        PROVE  a = attempt
    <3>1. ~(a > attempt) /\ ~(a < attempt)
      BY <2>1, <2>2 DEF OthersAreQuiet, Quiet
    <3> QED
      BY <2>1, <3>1 DEF Attempts
  <2>3. ASSUME NEW m \in Members, attempt \in Attempts, state[attempt][m] = "running"
        PROVE  record = "attempt"
    BY <2>1, <2>3 DEF OthersAreQuiet, Quiet
  <2> QED
    BY <2>2, <2>3
<1> QED
  BY <1>1 DEF RunsAreRecorded, Running, ContainerInv, RecordHolds

(* An exit that is reported is one.                                        *)
LEMMA ExitsAreReal ==
  ASSUME ContainerInv
  PROVE  ExitIsReal
BY DEF ContainerInv, ExitIsKept, ExitIsReal

(* Every step keeps each part of the invariant.                            *)
LEMMA KeepsRecordHolds ==
  ASSUME ContainerAssumption, ContainerInv, [ContainerNext]_container_vars
  PROVE  RecordHolds'
<1> USE DEF RecordHolds, Setup, Waiting
<1>0. /\ RecordHolds /\ MaxAttempts \in Nat /\ MaxServices \in Nat
      /\ attempt \in 0..MaxAttempts /\ services \in 0..MaxServices
  BY DEF ContainerInv, ContainerTypeOK, ContainerAssumption
<1>1. CASE Begins
  <2>1. attempt' \in Attempts
    BY <1>0, <1>1 DEF Begins, Attempts
  <2>2. Is("begin")' /\ record' = "cleanup" /\ dir' /\ cache' /\ result' = "none"
    BY <1>1 DEF Begins, At, Is
  <2> QED
    BY <2>1, <2>2 DEF Is
<1>2. CASE RecordsNames \/ Checks \/ Ready
  BY <1>0, <1>2 DEF RecordsNames, Checks, Ready, First, At, Is, Own, Services, Network
<1>3. CASE Inspects \/ StillRuns
  BY <1>0, <1>3 DEF Inspects, StillRuns, Concludes, At, Is, Own, Services
<1>4. CASE Settles \/ FinishesWorkspace \/ Clears \/ Prunes \/ Reconciles
  BY <1>0, <1>4 DEF Settles, FinishesWorkspace, Clears, Prunes, Reconciles, At, Is, Own
<1>5. CASE FindsNothing \/ ContextEnds \/ DaemonComes \/ UNCHANGED container_vars
  <2>1. UNCHANGED <<place, attempt, services, record, dir, cache, result>>
    BY <1>5 DEF FindsNothing, ContextEnds, DaemonComes, container_vars
  <2> QED
    BY <1>0, <2>1 DEF Is, Own, Services
<1>6. CASE Creates \/ StartsContainer
  BY <1>0, <1>6 DEF Creates, StartsContainer, Proceeds, At, Is, Own, Services, Network, Command
<1>7. CASE Removes
  BY <1>0, <1>7 DEF Removes, Onward, First, At, Is, Own, Network, Command
<1>8. CASE SetupFails \/ Detaches \/ Stopped \/ WorkerDies
  <2>1. /\ UNCHANGED <<attempt, services, record, dir, cache>> /\ place.step # "idle" /\ place'.of = Command
        /\ \/ place'.step = "idle"
           \/ place'.step = "remove" /\ place.step \in Setup \cup Waiting /\ ~Is("begin")
           \/ place'.step = "inspect" /\ place.step \in {"start", "attached"} /\ result' = result
    BY <1>0, <1>8, ClientsAreLost DEF SetupFails, Detaches, Stopped, WorkerDies, Attaching, Concludes, At, Is, ContainerInv
  <2> QED
    BY <1>0, <2>1 DEF Is, Own
<1>9. CASE DaemonActs \/ Exits \/ DaemonGoes
  <2>1. UNCHANGED <<place, attempt, services, record, dir, cache, result>>
    BY <1>9 DEF DaemonActs, Exits, DaemonGoes
  <2> QED
    BY <1>0, <2>1 DEF Is, Own, Services
<1> QED
  BY <1>1, <1>2, <1>3, <1>4, <1>5, <1>6, <1>7, <1>8, <1>9, Zenon DEF ContainerNext, Working

LEMMA KeepsOneIsLost ==
  ASSUME ContainerAssumption, ContainerInv, [ContainerNext]_container_vars
  PROVE  OneIsLost'
<1> USE DEF OneIsLost
<1>0. OneIsLost /\ RecordHolds /\ ContainerTypeOK /\ MaxAttempts \in Nat
  BY DEF ContainerInv, ContainerAssumption
<1>1. CASE Begins
  BY <1>0, <1>1 DEF Begins, At, outside, ContainerTypeOK, Attempts, ContainerAssumption
<1>2. CASE RecordsNames \/ Checks \/ Ready
  BY <1>0, <1>2 DEF RecordsNames, Checks, Ready, At, Is, outside, Setup
<1>3. CASE Inspects \/ StillRuns
  <2>1. UNCHANGED <<lost, attempt>> /\ place'.step \in {"still", "remove"}
    BY <1>3 DEF Inspects, StillRuns, Concludes, At, outside
  <2> QED
    BY <1>0, <2>1 DEF Setup
<1>4. CASE Settles \/ FinishesWorkspace \/ Clears \/ Prunes \/ Reconciles
  <2>1. UNCHANGED <<lost, attempt>> /\ place'.step \in {"finish", "retain", "clear", "idle", "remove"}
    BY <1>4 DEF Settles, FinishesWorkspace, Clears, Prunes, Reconciles, At, outside
  <2> QED
    BY <1>0, <2>1 DEF Setup
<1>5. CASE FindsNothing \/ ContextEnds \/ DaemonComes \/ UNCHANGED container_vars
  BY <1>0, <1>5 DEF FindsNothing, ContextEnds, DaemonComes, container_vars, outside
<1>6. CASE Creates \/ StartsContainer
  <2>1. UNCHANGED <<lost, attempt>> /\ place.step \in Setup
    BY <1>6 DEF Creates, StartsContainer, Is, Setup
  <2> QED
    BY <1>0, <2>1
<1>7. CASE Removes
  <2>1. UNCHANGED <<lost, attempt>> /\ place'.step \in {"remove", "settle"}
    BY <1>7 DEF Removes, Onward, At
  <2> QED
    BY <1>0, <2>1 DEF Setup
<1>8. CASE SetupFails \/ Detaches \/ Stopped \/ WorkerDies
  <2>1. /\ attempt' = attempt /\ lost' \subseteq lost \cup Asked
        /\ place'.step \notin Setup \cup {"attached"}
    BY <1>0, <1>8, ClientsAreLost DEF Setup
  <2>2. \A op \in Asked : op[1] = attempt /\ \A other \in Asked : op = other
    BY AskedForOne
  <2>3. \A op \in Asked, other \in lost : other[1] # op[1]
    BY <2>2, AskedForOne
  <2>4. attempt <= attempt
    BY <1>0 DEF ContainerTypeOK
  <2>5. ASSUME NEW op \in lost', NEW other \in lost', op[1] = other[1] PROVE op = other
    BY <1>0, <2>1, <2>2, <2>3, <2>5
  <2>6. ASSUME NEW op \in lost' PROVE op[1] <= attempt'
    BY <1>0, <2>1, <2>2, <2>4
  <2> QED
    BY <2>1, <2>5, <2>6
<1>9. CASE DaemonActs \/ Exits \/ DaemonGoes
  <2>1. lost' \subseteq lost /\ UNCHANGED <<place, attempt>>
    BY <1>9 DEF DaemonActs, Exits, DaemonGoes
  <2> QED
    BY <1>0, <2>1
<1> QED
  BY <1>1, <1>2, <1>3, <1>4, <1>5, <1>6, <1>7, <1>8, <1>9, Zenon DEF ContainerNext, Working

(* What ends on its own or with the daemon.                                *)
LEMMA OnlyEnds ==
  ASSUME ContainerTypeOK, Exits \/ DaemonGoes
  PROVE  /\ lost' \subseteq lost /\ UNCHANGED <<place, building, attempt, services, record, unsure, result>>
         /\ \A a \in Attempts, m \in Members :
              state'[a][m] = state[a][m] \/ (state[a][m] = "running" /\ state'[a][m] = "exited")
<1>1. CASE Exits
  <2>1. PICK a \in Attempts, m \in Members : m \in Running(a) /\ state' = [state EXCEPT ![a][m] = "exited"]
    BY <1>1 DEF Exits
  <2>2. \A b \in Attempts, n \in Members : state'[b][n] = IF b = a /\ n = m THEN "exited" ELSE state[b][n]
    BY <2>1, OneMember
  <2> QED
    BY <1>1, <2>1, <2>2 DEF Exits, Running
<1>2. CASE DaemonGoes
  <2>1. \A a \in Attempts, m \in Members :
          state'[a][m] = state[a][m] \/ (state[a][m] = "running" /\ state'[a][m] = "exited")
    BY <1>2 DEF DaemonGoes, Running
  <2> QED
    BY <1>2, <2>1 DEF DaemonGoes
<1> QED
  BY <1>1, <1>2

(* What is quiet stays so, whatever the daemon does.                       *)
LEMMA QuietStays ==
  ASSUME ContainerInv, DaemonActs \/ Exits \/ DaemonGoes,
         NEW a \in Attempts, NEW m \in Members, Quiet(a, m)
  PROVE  Quiet(a, m)'
<1> USE DEF Quiet
<1>0. ContainerTypeOK /\ OneIsLost
  BY DEF ContainerInv
<1>1. CASE DaemonActs
  <2>1. PICK op \in lost :
          /\ lost' = lost \ {op}
          /\ \/ state'[a][m] = state[a][m]
             \/ op = <<a, "create", m>> /\ state'[a][m] = "created"
             \/ op = <<a, "start", m>> /\ state[a][m] = "created"
    BY <1>0, <1>1, DaemonDoes
  <2>2. CASE op = <<a, "create", m>> /\ state'[a][m] = "created"
    <3>1. <<a, "start", m>> \notin lost
      BY <1>0, <2>2 DEF OneIsLost
    <3> QED
      BY <2>1, <2>2, <3>1
  <2> QED
    BY <2>1, <2>2
<1>2. CASE Exits \/ DaemonGoes
  BY <1>0, <1>2, OnlyEnds
<1> QED
  BY <1>1, <1>2

LEMMA KeepsOthersAreQuiet ==
  ASSUME ContainerAssumption, ContainerInv, [ContainerNext]_container_vars
  PROVE  OthersAreQuiet'
<1>0. /\ OthersAreQuiet /\ OneIsLost /\ RecordHolds /\ RemovedAreQuiet /\ OnlyOwnAreMade
      /\ ContainerTypeOK /\ attempt \in 0..MaxAttempts /\ MaxAttempts \in Nat
  BY DEF ContainerInv, ContainerTypeOK, ContainerAssumption
<1>1. CASE Begins
  <2>1. attempt' = attempt + 1 /\ record = "none" /\ state' = state /\ lost' = lost
    BY <1>1 DEF Begins, outside
  <2>2. \A m \in Members : attempt \in Attempts => Quiet(attempt, m)
    BY <1>0, <2>1 DEF OthersAreQuiet
  <2>3. ASSUME NEW a \in Attempts, NEW m \in Members
        PROVE  /\ a > attempt' => state'[a][m] = "absent"
               /\ a < attempt' => Quiet(a, m)'
    BY <1>0, <2>1, <2>2 DEF OthersAreQuiet, Quiet, Attempts
  <2>4. ASSUME NEW m \in Members, attempt' \in Attempts PROVE Quiet(attempt, m)'
    <3>1. state[attempt'][m] = "absent"
      BY <1>0, <2>1, <2>4 DEF OthersAreQuiet
    <3> QED
      BY <2>1, <3>1 DEF Quiet
  <2> QED
    BY <2>3, <2>4 DEF OthersAreQuiet
<1>2. CASE Settles
  <2>1. UNCHANGED <<state, lost, attempt>> /\ Is("settle") /\ (record' # record => ~unsure)
    BY <1>2 DEF Settles, outside, Is
  <2>2. ASSUME ~unsure, NEW m \in Members, attempt \in Attempts PROVE Quiet(attempt, m)
    <3>1. CASE m \in Own
      BY <1>0, <2>1, <2>2, <3>1 DEF RemovedAreQuiet, Passed, Is
    <3>2. CASE m \notin Own
      BY <1>0, <2>2, <3>2 DEF OnlyOwnAreMade, Mine, Quiet
    <3> QED
      BY <3>1, <3>2
  <2> QED
    BY <1>0, <2>1, <2>2 DEF OthersAreQuiet, Quiet
<1>3. CASE \/ RecordsNames \/ Checks \/ Ready \/ Inspects \/ StillRuns \/ FinishesWorkspace \/ Clears \/ Prunes
           \/ Reconciles \/ FindsNothing \/ ContextEnds \/ DaemonComes \/ UNCHANGED container_vars
  <2>1. UNCHANGED <<state, lost, attempt>> /\ (record' = record \/ record' = "attempt" \/ Is("clear"))
    BY <1>3 DEF RecordsNames, Checks, Ready, Inspects, StillRuns, FinishesWorkspace, Clears, Prunes, Reconciles,
         FindsNothing, ContextEnds, DaemonComes, container_vars, outside, Is
  <2> QED
    BY <1>0, <2>1 DEF OthersAreQuiet, Quiet, RecordHolds
<1>4. CASE Creates \/ StartsContainer \/ Removes
  <2>1. UNCHANGED <<record, lost, attempt>> /\ record = "attempt" /\ attempt \in Attempts /\ place.of \in Members
    BY <1>0, <1>4 DEF Creates, StartsContainer, Removes, RecordHolds, Is, Setup, Waiting, ContainerTypeOK
  <2>2. \A a \in Attempts, m \in Members : a # attempt => state'[a][m] = state[a][m]
    BY <1>0, <1>4, <2>1, OneMember DEF Creates, StartsContainer, Removes, Performed
  <2> QED
    BY <1>0, <2>1, <2>2 DEF OthersAreQuiet, Quiet
<1>5. CASE SetupFails \/ Detaches \/ Stopped \/ WorkerDies
  <2>1. UNCHANGED <<record, state, attempt>> /\ lost' \subseteq lost \cup Asked
    BY <1>0, <1>5, ClientsAreLost
  <2>2. \A op \in Asked : op[1] = attempt
    BY AskedForOne
  <2>3. Asked # {} => record = "attempt"
    BY <1>0 DEF Asked, RecordHolds, Setup, Waiting
  <2> QED
    BY <1>0, <2>1, <2>2, <2>3 DEF OthersAreQuiet, Quiet
<1>6. CASE DaemonActs \/ Exits \/ DaemonGoes
  <2>1. UNCHANGED <<attempt, record>>
    BY <1>6 DEF DaemonActs, Exits, DaemonGoes
  <2>2. ASSUME NEW a \in Attempts, NEW m \in Members, a > attempt, state[a][m] = "absent"
        PROVE  state'[a][m] = "absent"
    <3>1. \A op \in lost : op[1] # a
      BY <1>0, <2>2 DEF OneIsLost, ContainerTypeOK, Attempts
    <3> QED
      BY <1>0, <1>6, <2>2, <3>1, DaemonDoes, OnlyEnds
  <2> QED
    BY <1>0, <1>6, <2>1, <2>2, QuietStays DEF OthersAreQuiet
<1> QED
  BY <1>1, <1>2, <1>3, <1>4, <1>5, <1>6, Zenon DEF ContainerNext, Working

LEMMA KeepsOnlyOwnAreMade ==
  ASSUME ContainerAssumption, ContainerInv, [ContainerNext]_container_vars
  PROVE  OnlyOwnAreMade'
<1>0. /\ OthersAreQuiet /\ OneIsLost /\ RecordHolds /\ OnlyOwnAreMade
      /\ ContainerTypeOK /\ attempt \in 0..MaxAttempts /\ MaxAttempts \in Nat
  BY DEF ContainerInv, ContainerTypeOK, ContainerAssumption
<1>1. CASE Begins
  <2>1. attempt' = attempt + 1 /\ attempt' \in Attempts /\ state' = state /\ lost' = lost
    BY <1>0, <1>1 DEF Begins, outside, Attempts
  <2>2. \A m \in Members : state[attempt'][m] = "absent"
    BY <1>0, <2>1 DEF OthersAreQuiet
  <2>3. \A op \in lost : op[1] # attempt'
    BY <1>0, <2>1 DEF OneIsLost
  <2> QED
    BY <2>1, <2>2, <2>3 DEF OnlyOwnAreMade, Mine
<1>2. CASE \/ RecordsNames \/ Checks \/ Ready \/ Inspects \/ StillRuns \/ Settles \/ FinishesWorkspace \/ Clears
           \/ Prunes \/ Reconciles \/ FindsNothing \/ ContextEnds \/ DaemonComes \/ UNCHANGED container_vars
  <2>1. UNCHANGED <<state, lost, attempt, services>>
    BY <1>2 DEF RecordsNames, Checks, Ready, Inspects, StillRuns, Settles, FinishesWorkspace, Clears, Prunes,
         Reconciles, FindsNothing, ContextEnds, DaemonComes, container_vars, outside
  <2> QED
    BY <1>0, <2>1 DEF OnlyOwnAreMade, Mine, Own
<1>3. CASE Creates \/ StartsContainer \/ Removes
  <2>1. UNCHANGED <<lost, attempt, services>> /\ attempt \in Attempts /\ place.of \in Own /\ place.of \in Members
    BY <1>0, <1>3 DEF Creates, StartsContainer, Removes, RecordHolds, Is, ContainerTypeOK
  <2>2. \A m \in Members : m # place.of => state'[attempt][m] = state[attempt][m]
    BY <1>0, <1>3, <2>1, OneMember DEF Creates, StartsContainer, Removes, Performed
  <2> QED
    BY <1>0, <2>1, <2>2 DEF OnlyOwnAreMade, Mine, Own
<1>4. CASE SetupFails \/ Detaches \/ Stopped \/ WorkerDies
  <2>1. UNCHANGED <<state, attempt, services>> /\ lost' \subseteq lost \cup Asked
    BY <1>0, <1>4, ClientsAreLost
  <2>2. \A op \in Asked : op[3] \in Own
    BY AskedForOne
  <2> QED
    BY <1>0, <2>1, <2>2 DEF OnlyOwnAreMade, Mine, Own
<1>5. CASE DaemonActs \/ Exits \/ DaemonGoes
  <2>1. UNCHANGED <<attempt, services>> /\ lost' \subseteq lost
    BY <1>5 DEF DaemonActs, Exits, DaemonGoes
  <2>2. ASSUME attempt \in Attempts, NEW m \in Members \ Own PROVE state'[attempt][m] = "absent"
    <3>1. state[attempt][m] = "absent" /\ \A op \in lost : op[1] = attempt => op[3] # m
      BY <1>0, <2>2 DEF OnlyOwnAreMade, Mine
    <3> QED
      BY <1>0, <1>5, <2>2, <3>1, DaemonDoes, OnlyEnds
  <2> QED
    BY <1>0, <2>1, <2>2 DEF OnlyOwnAreMade, Mine, Own
<1> QED
  BY <1>1, <1>2, <1>3, <1>4, <1>5, Zenon DEF ContainerNext, Working

(* A removal passes one member at a time, from the command to the network. *)
LEMMA PassesOne ==
  ASSUME Is("remove"), Onward(place.of), place.of \in Own, UNCHANGED services,
         MaxServices \in Nat, services \in 0..MaxServices
  PROVE  Passed' \subseteq Passed \cup {place.of}
<1>0. Own' = Own
  BY DEF Own
<1>1. CASE place.of = First
  <2>1. Is("settle")'
    BY <1>1 DEF Onward, At, Is
  <2>2. \A m \in Own : m = place.of \/ m > place.of \/ place.of = Command
    BY <1>1 DEF Own, First, Network, Command
  <2>3. place.of = Command => services = 0 \/ Own = {Command}
    BY <1>1 DEF Own, First, Network, Command
  <2> QED
    BY <1>0, <1>1, <2>1, <2>2, <2>3 DEF Passed, Own, Is, First, Network, Command
<1>2. CASE place.of # First
  <2>1. Is("remove")' /\ place'.of = IF place.of = Command THEN services ELSE place.of - 1
    BY <1>2 DEF Onward, At, Is
  <2>2. \A m \in Own : m > place'.of => m = place.of \/ (place.of # Command /\ m > place.of)
    BY <1>2, <2>1 DEF Own, First, Network, Command
  <2> QED
    BY <1>0, <2>1, <2>2 DEF Passed, Is
<1> QED
  BY <1>1, <1>2

(* And while it is sure, that member is gone.                              *)
LEMMA SureOfOne ==
  ASSUME ContainerTypeOK, Removes, attempt \in Attempts, place.of \in Members, ~unsure'
  PROVE  ~unsure /\ state'[attempt][place.of] = "absent"
<1>1. CASE daemon /\ state' = [state EXCEPT ![attempt][place.of] = "absent"] /\ unsure' = unsure
  BY <1>1, OneMember
<1>2. CASE UNCHANGED state /\ unsure' = (unsure \/ ~daemon \/ Mine(place.of) # "absent")
  BY <1>2 DEF Mine
<1>3. CASE unsure' = TRUE
  BY <1>3
<1> QED
  BY <1>1, <1>2, <1>3 DEF Removes

(* Nothing has been built yet.                                             *)
LEMMA NothingYet ==
  ASSUME ContainerAssumption, ContainerInit
  PROVE  ContainerInv
<1> USE DEF ContainerAssumption, ContainerInit
<1>1. ContainerTypeOK
  <2>1. state \in [Attempts -> [Members -> {"absent", "created", "running", "exited"}]]
    BY DEF Nothing
  <2>2. {building, dir, cache, daemon, over, unsure, healthy} \subseteq BOOLEAN
    OBVIOUS
  <2> QED
    BY <2>1, <2>2 DEF ContainerTypeOK, Command, Members
<1>2. \A a \in Attempts, m \in Members : state[a][m] = "absent"
  BY DEF Nothing
<1>3. attempt \notin Attempts /\ place.step = "idle"
  BY DEF Attempts
<1> QED
  BY <1>1, <1>2, <1>3 DEF ContainerInv, RecordHolds, OneIsLost, OthersAreQuiet, OnlyOwnAreMade, RemovedAreQuiet,
     ServicesCameFirst, LossIsSeen, ExitIsKept, Is, Setup, Waiting, Attempts

LEMMA KeepsRemovedAreQuiet ==
  ASSUME ContainerAssumption, ContainerInv, [ContainerNext]_container_vars
  PROVE  RemovedAreQuiet'
<1>0. /\ RemovedAreQuiet /\ RecordHolds /\ ContainerTypeOK
      /\ MaxServices \in Nat /\ services \in 0..MaxServices
  BY DEF ContainerInv, ContainerTypeOK, ContainerAssumption
<1>1. Own \subseteq Members /\ Passed \subseteq Members
  BY <1>0 DEF Own, Passed, Members, Command, Network
<1>2. CASE Removes
  <2>1. /\ UNCHANGED <<attempt, services, lost>> /\ attempt \in Attempts /\ place.of \in Own /\ place.of \in Members
        /\ Is("remove") /\ Onward(place.of)
    BY <1>0, <1>2 DEF Removes, RecordHolds, Is, ContainerTypeOK
  <2>2. \A m \in Members : m # place.of => state'[attempt][m] = state[attempt][m]
    BY <1>0, <1>2, <2>1, OneMember DEF Removes
  <2>3. ~unsure' => ~unsure /\ state'[attempt][place.of] = "absent"
    BY <1>0, <1>2, <2>1, SureOfOne
  <2>4. Passed' \subseteq Passed \cup {place.of}
    BY <1>0, <2>1, PassesOne
  <2> QED
    BY <1>0, <1>1, <2>1, <2>2, <2>3, <2>4 DEF RemovedAreQuiet, Quiet, Is
<1>3. CASE Reconciles \/ SetupFails \/ Detaches \/ Stopped \/ WorkerDies
  <2>1. place'.step \in {"remove", "finish", "inspect", "idle"} /\ place'.of = Command
    BY <1>0, <1>3, ClientsAreLost DEF Reconciles, At
  <2> QED
    BY <2>1 DEF RemovedAreQuiet, Passed, Is, Command
<1>4. CASE Inspects \/ StillRuns
  <2>1. place'.step = "still" \/ (place'.step = "remove" /\ place'.of = Command)
    BY <1>4 DEF Inspects, StillRuns, Concludes, At
  <2> QED
    BY <2>1 DEF RemovedAreQuiet, Passed, Is, Command
<1>5. CASE \/ Begins \/ RecordsNames \/ Checks \/ Ready \/ Settles \/ FinishesWorkspace \/ Clears \/ Prunes
           \/ Creates \/ StartsContainer
  <2>1. place'.step \notin {"remove", "settle"}
    BY <1>0, <1>5 DEF Begins, RecordsNames, Checks, Ready, Settles, FinishesWorkspace, Clears, Prunes, Creates,
         StartsContainer, Proceeds, At
  <2> QED
    BY <2>1 DEF RemovedAreQuiet
<1>6. CASE FindsNothing \/ ContextEnds \/ DaemonComes \/ UNCHANGED container_vars
  <2>1. UNCHANGED <<place, state, lost, attempt, services, unsure>>
    BY <1>6 DEF FindsNothing, ContextEnds, DaemonComes, container_vars, outside
  <2> QED
    BY <1>0, <2>1 DEF RemovedAreQuiet, Passed, Own, Quiet, Is
<1>7. CASE DaemonActs \/ Exits \/ DaemonGoes
  <2>1. UNCHANGED <<place, attempt, services, unsure>>
    BY <1>7 DEF DaemonActs, Exits, DaemonGoes
  <2>2. place.step \in {"remove", "settle"} => attempt \in Attempts
    BY <1>0 DEF RecordHolds, Is
  <2>3. ASSUME place.step \in {"remove", "settle"}, NEW m \in Members, Quiet(attempt, m)
        PROVE  Quiet(attempt, m)'
    BY <1>7, <2>1, <2>2, <2>3, QuietStays DEF Quiet
  <2>4. Passed' = Passed
    BY <2>1 DEF Passed, Own, Is
  <2> QED
    BY <1>0, <1>1, <2>1, <2>3, <2>4 DEF RemovedAreQuiet
<1> QED
  BY <1>2, <1>3, <1>4, <1>5, <1>6, <1>7, Zenon DEF ContainerNext, Working

LEMMA KeepsServicesCameFirst ==
  ASSUME ContainerAssumption, ContainerInv, [ContainerNext]_container_vars
  PROVE  ServicesCameFirst'
<1> USE DEF ServicesCameFirst, Setup, Waiting
<1>0. /\ ServicesCameFirst /\ RecordHolds /\ OneIsLost /\ OthersAreQuiet /\ ContainerTypeOK
      /\ MaxServices \in Nat /\ services \in 0..MaxServices /\ MaxAttempts \in Nat /\ attempt \in 0..MaxAttempts
      /\ Command \in Members /\ Command \notin Services /\ Services \subseteq Members
  BY DEF ContainerInv, ContainerTypeOK, ContainerAssumption, Command, Members, Services
<1>1. CASE Begins
  <2>1. attempt' \in Attempts /\ attempt' > attempt /\ state' = state /\ Is("begin")'
    BY <1>0, <1>1 DEF Begins, outside, Attempts, At, Is
  <2>2. Mine(Command)' = "absent"
    BY <1>0, <2>1 DEF OthersAreQuiet, Mine, Command
  <2> QED
    BY <2>1, <2>2 DEF Is
<1>2. CASE RecordsNames \/ Checks \/ Ready
  <2>1. UNCHANGED <<state, attempt, services, lost>> /\ place.step \in Setup
    BY <1>2 DEF RecordsNames, Checks, Ready, outside, Is
  <2>2. \A m \in Members : Mine(m)' = Mine(m)
    BY <2>1 DEF Mine
  <2>3. Services' = Services
    BY <2>1 DEF Services
  <2>4. CASE RecordsNames
    BY <1>0, <2>1, <2>2, <2>3, <2>4 DEF RecordsNames, First, At, Is, Services, Network, Command
  <2>5. CASE Checks
    BY <1>0, <2>1, <2>2, <2>3, <2>5 DEF Checks, At, Is, Command
  <2>6. CASE Ready
    BY <1>0, <2>1, <2>2, <2>6 DEF Ready, At, Is, RecordHolds, Services, Command
  <2> QED
    BY <1>2, <2>4, <2>5, <2>6
<1>3. CASE Inspects \/ StillRuns
  <2>1. UNCHANGED <<state, attempt, services, lost>> /\ place.step \in Waiting /\ place'.step \in {"still", "remove"}
    BY <1>3 DEF Inspects, StillRuns, Concludes, outside, At, Is
  <2>2. Services' = Services
    BY <2>1 DEF Services
  <2> QED
    BY <1>0, <2>1, <2>2 DEF Mine, Is
<1>4. CASE Settles \/ FinishesWorkspace \/ Clears \/ Prunes \/ Reconciles \/ Removes
  <2>1. place'.step \in {"finish", "retain", "clear", "idle", "remove", "settle"}
    BY <1>4 DEF Settles, FinishesWorkspace, Clears, Prunes, Reconciles, Removes, Onward, At
  <2> QED
    BY <2>1 DEF Is
<1>5. CASE FindsNothing \/ ContextEnds \/ DaemonComes \/ UNCHANGED container_vars
  <2>1. UNCHANGED <<place, state, lost, attempt, services>>
    BY <1>5 DEF FindsNothing, ContextEnds, DaemonComes, container_vars, outside
  <2>2. Services' = Services
    BY <2>1 DEF Services
  <2> QED
    BY <1>0, <2>1, <2>2 DEF Mine, Is
<1>6. CASE Creates \/ StartsContainer
  <2>1. /\ UNCHANGED <<attempt, services, lost>> /\ attempt \in Attempts /\ place.of \in Own /\ place.of \in Members
        /\ place.step \in {"create", "start"}
    BY <1>0, <1>6 DEF Creates, StartsContainer, RecordHolds, Is, ContainerTypeOK
  <2>2. \A m \in Members : state'[attempt][m] =
          IF m = place.of /\ place.step = "create" /\ state[attempt][m] = "absent" THEN "created"
          ELSE IF m = place.of /\ place.step = "start" /\ state[attempt][m] = "created" THEN "running"
          ELSE state[attempt][m]
    BY <1>0, <1>6, <2>1, OneMember DEF Creates, StartsContainer, Performed, Is
  <2>3. \A m \in Services : Mine(m) \in {"running", "exited"} => Mine(m)' \in {"running", "exited"}
    BY <1>0, <2>1, <2>2 DEF Mine
  <2>4. Services' = Services
    BY <2>1 DEF Services
  <2>5. place'.step # "attached" => Mine(Command)' \in {"absent", "created"}
    BY <1>0, <1>6, <2>1, <2>2 DEF Mine, Creates, StartsContainer, Proceeds, At, Is, Network, Services, Command
  <2>6. CASE place.of = Command
    <3>1. place'.step \in {"check", "attached"}
      BY <1>0, <1>6, <2>6 DEF Creates, StartsContainer, Proceeds, At, Network, Services, Command
    <3> QED
      BY <1>0, <2>1, <2>3, <2>4, <2>5, <2>6, <3>1 DEF OneIsLost, Is
  <2>7. CASE place.of # Command
    <3>1. \/ place'.step \in {"create", "check"} /\ place'.of # Command
          \/ place'.step = "ready" /\ place'.of = 1
      BY <1>0, <1>6, <2>1, <2>7 DEF Creates, StartsContainer, Proceeds, At, Network, Services, Command, Own
    <3>2. \A m \in Services : ~(m < 1)
      BY <1>0 DEF Services
    <3> QED
      BY <2>4, <2>5, <3>1, <3>2 DEF Is
  <2> QED
    BY <2>6, <2>7
<1>7. CASE SetupFails \/ Detaches \/ Stopped \/ WorkerDies
  <2>1. UNCHANGED <<attempt, services, state>> /\ lost' \subseteq lost \cup Asked
        /\ place'.step \in {"remove", "inspect", "idle"}
    BY <1>0, <1>7, ClientsAreLost
  <2>2. Services' = Services
    BY <2>1 DEF Services
  <2>3. CASE place'.step = "inspect"
    <3>1. place.step = "attached" \/ (place.step = "start" /\ place.of = Command)
      BY <1>7, <2>3 DEF SetupFails, Detaches, Stopped, WorkerDies, Attaching, Concludes, At, Is
    <3>2. \A op \in Asked : op[2] # "create"
      BY <3>1 DEF Asked
    <3>3. \A op \in lost : op[1] # attempt
      BY <1>0, <3>1 DEF OneIsLost
    <3> QED
      BY <1>0, <2>1, <2>2, <2>3, <3>1, <3>2, <3>3 DEF Mine, Is
  <2> QED
    BY <2>1, <2>3 DEF Is
<1>8. CASE DaemonActs
  <2>1. UNCHANGED <<place, attempt, services>> /\ lost' \subseteq lost
    BY <1>8 DEF DaemonActs
  <2>2. Services' = Services
    BY <2>1 DEF Services
  <2>3. ASSUME attempt \in Attempts, NEW m \in Members, Mine(m) \in {"running", "exited"}
        PROVE  Mine(m)' = Mine(m)
    BY <1>0, <1>8, <2>1, <2>3, DaemonDoes DEF Mine
  <2>4. ASSUME place.step \in Setup, attempt \in Attempts PROVE Mine(Command)' = Mine(Command)
    <3>1. \A op \in lost : op[1] # attempt
      BY <1>0, <2>4 DEF OneIsLost
    <3> QED
      BY <1>0, <1>8, <2>1, <2>4, <3>1, DaemonDoes DEF Mine
  <2>5. place.step \in Setup \cup Waiting => attempt \in Attempts
    BY <1>0 DEF RecordHolds, Is
  <2> QED
    BY <1>0, <2>1, <2>2, <2>3, <2>4, <2>5 DEF Is
<1>9. CASE Exits \/ DaemonGoes
  <2>1. UNCHANGED <<place, attempt, services>> /\ lost' \subseteq lost
    BY <1>9 DEF Exits, DaemonGoes
  <2>2. Services' = Services
    BY <2>1 DEF Services
  <2>3. ASSUME attempt \in Attempts, NEW m \in Members
        PROVE  Mine(m)' = Mine(m) \/ (Mine(m) = "running" /\ Mine(m)' = "exited")
    BY <1>0, <1>9, <2>1, <2>3, OnlyEnds DEF Mine
  <2>4. place.step \in Setup \cup Waiting => attempt \in Attempts
    BY <1>0 DEF RecordHolds, Is
  <2> QED
    BY <1>0, <2>1, <2>2, <2>3, <2>4 DEF Is
<1> QED
  BY <1>1, <1>2, <1>3, <1>4, <1>5, <1>6, <1>7, <1>8, <1>9, Zenon DEF ContainerNext, Working

LEMMA KeepsLossIsSeen ==
  ASSUME ContainerAssumption, ContainerInv, [ContainerNext]_container_vars
  PROVE  LossIsSeen'
<1> USE DEF LossIsSeen
<1>0. /\ LossIsSeen /\ ServicesCameFirst /\ RecordHolds /\ OneIsLost /\ OthersAreQuiet /\ ContainerTypeOK
      /\ MaxServices \in Nat /\ services \in 0..MaxServices /\ healthy \in BOOLEAN
      /\ Command \in Members /\ Command \notin Services /\ Services \subseteq Members
  BY DEF ContainerInv, ContainerTypeOK, ContainerAssumption, Command, Members, Services
<1>1. CASE \/ Begins \/ RecordsNames \/ Checks \/ Ready \/ Settles \/ FinishesWorkspace \/ Clears \/ Prunes
           \/ Reconciles \/ Removes \/ Creates
  <2>1. place'.step \notin {"attached", "inspect", "still"}
    <3>1. CASE Creates
      BY <1>0, <3>1 DEF Creates, Proceeds, At, Network, Services, Command, RecordHolds, Own, Is
    <3> QED
      BY <1>1, <3>1 DEF Begins, RecordsNames, Checks, Ready, Settles, FinishesWorkspace, Clears, Prunes, Reconciles,
           Removes, Onward, At
  <2> QED
    BY <2>1 DEF Is
<1>2. CASE Inspects
  <2>1. /\ UNCHANGED <<state, attempt, services, healthy>> /\ Is("inspect")
        /\ \/ place'.step = "remove"
           \/ Mine(Command) = "exited" /\ place'.step = "still" /\ place'.of = 1
    BY <1>2 DEF Inspects, Concludes, outside, At, Is
  <2>2. \A m \in Services : m >= 1
    BY <1>0 DEF Services
  <2> QED
    BY <1>0, <2>1, <2>2 DEF Mine, Services, Is
<1>3. CASE StillRuns
  <2>1. /\ UNCHANGED <<state, attempt, services, healthy>> /\ Is("still")
        /\ \/ place'.step = "remove"
           \/ Mine(place.of) = "running" /\ place'.step = "still" /\ place'.of = place.of + 1
    BY <1>3 DEF StillRuns, Concludes, outside, At, Is
  <2>2. place.of \in Services
    BY <1>0, <2>1 DEF RecordHolds, Is
  <2>3. \A m \in Services : m >= place.of /\ Mine(m) = "exited" /\ Mine(place.of) = "running" => m >= place.of + 1
    BY <1>0, <2>2 DEF Services
  <2> QED
    BY <1>0, <2>1, <2>2, <2>3 DEF Mine, Services, Is
<1>4. CASE FindsNothing \/ ContextEnds \/ DaemonComes \/ UNCHANGED container_vars
  <2>1. UNCHANGED <<place, state, attempt, services, healthy>>
    BY <1>4 DEF FindsNothing, ContextEnds, DaemonComes, container_vars, outside
  <2> QED
    BY <1>0, <2>1 DEF Mine, Services, Is
<1>5. CASE StartsContainer
  <2>1. /\ attempt' = attempt /\ attempt \in Attempts /\ place.of \in Members /\ Is("start")
        /\ Mine(Command) \in {"absent", "created"}
    BY <1>0, <1>5 DEF StartsContainer, RecordHolds, Is, ContainerTypeOK, ServicesCameFirst, Setup
  <2>2. Mine(Command)' # "exited"
    BY <1>0, <1>5, <2>1, OneMember DEF StartsContainer, Performed, Mine
  <2>3. place'.step \in {"attached", "create", "ready"}
    BY <1>5 DEF StartsContainer, Proceeds, At
  <2> QED
    BY <2>2, <2>3 DEF Is
<1>6. CASE SetupFails \/ Detaches \/ Stopped \/ WorkerDies
  <2>1. /\ UNCHANGED <<attempt, services, state, healthy>> /\ place'.step \in {"remove", "inspect", "idle"}
        /\ place'.step = "inspect" => place.step \in {"start", "attached"}
    BY <1>0, <1>6, ClientsAreLost DEF Is
  <2>2. place.step = "start" => Mine(Command) # "exited"
    BY <1>0 DEF ServicesCameFirst, Setup
  <2> QED
    BY <1>0, <2>1, <2>2 DEF Mine, Services, Is
<1>7. CASE DaemonActs
  <2>1. UNCHANGED <<place, attempt, services, healthy>>
    BY <1>7 DEF DaemonActs
  <2>2. ASSUME attempt \in Attempts, NEW m \in Members
        PROVE  Mine(m)' = "exited" <=> Mine(m) = "exited"
    BY <1>0, <1>7, <2>1, <2>2, DaemonDoes DEF Mine
  <2>3. place.step \in {"attached", "inspect", "still"} => attempt \in Attempts
    BY <1>0 DEF RecordHolds, Is
  <2> QED
    BY <1>0, <2>1, <2>2, <2>3 DEF Services, Is
<1>8. CASE Exits \/ DaemonGoes
  <2>1. UNCHANGED <<place, attempt, services>>
    BY <1>8 DEF Exits, DaemonGoes
  <2>2. ASSUME attempt \in Attempts, NEW m \in Members
        PROVE  Mine(m)' = Mine(m) \/ (Mine(m) = "running" /\ Mine(m)' = "exited")
    BY <1>0, <1>8, <2>1, <2>2, OnlyEnds DEF Mine
  <2>3. place.step \in {"attached", "inspect", "still"} =>
          attempt \in Attempts /\ \A m \in Services : Mine(m) \in {"running", "exited"}
    BY <1>0 DEF RecordHolds, Is, ServicesCameFirst, Waiting
  <2>4. ASSUME attempt \in Attempts, Mine(Command) # "running" PROVE healthy' = healthy
    BY <1>0, <1>8, <2>4, OnlyRecordedRun DEF Exits, DaemonGoes, Running, Mine
  <2>5. ASSUME attempt \in Attempts, Mine(Command) = "running", Mine(Command)' = "exited", ~healthy',
               \A m \in Services : Mine(m) \in {"running", "exited"}
        PROVE  \E m \in Services : Mine(m)' = "exited"
    <3>1. CASE Exits
      <4>1. \E m \in Services : Mine(m) # "running"
        <5>1. PICK a \in Attempts, m \in Members :
                /\ state[a][m] = "running" /\ state' = [state EXCEPT ![a][m] = "exited"]
                /\ m = Command => healthy' = (Services \subseteq Running(a))
          BY <3>1 DEF Exits, Running
        <5>2. a = attempt /\ m = Command
          BY <1>0, <2>1, <2>5, <5>1, OnlyRecordedRun, OneMember DEF Mine
        <5> QED
          BY <1>0, <2>5, <5>1, <5>2 DEF Running, Mine
      <4> QED
        BY <1>0, <2>2, <2>5, <4>1
    <3>2. CASE DaemonGoes
      <4>1. services # 0
        BY <1>0, <2>1, <2>5, <3>2 DEF DaemonGoes, Running, Mine
      <4>2. 1 \in Services
        BY <1>0, <4>1 DEF Services
      <4>3. Mine(1)' = "exited"
        BY <1>0, <2>1, <2>5, <3>2, <4>2 DEF DaemonGoes, Running, Mine
      <4> QED
        BY <4>2, <4>3
    <3> QED
      BY <1>8, <3>1, <3>2
  <2>6. Services' = Services
    BY <2>1 DEF Services
  <2>7. CASE place.step \in {"attached", "inspect"}
    BY <1>0, <2>1, <2>2, <2>3, <2>4, <2>5, <2>6, <2>7 DEF Is
  <2>8. CASE Is("still")
    BY <1>0, <2>1, <2>2, <2>3, <2>4, <2>6, <2>8 DEF Is
  <2> QED
    BY <2>1, <2>7, <2>8 DEF Is
<1> QED
  BY <1>1, <1>2, <1>3, <1>4, <1>5, <1>6, <1>7, <1>8, Zenon DEF ContainerNext, Working

LEMMA KeepsExitIsKept ==
  ASSUME ContainerAssumption, ContainerInv, [ContainerNext]_container_vars
  PROVE  ExitIsKept'
<1> USE DEF ExitIsKept
<1>0. /\ ExitIsKept /\ LossIsSeen /\ ServicesCameFirst /\ RecordHolds /\ OneIsLost /\ OnlyOwnAreMade
      /\ ContainerTypeOK /\ MaxServices \in Nat /\ services \in 0..MaxServices /\ healthy \in BOOLEAN
      /\ Command \in Members /\ Command \notin Services /\ Services \subseteq Members /\ Own \subseteq Members
  BY DEF ContainerInv, ContainerTypeOK, ContainerAssumption, Command, Members, Services, Own, Network
<1>1. CASE \/ Begins \/ RecordsNames \/ Checks \/ Ready \/ Creates \/ StartsContainer \/ SetupFails \/ Detaches
           \/ Stopped \/ WorkerDies \/ Reconciles
  <2>1. building' = FALSE \/ result' # "exit"
    BY <1>0, <1>1 DEF Begins, RecordsNames, Checks, Ready, Creates, StartsContainer, SetupFails, Detaches, Stopped,
         WorkerDies, Reconciles, Concludes, RecordHolds, Setup, Waiting, Is, outside, Attaching
  <2> QED
    BY <2>1
<1>2. CASE Inspects
  <2>1. CASE result' # "exit"
    BY <2>1
  <2>2. CASE result' = "exit"
    <3>1. /\ UNCHANGED <<state, attempt, services, healthy, lost>> /\ Is("inspect") /\ Mine(Command) = "exited"
          /\ services = 0 /\ place'.step = "remove" /\ place'.of = Command
      BY <1>0, <1>2, <2>2 DEF Inspects, Concludes, outside, At, Is, RecordHolds, Waiting
    <3>2. healthy /\ \A op \in lost : op[1] = attempt => op[2] # "create"
      BY <1>0, <3>1 DEF LossIsSeen, ServicesCameFirst, Waiting, Is, Services
    <3> QED
      BY <3>1, <3>2 DEF Passed, Mine, Is, Command
  <2> QED
    BY <2>1, <2>2
<1>3. CASE StillRuns
  <2>1. CASE result' # "exit"
    BY <2>1
  <2>2. CASE result' = "exit"
    <3>1. /\ UNCHANGED <<state, attempt, services, healthy, lost>> /\ Is("still") /\ Mine(place.of) = "running"
          /\ place.of = services /\ place'.step = "remove" /\ place'.of = Command
      BY <1>0, <1>3, <2>2 DEF StillRuns, Concludes, outside, At, Is, RecordHolds, Waiting
    <3>2. \A m \in Services : m >= services => m = services
      BY <1>0 DEF Services
    <3>3. healthy /\ Mine(Command) = "exited" /\ \A op \in lost : op[1] = attempt => op[2] # "create"
      BY <1>0, <3>1, <3>2 DEF LossIsSeen, ServicesCameFirst, Waiting, Is
    <3> QED
      BY <3>1, <3>3 DEF Passed, Mine, Is, Command
  <2> QED
    BY <2>1, <2>2
<1>4. CASE Settles
  <2>1. /\ UNCHANGED <<state, attempt, services, healthy, lost, building>> /\ Is("settle")
        /\ place'.step = "finish" /\ (result' = "uncertain" \/ (result' = result /\ ~unsure))
        /\ attempt \in Attempts
    BY <1>0, <1>4 DEF Settles, outside, At, Is, RecordHolds
  <2>2. ASSUME building, result = "exit", ~unsure, NEW m \in Members PROVE Mine(m) = "absent"
    BY <1>0, <2>1, <2>2 DEF Passed, OnlyOwnAreMade, Is
  <2> QED
    BY <1>0, <2>1, <2>2 DEF Mine, Is
<1>5. CASE FinishesWorkspace \/ Clears \/ Prunes
  <2>1. /\ UNCHANGED <<state, attempt, services, healthy, lost>> /\ (building' = building \/ building' = FALSE)
        /\ result' \in {result, "uncertain"} /\ place'.step \in {"clear", "retain", "idle"}
        /\ place'.step = "idle" => building' = FALSE
    BY <1>5 DEF FinishesWorkspace, Clears, Prunes, outside, At
  <2> QED
    BY <1>0, <2>1 DEF Mine, Is
<1>6. CASE FindsNothing \/ ContextEnds \/ DaemonComes \/ UNCHANGED container_vars
  <2>1. UNCHANGED <<place, building, state, attempt, services, healthy, lost, result, unsure>>
    BY <1>6 DEF FindsNothing, ContextEnds, DaemonComes, container_vars, outside
  <2> QED
    BY <1>0, <2>1 DEF Mine, Passed, Own, Is
<1>7. CASE Removes
  <2>1. /\ UNCHANGED <<attempt, services, lost, building, result, healthy>> /\ attempt \in Attempts
        /\ place.of \in Own /\ place.of \in Members /\ Is("remove") /\ Onward(place.of)
        /\ place'.step \in {"remove", "settle"}
    BY <1>0, <1>7 DEF Removes, RecordHolds, Is, Onward, At
  <2>2. \A m \in Members : Mine(m)' = Mine(m) \/ (m = place.of /\ Mine(m)' = "absent")
    BY <1>0, <1>7, <2>1, OneMember DEF Removes, Mine
  <2>3. ~unsure' => ~unsure /\ state'[attempt][place.of] = "absent"
    BY <1>0, <1>7, <2>1, SureOfOne
  <2>4. Passed' \subseteq Passed \cup {place.of}
    BY <1>0, <2>1, PassesOne
  <2>5. Passed \subseteq Members
    BY <1>0 DEF Passed
  <2> QED
    BY <1>0, <2>1, <2>2, <2>3, <2>4, <2>5 DEF Is, Mine
<1>8. CASE DaemonActs
  <2>1. UNCHANGED <<place, building, attempt, services, healthy, result, unsure>> /\ lost' \subseteq lost
    BY <1>8 DEF DaemonActs
  <2>2. building /\ result = "exit" => attempt \in Attempts
    BY <1>0 DEF RecordHolds, Is
  <2>3. ASSUME building, result = "exit", NEW m \in Members, Mine(m) \in {"exited", "absent"}
        PROVE  Mine(m)' = Mine(m)
    BY <1>0, <1>8, <2>1, <2>2, <2>3, DaemonDoes DEF Mine
  <2>4. Passed' = Passed /\ Passed \subseteq Members
    BY <1>0, <2>1 DEF Passed, Own, Is
  <2> QED
    BY <1>0, <2>1, <2>3, <2>4 DEF Is
<1>9. CASE Exits \/ DaemonGoes
  <2>1. UNCHANGED <<place, building, attempt, services, result, unsure>> /\ lost' \subseteq lost
    BY <1>0, <1>9, OnlyEnds
  <2>2. building /\ result = "exit" => attempt \in Attempts
    BY <1>0 DEF RecordHolds, Is
  <2>3. ASSUME building, result = "exit", NEW m \in Members, Mine(m) # "running"
        PROVE  Mine(m)' = Mine(m)
    BY <1>0, <1>9, <2>1, <2>2, <2>3, OnlyEnds DEF Mine
  <2>4. building /\ result = "exit" => healthy' = healthy
    BY <1>0, <1>9, <2>2, OnlyRecordedRun DEF Exits, DaemonGoes, Running, Mine
  <2>5. Passed' = Passed /\ Passed \subseteq Members
    BY <1>0, <2>1 DEF Passed, Own, Is
  <2> QED
    BY <1>0, <2>1, <2>3, <2>4, <2>5 DEF Is
<1> QED
  BY <1>1, <1>2, <1>3, <1>4, <1>5, <1>6, <1>7, <1>8, <1>9, Zenon DEF ContainerNext, Working

(* The inductive invariant.                                                *)
LEMMA ContainerAlways ==
  ASSUME ContainerAssumption
  PROVE  ContainerSpec => []ContainerInv
<1>1. ContainerInit => ContainerInv
  BY NothingYet
<1>2. ContainerInv /\ [ContainerNext]_container_vars => ContainerInv'
  BY ContainerTypes, KeepsRecordHolds, KeepsOneIsLost, KeepsOthersAreQuiet, KeepsOnlyOwnAreMade,
     KeepsRemovedAreQuiet, KeepsServicesCameFirst, KeepsLossIsSeen, KeepsExitIsKept DEF ContainerInv
<1> QED
  BY <1>1, <1>2, PTL DEF ContainerSpec

(* Whatever clients, daemon and worker did, nothing of a build runs that   *)
(* its record does not name, its workspace and cache are there for as long *)
(* as its command runs, and no two attempts run at once: what a process    *)
(* that finds the record has to remove is all there is.                    *)
(* (tools/pipeline_container.go, pipeline_maintenance.go)                  *)
THEOREM BuildsAreOnRecord == ContainerAssumption => (ContainerSpec => []RunsAreRecorded)
<1> SUFFICES ASSUME ContainerAssumption PROVE ContainerSpec => []RunsAreRecorded
  OBVIOUS
<1>1. ContainerInv => RunsAreRecorded
  BY OnlyRecordedRun
<1>2. ContainerSpec => []ContainerInv
  BY ContainerAlways
<1> QED
  BY <1>1, <1>2, PTL

(* An exit code is reported of a command that did end, with all its        *)
(* services running to its end, and with nothing of it left.               *)
(* (tools/pipeline_container.go, pipeline_services.go)                     *)
THEOREM ExitsAreTheCommands == ContainerAssumption => (ContainerSpec => []ExitIsReal)
<1> SUFFICES ASSUME ContainerAssumption PROVE ContainerSpec => []ExitIsReal
  OBVIOUS
<1>1. ContainerInv => ExitIsReal
  BY ExitsAreReal
<1>2. ContainerSpec => []ContainerInv
  BY ContainerAlways
<1> QED
  BY <1>1, <1>2, PTL

(* The types of the containers' model.                                     *)
THEOREM ContainerTypeCorrect == ContainerAssumption => (ContainerSpec => []ContainerTypeOK)
<1> SUFFICES ASSUME ContainerAssumption PROVE ContainerSpec => []ContainerTypeOK
  OBVIOUS
<1>1. ContainerInv => ContainerTypeOK
  BY DEF ContainerInv
<1>2. ContainerSpec => []ContainerInv
  BY ContainerAlways
<1> QED
  BY <1>1, <1>2, PTL
=============================================================================
