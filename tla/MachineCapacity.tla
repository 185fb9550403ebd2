--------------------------- MODULE MachineCapacity ---------------------------
(* What the worker processes of one account share: the two workbench slots *)
(* and the one build reservation, each a locked file that holds the record *)
(* of what was started under it.  The kernel drops a dead process's locks; *)
(* its records, tombstones, containers and scratch directory stay.         *)
EXTENDS Naturals, FiniteSets

CONSTANTS
  Procs,       \* worker processes of the account
  Keys,        \* workbench keys: one goal of one borrower
  Worker,      \* the process whose enrollment a key is dispatched to
  NSlots,      \* workbench.Slots
  Rooms,       \* workspaces the machine's memory may have room for
  NoSlot, NoRecord,
  MaxNames,    \* bound: names drawn for one key
  MaxCrashes,  \* bound: processes that die
  MaxOutages   \* bound: times the Docker daemon goes away

Slots == 0..NSlots - 1
Holders == Keys \cup Procs
Records == [key : Keys, name : 1..MaxNames]

ASSUME CapacityAssumption ==
  /\ Worker \in [Keys -> Procs] /\ Keys \cap Procs = {}
  /\ NSlots \in Nat /\ Rooms \subseteq Nat /\ MaxNames \in Nat
  /\ MaxCrashes \in Nat /\ MaxOutages \in Nat
  /\ NoSlot \notin Slots /\ NoRecord \notin Records

VARIABLES
  step,        \* where a key's Execute or retire is, and a process's Reconcile
  slot,        \* the slot each of them has locked
  build,       \* where a process's pipeline step or maintenance is
  slotRecord,  \* workbench-<slot>.lock
  ended,       \* keys with a workbench-ended- tombstone
  pipeRecord,  \* the execution recorded in pipeline.lock
  scratch,     \* a step- directory is on disk
  containers,  \* workbench containers that run, by name
  work,        \* what runs for a build: its checkout, command or container
  docker,      \* the daemon recorded everywhere answers
  room,        \* workspaces the memory has room for
  names,       \* names drawn for each key
  crashes, outages

bounds == <<crashes, outages>>
files == <<slotRecord, ended, pipeRecord, scratch>>
vars == <<step, slot, build, files, containers, work, docker, room, names, bounds>>

WorkspaceSteps == {"none", "looked", "reserved", "admitted", "journaled", "executing", "idle",
                   "ending", "tombed", "clearing", "uncertain"}
CleanSteps == {"interrupted", "removed", "buried"}
BuildSteps == {"none", "held", "torn", "dropped", "clean", "named", "made", "recorded",
               "working", "stopped", "fetched", "finishing", "emptied"}
Executions == {"none", "cleanup", "checkout", "native", "container"}

(* flock, by the open files of live processes.  A reservation holds its    *)
(* slot, and the build file shared.                                        *)
Locked == {slot[h] : h \in Holders} \ {NoSlot}
Building == {p \in Procs : build[p] # "none"}
Admitting == {k \in Keys : step[k] \in {"admitted", "journaled", "interrupted", "removed", "buried"}}
Named(k) == [key |-> k, name |-> names[k]]
Active == {i \in Slots : slotRecord[i] # NoRecord}

TypeOK ==
  /\ step \in [Holders -> WorkspaceSteps \cup CleanSteps \cup {"holding"}]
  /\ slot \in [Holders -> Slots \cup {NoSlot}]
  /\ build \in [Procs -> BuildSteps]
  /\ slotRecord \in [Slots -> Records \cup {NoRecord}]
  /\ ended \subseteq Keys
  /\ pipeRecord \in Executions
  /\ scratch \in BOOLEAN
  /\ containers \subseteq Records
  /\ work \in {"none", "checkout", "native", "container"}
  /\ docker \in BOOLEAN /\ room \in Rooms
  /\ names \in [Keys -> 0..MaxNames]
  /\ crashes \in 0..MaxCrashes /\ outages \in 0..MaxOutages
  /\ \A g, h \in Holders : g # h /\ slot[g] = slot[h] => slot[g] = NoSlot
  /\ \A h \in Holders : slot[h] = NoSlot <=> step[h] \in {"none", "looked"}

Init ==
  /\ step = [h \in Holders |-> "none"] /\ slot = [h \in Holders |-> NoSlot]
  /\ build = [p \in Procs |-> "none"]
  /\ slotRecord = [i \in Slots |-> NoRecord] /\ ended = {}
  /\ pipeRecord = "none" /\ scratch = FALSE
  /\ containers = {} /\ work = "none" /\ docker = TRUE
  /\ room \in Rooms /\ names = [k \in Keys |-> 0]
  /\ crashes = 0 /\ outages = 0

-----------------------------------------------------------------------------
(* Manager.Execute: a key without a workspace                              *)

To(h, s) == step' = [step EXCEPT ![h] = s]
Release(h) == To(h, "none") /\ slot' = [slot EXCEPT ![h] = NoSlot]

(* Under Manager.mu a key with no workspace and no tombstone ...           *)
Look(k) ==
  /\ step[k] = "none" /\ k \notin ended /\ names[k] < MaxNames
  /\ \A j \in Keys : Worker[j] = Worker[k] => step[j] # "looked"
  /\ To(k, "looked")
  /\ UNCHANGED <<slot, build, files, containers, work, docker, room, names, bounds>>

(* Mutant: a slot is taken whoever has it locked.                          *)
reserveAtLocked(i) == Building = {} /\ pipeRecord = "none"

(* A reservation can be had beside no build, over no build's record, and   *)
(* of a slot nobody has.                                                   *)
reserveAt(i) == Building = {} /\ pipeRecord = "none" /\ i \notin Locked

(* ... takes the first slot it can lock,                                   *)
Reserve(k) ==
  /\ step[k] = "looked"
  /\ \E i \in Slots :
       /\ reserveAt(i) /\ \A j \in Slots : j < i => ~reserveAt(j)
       /\ slot' = [slot EXCEPT ![k] = i]
  /\ To(k, "reserved")
  /\ UNCHANGED <<build, files, containers, work, docker, room, names, bounds>>

(* or is told the machine is busy or must be reconciled.                   *)
ReserveFails(k) ==
  /\ step[k] = "looked" /\ \A i \in Slots : ~reserveAt(i)
  /\ Release(k)
  /\ UNCHANGED <<build, files, containers, work, docker, room, names, bounds>>

(* Charged with the workspaces on record, one more has room or has not.    *)
Headroom == Cardinality(Active) < room

(* Mutant: creations do not exclude each other.                            *)
AdmitBeside(k) ==
  /\ step[k] = "reserved" /\ docker
  /\ \/ slotRecord[slot[k]] = NoRecord /\ Headroom /\ To(k, "admitted")
     \/ slotRecord[slot[k]] # NoRecord /\ To(k, "interrupted")
  /\ UNCHANGED <<slot, build, files, containers, work, docker, room, names, bounds>>

(* create asks the daemon, takes the admission lock, which no two creations *)
(* of the machine hold together, and measures under it.                     *)
Admit(k) ==
  /\ step[k] = "reserved" /\ docker /\ Admitting = {}
  /\ \/ slotRecord[slot[k]] = NoRecord /\ Headroom /\ To(k, "admitted")
     \/ slotRecord[slot[k]] # NoRecord /\ To(k, "interrupted")
  /\ UNCHANGED <<slot, build, files, containers, work, docker, room, names, bounds>>

(* A creation that does not get so far gives its reservation back.         *)
CreateRefused(k) ==
  /\ step[k] = "reserved"
  /\ ~docker \/ Admitting # {} \/ (slotRecord[slot[k]] = NoRecord /\ ~Headroom)
  /\ Release(k)
  /\ UNCHANGED <<build, files, containers, work, docker, room, names, bounds>>

(* The name is recorded BEFORE the container is made.                      *)
Journal(k) ==
  /\ step[k] = "admitted"
  /\ names' = [names EXCEPT ![k] = @ + 1]
  /\ slotRecord' = [slotRecord EXCEPT ![slot[k]] = Named(k)']
  /\ To(k, "journaled")
  /\ UNCHANGED <<slot, build, ended, pipeRecord, scratch, containers, work, docker, room, bounds>>

(* Created, the first operation runs, and the admission lock is free.      *)
Create(k) ==
  /\ step[k] = "journaled" /\ docker
  /\ containers' = containers \cup {Named(k)}
  /\ To(k, "executing")
  /\ UNCHANGED <<slot, build, files, work, docker, room, names, bounds>>

(* A reply that is lost says nothing of whether the container was made.    *)
CreateFails(k) ==
  /\ step[k] = "journaled"
  /\ \/ containers' = containers
     \/ docker /\ containers' = containers \cup {Named(k)}
  /\ To(k, "ending")
  /\ UNCHANGED <<slot, build, files, work, docker, room, names, bounds>>

-----------------------------------------------------------------------------
(* A workspace that runs, and retire                                       *)

Execute(k) ==
  /\ step[k] = "idle"
  /\ To(k, "executing")
  /\ UNCHANGED <<slot, build, files, containers, work, docker, room, names, bounds>>

Executed(k) ==
  /\ step[k] = "executing" /\ docker
  /\ To(k, "idle")
  /\ UNCHANGED <<slot, build, files, containers, work, docker, room, names, bounds>>

(* An operation whose result is uncertain ends its workspace, and so do    *)
(* its lifetime, Sweep when it has idled, and CloseHome.                   *)
Retire(k) ==
  /\ step[k] \in {"executing", "idle"}
  /\ To(k, "ending")
  /\ UNCHANGED <<slot, build, files, containers, work, docker, room, names, bounds>>

(* retire: the tombstone first, then the container, ...                    *)
RetireBuries(k) ==
  /\ step[k] = "ending"
  /\ ended' = ended \cup {k}
  /\ To(k, "tombed")
  /\ UNCHANGED <<slot, build, slotRecord, pipeRecord, scratch, containers, work, docker, room,
                 names, bounds>>

(* ... and the record is kept when the daemon does not confirm.            *)
RetireRemoves(k) ==
  /\ step[k] = "tombed"
  /\ IF docker THEN containers' = containers \ {Named(k)} ELSE UNCHANGED containers
  /\ To(k, IF docker THEN "clearing" ELSE "uncertain")
  /\ UNCHANGED <<slot, build, files, work, docker, room, names, bounds>>

(* Mutant: the record is cleared whatever the daemon said.                 *)
RetireEndsAnyway(k) ==
  /\ step[k] \in {"clearing", "uncertain"}
  /\ slotRecord' = [slotRecord EXCEPT ![slot[k]] = NoRecord]
  /\ Release(k)
  /\ UNCHANGED <<build, ended, pipeRecord, scratch, containers, work, docker, room, names, bounds>>

RetireEnds(k) ==
  /\ step[k] \in {"clearing", "uncertain"}
  /\ slotRecord' = [slotRecord EXCEPT ![slot[k]] = IF step[k] = "clearing" THEN NoRecord ELSE @]
  /\ Release(k)
  /\ UNCHANGED <<build, ended, pipeRecord, scratch, containers, work, docker, room, names, bounds>>

-----------------------------------------------------------------------------
(* A record left by a process that died: create finds it in the slot it    *)
(* got, and Reconcile visits the slots that nobody has.                    *)

ReconcileTakes(p, i) ==
  /\ step[p] = "none" /\ reserveAt(i)
  /\ slot' = [slot EXCEPT ![p] = i]
  /\ To(p, "holding")
  /\ UNCHANGED <<build, files, containers, work, docker, room, names, bounds>>

ReconcileReads(p) ==
  /\ step[p] = "holding" /\ slotRecord[slot[p]] # NoRecord /\ docker
  /\ To(p, "interrupted")
  /\ UNCHANGED <<slot, build, files, containers, work, docker, room, names, bounds>>

ReconcileLeaves(p) ==
  /\ step[p] = "holding" /\ (slotRecord[slot[p]] = NoRecord \/ ~docker)
  /\ Release(p)
  /\ UNCHANGED <<build, files, containers, work, docker, room, names, bounds>>

(* Mutant: the loop passes over a slot whose container has gone.           *)
RemoveRecordedOnce(h) ==
  /\ step[h] = "interrupted" /\ docker /\ slotRecord[slot[h]] \in containers
  /\ containers' = containers \ {slotRecord[slot[h]]}
  /\ To(h, "removed")
  /\ UNCHANGED <<slot, build, files, work, docker, room, names, bounds>>

(* Exactly the container on record is removed, ...                         *)
RemoveRecorded(h) ==
  /\ step[h] = "interrupted" /\ docker
  /\ containers' = containers \ {slotRecord[slot[h]]}
  /\ To(h, "removed")
  /\ UNCHANGED <<slot, build, files, work, docker, room, names, bounds>>

RemoveUnconfirmed(h) ==
  /\ step[h] = "interrupted" /\ ~docker
  /\ Release(h)
  /\ UNCHANGED <<build, files, containers, work, docker, room, names, bounds>>

(* ... its goal is ended, and only then is the record cleared.             *)
BuryRecorded(h) ==
  /\ step[h] = "removed"
  /\ ended' = ended \cup {slotRecord[slot[h]].key}
  /\ To(h, "buried")
  /\ UNCHANGED <<slot, build, slotRecord, pipeRecord, scratch, containers, work, docker, room,
                 names, bounds>>

ClearRecorded(h) ==
  /\ step[h] = "buried"
  /\ slotRecord' = [slotRecord EXCEPT ![slot[h]] = NoRecord]
  /\ Release(h)
  /\ UNCHANGED <<build, ended, pipeRecord, scratch, containers, work, docker, room, names, bounds>>

-----------------------------------------------------------------------------
(* runPipelineStep and reconcileIdlePipeline                               *)

BuildTo(p, s) == build' = [build EXCEPT ![p] = s]
workbench == <<step, slot, slotRecord, ended, containers, docker, room, names, bounds>>

(* Mutant: a workspace's record does not keep a build off.                 *)
AcquireOverRecords(p) ==
  /\ build[p] = "none" /\ Building = {} /\ Locked = {}
  /\ BuildTo(p, "held")
  /\ UNCHANGED <<workbench, pipeRecord, scratch, work>>

(* Alone on the machine, and over no record of a workspace.                *)
Acquire(p) ==
  /\ build[p] = "none" /\ Building = {} /\ Locked = {} /\ Active = {}
  /\ BuildTo(p, "held")
  /\ UNCHANGED <<workbench, pipeRecord, scratch, work>>

(* An interrupted container is removed on its own daemon.                  *)
TearDown(p) ==
  /\ build[p] = "held" /\ pipeRecord = "container" /\ docker
  /\ work' = "none"
  /\ BuildTo(p, "torn")
  /\ UNCHANGED <<workbench, pipeRecord, scratch>>

TornReady(p) ==
  /\ build[p] = "torn"
  /\ pipeRecord' = "cleanup"
  /\ BuildTo(p, "held")
  /\ UNCHANGED <<workbench, scratch, work>>

DropsOld(p) ==
  /\ build[p] = "held" /\ pipeRecord = "cleanup"
  /\ scratch' = FALSE
  /\ BuildTo(p, "dropped")
  /\ UNCHANGED <<workbench, pipeRecord, work>>

ClearsOld(p) ==
  /\ \/ build[p] = "dropped"
     \/ build[p] = "held" /\ pipeRecord = "none"
  /\ pipeRecord' = "none"
  /\ BuildTo(p, "clean")
  /\ UNCHANGED <<workbench, scratch, work>>

(* A host process may have outlived its worker, a daemon may be gone, a    *)
(* directory may not go: capacity stays reserved.  Maintenance stops at    *)
(* clean, and a step the runtime cannot run does.                          *)
Gives(p) ==
  /\ \/ build[p] = "held" /\ pipeRecord \in {"checkout", "native", "cleanup"}
     \/ build[p] = "held" /\ pipeRecord = "container" /\ ~docker
     \/ build[p] = "clean"
     \/ build[p] = "finishing" /\ pipeRecord # "none"
  /\ BuildTo(p, "none")
  /\ UNCHANGED <<workbench, pipeRecord, scratch, work>>

(* The directory is recorded before it is made.                            *)
NamesWorkspace(p) ==
  /\ build[p] = "clean"
  /\ pipeRecord' = "cleanup"
  /\ BuildTo(p, "named")
  /\ UNCHANGED <<workbench, scratch, work>>

MakesWorkspace(p) ==
  /\ build[p] = "named"
  /\ scratch' = TRUE
  /\ BuildTo(p, "made")
  /\ UNCHANGED <<workbench, pipeRecord, work>>

MkdirFails(p) ==
  /\ build[p] = "named"
  /\ pipeRecord' = "none"
  /\ BuildTo(p, "none")
  /\ UNCHANGED <<workbench, scratch, work>>

(* begin: what is about to run replaces a cleanup of the same directory.   *)
Begin(p) ==
  /\ \/ build[p] = "made" /\ pipeRecord' = "checkout"
     \/ build[p] = "fetched" /\ pipeRecord' = "native"
     \/ build[p] = "fetched" /\ pipeRecord' = "container" /\ docker
  /\ BuildTo(p, "recorded")
  /\ UNCHANGED <<workbench, scratch, work>>

Starts(p) ==
  /\ build[p] = "recorded" /\ (pipeRecord = "container" => docker)
  /\ work' = pipeRecord
  /\ BuildTo(p, "working")
  /\ UNCHANGED <<workbench, pipeRecord, scratch>>

(* Process groups are joined, a container's removal is confirmed or is not *)
(* and then its record stays.                                              *)
Stops(p) ==
  /\ build[p] \in {"recorded", "working"}
  /\ \/ (pipeRecord = "container" => docker) /\ work' = "none" /\ BuildTo(p, "stopped")
     \/ pipeRecord = "container" /\ UNCHANGED work /\ BuildTo(p, "finishing")
  /\ UNCHANGED <<workbench, pipeRecord, scratch>>

CleanupReady(p) ==
  /\ build[p] = "stopped"
  /\ pipeRecord' = "cleanup"
  /\ \/ BuildTo(p, "finishing")
     \/ pipeRecord = "checkout" /\ BuildTo(p, "fetched")
  /\ UNCHANGED <<workbench, scratch, work>>

(* finishPipelineWorkspace: the directory, then the record.                *)
Finishes(p) ==
  /\ build[p] = "finishing" /\ pipeRecord = "cleanup"
  /\ scratch' = FALSE
  /\ BuildTo(p, "emptied")
  /\ UNCHANGED <<workbench, pipeRecord, work>>

Finished(p) ==
  /\ build[p] = "emptied"
  /\ pipeRecord' = "none"
  /\ BuildTo(p, "none")
  /\ UNCHANGED <<workbench, scratch, work>>

-----------------------------------------------------------------------------
(* The machine                                                             *)

(* A process dies: its locks go, and nothing else does.                    *)
Crash(p) ==
  /\ crashes < MaxCrashes
  /\ LET gone == {p} \cup {k \in Keys : Worker[k] = p}
     IN  /\ step' = [h \in Holders |-> IF h \in gone THEN "none" ELSE step[h]]
         /\ slot' = [h \in Holders |-> IF h \in gone THEN NoSlot ELSE slot[h]]
  /\ BuildTo(p, "none")
  /\ crashes' = crashes + 1
  /\ UNCHANGED <<files, containers, work, docker, room, names, outages>>

(* A host process that outlived its worker ends in its own time.           *)
OrphanEnds ==
  /\ work \in {"checkout", "native"} /\ Building = {}
  /\ work' = "none"
  /\ UNCHANGED <<step, slot, build, files, containers, docker, room, names, bounds>>

DockerGoes ==
  /\ docker /\ outages < MaxOutages
  /\ docker' = FALSE /\ outages' = outages + 1
  /\ UNCHANGED <<step, slot, build, files, containers, work, room, names, crashes>>

DockerComes ==
  /\ ~docker
  /\ docker' = TRUE
  /\ UNCHANGED <<step, slot, build, files, containers, work, room, names, bounds>>

Creation(k) ==
  \/ Look(k) \/ Reserve(k) \/ ReserveFails(k) \/ Admit(k) \/ CreateRefused(k)
  \/ Journal(k) \/ Create(k) \/ CreateFails(k)
Use(k) == Execute(k) \/ Executed(k) \/ Retire(k)
Retirement(k) == RetireBuries(k) \/ RetireRemoves(k) \/ RetireEnds(k)
Reconciliation(h) ==
  RemoveRecorded(h) \/ RemoveUnconfirmed(h) \/ BuryRecorded(h) \/ ClearRecorded(h)
Reconcile(p) ==
  \/ \E i \in Slots : ReconcileTakes(p, i)
  \/ ReconcileReads(p) \/ ReconcileLeaves(p)
Recovery(p) == Acquire(p) \/ TearDown(p) \/ TornReady(p) \/ DropsOld(p) \/ ClearsOld(p) \/ Gives(p)
Build(p) ==
  \/ NamesWorkspace(p) \/ MakesWorkspace(p) \/ MkdirFails(p) \/ Begin(p) \/ Starts(p)
  \/ Stops(p) \/ CleanupReady(p) \/ Finishes(p) \/ Finished(p)

Next ==
  \/ \E k \in Keys : Creation(k) \/ Use(k) \/ Retirement(k)
  \/ \E h \in Holders : Reconciliation(h)
  \/ \E p \in Procs : Reconcile(p) \/ Recovery(p) \/ Build(p) \/ Crash(p)
  \/ OrphanEnds \/ DockerGoes \/ DockerComes

Spec == Init /\ [][Next]_vars

(* What has begun goes on to its end; nothing obliges a goal or a build to *)
(* come.                                                                   *)
Begun(k) == step[k] # "none" /\ (Creation(k) \/ Retirement(k) \/ Reconciliation(k))
Reconciling(p) == ReconcileReads(p) \/ ReconcileLeaves(p) \/ Reconciliation(p)
BuildBegun(p) ==
  \/ build[p] \notin {"none", "clean"} /\ (Recovery(p) \/ Build(p))
  \/ build[p] = "clean" /\ Gives(p)

(* Some process runs the Reconcile loop and pipeline maintenance.  Strong  *)
(* where a round that misses its chance is followed by another: the loop   *)
(* visits every slot, and a directory is tried again each minute.          *)
Fairness ==
  /\ \A k \in Keys : WF_vars(Begun(k))
  /\ \A p \in Procs : WF_vars(Reconciling(p)) /\ WF_vars(BuildBegun(p))
  /\ \A i \in Slots : SF_vars(slotRecord[i] # NoRecord /\ \E p \in Procs : ReconcileTakes(p, i))
  /\ WF_vars(pipeRecord # "none" /\ \E p \in Procs : Acquire(p))
  /\ SF_vars(\E p \in Procs : DropsOld(p))
  /\ WF_vars(DockerComes)

FairSpec == Spec /\ Fairness

-----------------------------------------------------------------------------
(* Properties                                                              *)

(* Whatever dies or goes unanswered, a workspace that runs is on the       *)
(* record of a slot, a build's container and directory are on the build's: *)
(* there is never one the machine does not know it has.  And no slot has   *)
(* two holders, of one process or of two (TypeOK).                         *)
NothingIsUnaccounted ==
  /\ TypeOK
  /\ containers \subseteq {slotRecord[i] : i \in Slots}
  /\ work = "container" => pipeRecord = "container"
  /\ scratch => pipeRecord # "none"

(* No build is on record or runs beside a workspace on record, a dead      *)
(* process's included; so neither fence ever waits for the other.          *)
BuildsAreAlone ==
  /\ Active # {} => pipeRecord = "none"
  /\ containers # {} => work = "none"

(* Two creations never spend the same memory, across processes.            *)
RoomIsSpentOnce == Cardinality(containers) <= room

(* manager_test.go:213-214: an interrupted goal never gets "an empty       *)
(* replacement", so no goal has one beside the workspace it had.           *)
NoReplacement == \A c, d \in containers : c.key = d.key => c = d
=============================================================================
