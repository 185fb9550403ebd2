---------------------------- MODULE MCPipelineSteps ----------------------------
(* What builds do to the machine, checked in one run: the capacity they    *)
(* share with workbenches (MachineCapacity), the output of one command of  *)
(* a build (StepOutput), and the containers of builds against their daemon *)
(* (BuildContainer).  A behaviour is of one of the three; the others stand *)
(* still.                                                                  *)
EXTENDS MachineCapacity, BuildContainer

CONSTANTS p1, p2, NL, Stars

VARIABLES subject,
          forms, text, nread, pending, cut, reader, sent, run, closed, leader, child      \* StepOutput

(* A machine of two worker processes: both goals are dispatched to one of  *)
(* them, the other reconciles, builds and competes for the locks.          *)
OneEnrollment == [k \in Keys |-> p1]

(* A value that overlaps itself, two that overlap each other, and one of   *)
(* two lines.  MinSecret is scaled down with the values.                   *)
SecretsCarried == {{<<1, 1>>}, {<<1, 2>>, <<2, 1, 1>>}, {<<1, 2, NL, 2, 1>>}}

Output == INSTANCE StepOutput WITH
  Requests <- SecretsCarried, MinSecret <- 2, MaxPending <- 1, MaxText <- 4, MaxPipe <- 2

ASSUME OutputBounds == Output!StepAssumption
ASSUME ContainerBounds == ContainerAssumption

output_vars == <<forms, text, nread, pending, cut, reader, sent, run, closed, leader, child>>
everything == <<subject, vars, output_vars, container_vars>>

NoOutput ==
  /\ forms = {} /\ text = <<>> /\ nread = 0 /\ pending = <<>> /\ cut = NL /\ reader = "done"
  /\ sent = <<>> /\ run = "none" /\ closed = TRUE /\ leader = "none" /\ child = "none"

Start ==
  \/ subject = "capacity" /\ Init /\ NoOutput /\ ContainerInit
  \/ subject = "output" /\ Init /\ room = 1 /\ Output!Init /\ ContainerInit
  \/ subject = "container" /\ Init /\ room = 1 /\ NoOutput /\ ContainerInit

Step ==
  /\ UNCHANGED subject
  /\ \/ subject = "capacity" /\ Next /\ UNCHANGED <<output_vars, container_vars>>
     \/ subject = "output" /\ Output!Next /\ UNCHANGED <<vars, container_vars>>
     \/ subject = "container" /\ ContainerNext /\ UNCHANGED <<vars, output_vars>>

PartsFairness ==
  /\ \A k \in Keys : WF_vars(subject = "capacity" /\ Begun(k))
  /\ \A p \in Procs :
       /\ WF_vars(subject = "capacity" /\ Reconciling(p)) /\ WF_vars(subject = "capacity" /\ BuildBegun(p))
  /\ \A i \in Slots :
       SF_vars(subject = "capacity" /\ slotRecord[i] # NoRecord /\ \E p \in Procs : ReconcileTakes(p, i))
  /\ WF_vars(subject = "capacity" /\ pipeRecord # "none" /\ \E p \in Procs : Acquire(p))
  /\ SF_vars(subject = "capacity" /\ \E p \in Procs : DropsOld(p))
  /\ WF_vars(subject = "capacity" /\ DockerComes)
  /\ WF_output_vars(subject = "output" /\ Output!Group)
  /\ WF_output_vars(subject = "output" /\ Output!Pump)
  /\ WF_container_vars(subject = "container" /\ Working)
  /\ WF_container_vars(subject = "container" /\ ContextEnds)
  /\ WF_container_vars(subject = "container" /\ DaemonComes)

Parts == Start /\ [][Step]_everything /\ PartsFairness

-----------------------------------------------------------------------------
(* Properties: those of the parts                                          *)

(* StepOutput: the output goes out masked, however it was read and cut,    *)
(* and runGroup leaves nothing of the group running.  BuildContainer:      *)
(* nothing of an attempt runs that the record does not name, and an exit   *)
(* code is that of a command which ended with its services running.        *)
BuildsAreWhole ==
  /\ subject = "output" =>
       Output!StepTypeOK /\ Output!OutputIsMasked /\ Output!NothingOutlivesTheStep
  /\ subject = "container" =>
       ContainerTypeOK /\ RunsAreRecorded /\ ExitIsReal

(* A build's record that nobody acts for (MachineCapacity), one of an       *)
(* attempt (BuildContainer), a command that runs (StepOutput).              *)
Owed ==
  \/ subject = "capacity" /\ pipeRecord \in {"cleanup", "container"} /\ Building = {}
  \/ subject = "container" /\ record # "none"
  \/ subject = "output" /\ run # "returned"

Settled ==
  /\ pipeRecord = "none" /\ record = "none"
  /\ subject = "output" => run = "returned"

(* MachineCapacity: what a dead process left on record is given back;      *)
(* BuildContainer: so is what an attempt left; StepOutput: runGroup        *)
(* returns, whatever the command and the stream do.                        *)
BuildsEnd ==
  /\ \A i \in Slots : (slotRecord[i] # NoRecord /\ i \notin Locked) ~> slotRecord[i] = NoRecord
  /\ Owed ~> Settled
=============================================================================
