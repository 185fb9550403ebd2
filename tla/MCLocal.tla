------------------------------- MODULE MCLocal -------------------------------
(* What the worker owes the person at the machine, checked in one run: the *)
(* consent to a call, the pause of a home, the pull of a model, the        *)
(* progress of a setup, the setup of a model runtime.  They share no state *)
(* in the code but policy.yaml, so a behaviour is of one of them, which    *)
(* Begin chooses; ModelPull, Consent and Fleet stand still in those of the *)
(* others, and any other variable a behaviour does not have is None.       *)
EXTENDS ModelPull, Consent, Fleet

CONSTANTS Stages, Asking

ASSUME Pairs == Calls = {1, 2} /\ Models = {1, 2}

VARIABLES subject,                                                         \* the part in play
          alive, mishaps,
          report, saved, quiet, installer, ran, cmd, main, loop, unsaved,  \* SetupProgress
          keepalives,
          step, plan, i, tag, want, exit, stages, fresh, runtimeDir, unit, \* RuntimeSetup
          started, elsewhere, mayPull, pulled, allowed, latest, runs

SetupOf == INSTANCE SetupProgress
             WITH up <- alive, MaxKeepalives <- 2, MaxFaults <- 2, faults <- mishaps

RuntimeOf == INSTANCE RuntimeSetup
               WITH runtime <- runtimeDir, report <- stages, enabled <- started, up <- alive,
                    faults <- mishaps,
                    Archives <- <<"base", "rocm">>, Wanted <- <<"chat", "embed">>, Floating <- FALSE,
                    MaxReleases <- 2, MaxRuns <- 3, MaxFaults <- 2

ASSUME Bounds == ConsentAssumption /\ FleetAssumption
                 /\ PullAssumption /\ SetupOf!SetupAssumption
                 /\ RuntimeOf!SetupAssumption

ofSetup == <<report, saved, quiet, installer, ran, cmd, main, loop, unsaved, keepalives>>
ofRuntime == <<step, plan, i, tag, want, exit, stages, fresh, runtimeDir, unit, started, elsewhere,
               mayPull, pulled, allowed, latest, runs>>

\* A fleet of which nothing is decided.
NoFleet == FleetInit /\ mirror = 1

NoSetup == /\ report = None /\ saved = None /\ quiet = None /\ installer = None /\ ran = None
           /\ cmd = None /\ main = None /\ loop = None /\ unsaved = None /\ keepalives = None
NoRuntime == /\ step = None /\ plan = None /\ i = None /\ tag = None /\ want = None /\ exit = None
             /\ stages = None /\ fresh = None /\ runtimeDir = None /\ unit = None /\ started = None
             /\ elsewhere = None /\ mayPull = None /\ pulled = None /\ allowed = None
             /\ latest = None /\ runs = None

At(p, state) == subject = p /\ state
Running(p) == subject = p /\ UNCHANGED subject

everything == <<subject, alive, mishaps, consent_vars, fleet_vars, pull_vars, ofSetup, ofRuntime>>

Begin ==
  /\ PullInit /\ ConsentInit
  /\ \/ subject \in {"consent", "pull"} /\ alive = None /\ mishaps = None /\ NoFleet /\ NoSetup /\ NoRuntime
     \/ subject = "fleet" /\ FleetInit /\ alive = None /\ mishaps = None /\ NoSetup /\ NoRuntime
     \/ subject = "setup" /\ SetupOf!Init /\ NoFleet /\ NoRuntime
     \/ subject = "runtime" /\ RuntimeOf!Init /\ NoFleet /\ NoSetup

Step ==
  \/ Running("consent") /\ ConsentNext /\ UNCHANGED <<alive, mishaps, fleet_vars, pull_vars, ofSetup, ofRuntime>>
  \/ Running("fleet") /\ FleetNext /\ UNCHANGED <<alive, mishaps, consent_vars, pull_vars, ofSetup, ofRuntime>>
  \/ Running("pull") /\ PullNext /\ UNCHANGED <<alive, mishaps, consent_vars, fleet_vars, ofSetup, ofRuntime>>
  \/ Running("setup") /\ SetupOf!Next /\ UNCHANGED <<consent_vars, fleet_vars, pull_vars, ofRuntime>>
  \/ Running("runtime") /\ RuntimeOf!Next /\ UNCHANGED <<consent_vars, fleet_vars, pull_vars, ofSetup>>

setup_vars == SetupOf!vars
runtime_vars == <<ofRuntime, alive, mishaps>>

(* The fairness of the parts, each for the behaviours it is in play.       *)
Fairness ==
  /\ \A c \in Calls : WF_consent_vars(subject = "consent" /\ CallSteps(c))
  /\ WF_fleet_vars(subject = "fleet" /\ SavesSwitch)
  /\ \A h \in Paired : SF_fleet_vars(subject = "fleet" /\ Supervises(h))
  /\ \A m \in Models : WF_pull_vars(subject = "pull" /\ Runs(m))
  /\ WF_pull_vars(subject = "pull" /\ Looks)
  /\ WF_pull_vars(subject = "pull" /\ Closes)
  /\ WF_pull_vars(subject = "pull" /\ StopAll)
  /\ WF_pull_vars(subject = "pull" /\ Registers)
  /\ WF_setup_vars(subject = "setup" /\ SetupOf!MainArrives)
  /\ WF_setup_vars(subject = "setup" /\ SetupOf!LoopArrives)
  /\ WF_setup_vars(subject = "setup" /\ SetupOf!Exits)
  /\ \A s \in {"done", "failed", "skipped"} : WF_setup_vars(subject = "setup" /\ SetupOf!Ends(s))
  /\ WF_setup_vars(subject = "setup" /\ SetupOf!Starts)
  /\ WF_setup_vars(subject = "setup" /\ SetupOf!Quiet)
  /\ WF_runtime_vars(subject = "runtime" /\ RuntimeOf!Own)

Parts == Begin /\ [][Step]_everything /\ Fairness

-----------------------------------------------------------------------------
(* Properties: those of the parts (ModelPull, Consent, Fleet have theirs)  *)

(* Types of the parts.                                                     *)
PartsTypeOK ==
  /\ PullTypeOK /\ ConsentTypeOK
  /\ subject = "setup" => SetupOf!SetupTypeOK
  /\ subject = "runtime" => RuntimeOf!SetupTypeOK

(* What was decided and saved survives: no stage of a plan vanishes with a *)
(* restart (SetupProgress), a run of a setup closes its stages, tells      *)
(* success when there is one, and allows only what it pulled to a runtime  *)
(* that is whole (RuntimeSetup); and the types of the parts.               *)
DecisionsSurvive ==
  /\ PartsTypeOK
  /\ subject = "setup" => SetupOf!PlanSurvives
  /\ subject = "runtime" => /\ RuntimeOf!ReportTellsTheExit /\ RuntimeOf!AllowedIsPulled
                         /\ RuntimeOf!RuntimeIsWhole

(* What is waited for in each part, and what ends the wait.               *)
Awaits(n) ==
  \/ At("consent", Arrived(n))
  \/ At("fleet", ToConnect(n))
  \/ At("pull", Pulled(n))
  \/ At("setup", IF n = 1 THEN SetupOf!Silent ELSE SetupOf!Skipped)
  \/ At("runtime", n = 1 /\ RuntimeOf!Undisturbed)

Comes(n) ==
  \/ At("consent", Answered(n))
  \/ At("fleet", Served(n))
  \/ At("pull", Shown(n))
  \/ At("setup", IF n = 1 THEN SetupOf!State # "running" ELSE SetupOf!WaitIsOver)
  \/ At("runtime", RuntimeOf!Succeeds)

(* What the person waits for comes: a call that arrived is answered        *)
(* (Consent), an enabled home is connected (Fleet), a pull that is done is *)
(* advertised (ModelPull); once the installer is gone nothing is said to   *)
(* be in flight, and a skip ends the wait for the person (SetupProgress);  *)
(* a setup that nothing disturbs succeeds whatever earlier runs left       *)
(* (RuntimeSetup).                                                         *)
(* The parts are never in play together: one formula says it for them all. *)
LocalWorkEnds == \A n \in {1, 2} : Awaits(n) ~> Comes(n)
=============================================================================
