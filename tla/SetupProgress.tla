--------------------------- MODULE SetupProgress ---------------------------
(***************************************************************************)
(* What the installer tells the worker (internal/worker/setupprogress.go,  *)
(* setupreport.go, setup_permissions.go): the plan, then one setup command *)
(* per stage, then the end. The worker holds the report, keeps it in       *)
(* setup.json, and answers the person's skip to the command that waits.    *)
(*                                                                         *)
(* A setup command has two goroutines that send: the one that works, and   *)
(* the loop that re-sends a running stage. Each send is a connection of    *)
(* its own to the control socket, and each is lost when no worker listens. *)
(***************************************************************************)
EXTENDS Naturals

CONSTANTS
    Stages,         \* the stages of the plan
    Asking,         \* the stage that waits on the person
    MaxKeepalives,  \* re-sends of running stages
    MaxFaults       \* restarts, failing saves and the installer's death together

SetupAssumption ==
    /\ Asking \in Stages
    /\ MaxKeepalives \in Nat /\ MaxFaults \in Nat

VARIABLES
    report,     \* the worker's setupTracker
    saved,      \* setup.json
    up,         \* the worker listens
    quiet,      \* two minutes passed since the last report
    installer,  \* planning, at work, ending, over, dead
    ran,        \* the stages whose command has exited
    cmd,        \* the setup command at work: its stage and its own record of it
    main,       \* the send of its working goroutine
    loop,       \* the send of its loop
    unsaved,    \* a save has failed since the plan
    keepalives, faults

vars == <<report, saved, up, quiet, installer, ran, cmd, main, loop, unsaved,
          keepalives, faults>>

NoState == "none"
States == {"waiting", "running", "done", "failed", "skipped"}
NoReport == [present |-> FALSE, finished |-> FALSE,
             stages |-> [s \in Stages |-> NoState], answer |-> FALSE]
NoCmd == [stage |-> NoState, state |-> NoState]

Init ==
    /\ report = NoReport /\ saved = NoReport
    /\ up = TRUE /\ quiet = FALSE
    /\ installer = "planning" /\ ran = {}
    /\ cmd = NoCmd /\ main = NoState /\ loop = NoState
    /\ unsaved = FALSE
    /\ keepalives = 0 /\ faults = 0

Fault == faults < MaxFaults /\ faults' = faults + 1
NoFault == faults' = faults

-----------------------------------------------------------------------------
(* setupTracker.Apply.                                                     *)

\* A keepalive that asks the question anew.
StageForgetting(r, s, state) ==
    [r EXCEPT !.present = TRUE,
              !.finished = @ /\ state # "running",
              !.answer = @ /\ ~(s = Asking /\ state = "running"),
              !.stages[s] = state]

\* One stage's latest state: a stage that starts drops its old answer, one that
\* is re-sent keeps it; a stage that runs reopens a finished report.
Stage(r, s, state) ==
    [r EXCEPT !.present = TRUE,
              !.finished = @ /\ state # "running",
              !.answer = @ /\ ~(s = Asking /\ state = "running" /\ r.stages[s] # "running"),
              !.stages[s] = state]

Plan == [NoReport EXCEPT !.present = TRUE, !.stages = [s \in Stages |-> "waiting"]]

Finish(r) ==
    [r EXCEPT !.present = TRUE, !.finished = TRUE,
              !.stages = [s \in Stages |-> CASE r.stages[s] = "waiting" -> "skipped"
                                             [] r.stages[s] = "running" -> "failed"
                                             [] OTHER -> r.stages[s]]]

\* saveLocked, best effort, under the same lock.
Saves(r) ==
    \/ saved' = r /\ NoFault /\ UNCHANGED unsaved
    \/ Fault /\ UNCHANGED saved /\ unsaved' = TRUE

Applies(r) ==
    /\ report' = r
    /\ quiet' = FALSE
    /\ Saves(r)

\* A send finds a worker, or is lost without a word.
Reaches(r) ==
    \/ up /\ Applies(r)
    \/ ~up /\ NoFault /\ UNCHANGED <<report, saved, quiet, unsaved>>

-----------------------------------------------------------------------------
(* The installer, and the command of one stage.                            *)

Plans ==
    /\ installer = "planning"
    /\ installer' = "working"
    /\ Reaches(Plan)
    /\ UNCHANGED <<up, ran, cmd, main, loop, keepalives>>

\* setupReporter.Stage records the state and sends it at once.
Begins(s) ==
    /\ installer = "working" /\ cmd = NoCmd /\ s \notin ran
    /\ \A t \in Stages : Asking \in ran \/ s = Asking
    /\ cmd' = [stage |-> s, state |-> "running"]
    /\ main' = "running"
    /\ UNCHANGED <<report, saved, up, quiet, installer, ran, loop, unsaved, keepalives, faults>>

\* permissionsWait: the poll reads the answer; any other stage ends by itself.
Ends(state) ==
    /\ cmd.state = "running" /\ main = NoState
    /\ \/ cmd.stage # Asking /\ state \in {"done", "failed"}
       \/ cmd.stage = Asking /\ up /\ report.answer /\ state = "skipped"
    /\ cmd' = [cmd EXCEPT !.state = state]
    /\ main' = state
    /\ UNCHANGED <<report, saved, up, quiet, installer, ran, loop, unsaved, keepalives, faults>>

\* The person allows both permissions, or presses Return: no answer is needed.
Decides(state) ==
    /\ cmd.state = "running" /\ main = NoState /\ cmd.stage = Asking
    /\ cmd' = [cmd EXCEPT !.state = state]
    /\ main' = state
    /\ UNCHANGED <<report, saved, up, quiet, installer, ran, loop, unsaved, keepalives, faults>>

MainArrives ==
    /\ main # NoState
    /\ Reaches(Stage(report, cmd.stage, main))
    /\ main' = NoState
    /\ UNCHANGED <<up, installer, ran, cmd, loop, keepalives>>

\* flush takes the running stages under the reporter's lock, and sends after.
Takes ==
    /\ cmd.state = "running" /\ loop = NoState
    /\ keepalives < MaxKeepalives
    /\ keepalives' = keepalives + 1
    /\ loop' = "running"
    /\ UNCHANGED <<report, saved, up, quiet, installer, ran, cmd, main, unsaved, faults>>

LoopArrives ==
    /\ loop # NoState
    /\ Reaches(Stage(report, cmd.stage, loop))
    /\ loop' = NoState
    /\ UNCHANGED <<up, installer, ran, cmd, main, keepalives>>

\* setupReporter.Close waits for the loop; the command exits.
Exits ==
    /\ cmd # NoCmd /\ cmd.state # "running" /\ main = NoState /\ loop = NoState
    /\ ran' = ran \cup {cmd.stage}
    /\ cmd' = NoCmd
    /\ UNCHANGED <<report, saved, up, quiet, installer, main, loop, unsaved, keepalives, faults>>

Finishes ==
    /\ installer = "working" /\ cmd = NoCmd /\ ran = Stages
    /\ installer' = "over"
    /\ Reaches(Finish(report))
    /\ UNCHANGED <<up, ran, cmd, main, loop, keepalives>>

\* The terminal is closed: installer and command end, and their sends with them.
Dies ==
    /\ installer \in {"planning", "working"} /\ Fault
    /\ installer' = "dead"
    /\ cmd' = NoCmd /\ main' = NoState /\ loop' = NoState
    /\ UNCHANGED <<report, saved, up, quiet, ran, unsaved, keepalives>>

-----------------------------------------------------------------------------
\* The answer is taken only while its stage is running.
Answers ==
    /\ up /\ report.present /\ ~report.finished
    /\ report.stages[Asking] = "running" /\ ~report.answer
    /\ report' = [report EXCEPT !.answer = TRUE]
    /\ Saves(report')
    /\ UNCHANGED <<up, quiet, installer, ran, cmd, main, loop, keepalives>>

Stops ==
    /\ up /\ Fault
    /\ up' = FALSE
    /\ UNCHANGED <<report, saved, quiet, installer, ran, cmd, main, loop, unsaved, keepalives>>

\* A worker that starts from nothing.
LoadsNothing == NoReport

\* loadSetupTracker.
Loads == saved

Starts ==
    /\ ~up
    /\ up' = TRUE
    /\ report' = Loads
    /\ UNCHANGED <<saved, quiet, installer, ran, cmd, main, loop, unsaved, keepalives, faults>>

\* Two minutes without a report. A command that runs re-sends its stage every
\* thirty seconds, so this comes when none does.
Quiet ==
    /\ ~quiet /\ cmd = NoCmd
    /\ quiet' = TRUE
    /\ UNCHANGED <<report, saved, up, installer, ran, cmd, main, loop, unsaved, keepalives, faults>>

Next ==
    \/ Plans \/ MainArrives \/ Takes \/ LoopArrives \/ Exits \/ Finishes \/ Dies
    \/ \E s \in Stages : Begins(s)
    \/ \E state \in {"done", "failed", "skipped"} : Ends(state)
    \/ \E state \in {"done", "skipped"} : Decides(state)
    \/ Answers \/ Stops \/ Starts \/ Quiet

Spec == Init /\ [][Next]_vars

\* Commands run to their end but for what only the person can do, sends return,
\* the service manager starts the worker again, and time passes.
FairSpec ==
    /\ Spec
    /\ WF_vars(MainArrives) /\ WF_vars(LoopArrives) /\ WF_vars(Exits)
    /\ \A state \in {"done", "failed", "skipped"} : WF_vars(Ends(state))
    /\ WF_vars(Starts) /\ WF_vars(Quiet)

-----------------------------------------------------------------------------
\* stateLocked, as the heartbeat carries it.
NeverStopped == IF report.finished THEN "finished" ELSE "running"

State ==
    CASE report.finished \/ ~\E s \in Stages : report.stages[s] \in {"waiting", "running"} -> "finished"
      [] quiet -> "stopped"
      [] OTHER -> "running"

SetupTypeOK ==
    /\ \A r \in {report, saved} :
          r \in [present : BOOLEAN, finished : BOOLEAN,
                 stages : [Stages -> States \cup {NoState}], answer : BOOLEAN]
    /\ cmd \in [stage : Stages \cup {NoState}, state : States \cup {NoState}]
    /\ main \in States \cup {NoState} /\ loop \in {"running", NoState}
    /\ ran \subseteq Stages

\* No stage of the plan vanishes: whatever a worker restarted by the grant of a
\* permission shows, it shows every stage the last one had, unless a save failed.
PlanSurvives ==
    up /\ ~unsaved /\ saved.present
        => /\ report.present
           /\ \A s \in Stages : saved.stages[s] # NoState => report.stages[s] # NoState

\* The installer is gone and something was reported.
Silent == installer \in {"over", "dead"} /\ report.present

\* Silence is not progress: once the installer is gone, the report no longer
\* says that work is in flight.
SilenceIsNotProgress == Silent ~> State # "running"

\* The skip is stored while its stage waits, and the wait has ended.
Skipped == report.answer /\ cmd.stage = Asking
WaitIsOver == cmd.stage # Asking \/ unsaved

\* The person's skip, taken once, ends the wait for them: no keepalive and no
\* restart of the worker asks them again, unless its save failed.
AnswersAreHeard == Skipped ~> WaitIsOver

\* A stage that reported its end to the worker stays ended, as
\* setup_permissions.go has it: "its keepalive can never overwrite the choice".
\* The loop's send may have been taken before the end and arrive after it.
EndsStand ==
    [][\A s \in Stages :
          report.stages[s] \in {"done", "failed", "skipped"} /\ up /\ up'
          => report'.stages[s] # "running"]_vars

=============================================================================
