------------------------------ MODULE RuntimeSetup ------------------------------
(* `memql worker setup --inference` on Linux: the plan, one consent, the    *)
(* archives of a release checked and unpacked beside the runtime, the unit, *)
(* the commands, the models and the list they are allowed by, with a run    *)
(* that may die or fail at any step and be run again.                       *)
EXTENDS Naturals, Sequences, FiniteSets

CONSTANTS
  Archives,      \* the archives of a stage, in order; the first holds bin/ollama
  Wanted,        \* the models to pull, in order
  Floating,      \* whether the latest release may fail to be resolved
  MaxReleases,   \* bound: releases published
  MaxRuns,       \* bound: runs of the command
  MaxFaults      \* bound: failures, deaths, refusals by the person

SetupAssumption ==
  /\ Len(Archives) > 0 /\ Len(Wanted) > 0 /\ Floating \in BOOLEAN
  /\ MaxReleases \in Nat \ {0} /\ MaxRuns \in Nat /\ MaxFaults \in Nat

VARIABLES
  step,                         \* where the run is; "off" when there is none
  plan,                         \* what Decide chose
  i,                            \* the archive or the model in hand
  tag, want,                    \* the release resolved, and that of the checksum read
  exit, report,                 \* the exit code of the last run, what its stages read
  fresh, runtime,               \* what is unpacked: archives with their release, 0 half way
  unit, enabled, up, elsewhere, \* the unit file, the service, and another Ollama on PATH
  mayPull, pulled, allowed,     \* models.pull, the models there, models.allow
  latest, runs, faults

process == <<step, plan, i, tag, want, exit, report>>
machine == <<fresh, runtime, unit, enabled, up, elsewhere>>
serving == <<mayPull, pulled, allowed>>
setupVars == <<process, machine, serving, latest, runs, faults>>

StageReports == [runtime : {"none", "running", "done", "failed", "skipped"},
           models : {"none", "running", "done", "failed", "skipped"}]

(* What a stage's tag is before it is resolved, and when it cannot be.     *)
Untagged == 0
Latest == MaxReleases + 1

SetupTypeOK ==
  /\ step \in {"off", "gathering", "asking", "clearing", "resolving", "summing", "downloading", "unpacking",
               "removing", "renaming", "writing", "written", "enabling", "starting", "waiting", "models", "pulling",
               "allowing"}
  /\ plan \in {"none", "present", "reuse", "fetch", "start", "stopped"}
  /\ exit \in {"none", "ok", "prereq", "refused", "failed"} /\ report \in StageReports
  /\ unit \in {"none", "torn", "whole"}
  /\ \A e \in fresh \cup runtime : e[1] \in {Archives[k] : k \in DOMAIN Archives} /\ e[2] \in 0 .. MaxReleases
  /\ {enabled, up, elsewhere, mayPull} \subseteq BOOLEAN
  /\ latest \in 1 .. MaxReleases /\ runs \in 0 .. MaxRuns /\ faults \in 0 .. MaxFaults

(* A removal that was interrupted may have left archives without binary.   *)
Init ==
  /\ step = "off" /\ plan = "none" /\ i = 1 /\ tag = Untagged /\ want = 0
  /\ exit = "none" /\ report = [runtime |-> "none", models |-> "none"]
  /\ fresh = {} /\ runtime \in {{}, {<<Archives[Len(Archives)], 0>>} \ {<<Archives[1], 0>>}}
  /\ unit = "none" /\ enabled = FALSE /\ up = FALSE /\ elsewhere = FALSE
  /\ mayPull \in BOOLEAN /\ pulled = {} /\ allowed = {}
  /\ latest = 1 /\ runs = 0 /\ faults = 0

(* linuxNativeFacts: Installed is that bin/ollama exists.                  *)
Installed(dir) == \E e \in dir : e[1] = Archives[1]

(* What the unit starts, when systemd is asked to.                         *)
Starts == unit = "whole" /\ Installed(runtime)

-----------------------------------------------------------------------------
(* The end of a run: the exit code, and the stages of the report           *)

(* Mutant: the stage the run stopped in is the only one closed.            *)
reportOneStage(code) ==
  LET state == IF code = "prereq" THEN "skipped" ELSE "failed"
  IN CASE code = "ok" -> [report EXCEPT !.models = "done"]
       [] code # "ok" /\ report.models = "running" -> [report EXCEPT !.models = state]
       [] OTHER -> [report EXCEPT !.runtime = state]

(* reportOutcome: the stage the run stopped in, and the models stage it    *)
(* never reached.                                                          *)
reportOutcome(code) ==
  LET state == IF code = "prereq" THEN "skipped" ELSE "failed"
  IN CASE code = "ok" -> [report EXCEPT !.models = "done"]
       [] code # "ok" /\ report.models = "running" -> [report EXCEPT !.models = state]
       [] OTHER -> [runtime |-> state, models |-> "skipped"]

Exits(code) ==
  /\ step' = "off" /\ exit' = code /\ report' = reportOutcome(code)
  /\ UNCHANGED <<plan, i, tag, want>>

Goes(next) == step' = next /\ UNCHANGED <<plan, tag, want, exit>>

-----------------------------------------------------------------------------
(* run: the plan and the question                                          *)

Begins ==
  /\ step = "off" /\ runs < MaxRuns /\ runs' = runs + 1
  /\ step' = "gathering" /\ plan' = "none" /\ i' = 1 /\ tag' = Untagged /\ want' = 0 /\ exit' = "none"
  /\ report' = [runtime |-> "none", models |-> "none"]
  /\ UNCHANGED <<machine, serving, latest, faults>>

(* Decide, decideLinuxNative, withStart.  An Ollama on PATH that does not  *)
(* answer is started only when a unit of MemQL's is there.                 *)
Decide ==
  CASE up -> "present"
    [] ~up /\ elsewhere /\ unit # "none" -> "start"
    [] ~up /\ elsewhere /\ unit = "none" -> "stopped"
    [] ~up /\ ~elsewhere /\ Installed(runtime) -> "reuse"
    [] OTHER -> "fetch"

Gathers ==
  /\ step = "gathering" /\ plan' = Decide
  /\ report' = [report EXCEPT !.runtime = "running"]
  /\ step' = IF plan' = "present" THEN "models" ELSE "asking"
  /\ UNCHANGED <<i, tag, want, exit, machine, serving, latest, runs, faults>>

(* ensureServing probes once more before it gives up or asks.              *)
ProbesAgain ==
  /\ step = "asking" /\ plan \in {"start", "stopped"} /\ (up \/ plan = "stopped")
  /\ \/ up /\ Goes("models") /\ UNCHANGED <<i, report>>
     \/ ~up /\ Exits("failed")
  /\ UNCHANGED <<machine, serving, latest, runs, faults>>

(* The person says yes.                                                    *)
Agrees ==
  /\ step = "asking" /\ plan \in {"start", "reuse", "fetch"} /\ ~(plan = "start" /\ up)
  /\ Goes(CASE plan = "start" -> "starting" [] plan = "reuse" -> "writing" [] OTHER -> "clearing")
  /\ UNCHANGED <<i, report, machine, serving, latest, runs, faults>>

(* No answer, no terminal or no: nothing is done.                          *)
Declines ==
  /\ step = "asking" /\ plan \in {"start", "reuse", "fetch"} /\ faults < MaxFaults /\ faults' = faults + 1
  /\ Exits("refused")
  /\ UNCHANGED <<machine, serving, latest, runs>>

-----------------------------------------------------------------------------
(* fetchAndUnpack                                                          *)

Clears ==
  /\ step = "clearing" /\ fresh' = {} /\ Goes("resolving")
  /\ UNCHANGED <<i, report, runtime, unit, enabled, up, elsewhere, serving, latest, runs, faults>>

(* Mutant: every archive asks which release is the latest.                 *)
ResolvesEach ==
  /\ step = "resolving" /\ tag' = latest
  /\ step' = "summing"
  /\ UNCHANGED <<plan, i, want, exit, report, machine, serving, latest, runs, faults>>

(* The release is resolved once for all archives; when that fails, each    *)
(* comes from whatever is the latest then.                                 *)
Resolves ==
  /\ step = "resolving"
  /\ \/ tag # Untagged /\ tag' = tag
     \/ tag = Untagged /\ tag' \in {latest} \cup (IF Floating THEN {Latest} ELSE {})
  /\ step' = "summing"
  /\ UNCHANGED <<plan, i, want, exit, report, machine, serving, latest, runs, faults>>

Released == IF tag = Latest THEN latest ELSE tag

Sums ==
  /\ step = "summing" /\ want' = Released /\ step' = "downloading"
  /\ UNCHANGED <<plan, i, tag, exit, report, machine, serving, latest, runs, faults>>

(* The archive is compared with the checksum before it is unpacked.        *)
Downloads ==
  /\ step = "downloading"
  /\ \/ /\ Released = want /\ Goes("unpacking") /\ UNCHANGED <<i, report>>
        /\ fresh' = fresh \cup {<<Archives[i], 0>>}
     \/ /\ Released # want /\ Exits("failed") /\ fresh' = {}
  /\ UNCHANGED <<runtime, unit, enabled, up, elsewhere, serving, latest, runs, faults>>

Unpacks ==
  /\ step = "unpacking"
  /\ fresh' = (fresh \ {<<Archives[i], 0>>}) \cup {<<Archives[i], want>>}
  /\ \/ i < Len(Archives) /\ i' = i + 1 /\ Goes("resolving")
     \/ i = Len(Archives) /\ i' = 1 /\ Goes("removing")
  /\ UNCHANGED <<report, runtime, unit, enabled, up, elsewhere, serving, latest, runs, faults>>

Removes ==
  /\ step = "removing" /\ runtime' = {} /\ Goes("renaming")
  /\ UNCHANGED <<i, report, fresh, unit, enabled, up, elsewhere, serving, latest, runs, faults>>

Renames ==
  /\ step = "renaming" /\ runtime' = fresh /\ fresh' = {} /\ Goes("writing")
  /\ UNCHANGED <<i, report, unit, enabled, up, elsewhere, serving, latest, runs, faults>>

-----------------------------------------------------------------------------
(* StageRuntime's unit, the commands, WaitReady                            *)

(* The file is truncated, then written.                                    *)
Writes ==
  /\ \/ step = "writing" /\ unit' = "torn" /\ Goes("written")
     \/ step = "written" /\ unit' = "whole" /\ Goes("enabling")
  /\ UNCHANGED <<i, report, fresh, runtime, enabled, up, elsewhere, serving, latest, runs, faults>>

(* daemon-reload and enable --now; starting what runs changes nothing.     *)
Enables ==
  /\ step = "enabling" /\ enabled' = TRUE /\ up' = (up \/ Starts) /\ Goes("waiting")
  /\ UNCHANGED <<i, report, fresh, runtime, unit, elsewhere, serving, latest, runs, faults>>

(* ensureServing: systemctl start of a unit that is not whole fails.       *)
StartsUnit ==
  /\ step = "starting"
  /\ \/ unit = "whole" /\ up' = (up \/ Starts) /\ Goes("waiting") /\ UNCHANGED <<i, report>>
     \/ unit # "whole" /\ up' = up /\ Exits("failed")
  /\ UNCHANGED <<fresh, runtime, unit, enabled, elsewhere, serving, latest, runs, faults>>

WaitsReady ==
  /\ step = "waiting"
  /\ \/ up /\ Goes("models") /\ UNCHANGED <<i, report>>
     \/ ~up /\ Exits("failed")
  /\ UNCHANGED <<machine, serving, latest, runs, faults>>

-----------------------------------------------------------------------------
(* The models                                                              *)

MayPull ==
  /\ step = "models"
  /\ \/ /\ mayPull /\ Goes("pulling") /\ UNCHANGED i
        /\ report' = [runtime |-> "done", models |-> "running"]
     \/ /\ ~mayPull /\ step' = "off" /\ exit' = "prereq" /\ UNCHANGED <<plan, i, tag, want>>
        /\ report' = [runtime |-> "done", models |-> "skipped"]
  /\ UNCHANGED <<machine, serving, latest, runs, faults>>

(* Mutant: a model that could not be pulled is passed over.                *)
PullsWhatItCan ==
  /\ step = "pulling"
  /\ pulled' = IF up THEN pulled \cup {Wanted[i]} ELSE pulled
  /\ \/ i < Len(Wanted) /\ i' = i + 1 /\ Goes("pulling")
     \/ i = Len(Wanted) /\ i' = 1 /\ Goes("allowing")
  /\ UNCHANGED <<report, machine, mayPull, allowed, latest, runs, faults>>

(* A pull that fails ends the run.                                         *)
Pulls ==
  /\ step = "pulling"
  /\ \/ /\ up /\ pulled' = pulled \cup {Wanted[i]} /\ UNCHANGED report
        /\ \/ i < Len(Wanted) /\ i' = i + 1 /\ Goes("pulling")
           \/ i = Len(Wanted) /\ i' = 1 /\ Goes("allowing")
     \/ ~up /\ Exits("failed") /\ UNCHANGED pulled
  /\ UNCHANGED <<machine, mayPull, allowed, latest, runs, faults>>

(* All of them are allowed, after all were pulled, in one write.           *)
Allows ==
  /\ step = "allowing" /\ allowed' = allowed \cup {Wanted[k] : k \in DOMAIN Wanted}
  /\ Exits("ok")
  /\ UNCHANGED <<machine, mayPull, pulled, latest, runs, faults>>

-----------------------------------------------------------------------------
(* What goes wrong                                                         *)

Fetching == step \in {"clearing", "resolving", "summing", "downloading", "unpacking", "removing", "renaming"}

(* Of a tree whose removal stopped, anything may be left, half.            *)
Remains(dir) == {dir} \cup {{<<e[1], 0>> : e \in some} : some \in SUBSET dir}

(* A step fails: the staging directory goes, the run ends.                 *)
Fails ==
  /\ step \notin {"off", "gathering", "asking", "models"} /\ faults < MaxFaults /\ faults' = faults + 1
  /\ fresh' = IF Fetching THEN {} ELSE fresh
  /\ IF step = "removing" THEN runtime' \in Remains(runtime) ELSE UNCHANGED runtime
  /\ Exits("failed")
  /\ UNCHANGED <<unit, enabled, up, elsewhere, serving, latest, runs>>

(* The run is killed; its report is left as it is.                         *)
Dies ==
  /\ step # "off" /\ faults < MaxFaults /\ faults' = faults + 1
  /\ step' = "off" /\ UNCHANGED <<plan, i, tag, want, exit, report>>
  /\ IF step = "removing" THEN runtime' \in Remains(runtime) ELSE UNCHANGED runtime
  /\ IF step = "clearing" THEN fresh' \in Remains(fresh) ELSE UNCHANGED fresh
  /\ UNCHANGED <<unit, enabled, elsewhere, serving, latest, runs>>
  /\ up' \in {up, enabled /\ Starts}

(* Somebody stops the service, or installs an Ollama of their own.         *)
ServiceStops ==
  /\ up /\ faults < MaxFaults /\ faults' = faults + 1 /\ up' = FALSE
  /\ UNCHANGED <<process, fresh, runtime, unit, enabled, elsewhere, serving, latest, runs>>

InstallsElsewhere ==
  /\ step = "off" /\ ~elsewhere /\ elsewhere' = TRUE /\ up' \in {up, TRUE}
  /\ UNCHANGED <<process, fresh, runtime, unit, enabled, serving, latest, runs, faults>>

Publishes ==
  /\ latest < MaxReleases /\ latest' = latest + 1
  /\ UNCHANGED <<process, machine, serving, runs, faults>>

-----------------------------------------------------------------------------
Own ==
  \/ Gathers \/ ProbesAgain \/ Agrees \/ Clears \/ Resolves \/ Sums \/ Downloads \/ Unpacks \/ Removes
  \/ Renames \/ Writes \/ Enables \/ StartsUnit \/ WaitsReady \/ MayPull \/ Pulls \/ Allows

Next ==
  \/ Begins \/ Own \/ Declines \/ Fails \/ Dies \/ ServiceStops \/ InstallsElsewhere \/ Publishes

Spec == Init /\ [][Next]_setupVars /\ WF_setupVars(Own)

-----------------------------------------------------------------------------
(* Properties                                                              *)

(* fetchAndUnpack, Installed: a runtime that the next run would reuse, or  *)
(* the unit start, has every archive, whole and of one release, wherever a *)
(* run stopped.                                                            *)
RuntimeIsWhole ==
  Installed(runtime) => \E r \in 1 .. MaxReleases : runtime = {<<Archives[k], r>> : k \in DOMAIN Archives}

(* run, allow: no model is allowed that was not pulled.                    *)
AllowedIsPulled == allowed \subseteq pulled

(* reportOutcome: a run that ended by itself leaves no stage open, and     *)
(* tells success exactly when it exits with it.                            *)
ReportTellsTheExit ==
  step = "off" /\ exit # "none" =>
    /\ report.runtime \notin {"none", "running"} /\ report.models \notin {"none", "running"}
    /\ (exit = "ok") <=> (report.models = "done")
    /\ exit = "ok" => {Wanted[k] : k \in DOMAIN Wanted} \subseteq allowed

(* Whatever earlier runs left, a run that nothing disturbs and the person  *)
(* agrees to succeeds.                                                     *)
Undisturbed == step = "gathering" /\ faults = MaxFaults /\ mayPull /\ ~elsewhere
Succeeds == step = "off" /\ exit = "ok"
SetupConverges == Undisturbed ~> Succeeds
=============================================================================
