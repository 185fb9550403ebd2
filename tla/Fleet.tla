------------------------------- MODULE Fleet -------------------------------
(***************************************************************************)
(* The homes of one machine (internal/worker/fleet.go, control.go,         *)
(* homes.go): one supervisor per home in the worker process, the pause     *)
(* switch of the local control socket, and the registry workers.yaml that  *)
(* the pair and unpair commands rewrite from another process.              *)
(*                                                                         *)
(* The control socket reads the registry and replaces it by a rename,      *)
(* under the fleet's lock; the commands read it, truncate it and write it  *)
(* in place, under no lock of the worker's.                                *)
(***************************************************************************)
EXTENDS Naturals

CONSTANTS
    Paired,     \* the homes a person pairs
    MaxOps,     \* decisions a person makes, by either way
    MaxUpsets,  \* failing runs, failing saves, deaths and restarts together
    Overlap,    \* may a command and the control socket overlap?
    NoHome

FleetAssumption ==
    /\ MaxOps \in Nat /\ MaxUpsets \in Nat
    /\ Overlap \in BOOLEAN
    /\ NoHome \notin Paired

VARIABLES
    file,       \* file[h]: the entry of h in workers.yaml: on, off, gone
    torn,       \* the file is truncated and not yet written
    mirror,     \* the home the legacy worker.yaml names
    up,         \* the worker process runs its fleet
    enabled,    \* managedHome.enabled
    wake,       \* managedHome.wake, a channel of one place
    ctx,        \* the context of the home's current run
    runner,     \* managedHome.runner is set
    sup,        \* where the home's supervisor is
    ctl,        \* the control request at work, holding Fleet.mu
    cli,        \* the command at work
    told,       \* told[h]: the last pause or resume the worker confirmed
    ops, upsets

file_vars == <<file, torn, mirror>>
home_vars == <<enabled, wake, ctx, runner, sup>>
fleet_vars == <<file, torn, mirror, up, enabled, wake, ctx, runner, sup, ctl, cli, told, ops, upsets>>

NoCtl == [home |-> NoHome, want |-> "on", seen |-> [h \in Paired |-> "gone"]]
NoCli == [op |-> "none", home |-> NoHome, seen |-> [h \in Paired |-> "gone"],
          at |-> "idle", lost |-> FALSE]

On(f) == {h \in Paired : f[h] = "on"}

FleetInit ==
    /\ file = [h \in Paired |-> "on"] /\ torn = FALSE
    /\ mirror \in Paired
    /\ up = TRUE
    /\ enabled = [h \in Paired |-> TRUE]
    /\ wake = [h \in Paired |-> 0]
    /\ ctx = [h \in Paired |-> "none"]
    /\ runner = [h \in Paired |-> FALSE]
    /\ sup = [h \in Paired |-> "look"]
    /\ ctl = NoCtl /\ cli = NoCli
    /\ told = [h \in Paired |-> "none"]
    /\ ops = 0 /\ upsets = 0

Upset == upsets < MaxUpsets /\ upsets' = upsets + 1
NoUpset == upsets' = upsets
MuFree == up /\ ctl = NoCtl

-----------------------------------------------------------------------------
(* runManagedHome and runManagedHomeOnce.                                  *)

\* The top of the loop: the decision and the context of the run are one
\* critical section with SetHomeEnabled.
ReadsSwitch(h) ==
    /\ MuFree /\ sup[h] = "look"
    /\ IF enabled[h]
       THEN /\ sup' = [sup EXCEPT ![h] = "build"]
            /\ ctx' = [ctx EXCEPT ![h] = "live"]
       ELSE /\ sup' = [sup EXCEPT ![h] = "dozing"]
            /\ UNCHANGED ctx
    /\ UNCHANGED <<file_vars, up, enabled, wake, runner, ctl, cli, told, ops, upsets>>

\* Between the unlock and the select nothing listens to wake.
Sleeps(h) ==
    /\ up /\ sup[h] = "dozing"
    /\ sup' = [sup EXCEPT ![h] = "asleep"]
    /\ UNCHANGED <<file_vars, up, enabled, wake, ctx, runner, ctl, cli, told, ops, upsets>>

Wakes(h) ==
    /\ up /\ sup[h] \in {"asleep", "retry"} /\ wake[h] = 1
    /\ wake' = [wake EXCEPT ![h] = 0]
    /\ sup' = [sup EXCEPT ![h] = "look"]
    /\ UNCHANGED <<file_vars, up, enabled, ctx, runner, ctl, cli, told, ops, upsets>>

\* buildHome, and the runner shown to the fleet; a build may fail.
Builds(h) ==
    /\ MuFree /\ sup[h] = "build"
    /\ \/ /\ runner' = [runner EXCEPT ![h] = TRUE]
          /\ sup' = [sup EXCEPT ![h] = "run"]
          /\ NoUpset
       \/ /\ sup' = [sup EXCEPT ![h] = IF ctx[h] = "live" THEN "failed" ELSE "ended"]
          /\ UNCHANGED runner
          /\ Upset
    /\ UNCHANGED <<file_vars, up, enabled, wake, ctx, ctl, cli, told, ops>>

\* Runner.Run returns: its context was cancelled, or it gave up. Whether it was
\* cancelled is read here, before the lock.
Returns(h) ==
    /\ up /\ sup[h] = "run"
    /\ \/ ctx[h] = "cancelled" /\ sup' = [sup EXCEPT ![h] = "ended"] /\ NoUpset
       \/ ctx[h] = "live" /\ sup' = [sup EXCEPT ![h] = "failed"] /\ Upset
    /\ UNCHANGED <<file_vars, up, enabled, wake, ctx, runner, ctl, cli, told, ops>>

Settles(h) ==
    /\ MuFree /\ sup[h] \in {"ended", "failed"}
    /\ ctx' = [ctx EXCEPT ![h] = "none"]
    /\ runner' = [runner EXCEPT ![h] = FALSE]
    /\ sup' = [sup EXCEPT ![h] = IF @ = "failed" THEN "retry" ELSE "look"]
    /\ UNCHANGED <<file_vars, up, enabled, wake, ctl, cli, told, ops, upsets>>

\* The second of a failed run is over.
Retries(h) ==
    /\ up /\ sup[h] = "retry"
    /\ sup' = [sup EXCEPT ![h] = "look"]
    /\ UNCHANGED <<file_vars, up, enabled, wake, ctx, runner, ctl, cli, told, ops, upsets>>

-----------------------------------------------------------------------------
(* SetHomeEnabled and saveHomeEnabled, holding Fleet.mu from end to end.   *)

SetHomeEnabled(h, want) ==
    /\ MuFree /\ ops < MaxOps
    /\ ~Overlap => cli = NoCli
    /\ sup[h] # "absent" /\ enabled[h] # (want = "on")
    /\ ~torn /\ file[h] # "gone"
    /\ ops' = ops + 1
    /\ ctl' = [home |-> h, want |-> want, seen |-> file]
    /\ UNCHANGED <<file_vars, up, home_vars, cli, told, upsets>>

\* A switch whose channel has no place: it rings only a supervisor that listens.
SwitchesAsleep(h, want) ==
    /\ enabled' = [enabled EXCEPT ![h] = want = "on"]
    /\ ctx' = [ctx EXCEPT ![h] = IF want = "off" /\ @ = "live" THEN "cancelled" ELSE @]
    /\ wake' = [wake EXCEPT ![h] = IF sup[h] \in {"asleep", "retry"} THEN 1 ELSE @]
    /\ told' = [told EXCEPT ![h] = want]

\* A switch that forgets the run under way.
SwitchesNext(h, want) ==
    /\ enabled' = [enabled EXCEPT ![h] = want = "on"]
    /\ wake' = [wake EXCEPT ![h] = 1]
    /\ told' = [told EXCEPT ![h] = want]
    /\ UNCHANGED ctx

\* The memory follows the file: enabled, the run's cancel, the wake.
Switches(h, want) ==
    /\ enabled' = [enabled EXCEPT ![h] = want = "on"]
    /\ ctx' = [ctx EXCEPT ![h] = IF want = "off" /\ @ = "live" THEN "cancelled" ELSE @]
    /\ wake' = [wake EXCEPT ![h] = 1]
    /\ told' = [told EXCEPT ![h] = want]

\* A save that failed and is confirmed all the same.
SavesSwitchOrNot ==
    /\ ctl # NoCtl
    /\ \/ file' = [ctl.seen EXCEPT ![ctl.home] = ctl.want] /\ NoUpset
       \/ Upset /\ UNCHANGED file
    /\ torn' = FALSE
    /\ cli' = [cli EXCEPT !.lost = cli.at = "cut"]
    /\ Switches(ctl.home, ctl.want)
    /\ ctl' = NoCtl
    /\ UNCHANGED <<mirror, up, runner, sup, ops>>

\* The rename puts back every other home as it was read. A command that had
\* truncated the file goes on writing to the one that was replaced.
SavesSwitch ==
    /\ ctl # NoCtl
    /\ \/ /\ file' = [ctl.seen EXCEPT ![ctl.home] = ctl.want]
          /\ torn' = FALSE
          /\ cli' = [cli EXCEPT !.lost = cli.at = "cut"]
          /\ Switches(ctl.home, ctl.want)
          /\ NoUpset
       \/ Upset /\ UNCHANGED <<file, torn, enabled, ctx, wake, told, cli>>
    /\ ctl' = NoCtl
    /\ UNCHANGED <<mirror, up, runner, sup, ops>>

-----------------------------------------------------------------------------
(* UpsertHome, RemoveHome and SaveWorkers, in a process of their own.      *)

Command(op, h) ==
    /\ cli = NoCli /\ ops < MaxOps
    /\ ~Overlap => ctl = NoCtl
    /\ ~torn
    /\ op # "pair" => file[h] # "gone"
    /\ ops' = ops + 1
    /\ cli' = [op |-> op, home |-> h, seen |-> file, at |-> "read", lost |-> FALSE]
    /\ UNCHANGED <<file_vars, up, home_vars, ctl, told, upsets>>

Outcome(op) == CASE op = "pair" -> "on" [] op = "disable" -> "off" [] OTHER -> "gone"

\* os.WriteFile: the truncation, then the text.
Truncates ==
    /\ cli.at = "read"
    /\ torn' = TRUE
    /\ cli' = [cli EXCEPT !.at = "cut"]
    /\ UNCHANGED <<file, mirror, up, home_vars, ctl, told, ops, upsets>>

WritesRegistry ==
    /\ cli.at = "cut"
    /\ IF cli.lost THEN UNCHANGED <<file, torn>>
       ELSE /\ file' = [cli.seen EXCEPT ![cli.home] = Outcome(cli.op)]
            /\ torn' = FALSE
    /\ told' = [told EXCEPT ![cli.home] = "none"]
    /\ cli' = [cli EXCEPT !.at = "mirror"]
    /\ UNCHANGED <<mirror, up, home_vars, ctl, ops, upsets>>

\* syncLegacyMirror: a mirror of an enabled home stays, any other names one
\* that is enabled, or goes.
Synced(f) == IF mirror \in On(f) \cup {NoHome} THEN {mirror}
             ELSE IF On(f) # {} THEN On(f) ELSE {NoHome}

\* The pair command writes its own home over the mirror and ignores a failure.
Mirrors ==
    /\ cli.at = "mirror"
    /\ LET f == [cli.seen EXCEPT ![cli.home] = Outcome(cli.op)] IN
       mirror' \in IF cli.op = "pair" THEN {cli.home, mirror} ELSE Synced(f)
    /\ cli' = NoCli
    /\ UNCHANGED <<file, torn, up, home_vars, ctl, told, ops, upsets>>

CommandDies ==
    /\ cli # NoCli
    /\ Upset
    /\ cli' = NoCli
    /\ UNCHANGED <<file_vars, up, home_vars, ctl, told, ops>>

-----------------------------------------------------------------------------
WorkerDies ==
    /\ up /\ Upset
    /\ up' = FALSE
    /\ ctl' = NoCtl
    /\ ctx' = [h \in Paired |-> "none"]
    /\ runner' = [h \in Paired |-> FALSE]
    /\ wake' = [h \in Paired |-> 0]
    /\ sup' = [h \in Paired |-> "absent"]
    /\ UNCHANGED <<file_vars, enabled, cli, told, ops>>

\* worker run: a readable registry with an enabled home, the mirror brought in
\* line, one supervisor per home of the file.
WorkerStarts ==
    /\ ~up /\ ~torn /\ On(file) # {}
    /\ up' = TRUE
    /\ enabled' = [h \in Paired |-> file[h] = "on"]
    /\ sup' = [h \in Paired |-> IF file[h] = "gone" THEN "absent" ELSE "look"]
    /\ mirror' \in Synced(file)
    /\ UNCHANGED <<file, torn, wake, ctx, runner, ctl, cli, told, ops, upsets>>

Supervises(h) == ReadsSwitch(h) \/ Sleeps(h) \/ Wakes(h) \/ Builds(h) \/ Settles(h) \/ Retries(h)
                 \/ (ctx[h] = "cancelled" /\ Returns(h))

FleetNext ==
    \/ \E h \in Paired :
          \/ ReadsSwitch(h) \/ Sleeps(h) \/ Wakes(h) \/ Builds(h) \/ Returns(h) \/ Settles(h) \/ Retries(h)
          \/ \E want \in {"on", "off"} : SetHomeEnabled(h, want)
          \/ \E op \in {"pair", "unpair", "disable"} : Command(op, h)
    \/ SavesSwitch \/ Truncates \/ WritesRegistry \/ Mirrors \/ CommandDies
    \/ WorkerDies \/ WorkerStarts

FleetSpec == FleetInit /\ [][FleetNext]_fleet_vars

\* Goroutines that can run do, the control request ends, a run hears its
\* cancelled context. Nothing makes a run fail.
FairFleetSpec ==
    /\ FleetSpec
    /\ WF_fleet_vars(SavesSwitch)
    /\ \A h \in Paired : SF_fleet_vars(Supervises(h))

-----------------------------------------------------------------------------
Registries == [Paired -> {"on", "off", "gone"}]
Controls == [home : Paired \cup {NoHome}, want : {"on", "off"}, seen : Registries]
Clis == [op : {"none", "pair", "unpair", "disable"}, home : Paired \cup {NoHome}, seen : Registries,
         at : {"idle", "read", "cut", "mirror"}, lost : BOOLEAN]

FleetTypeOK ==
    /\ file \in Registries
    /\ torn \in BOOLEAN /\ up \in BOOLEAN
    /\ mirror \in Paired \cup {NoHome}
    /\ enabled \in [Paired -> BOOLEAN]
    /\ wake \in [Paired -> 0..1]
    /\ ctx \in [Paired -> {"none", "live", "cancelled"}]
    /\ runner \in [Paired -> BOOLEAN]
    /\ sup \in [Paired -> {"look", "dozing", "asleep", "build", "run", "ended", "failed", "retry", "absent"}]
    /\ ctl \in Controls /\ cli \in Clis
    /\ told \in [Paired -> {"none", "on", "off"}]

\* A paused home has no stream that could live on: the run whose context was
\* made before the pause is cancelled, and none is started after it, wherever
\* the supervisor was (runManagedHome against SetHomeEnabled).
PausedHomesAreSilent == up => \A h \in Paired : ~enabled[h] => ctx[h] # "live"

\* What the control socket confirmed is what the next worker starts with: "a
\* restart must never undo a successful pause" (control.go). True as long as no
\* command rewrites the registry at the same time.
PausesSurvive ==
    up => \A h \in Paired : told[h] # "none" /\ sup[h] # "absent"
                              => enabled[h] = (told[h] = "on")

\* What a person decided of a home stands: it is what a restarted worker does, and
\* a paused home has no stream (SetHomeEnabled, saveHomeEnabled, runManagedHome,
\* against the commands that rewrite the registry).
PausesHold == FleetTypeOK /\ PausesSurvive /\ PausedHomesAreSilent

\* The mirror never names a home that is disabled, as homes.go has it:
\* "Disabling counts as going". A pause by the control socket leaves it.
DisabledHomesLeaveTheMirror ==
    cli = NoCli /\ ctl = NoCtl /\ up /\ mirror # NoHome => file[mirror] # "off"

\* A home that should be connected, and one that is, or no longer should.
ToConnect(h) == up /\ enabled[h] /\ sup[h] # "absent"
Served(h) == sup[h] = "run" \/ ~enabled[h] \/ ~up

\* An enabled home is connected in the end, after failing runs, after a pause
\* and a resume in any order with the end of the old run: no wake is lost.
EnabledHomesRun == \A h \in Paired : ToConnect(h) ~> Served(h)

=============================================================================
