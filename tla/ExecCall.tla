------------------------------ MODULE ExecCall ------------------------------
(* One shell command of a tool call (internal/worker/tools exec, under the *)
(* dispatcher and the runner): its gates, the directory it runs in, its    *)
(* process group, what it writes, the two deadlines and the cancel, and    *)
(* what the caller is told.  The runtime's Cmd.Wait is modelled from how   *)
(* the code uses it: it watches the context only until the shell is gone,  *)
(* and then waits at most WaitDelay for who still holds the pipes.         *)
EXTENDS Integers

CONSTANTS
  MaxWrites,   \* bound: pieces the command writes
  MaxTouches   \* bound: changes of the directory's name, of the owner's will

ExecCallAssumption == MaxWrites \in Nat /\ MaxTouches \in Nat

VARIABLES
  lane,      \* "scoped" with a receipt for the exact command, "plain" without one
  at,        \* where the call is
  context,   \* its context: "live" or "done"
  owner,     \* [window, listed]: the window is open; the shell list and the paths allow it
  name,      \* what the directory's name stands for
  held,      \* the directory the call holds open: "-" or what it was
  procs,     \* [shell, child, stray]: the shell, a child in its group, one that left the group
  cwd,       \* where the shell runs
  wrote, readout,   \* pieces written by the shell; read by the worker
  watching,  \* the context is still watched for the command
  early,     \* history: the shell was gone before the context ended
  answer,    \* what the caller is told
  touches

exec_vars ==
  <<lane, at, context, owner, name, held, procs, cwd, wrote, readout, watching, early, answer, touches>>

Procs == {"none", "runs", "gone"}

ExecCallTypeOK ==
  /\ lane \in {"scoped", "plain"} /\ at \in {"gate", "shell", "path", "open", "start", "wait", "drain", "told"}
  /\ context \in {"live", "done"} /\ owner \in [window : BOOLEAN, listed : BOOLEAN]
  /\ name \in {"dir", "link"} /\ held \in {"-", "dir"} /\ procs \in [{"shell", "child", "stray"} -> Procs]
  /\ cwd \in {"-", "dir", "elsewhere"} /\ wrote \in 0..MaxWrites /\ readout \in 0..wrote
  /\ watching \in BOOLEAN /\ early \in BOOLEAN
  /\ answer \in {"-", "success", "timeout", "exec_failed", "refused", "tool_panic"} /\ touches \in 0..MaxTouches

ExecInit ==
  /\ lane \in {"scoped", "plain"} /\ at = "gate" /\ context = "live"
  /\ owner \in [window : BOOLEAN, listed : BOOLEAN] /\ name \in {"dir", "link"} /\ held = "-"
  /\ procs = [p \in {"shell", "child", "stray"} |-> "none"]
  /\ cwd = "-" /\ wrote = 0 /\ readout = 0
  /\ watching = FALSE /\ early = FALSE /\ answer = "-" /\ touches = 0

-----------------------------------------------------------------------------
(* Up to the command.  The receipt's binding to this machine and to these  *)
(* arguments is settled before "gate".                                     *)

Same == UNCHANGED <<lane, context, owner, name, procs, cwd, wrote, readout, watching, early, touches>>
Go(to) == at' = to /\ UNCHANGED <<answer, held>> /\ Same
Tell(what) == at' = "told" /\ answer' = what /\ UNCHANGED held /\ Same

(* A command asks for the window, with a receipt or without one.           *)
Gate ==
  at = "gate" /\ IF owner.window THEN Go(IF lane = "scoped" THEN "path" ELSE "shell") ELSE Tell("refused")
(* The approved directory, against the local lists, then opened without    *)
(* following a link.                                                       *)
Path == at = "path" /\ IF owner.listed THEN Go("open") ELSE Tell("refused")
OpenDir ==
  /\ at = "open"
  /\ IF name = "dir" THEN at' = "shell" /\ held' = "dir" /\ UNCHANGED answer /\ Same ELSE Tell("refused")
Shell == at = "shell" /\ IF owner.listed THEN Go("start") ELSE Tell("refused")

(* With a held directory the child enters that; otherwise it is entered by *)
(* its name.                                                               *)
(* Mutant: the child enters the directory by its name. *)
CwdByName == IF name = "dir" THEN "dir" ELSE "elsewhere"
Cwd == IF held = "dir" \/ name = "dir" THEN "dir" ELSE "elsewhere"
Starts ==
  /\ at = "start" /\ context = "live"
  /\ at' = "wait" /\ watching' = TRUE
  /\ procs' = [procs EXCEPT !["shell"] = "runs"] /\ cwd' = Cwd
  /\ UNCHANGED <<lane, context, owner, name, held, wrote, readout, early, answer, touches>>
(* No process, or a context that is over.  A limit the host refuses is a   *)
(* shell that exits with 125, which is told as an answer.                  *)
StartFails == at = "start" /\ Tell(IF context = "done" THEN "timeout" ELSE "exec_failed")
(* A handler that panics is answered like any failure.                     *)
Panics == at \in {"shell", "path", "open"} /\ Tell("tool_panic")

-----------------------------------------------------------------------------
(* The processes                                                           *)

Runs(p) == procs[p] = "runs"
Still == UNCHANGED <<lane, at, context, owner, name, held, cwd, watching, early, answer, touches>>
Writes == Runs("shell") /\ wrote < MaxWrites /\ wrote' = wrote + 1 /\ UNCHANGED <<procs, readout>> /\ Still
Forks(p) ==
  /\ Runs("shell") /\ p \in {"child", "stray"} /\ procs[p] = "none"
  /\ procs' = [procs EXCEPT ![p] = "runs"] /\ UNCHANGED <<wrote, readout>> /\ Still
Exits(p) == Runs(p) /\ procs' = [procs EXCEPT ![p] = "gone"] /\ UNCHANGED <<wrote, readout>> /\ Still

(* The worker's copy of the output                                         *)
Reads == readout < wrote /\ at \in {"wait", "drain"} /\ readout' = readout + 1 /\ UNCHANGED <<procs, wrote>> /\ Still

-----------------------------------------------------------------------------
(* The context and the wait                                                *)

(* The caller cancels, the call's own deadline or the command's is over.   *)
ContextEnds ==
  /\ context = "live" /\ at # "told" /\ context' = "done"
  /\ early' = (at = "drain" \/ (at = "wait" /\ ~Runs("shell")))
  /\ UNCHANGED <<lane, at, owner, name, held, procs, cwd, wrote, readout, watching, answer, touches>>
(* While it is watched, that kills the whole group.                        *)
(* Mutant: only the shell. *)
KillShell == procs' = [procs EXCEPT !["shell"] = IF @ = "runs" THEN "gone" ELSE @]
KillGroup == procs' = [p \in DOMAIN procs |-> IF p # "stray" /\ Runs(p) THEN "gone" ELSE procs[p]]
Kills ==
  /\ at = "wait" /\ watching /\ context = "done"
  /\ watching' = FALSE /\ KillGroup
  /\ UNCHANGED <<lane, at, context, owner, name, held, cwd, wrote, readout, early, answer, touches>>
(* The shell is reaped.  If the context ended by then, its watcher has     *)
(* killed the group or does so before the wait goes on.                    *)
Reaped ==
  /\ at = "wait" /\ ~Runs("shell") /\ (watching => early \/ context = "live")
  /\ at' = "drain" /\ watching' = FALSE
  /\ UNCHANGED <<lane, context, owner, name, held, procs, cwd, wrote, readout, early, answer, touches>>

(* Who runs on may hold the pipes, or have let go of them.                 *)
Holders == \E p \in DOMAIN procs : Runs(p)
(* What the caller is told at the end: the context first, then whether the *)
(* pipes were closed or given up on, but for a command that failed.        *)
(* Mutant: the end of the command comes first. *)
VerdictOfCommand(failed, closed) == IF failed \/ closed THEN "success" ELSE "exec_failed"
Verdict(failed, closed) ==
  IF context = "done" THEN "timeout" ELSE IF failed \/ closed THEN "success" ELSE "exec_failed"
(* WaitDelay is long enough to read what a pipe holds.                     *)
(* Mutant: what is still in the pipe is left there. *)
DrainedAtOnce == at = "drain"
Drained == at = "drain" /\ readout = wrote
Answers ==
  /\ Drained
  /\ \E failed, closed \in BOOLEAN : (~Holders => closed) /\ Tell(Verdict(failed, closed))

-----------------------------------------------------------------------------
Touched == touches < MaxTouches /\ touches' = touches + 1
           /\ UNCHANGED <<lane, at, context, held, procs, cwd, wrote, readout, watching, early, answer>>
Renamed == at # "told" /\ Touched /\ name' = (IF name = "dir" THEN "link" ELSE "dir") /\ UNCHANGED owner
OwnerChanges(o) == at # "told" /\ Touched /\ owner' = o /\ o # owner /\ UNCHANGED name

ExecOver == at = "told" /\ ~Holders /\ UNCHANGED exec_vars

ExecNext ==
  \/ Gate \/ Path \/ OpenDir \/ Shell \/ Starts \/ StartFails \/ Panics
  \/ Writes \/ Reads \/ \E p \in DOMAIN procs : Forks(p) \/ Exits(p)
  \/ ContextEnds \/ Kills \/ Reaped \/ Answers
  \/ Renamed \/ \E o \in [window : BOOLEAN, listed : BOOLEAN] : OwnerChanges(o)
  \/ ExecOver

ExecSpec == ExecInit /\ [][ExecNext]_exec_vars

-----------------------------------------------------------------------------
(* What the caller is told of a command is so.  A success is a shell that  *)
(* ran and ended by itself in time, with all it wrote; an approved command *)
(* ran in the directory that was opened for it, whatever the name has come *)
(* to stand for; a refusal means nothing ever ran; and once the caller is  *)
(* told of a timeout nothing of the command's group is left, unless the    *)
(* shell itself was gone before the context ended: nobody watches the      *)
(* context then, and a child in the background lives on.                   *)
(* (tools/exec.go, exec_unix.go, dispatcher.go)                            *)
ExecToldTrue ==
  /\ answer = "success" => procs["shell"] = "gone" /\ readout = wrote /\ context = "live"
  /\ answer \in {"refused", "tool_panic"} => \A p \in DOMAIN procs : procs[p] = "none"
  /\ answer = "timeout" => ~Runs("shell") /\ (Runs("child") => early)
  /\ lane = "scoped" /\ cwd # "-" => cwd = "dir"
=============================================================================
