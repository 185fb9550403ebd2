--------------------------- MODULE MachinePolicy ---------------------------
(***************************************************************************)
(* What the owner of the machine allows, from the file to the cluster:     *)
(* policy.yaml, the commands that edit it in processes of their own        *)
(* (worker/apps_consent.go, inference/allow.go), the signal they send      *)
(* (inference/readvertise.go), the worker that reads the file when it      *)
(* starts and when it is told to (tools/policy.go, worker/cli.go), and the *)
(* beats that tell each cluster what it may run (worker/appinventory.go).  *)
(*                                                                         *)
(* One app stands for each: consent is the set of homes that may run it.   *)
(* models.allow stands for the lists a reload merges; `block', a number    *)
(* the owner's own edits change, for the rest of what it replaces whole:   *)
(* levels, runtimes, pipelines, workbenches.                               *)
(***************************************************************************)
EXTENDS Naturals

CONSTANTS
    Commands,   \* runs of `memql worker apps' and of `memql worker models'
    Homes,
    Models,
    MaxEdits,   \* edits by hand and by pulls
    MaxFaults,  \* writes that fail, commands and workers that die
    Overlap     \* TRUE: a pull's reload may run beside the handler's

PolicyAssumption == MaxEdits \in Nat /\ MaxFaults \in Nat /\ Overlap \in BOOLEAN

VARIABLES
    file,       \* policy.yaml; odd: its lists are written as the editor edits none
    said,       \* what it has said of what is replaced: pairs of consent and block
    standing,   \* the commands that were told of, and that the file has borne out since
    cmd,        \* cmd[c]: what was asked, how far it is, the text it read
    worker,     \* down, starting (no handler yet), up; ended: nobody restarts it
    live,       \* the worker's Policy; path: it knows where its file is
    signal,     \* a SIGHUP waits in the channel, which holds one
    load,       \* load[r]: the reload of the handler or of a pull
    beat,       \* the homes whose last beat allowed the app
    edits, faults

vars == <<file, said, standing, cmd, worker, live, signal, load, beat, edits, faults>>

Loaders == {"handler", "pull"}

\* DefaultPolicy: no consent, no models. `retired' is the machine-wide apps.allow
\* of older files, which allows nothing.
Blank == [apps |-> {}, models |-> {}, retired |-> FALSE, block |-> 0]
Missing == [st |-> "missing", odd |-> FALSE, text |-> Blank]

Asks == [kind : {"allow", "deny"}, arg : Homes] \cup [kind : {"model"}, arg : Models]

Init ==
    /\ file = Missing /\ said = {<<{}, 0>>} /\ standing = {}
    /\ cmd = [c \in Commands |-> [ask |-> CHOOSE a \in Asks : TRUE, st |-> "new", text |-> Blank]]
    /\ worker = "down" /\ signal = FALSE
    /\ live = [path |-> FALSE, text |-> Blank]
    /\ load = [r \in Loaders |-> [st |-> "idle", file |-> Missing]]
    /\ beat = {} /\ edits = 0 /\ faults = 0

Fault == faults < MaxFaults /\ faults' = faults + 1

\* What asks nothing of a list: a deny of what is not there, an allow of what is.
Listed(t, ask) ==
    \/ ask.kind = "model" /\ ask.arg \in t.models
    \/ ask.kind = "allow" /\ ask.arg \in t.apps
    \/ ask.kind = "deny" /\ ask.arg \notin t.apps

\* A text is put in place by a rename: a reader finds the old one or the new.
Put(t) ==
    /\ file' = [file EXCEPT !.st = "whole", !.text = t]
    /\ said' = said \cup {<<t.apps, t.block>>}
    /\ standing' = {c \in standing : Listed(t, cmd[c].ask)}

Becomes(f) ==
    /\ file' = f
    /\ standing' = IF f.st = "whole" THEN standing ELSE {}
    /\ UNCHANGED said

-----------------------------------------------------------------------------
\* The owner's editor: another block, other homes, lists in a shape of their
\* own, a file that does not parse, its repair, no file at all.
Hand ==
    /\ edits < MaxEdits /\ edits' = edits + 1
    /\ \/ \E r \in BOOLEAN : Put([file.text EXCEPT !.block = edits + 1, !.retired = r])
       \/ file.st = "whole" /\ Becomes([file EXCEPT !.odd = ~@])
       \/ file.st = "whole" /\ Becomes([file EXCEPT !.st = "broken", !.odd = FALSE])
       \/ file.st = "broken" /\ Becomes([file EXCEPT !.st = "whole"])
       \/ file.st # "missing" /\ Becomes(Missing)
    /\ UNCHANGED <<cmd, worker, live, signal, load, beat, faults>>

\* MergeList, and editAppConsent: the retired list goes in the same edit, unless
\* it is in a shape the editor leaves alone.
Edited(t, ask, odd) ==
    CASE ask.kind = "model" -> [t EXCEPT !.models = @ \cup {ask.arg}]
      [] ask.kind = "allow" -> [t EXCEPT !.apps = @ \cup {ask.arg}, !.retired = odd /\ @]
      [] ask.kind = "deny"  -> [t EXCEPT !.apps = @ \ {ask.arg}, !.retired = odd /\ @]

\* A command that ends without a word to the worker.
Over(ask) == [ask |-> ask, st |-> "over", text |-> Blank]

\* EditPolicy reads; a file that does not parse is refused, and so is a list in
\* a shape it cannot edit line by line; what changes nothing is not written.
Reads(c) ==
    /\ cmd[c].st = "new"
    /\ \E ask \in Asks :
         cmd' = [cmd EXCEPT ![c] =
                   IF \/ file.st = "broken"
                      \/ file.odd /\ ~Listed(file.text, ask)
                      \/ Edited(file.text, ask, file.odd) = file.text
                   THEN Over(ask) ELSE [ask |-> ask, st |-> "editing", text |-> file.text]]
    /\ UNCHANGED <<file, said, standing, worker, live, signal, load, beat, edits, faults>>

\* writePolicyAtomic; or it fails, or the command dies, and the file stays.
Writes(c) ==
    /\ cmd[c].st = "editing"
    /\ \/ /\ Put(Edited(cmd[c].text, cmd[c].ask, file.odd))
          /\ cmd' = [cmd EXCEPT ![c].st = "written", ![c].text = Blank]
          /\ UNCHANGED faults
       \/ Fault /\ cmd' = [cmd EXCEPT ![c] = Over(cmd[c].ask)] /\ UNCHANGED <<file, said, standing>>
    /\ UNCHANGED <<worker, live, signal, load, beat, edits>>

\* The file still says what the command put there.
Stands(c) ==
    /\ file.st = "whole"
    /\ Listed(file.text, cmd[c].ask)

\* A channel that holds no signal drops those that find the handler at work.
SignalsTheIdle(c) ==
    /\ cmd[c].st = "written"
    /\ worker = "up"
    /\ cmd' = [cmd EXCEPT ![c].st = "told"]
    /\ signal' = (signal \/ load["handler"].st = "idle")
    /\ standing' = standing \cup {d \in {c} : Stands(c)}
    /\ UNCHANGED <<file, said, worker, live, load, beat, edits, faults>>

\* Readvertise finds the workers and signals them. One that has no handler yet
\* dies of it: launchd starts it again, systemd counts it a clean exit; none at
\* all is said.
Signals(c) ==
    /\ cmd[c].st = "written"
    /\ \/ /\ worker = "up" /\ signal' = TRUE
          /\ cmd' = [cmd EXCEPT ![c].st = "told"] /\ UNCHANGED worker
          /\ standing' = standing \cup {d \in {c} : Stands(c)}
       \/ /\ worker = "starting" /\ worker' \in {"down", "ended"}
          /\ cmd' = [cmd EXCEPT ![c].st = "told"] /\ UNCHANGED signal
          /\ standing' = standing \cup {d \in {c} : Stands(c)}
       \/ /\ worker \in {"down", "ended"}
          /\ cmd' = [cmd EXCEPT ![c] = Over(cmd[c].ask)] /\ UNCHANGED <<worker, signal, standing>>
    /\ UNCHANGED <<file, said, live, load, beat, edits, faults>>

\* A command that dies after its edit tells nobody.
CommandDies(c) ==
    /\ cmd[c].st = "written" /\ Fault
    /\ cmd' = [cmd EXCEPT ![c] = Over(cmd[c].ask)]
    /\ UNCHANGED <<file, said, standing, worker, live, signal, load, beat, edits>>

-----------------------------------------------------------------------------
\* A reload that adds consent to what it has.
MergesConsent(old, new) ==
    [apps |-> old.apps \cup new.apps, models |-> old.models \cup new.models,
     retired |-> new.retired, block |-> new.block]

\* reload: the lists merge, a consent and a record replace.
Merged(old, new) ==
    [apps |-> new.apps, models |-> old.models \cup new.models,
     retired |-> new.retired, block |-> new.block]

\* LoadPolicy at the start; a file that cannot be read or parsed leaves the
\* defaults, which have no path.
Starts ==
    /\ worker = "down"
    /\ worker' = "starting"
    /\ live' = IF file.st = "broken" THEN [path |-> FALSE, text |-> Blank]
               ELSE [path |-> TRUE, text |-> Merged(Blank, file.text)]
    /\ UNCHANGED <<file, said, standing, cmd, signal, load, beat, edits, faults>>

\* signal.Notify.
Notifies ==
    /\ worker = "starting" /\ worker' = "up"
    /\ UNCHANGED <<file, said, standing, cmd, live, signal, load, beat, edits, faults>>

WorkerDies ==
    /\ worker \in {"starting", "up"} /\ Fault
    /\ worker' = "down" /\ signal' = FALSE /\ beat' = {}
    /\ load' = [r \in Loaders |-> [st |-> "idle", file |-> Missing]]
    /\ UNCHANGED <<file, said, standing, cmd, live, edits>>

\* A person starts what its service manager left.
StartedByHand ==
    /\ worker = "ended" /\ worker' = "down"
    /\ UNCHANGED <<file, said, standing, cmd, live, signal, load, beat, edits, faults>>

Alone(r) == Overlap \/ \A q \in Loaders \ {r} : load[q].st = "idle"

\* The handler takes a signal.
Takes ==
    /\ worker = "up" /\ signal /\ load["handler"].st = "idle" /\ Alone("handler")
    /\ signal' = FALSE
    /\ load' = [load EXCEPT !["handler"].st = "asked"]
    /\ UNCHANGED <<file, said, standing, cmd, worker, live, beat, edits, faults>>

\* A pull the cluster asked for has put its model in the file (ModelPull) and
\* reloads. An edit that is refused ends it.
Pulls(m) ==
    /\ worker = "up" /\ load["pull"].st = "idle" /\ Alone("pull")
    /\ edits < MaxEdits /\ edits' = edits + 1
    /\ file.st # "broken" /\ (file.odd => m \in file.text.models)
    /\ \/ m \in file.text.models /\ UNCHANGED <<file, said, standing>>
       \/ m \notin file.text.models /\ Put([file.text EXCEPT !.models = @ \cup {m}])
    /\ load' = [load EXCEPT !["pull"].st = "asked"]
    /\ UNCHANGED <<cmd, worker, live, signal, beat, faults>>

\* reload reads before it locks; a Policy without a path has nothing to read.
LoadReads(r) ==
    /\ load[r].st = "asked"
    /\ load' = [load EXCEPT ![r] = IF live.path THEN [st |-> "read", file |-> [file EXCEPT !.odd = FALSE]]
                                   ELSE [@ EXCEPT !.st = "idle"]]
    /\ UNCHANGED <<file, said, standing, cmd, worker, live, signal, beat, edits, faults>>

\* A file that is gone or does not parse changes nothing.
LoadApplies(r) ==
    /\ load[r].st = "read"
    /\ live' = IF load[r].file.st = "whole"
               THEN [live EXCEPT !.text = Merged(live.text, load[r].file.text)]
               ELSE live
    /\ load' = [load EXCEPT ![r] = [st |-> "idle", file |-> Missing]]
    /\ UNCHANGED <<file, said, standing, cmd, worker, signal, beat, edits, faults>>

\* A home's stream takes its inventory anew on every beat.
Beats(h) ==
    /\ worker = "up"
    /\ beat' = IF h \in live.text.apps THEN beat \cup {h} ELSE beat \ {h}
    /\ UNCHANGED <<file, said, standing, cmd, worker, live, signal, load, edits, faults>>

Next ==
    \/ Hand \/ Starts \/ Notifies \/ WorkerDies \/ StartedByHand \/ Takes
    \/ \E c \in Commands : Reads(c) \/ Writes(c) \/ Signals(c) \/ CommandDies(c)
    \/ \E m \in Models : Pulls(m)
    \/ \E r \in Loaders : LoadReads(r) \/ LoadApplies(r)
    \/ \E h \in Homes : Beats(h)

Spec == Init /\ [][Next]_vars

\* The service manager starts the worker, its goroutines run, the streams beat.
FairSpec ==
    /\ Spec
    /\ WF_vars(Starts) /\ WF_vars(Notifies) /\ WF_vars(Takes)
    /\ \A r \in Loaders : WF_vars(LoadReads(r) \/ LoadApplies(r))
    /\ \A h \in Homes : WF_vars(Beats(h))

-----------------------------------------------------------------------------
Texts == [apps : SUBSET Homes, models : SUBSET Models, retired : BOOLEAN, block : 0..MaxEdits]
Files == [st : {"missing", "whole", "broken"}, odd : BOOLEAN, text : Texts]

PolicyTypeOK ==
    /\ file \in Files
    /\ said \subseteq (SUBSET Homes) \X (0..MaxEdits) /\ standing \subseteq Commands
    /\ cmd \in [Commands -> [ask : Asks, text : Texts,
                             st : {"new", "editing", "written", "told", "over"}]]
    /\ worker \in {"down", "starting", "up", "ended"} /\ signal \in BOOLEAN
    /\ live \in [path : BOOLEAN, text : Texts]
    /\ load \in [Loaders -> [st : {"idle", "asked", "read"}, file : Files]]
    /\ beat \subseteq Homes /\ edits \in 0..MaxEdits /\ faults \in 0..MaxFaults

\* What the worker goes by is what one file said, never half of one and half of
\* another, however files, starts and reloads follow each other.
OneFile == <<live.text.apps, live.text.block>> \in said

\* The worker goes by it, and the cluster it is about has been told.
Heeded(c) ==
    /\ Listed(live.text, cmd[c].ask)
    /\ cmd[c].ask.kind = "allow" => cmd[c].ask.arg \in beat
    /\ cmd[c].ask.kind = "deny" => cmd[c].ask.arg \notin beat

\* "The running worker was signalled; the cluster sees this on the worker's next
\* heartbeat" (apps_consent.go): what a command said of its consent or its model
\* comes to be so, unless the file is changed again or the signal ended the worker.
Told(c) == c \in standing /\ worker # "ended"

\* ... and the worker found a file it could read, or none, at its start.
WordReachesTheCluster ==
    \A c \in Commands : Told(c) ~> (Told(c) /\ live.path => Heeded(c))

=============================================================================
