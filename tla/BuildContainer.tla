--------------------------- MODULE BuildContainer ---------------------------
(***************************************************************************)
(* One machine's container builds against its Docker daemon                *)
(* (tools/pipeline_container.go, pipeline_services.go,                     *)
(* pipeline_maintenance.go, the record of pipeline_capacity_unix.go): an   *)
(* attempt's network, services and command container are made one after    *)
(* the other, the command is run, what the daemon says of it is read, and  *)
(* everything is removed in the opposite order.  A docker client can fail, *)
(* be killed, or lose the reply to what the daemon does all the same, now  *)
(* or later; the daemon can go away; the worker can die.  MachineCapacity  *)
(* has the lock and what else may hold it; here one worker holds it at a   *)
(* time.                                                                   *)
(***************************************************************************)
EXTENDS Naturals

CONSTANTS
    MaxServices,
    MaxAttempts,  \* bound: attempts at a build
    MaxMishaps    \* bound: clients that fail, deaths, outages, disk errors

ContainerAssumption == {MaxServices, MaxAttempts, MaxMishaps} \subseteq Nat

\* What an attempt makes, by its place in the order: the network, the services,
\* the command's container.
Network == 0
Command == MaxServices + 1
Members == 0..Command
Attempts == 1..MaxAttempts

VARIABLES
    place,      \* where the worker is, and the member it is at
    building,   \* TRUE: an attempt in progress; FALSE: the reconciliation of one
    attempt, services,  \* the attempt the record names, and its services
    record,     \* pipeline.lock: none, attempt, cleanup
    dir,        \* the attempt's workspace is on disk
    cache,      \* and so is the cache it mounts
    state,      \* state[a][m]: absent, created, running, exited
    lost,       \* what the daemon was told by clients that are gone
    daemon,     \* the daemon answers
    over,       \* the step's context ended
    unsure,     \* a removal was not confirmed
    result,     \* none, exit, failed, uncertain
    healthy,    \* history: the services ran when the command exited
    mishaps

container_vars ==
    <<place, building, attempt, services, record, dir, cache, state, lost, daemon, over, unsure, result,
      healthy, mishaps>>

Mishap == mishaps < MaxMishaps /\ mishaps' = mishaps + 1
Mine(m) == state[attempt][m]
At(s, m) == place' = [step |-> s, of |-> m]
Is(s) == place.step = s
Services == 1..services
First == IF services = 0 THEN Command ELSE Network

Nothing == [m \in Members |-> "absent"]

ContainerInit ==
    /\ place = [step |-> "idle", of |-> Command] /\ building = FALSE
    /\ attempt = 0 /\ services = 0
    /\ record = "none" /\ dir = FALSE /\ cache = TRUE
    /\ state = [a \in Attempts |-> Nothing] /\ lost = {} /\ daemon = TRUE
    /\ over = FALSE /\ unsure = FALSE /\ result = "none" /\ healthy = FALSE
    /\ mishaps = 0

outside == <<state, lost, daemon, healthy>>

-----------------------------------------------------------------------------
\* An attempt begins with nothing on record; its workspace is recorded, made and
\* fetched, and its cache is there.
Begins ==
    /\ Is("idle") /\ record = "none"
    /\ attempt < MaxAttempts /\ attempt' = attempt + 1
    /\ services' \in 0..MaxServices
    /\ building' = TRUE /\ record' = "cleanup" /\ dir' = TRUE /\ cache' = TRUE
    /\ over' = FALSE /\ unsure' = FALSE /\ result' = "none"
    /\ At("begin", Command)
    /\ UNCHANGED <<outside, mishaps>>

\* The names of everything are on record before the first call.
RecordsNames ==
    /\ Is("begin")
    /\ \/ record' = "attempt" /\ At("create", First) /\ UNCHANGED <<result, mishaps>>
       \/ Mishap /\ result' = "failed" /\ At("finish", Command) /\ UNCHANGED record
    /\ UNCHANGED <<building, attempt, services, dir, cache, outside, over, unsure>>

\* What a client that is done leaves to do.
Proceeds(m) ==
    CASE m = Network -> At("create", 1)
      [] m \in Services -> IF m < services THEN At("create", m + 1) ELSE At("ready", 1)
      [] OTHER -> At("attached", m)

Performed(a, op, m) ==
    CASE op = "create" /\ state[a][m] = "absent" -> [state EXCEPT ![a][m] = "created"]
      [] op = "start" /\ state[a][m] = "created" -> [state EXCEPT ![a][m] = "running"]
      [] OTHER -> state

\* serviceControl, runGroup of `docker create': the network has no image.
Creates ==
    /\ Is("create") /\ daemon /\ ~over
    /\ state' = Performed(attempt, "create", place.of)
    /\ IF place.of = Network THEN Proceeds(Network) ELSE At("check", place.of)
    /\ UNCHANGED <<building, attempt, services, record, dir, cache, lost, daemon, over, unsure,
                   result, healthy, mishaps>>

\* checkPipelineImagePlatform.
Checks ==
    /\ Is("check") /\ daemon /\ ~over
    /\ At("start", place.of)
    /\ UNCHANGED <<building, attempt, services, record, dir, cache, outside, over, unsure, result,
                   mishaps>>

StartsContainer ==
    /\ Is("start") /\ daemon /\ ~over
    /\ state' = Performed(attempt, "start", place.of)
    /\ Proceeds(place.of)
    /\ UNCHANGED <<building, attempt, services, record, dir, cache, lost, daemon, over, unsure,
                   result, healthy, mishaps>>

\* waitPipelineService, one service after the other.
Ready ==
    /\ Is("ready") /\ daemon /\ ~over /\ Mine(place.of) = "running"
    /\ IF place.of < services THEN At("ready", place.of + 1) ELSE At("create", Command)
    /\ UNCHANGED <<building, attempt, services, record, dir, cache, outside, over, unsure, result,
                   mishaps>>

\* An image that is not to be had, or of another platform; a service that ended
\* or never gets ready; a client that fails or is stopped with the context,
\* whatever becomes of what it asked for.
Asked == IF place.step \in {"create", "start"} THEN {<<attempt, place.step, place.of>>} ELSE {}

Concludes(why) == result' = why /\ At("remove", Command)

Attaching == Is("start") /\ place.of = Command

SetupFails ==
    /\ place.step \in {"create", "check", "start", "ready"}
    /\ ~Attaching
    /\ Concludes("failed")
    /\ \/ UNCHANGED <<lost, mishaps>>
       \/ over /\ lost' = lost \cup Asked /\ UNCHANGED mishaps
       \/ Mishap /\ lost' = lost \cup Asked
    /\ UNCHANGED <<building, attempt, services, record, dir, cache, state, daemon, over, unsure, healthy>>

\* `docker start --attach' ends with the command, or without it.
Detaches ==
    /\ \/ Is("attached") /\ Mine(Command) = "exited" /\ UNCHANGED <<lost, mishaps>>
       \/ /\ (Is("attached") \/ Attaching)
          /\ lost' = lost \cup Asked
          /\ Mishap \/ (~daemon /\ UNCHANGED mishaps)
    /\ IF over THEN Concludes("failed") ELSE At("inspect", Command) /\ UNCHANGED result
    /\ UNCHANGED <<building, attempt, services, record, dir, cache, state, daemon, over, unsure, healthy>>

\* The context ends: the client is killed, and the daemon may go on.
Stopped ==
    /\ over
    /\ (Is("attached") \/ Attaching)
    /\ Concludes("failed") /\ lost' = lost \cup Asked
    /\ UNCHANGED <<building, attempt, services, record, dir, cache, state, daemon, over, unsure,
                   healthy, mishaps>>

\* A client's exit is taken for the command's.
InspectsTheClient ==
    /\ Is("inspect")
    /\ IF services = 0 THEN Concludes("exit") ELSE At("still", 1) /\ UNCHANGED result
    /\ UNCHANGED <<building, attempt, services, record, dir, cache, outside, over, unsure, mishaps>>

\* The client's exit is no receipt: the container must have exited ...
Inspects ==
    /\ Is("inspect")
    /\ \/ /\ daemon /\ ~over /\ Mine(Command) = "exited"
          /\ IF services = 0 THEN Concludes("exit") ELSE At("still", 1) /\ UNCHANGED result
          /\ UNCHANGED mishaps
       \/ (~daemon \/ over \/ Mine(Command) # "exited") /\ Concludes("failed") /\ UNCHANGED mishaps
       \/ Mishap /\ Concludes("failed")
    /\ UNCHANGED <<building, attempt, services, record, dir, cache, outside, over, unsure>>

\* ... and every service must run still.
StillRuns ==
    /\ Is("still")
    /\ \/ /\ daemon /\ ~over /\ Mine(place.of) = "running"
          /\ IF place.of = services THEN Concludes("exit")
             ELSE At("still", place.of + 1) /\ UNCHANGED result
          /\ UNCHANGED mishaps
       \/ (~daemon \/ over \/ Mine(place.of) # "running") /\ Concludes("failed") /\ UNCHANGED mishaps
       \/ Mishap /\ Concludes("failed")
    /\ UNCHANGED <<building, attempt, services, record, dir, cache, outside, over, unsure>>

-----------------------------------------------------------------------------
\* removePipelineAttempt: the command, the services from the last, the network.
Onward(m) ==
    IF m = First THEN At("settle", Command)
    ELSE At("remove", IF m = Command THEN services ELSE m - 1)

\* A removal that failed is taken for one of what was never there.
RemovesHopefully ==
    /\ Is("remove")
    /\ \/ daemon /\ state' = [state EXCEPT ![attempt][place.of] = "absent"] /\ UNCHANGED mishaps
       \/ ~daemon /\ UNCHANGED <<state, mishaps>>
       \/ Mishap /\ UNCHANGED state
    /\ Onward(place.of)
    /\ UNCHANGED <<building, attempt, services, record, dir, cache, lost, daemon, over, unsure,
                   result, healthy>>

\* removePipelineContainer, network rm: what the daemon would not remove must be
\* missing from a listing it answers; one that is unsure does not stop the others.
Removes ==
    /\ Is("remove")
    /\ \/ /\ daemon /\ state' = [state EXCEPT ![attempt][place.of] = "absent"]
          /\ UNCHANGED <<unsure, mishaps>>
       \/ ~daemon /\ unsure' = TRUE /\ UNCHANGED <<state, mishaps>>
       \/ /\ Mishap /\ UNCHANGED state
          /\ unsure' = (unsure \/ ~daemon \/ Mine(place.of) # "absent")
    /\ Onward(place.of)
    /\ UNCHANGED <<building, attempt, services, record, dir, cache, lost, daemon, over, result, healthy>>

\* Only what is confirmed may become scratch to delete.
Settles ==
    /\ Is("settle")
    /\ \/ ~unsure /\ record' = "cleanup" /\ UNCHANGED <<result, mishaps>>
       \/ unsure /\ result' = "uncertain" /\ UNCHANGED <<record, mishaps>>
       \/ ~unsure /\ Mishap /\ result' = "uncertain" /\ UNCHANGED record
    /\ At("finish", Command)
    /\ UNCHANGED <<building, attempt, services, dir, cache, outside, over, unsure>>

\* finishPipelineWorkspace: the workspace goes ...
FinishesWorkspace ==
    /\ Is("finish")
    /\ \/ record # "cleanup" /\ At("retain", Command) /\ UNCHANGED <<dir, result, mishaps>>
       \/ record = "cleanup" /\ dir' = FALSE /\ At("clear", Command) /\ UNCHANGED <<result, mishaps>>
       \/ /\ record = "cleanup" /\ Mishap
          /\ result' = "uncertain" /\ At("retain", Command) /\ UNCHANGED dir
    /\ UNCHANGED <<building, attempt, services, record, cache, outside, over, unsure>>

\* ... and then the record.
Clears ==
    /\ Is("clear")
    /\ \/ record' = "none" /\ UNCHANGED <<result, mishaps>>
       \/ Mishap /\ result' = "uncertain" /\ UNCHANGED record
    /\ At("retain", Command)
    /\ UNCHANGED <<building, attempt, services, dir, cache, outside, over, unsure>>

\* The end of a build prunes the caches, never beneath what may still run; the
\* lock is closed.
Prunes ==
    /\ Is("retain")
    /\ cache' \in IF building /\ record = "none" THEN BOOLEAN ELSE {cache}
    /\ At("idle", Command) /\ building' = FALSE
    /\ UNCHANGED <<attempt, services, record, dir, outside, over, unsure, result, mishaps>>

\* One try, at the worker's start.
ReconcilesAtStart ==
    /\ Is("idle") /\ record # "none" /\ result = "none"
    /\ record = "attempt" => daemon
    /\ unsure' = FALSE /\ building' = FALSE
    /\ IF record = "attempt" THEN At("remove", Command) ELSE At("finish", Command)
    /\ UNCHANGED <<attempt, services, record, dir, cache, outside, over, result, mishaps>>

\* Maintenance, or a build that finds a record: what was interrupted is removed
\* on the daemon it was made on, a workspace without one.
Reconciles ==
    /\ Is("idle") /\ record # "none"
    /\ record = "attempt" => daemon
    /\ unsure' = FALSE /\ building' = FALSE
    /\ IF record = "attempt" THEN At("remove", Command) ELSE At("finish", Command)
    /\ UNCHANGED <<attempt, services, record, dir, cache, outside, over, result, mishaps>>

\* A pass of maintenance that finds no record, or comes to nothing.
FindsNothing == Is("idle") /\ UNCHANGED container_vars

-----------------------------------------------------------------------------
\* The daemon does what a client that is gone had asked.
DaemonActs ==
    /\ daemon
    /\ \E op \in lost :
         state' = Performed(op[1], op[2], op[3]) /\ lost' = lost \ {op}
    /\ UNCHANGED <<place, building, attempt, services, record, dir, cache, daemon, over, unsure,
                   result, healthy, mishaps>>

Running(a) == {m \in Members : state[a][m] = "running"}

\* A container ends on its own.
Exits ==
    /\ \E a \in Attempts, m \in Members :
         /\ m \in Running(a)
         /\ state' = [state EXCEPT ![a][m] = "exited"]
         /\ healthy' = IF m = Command THEN Services \subseteq Running(a) ELSE healthy
    /\ UNCHANGED <<place, building, attempt, services, record, dir, cache, lost, daemon, over, unsure,
                   result, mishaps>>

\* The daemon goes, with what it ran or without, and comes back.
DaemonGoes ==
    /\ daemon /\ Mishap /\ daemon' = FALSE
    /\ \/ UNCHANGED <<state, healthy>>
       \/ /\ state' = [a \in Attempts |-> [m \in Members |->
                         IF m \in Running(a) THEN "exited" ELSE state[a][m]]]
          /\ healthy' = IF \A a \in Attempts : Command \notin Running(a) THEN healthy ELSE services = 0
    /\ lost' \in {lost, {}}
    /\ UNCHANGED <<place, building, attempt, services, record, dir, cache, over, unsure, result>>

DaemonComes ==
    /\ ~daemon /\ daemon' = TRUE
    /\ UNCHANGED <<place, building, attempt, services, record, dir, cache, state, lost, over, unsure,
                   result, healthy, mishaps>>

\* The step's deadline, a cancel, the loss of the stream.
ContextEnds ==
    /\ building /\ ~over /\ over' = TRUE
    /\ UNCHANGED <<place, building, attempt, services, record, dir, cache, outside, unsure, result, mishaps>>

\* The worker dies; the kernel drops its lock, and another takes its place.
WorkerDies ==
    /\ ~Is("idle") /\ Mishap
    /\ lost' = lost \cup Asked
    /\ At("idle", Command) /\ building' = FALSE
    /\ result' = "none"
    /\ UNCHANGED <<attempt, services, record, dir, cache, state, daemon, over, unsure, healthy>>

Working ==
    \/ RecordsNames \/ Creates \/ Checks \/ StartsContainer \/ Ready \/ SetupFails \/ Detaches \/ Stopped
    \/ Inspects \/ StillRuns \/ Removes \/ Settles \/ FinishesWorkspace \/ Clears \/ Prunes
    \/ Reconciles

ContainerNext ==
    \/ Begins \/ Working \/ FindsNothing \/ DaemonActs \/ Exits \/ DaemonGoes \/ DaemonComes
    \/ ContextEnds \/ WorkerDies

ContainerSpec == ContainerInit /\ [][ContainerNext]_container_vars

\* The worker's goroutine runs, the deadline comes, maintenance ticks, and the
\* daemon is started again.
FairContainerSpec ==
    /\ ContainerSpec
    /\ WF_container_vars(Working) /\ WF_container_vars(ContextEnds) /\ WF_container_vars(DaemonComes)

-----------------------------------------------------------------------------
ContainerTypeOK ==
    /\ place \in [step : {"idle", "begin", "create", "check", "start", "ready", "attached",
                       "inspect", "still", "remove", "settle", "finish", "clear", "retain"},
               of : Members]
    /\ attempt \in 0..MaxAttempts /\ services \in 0..MaxServices
    /\ record \in {"none", "attempt", "cleanup"}
    /\ {building, dir, cache, daemon, over, unsure, healthy} \subseteq BOOLEAN
    /\ state \in [Attempts -> [Members -> {"absent", "created", "running", "exited"}]]
    /\ lost \subseteq Attempts \X {"create", "start"} \X Members
    /\ result \in {"none", "exit", "failed", "uncertain"}
    /\ mishaps \in 0..MaxMishaps

\* Whatever clients, daemon and worker did, nothing of an attempt runs that the
\* record does not name, its workspace and its cache are there for as long as
\* its command runs, and no two attempts run at once.
RunsAreRecorded ==
    \A a \in Attempts :
      Running(a) # {} => /\ a = attempt /\ record = "attempt"
                         /\ Command \in Running(a) => dir /\ cache

\* An exit code is reported of a command that did end, with all its services
\* running to its end, and with nothing of it left.
ExitIsReal ==
    building /\ result = "exit" =>
      /\ healthy
      /\ Is("finish") => \A m \in Members : Mine(m) = "absent"

=============================================================================
