# memQL Cockpit in TLA+

`memql` turns a machine into a worker of one or more MemQL clusters. Most of
what can go wrong in it goes wrong between two of its goroutines, between two
of its processes, or across a crash, where a unit test hardly reaches. These
modules model that part of the code, TLC checks them on small instances, and
TLAPS proves the central results for every instance.

Paths below are relative to `src/internal/worker` unless they start with `src`.

* [The system](#the-system) - components, state, operations, interactions
* [The modules](#the-modules) - what each one models and how it maps to the code
* [What the runs show](#what-the-runs-show) - construction, bounds, fairness, time
* [What is proved](#what-is-proved)
* [Where the code and its documents disagree](#where-the-code-and-its-documents-disagree)
* [What is not modelled](#what-is-not-modelled)
* [Plan](#plan)

To check a run: `tlc -config MCStreams.cfg MCStreams`. To check the proofs of a
module: `tlapm StreamsProofs.tla`, and likewise `CommandsProofs.tla`,
`MachineCapacityProofs.tla`, `ModelCallsProofs.tla`; the proofs about
`BackupLedger`, `Download`, `McpConfig` and `Upload` stand at the end of these
modules themselves.

## The system

One worker process per account serves every cluster ("home") the machine is
paired with. `fleet.go` keeps a supervisor goroutine per home; each runs a
`Runner` (`loop.go`) that holds one bidirectional gRPC stream, and through it
serves tool calls, app sessions, model calls, and model pulls. Beside the
streams run backups, transfers, the workbench and pipeline janitors, and three
local sockets (control, consent, metrics). The commands a person types
(`memql login`, `access`, `cluster`, `worker ...`) are processes of their own
that meet the worker in files.

| Component | State it keeps | Operations | Correct when |
|---|---|---|---|
| model calls: `modelcall/session.go`, `limiter.go` | live calls by request id; slots taken per model and on the machine; a channel closed at every release; a call's context and first abort | Start, Cancel, StopAll, admit, run, watchdog, release | no ceiling is exceeded by several clusters together; no waiter sleeps beside a free slot; every call ends once, and says why |
| delta stream: `modelcall/session.go:893-990`, `watchdog` | next number, time of last send, time of last output | emit, keepalive, runtimeProgress, idleExpired | one numbering; nothing of the answer behind the End; keepalives in cadence; a silent runtime stopped although keepalives go out |
| model runtimes: `modelcall/{ollama,openai,modalities}*.go`, `models/` | one answer's stream; the inventory | chat, embed, speak, probe, discover | a broken answer is not a finished one; only what is there and allowed is offered |
| host resources: `modelcall/resources*.go` | a gate, a lease file, the set of models this machine loaded | acquire, release | one local generation at a time across processes; what stays in memory is unloaded before another is admitted; the reserve stays free |
| worker stream: `loop.go` runStream, handleMessage; `connect.go` | the open stream, tool calls in flight and their contexts, `active` | connect, dispatch, cancel, beat, drain, Close | nothing of one stream reaches the next; the work of a lost stream ends; a cancel finds its call |
| advertisement: `loop.go` heartbeatLoop, `modelinventory.go` | cached inventory, fingerprint the stream registered with, time of last re-registration, a one-use bypass | refresh tick, RequestImmediateReadvertise, re-register | what the cluster routes on becomes what the machine offers; work is never cut for a label; a flapping runtime cannot flap the stream |
| refusal hold: `refusal.go`, `Run` | backoff, streak, hold, `refused.json` | afterConnectFailure, afterConnect, Run's waits | a hold is earned, cheap and temporary |
| app sessions: `appsession/` | sessions by id, a follow-up queue, the bearer file, a Library client, a workspace, a numbered record | Start, Control, turns, renew, record, push, teardown | bearers do not outlive the session; the only copy of what an app made is not deleted; a successful session ran all it accepted; its record says what happened |
| session configuration: `appsession/mcpconfig.go` | `.mcp.json`, its backup, a ledger of bearers on disk | write, Renew, Remove, Sweep | a bearer in `.mcp.json` is one the next sweep finds, where removals succeed; the user's file comes back |
| workbenches: `workbench/`, `tools/workbench.go` | two slot files, tombstones, containers | Execute, create, retire, Sweep, Reconcile | no container the machine does not know of; one per goal; memory spent once |
| pipeline steps: `tools/pipeline_*.go` | `pipeline.lock` and its record, a scratch directory, a process group or containers, the step's output | acquire, begin, runGroup, create, cleanup, reconcile | alone on the machine; interrupted work accounted for until it is gone; secrets masked; what it returns is what it made |
| transfers: `transfer/` | an upload id and its staged blocks; a partial file and its journal | Run, RunPending, upload, download | a finished file is whole and replaces nothing; a stored version is one version; pause is heard |
| backups: `backup/` | a ledger (snapshot and journal), a sweep lock | sweep, push, verify, sync, syncDeletions | nothing changed is lost; a receipt that was acknowledged is read again; an unmounted disk deletes nothing |
| consent: `consent/` | one window, a persisted pause, pending approvals | Grant, Revoke, Allows, Approve, Deny | nothing runs outside a window; a stop reaches what is pending and survives a restart |
| homes and control: `fleet.go`, `control.go`, `homes.go` | `workers.yaml`, a runner per home | SetHomeEnabled, Run, status | a pause that was reported survives a restart; a home stays controllable |
| model pulls: `modelpull.go` | live pulls, `policy.yaml` | Start, Cancel, StopAll | pull, then allow, then reload, then End, then re-advertise |
| setup progress: `setupprogress.go`, `setupreport.go` | the plan, its stages, the person's answers, `setup.json` | Apply, skip, keepalive | a stage is never promised that will not come; the end stands |
| inference setup: `inference/` | archives, the unit, models, the allow list | plan, stage, run | a setup that dies anywhere is finished by the next; nothing is said of what is not there |
| harness: `harness/` | one turn of Claude Code or Codex | Turn, Stop | a turn has one result, and its refusals are not successes |
| tool policy and tools: `tools/` | `policy.yaml`, sandbox roots | Load, Reload, Dispatch, read, exec | the worker goes by one text of the file; what a call is told is what happened |
| credentials: `src/internal/{auth,config}` | tokens in a file or in the keyring, one sign-in at a time | login, refresh, logout, migrate | a sign-in is not lost by the machine's own doing; a sign-in is told only when it is there |
| clusters and commands: `src/cmd/memql`, `src/internal/access` | `clusters.yaml`, the selected one, a token per name | add, remove, login, report | a token is shown to the cluster that gave it; a report guesses nothing |

Not modelled, see [below](#what-is-not-modelled): the opening of files for a
session, metrics, permissions and services, crash logs and lint, installers and
the menu, pairing, app detection.

**How they interact.** The `Runner` calls the session, call and pull managers
on the goroutine that reads the stream, so each `Start` registers what it
starts before it returns and does everything slow elsewhere. Their results go
out on the connection the request came on. `Limiter` and `hostResources` are
shared by the managers of all homes, and `hostResources` also by all worker
processes, through a lease file. `RequestImmediateReadvertise` joins a pull
(or a SIGHUP) to the heartbeat loop of every home, which closes its own
connection to re-register. The workbench slots and the pipeline reservation
are shared by all worker processes of the account, through `flock` and the
records in the locked files. The app session's bearer is written by the
session and, after a crash, deleted by the next process's `Sweep`. `policy.yaml`
is edited by commands and pulls and read again at a signal; `workers.yaml` and
the sign-in store are written by commands and worker alike.

**What is hard.** Two numberings joined under a lock and sent outside it;
waiters woken by a channel that is closed and replaced; a cancel that may
precede, follow or race what it cancels; a stream lost with work in flight, and
the next one opened at once; caches with a floor, a bypass and a TTL; work
accepted into a loop that is exiting; records on disk written before what they
name and cleared after, with a crash between any two steps and a second process
reading them; rotating refresh tokens in a store nobody locks; replies lost
after the server acted; children that outlive the process group they were
started in; waits that must be long enough not to flood a cluster and short
enough to come back to it.

## The modules

Each module is one component. A step of a model is what the code does between
two points where another goroutine, process or crash can be seen; a mutex
section is one step. Every definition's code is listed in `PROJECT.json`.

### Calls of models

**`ModelCalls`** - the `Manager`s of several homes and the `Limiter` they
share. `pc[c]` is where call `c` is: resolving, trying to claim, on the channel
it took (`freed[c]`), generating, ending, released. `limiter` holds the two
counters and the generation of the channel that `release` closes; a waiter that
took an older generation is awake. `machineCap` and the model's own ceiling are
read once, from the inventory at resolution, as the code reads them. `Cancel`
and `StopAll` go through `abortAll`, whose first reason stays. The runtime is
nondeterministic: it answers, fails, or stays silent until its deadline.
`RationedCalls` says what callers are promised, with no counter and no channel:
calls begin and end, and a call may begin only when fewer than its ceilings are
in flight. `ModelCalls` implements it under the mapping in `ModelCalls.tla`.

**`DeltaStream`** - one call's output: the generation goroutine and the
watchdog both number a delta under `deltaStream.mu` and hand it to the
connection after the unlock, in either order. Clocks count in the code's own
terms (keepalive cadence, half-cadence tick, idle ceiling).

**`RuntimeAnswer`** - what one call makes of its runtime's answer, for each
kind of call: pieces, reasoning, tool calls in fragments, usage, an error inside
the stream, a stream that breaks off, a cancel between any two of them.

**`HostResources`** - who may use the machine's memory. `gate[p]` is the mutex
of process `p`, `lease` the file lock of all, `record` the file of models a
worker has loaded, `held[m]` what a runtime holds at our asking. `acquire` is
split where another process, a runtime or a crash can be seen: gate, lease and
reading of the record, one unload, one save, the probe, the verdict on it.
Other programs take and give memory at any time.

**`ModelDiscovery`** - which models the machine offers: the probe of Ollama
(the listing, then each model by itself), of the declared runtimes, duplicates,
the floor, and the list the cluster is told, while models come and go between
two questions.

**`ModelPull`** - pulls asked for by the cluster: the runtime's pull, the edit
of `policy.yaml` (read, edit, rename, no lock), the reload, the End and the
re-advertisement that closes the very stream the End rides.

### The stream

**`WorkerStream`** - `Run`'s receiver, its heartbeat loop, tool calls and other
work, drain, cancel, and Close, over successive streams.

**`Advertisement`** - the heartbeat loop's evaluation of the inventory, split
where the code reads (probe, busy, floor, bypass) and where it closes the
connection, against requests, machine changes, work, and lost streams.

**`Heartbeat`** - what the engine knows from Register to the beats: the
handshake with inventories taken before the dial, ticks and asked-for beats for
the installer's report, a `Send` that blocks when the cluster stops reading,
and the stall that ends the stream.

**`RefusalHold`** - `Run`'s waits and the refusal hold, in seconds, across
accepted, refused and unreachable attempts, lost streams, restarts, re-pairings
and failing writes of `refused.json`.

### App sessions

**`AppSession`** - one id started over and over: resolve, configure, turns,
follow-ups, renewal on another goroutine, cancel, ceiling, panic, push,
teardown, End, forget.

**`SessionRecord`** - what the session tells while it runs: narration and
actions of several goroutines numbered and sent one at a time with a retry,
under a limit that narration alone is subject to; and the digests of the files
an action names, remembered or hashed again.

**`SessionOutputs`** - the inputs a session is handed, what its app makes, and
what of that is in the Library when its directory goes. Each line that names an
output left out may be dropped on its way, as `emitChunk` drops it at the
transcript's limit or after three failed sends (`unheard`).

**`McpConfig`** - `.mcp.json`, the backup of the user's own, temp files and the
ledger, with a crash between every two steps of laying out, renewing, removing
and sweeping, the user editing the file while no session runs. Each removal and
rename whose error the code ignores may fail, and so may the sweep's reading of
an entry or of their directory. Two histories say what such a failure or a crash
inside a write has put out of reach: `refused`, sessions whose bearer a removal
or a sweep failed on, and `cutoff`, sessions that left a temp file.

**`CodexTurn`** - two turns of one Codex app-server: its one pipe of answers
and notifications, the reader goroutine, and `Turn` waiting on another for the
answer, the completion, the death of the process or its context.

**`ClaudeTurn`** - the turns of one Claude Code session, a process per turn
that prints in an order of its own, exits with any status, leaves commands
behind that keep the pipe open, and is told to stop.

### Workbenches and builds

**`MachineCapacity`** - the account's worker processes, the two workbench
slots, the admission lock, tombstones, the build reservation and its record,
containers, the scratch directory, a crash at every step, and a Docker daemon
that goes away. `slot[h]` is the flock that goroutine `h` holds, and dies with
its process; `slotRecord`, `ended`, `pipeRecord`, `scratch`, `containers` stay.

**`StepOutput`** - one command of a step: its process group, one of its pipes,
`pump` and its chunker with the masking of secrets, stop, grace, kill and the
two drain bounds.

**`BuildContainer`** - the network, services and command container of an
attempt against a daemon that fails, answers late, loses replies or goes away,
and a worker that dies.

**`StepFiles`** - what one step is asked, runs and returns: the checks of the
request, the checkout by three commands of git, the artifacts found, packed and
sent in pieces.

### Files

**`Upload`** - from the job a person creates in the cluster to the stored
version: the machine's copy of the job, the manifest that survives it, blocks,
pause, lost replies, a source the owner edits.

**`Download`** - the partial with a random name, the journal that counts its
verified blocks, the hard link that publishes it, and the files around it.

**`BackupLedger`** - the snapshot and the journal of the ledger, and a power
failure that leaves any prefix of what was not synced. **`BackupSweep`** - one
file of a watched folder through sweeps of it: scan, push or sync, verification,
deletions, an unmounted disk.

### The person at the machine

**`Consent`** - the windows of each home, the stop of directory reads that
outlives the process, and the strict calls that wait for a person; a step is
one critical section. **`Fleet`** - one supervisor per home, the pause switch of
the control socket, and `workers.yaml`, which commands rewrite in place under
no lock of the worker's. **`SetupProgress`** - the installer's reports, each on
a connection of its own, the loop that repeats a running stage, the skip.
**`RuntimeSetup`** - `memql worker setup --inference` on Linux, dying or failing
at any step and run again. **`MachinePolicy`** - `policy.yaml` from the commands
that edit it over the signal and the reload to the beats that tell each cluster.

### Commands and tools

**`SignIn`** - the pair of tokens in two stores under commands and workers,
with an identity service that rotates the refresh token at each use.
**`InteractiveLogin`** - one device-flow or browser-flow sign-in against
identity's clock, in units of five seconds, with polls that are lost and answers
that are not identity's own. **`ClusterList`** - `cluster add`
and `remove`, `login` and `access` of several shells beside the desktop
extension; an edit of the list is one step under its lock, the discovery before
and the token behind it are steps of their own. **`FileRead`** - one read of a
file, by bytes, lines or search, while others write it and replace its
directory. **`ExecCall`** - one shell command of a call: gates, directory,
process group, two deadlines, the cancel, and what the caller is told.

### How the modules meet

`WorkerStream` gives the calls of `ModelCalls` and the session of `AppSession`
their cancels (`StopAll` on loss and drain); `Advertisement` takes `busy` from
both; `RefusalHold` is the outer loop around `WorkerStream`; `AppSession`'s
writes of its bearer are `McpConfig`'s steps taken as one; `BackupSweep` sends a
synced file by `Upload` taken as one step and writes the ledger by
`BackupLedger`'s durable save; `ModelCalls` has a claimed slot where
`HostResources` begins; `BuildContainer` holds the reservation of
`MachineCapacity`.

## What the runs show

Seven runs pass; five find a disagreement and are [below](#where-the-code-and-its-documents-disagree).

| Run | Parts | Shows |
|---|---|---|
| `model_calls` | ModelCalls, DeltaStream, HostResources, RuntimeAnswer | `CeilingsHold` over the calls and not the counters, `NoLostWakeup`, `ImplementsRationedCalls`; `AnswerIsInOrder` (one numbering, nothing behind the End), `SilenceIsBounded` (keepalives, a wedged runtime stopped); `MachineHasRoom`; `AnswerIsWhole` |
| `machine_capacity` | MachineCapacity, StepOutput, BuildContainer | `NothingIsUnaccounted`, `BuildsAreAlone`, `RoomIsSpentOnce`; `BuildsAreWhole` (output masked however it is cut, containers recorded before they run); `BuildsEnd` |
| `reconnect` | RefusalHold, Advertisement, MachinePolicy, Heartbeat | `RequestsShow`, `WaitsAreEarned`, `WorkerComesBack` |
| `streams` | WorkerStream, AppSession, SessionRecord (two parts), CodexTurn, ClaudeTurn, ModelCalls (ends) | `StreamsAreApart`, `CancelIsHeard`, `SessionsEndWhole`, `ActionsAreWhole`, `TurnTellsItself`, `FirstAbortIsTold`, `WorkEnds` |
| `files` | McpConfig, SessionOutputs, Upload, Download, BackupLedger, BackupSweep | `BearerIsTracked`, `UserConfigComesBack`, `StoredIsTrue`, `ReceiptsSurvive`, `DownloadIsWhole`, `NothingIsLost`, `FilesSettle` |
| `local` | Consent, Fleet, ModelPull, SetupProgress, RuntimeSetup | `DecisionsSurvive`, `StopsTakeHold`, `PausesHold`, `OfferedIsPulled`, `OwnCloseCutsNothing`, `LocalWorkEnds` |
| `commands` | SignIn, InteractiveLogin, ClusterList, ModelDiscovery, FileRead, ExecCall, StepFiles | `SignInsAreKept`, `TokensAreOfTheirCluster`, `OutcomesAreEarned`, `ExecToldTrue`, `CommandsGuessNothing` |

**How a run of several parts is built.** A run's module (`MC...`) is the
disjoint sum of the components it names. The first step chooses the behaviour's
`subject`; from then on it is a behaviour of that component alone, and every
conjunct of a property that speaks of a component is guarded by its being the
subject. The state spaces add and do not multiply, and nothing is hidden: a
component's behaviours in the sum are exactly its behaviours by itself.
Components that theorems are about are EXTENDed, so that the property the run
checks is the definition that the theorem proves; their variables stand still at
their initial values in the behaviours of the others. The rest are
instantiated, and their variables have one value outside any part that uses
them. Fairness is stated per part, under its subject, so that a part that is
not in play owes nothing. Where several parts owe an end, the run states it as
one leads-to formula whose two sides name the subject (`WorkEnds`, `FilesSettle`,
`LocalWorkEnds`, `WorkerComesBack`, `BuildsEnd`): as the parts exclude each
other it says the same of each. Where a component is symmetric in a set (tool
calls, shells, commands), a leads-to property is stated of one member that
stands for all. The processes that share state in the code are always in the
same part.

**Bounds.** Every bound is a `CONSTANT` or an argument of an `INSTANCE` that
names it.

| Run | Instance |
|---|---|
| `model_calls` | queue: 3 calls with an id each, one home, one model whose ceiling changes between 1, 2 and "not offered", no aborts (`AbortBound`); delta stream: keepalive 3, idle ceiling 4, deadline 7 (silence past the ceiling and the watchdog's tick is reached before it), two pieces; machine: 2 processes, 2 calls, 2 warm models and one on demand, working sets 1 and 2 of 3 units with a reserve of 1, others 0 or 1, 1 fault; answer: 2 pieces, 2 tool calls of 2 fragments |
| `machine_capacity` | 2 processes, 2 goals of one enrollment, 2 slots, room for 1 or 2 workspaces, 2 names, 1 crash, 1 outage; output: texts of up to 4 bytes, reads of 2, three sets of secrets, 1 pending line; containers: 1 service, 2 attempts, 2 faults |
| `reconnect` | hold in seconds: streak 3, grace 30, backoff 1 to 15, hold 60, the longest hold cut from one hour to 120 so that it doubles once and is capped; advertisement in units of 30 s: tick 2, TTL 3, floor 4 as in the code, 4 events, 2 requests; policy: 2 commands, 1 home, 1 model, 1 edit of the owner's, 1 fault; heartbeat: interval 2, spacing 1, grace 1, refresh 2, 2 events |
| `streams` | 2 streams, 2 tool calls, one other piece of work, 1 drain; one session id, 2 follow-ups, 3 messages, 2 renewals; record: 2 emitters, 3 bytes, 2 attempts, 3 items, 2 faults, and for digests 1 emitter, 2 items, clock 3, 1 renewal; Codex: 2 turns, 2 actions, 1 line in the pipe; Claude: 2 turns, 1 call; model calls: 2 homes that reuse one id, 2 calls, a ceiling of 1, aborts of both in every order |
| `files` | 2 successive sessions, 2 edits of the user's, 2 crashes, 2 failures; outputs: caps 1 and 2, 2 writes; upload: 2 blocks, window 2, 2 edits, 2 faults, 1 pause; download: 2 blocks, 3 attempts, 2 faults, 2 changes by others; ledger: 2 processes, 2 paths, 1 kind of record, sequences to 3, 1 fault; sweep: 2 edits, 1 change in the cloud, 1 move, 2 faults |
| `local` | consent: one home, 2 calls, 2 grants, 1 stop, 1 fault; homes: 2, 2 operations, 2 faults, commands not at the same moment as the switch; pulls: 2 models, 3 starts, 1 cancel, 1 fault; setup: 2 stages, 2 keepalives, 2 faults; runtime: base and ROCm archives, 2 models, 2 releases, 3 runs, 2 faults |
| `commands` | sign-in: 2 interchangeable commands, one worker, 3 refresh tokens, 1 mishap; login: intervals 0 to 4 units of a window of 4; list: 2 shells, 2 names, 2 clusters, 3 edits, 1 fault; discovery: 2 names, 4 builds, 3 policies, 3 machines, 2 probes, 1 change; read: 6 files, 1 change; exec: 2 writes, 2 changes; step files: 7 requests, 3 policies, 5 trees, 2 artifacts, 1 stray write |

**Why they are enough.** Three calls over a ceiling of two give a holder,
a waiter and a newcomer, which is every role `admit` distinguishes; calls and
ids are interchangeable, so the run is symmetric in them. Two streams are an old
and a new one, two turns a turn and the answers of the last. One crash puts
every record that can be left behind on disk, and the process that finds it is
alive; two crashes of `McpConfig` include one inside the sweep that follows the
first, and two failures a removal that fails at both its tries, in Remove and in
the sweep. Two processes are the one that has a lock and the one that wants it.
Two blocks are a first and a last, with a window that holds both. Three units of
memory, a reserve of one and working sets of one and two give a model that fits
beside another and one that does not. Three edits of a list are an entry, its
removal and another under its name. `RefusalHold` needs no bound on time: waits
and ages stop at the largest value the code compares them with. Deadlock is
checked everywhere but in `local`, where the parts end once their bounded
requests are answered.

**Fairness.** A run with a liveness property says what must go on:

* a goroutine that can step does (weak fairness on the steps of each);
* a runtime, a tool or an app whose context has ended returns, and an app's
  process that is told to stop is gone after the grace, because the code then
  kills it. Work nobody stops is owed nothing: a tool call may run for an hour;
* time passes. A `Tick` is fair only while something waits for it;
* a person, a cluster and a network are owed nothing, except where a property
  has them as its hypothesis ("a cluster that goes on accepting", "a run the
  person consents to and nothing disturbs"). Nothing makes a cluster that
  stopped reading read again (`Heartbeat`), nor a process that left its group,
  or a send, end (`StepOutput`);
* in `MachineCapacity`, strong fairness for the reconcilers: `Reconcile` runs
  every 30 s and maintenance every minute (`tools/workbench.go:31`,
  `tools/pipeline_maintenance.go:24`), so a round that found the lock taken or
  a directory that would not go is followed by another. Nothing obliges a goal
  or a build to arrive, and an unstopped container may stay idle;
* the service manager starts the worker again, and a Docker daemon that went
  away comes back: the properties of these two say what happens then;
* `commands`, and `SessionRecord`, `SessionOutputs`, `RuntimeAnswer` and
  `HostResources`, have no liveness property and assume nothing.

**Time.** `DeltaStream`, `Advertisement`, `Heartbeat`, `InteractiveLogin` and
`RefusalHold` have clocks. A step the code takes at a deadline is urgent there:
time does not pass while it is due. That is the assumption that a goroutine is
scheduled within one unit.

## What is proved

All proofs are of the specification with no bound on the sets, and hold for it
with or without fairness. Of the 40 properties that the passing runs check, 27
are stated by a theorem.

**`ModelCalls`** (`ModelCallsProofs`), for any sets of homes, ids and models,
any finite set of calls and any non-empty set of inventories (assumed: a ceiling
is a natural number or `NotOffered`, and the sentinels are no calls and no
models):

* `TypeCorrect`: `TypeOK` always holds.
* `LiveCallsAreFound`: `Manager.live` is exactly the calls between Start and
  release, so a Cancel finds the call it names.
* `CountsAreExact`: the per-model and machine counters equal the number of
  calls holding a slot (`SlotAccounting`).
* `CeilingsAreHeld`: among any `k + 1` calls admitted under a ceiling of at most
  `k`, some hold no slot, whatever the inventory has changed to since.
* `WakeupsAreNotLost`: a waiter asleep on an open channel has no slot it could
  take. `FirstAbortWins`: `FirstAbortIsTold`, a call's End names its first abort.
* `ModelCallsImplementsRationedCalls`: the counters and the channel implement
  the rationing stated on calls alone, step by step.

The argument: `CeilingsHold` is not inductive, because the code compares
*counters* with a ceiling and the invariant speaks of *calls*. The inductive
invariant is `BaseInv` (types, what each `pc` implies of slot and ceilings, the
live table), `SlotAccounting`, which ties the counters to the cardinality of the
holders, and `CallsAreUnderCeilings`. One step claims (and was compared with the
exact count), one releases (and removes the one holder), and every other leaves
the holders alone, which is one lemma.

**`DeltaStream`** (`ModelCallsProofs`), for any keepalive cadence, deadline and
number of pieces, and an idle ceiling of at least two units (with one, half of it
would be no cadence): `DeltaTypeCorrect`; `AnswersComeInOrder`, that
`AnswerIsInOrder` holds; and `SilenceIsAlwaysBounded`, that `SilenceIsBounded`
does. The inductive `DeltaInv` has four parts: what each goroutine has numbered
and not handed over, and which step it is at (`HandsOK`); that the numbers on
the wire are below the counter, differ from each other and from those in hand,
and that the pieces of the answer grow and are all below the one in hand
(`WireOK`); that the End is the last of the answer (`EndIsLast`); and how the
ages since the last send, the last output and the next tick add up at each step
of the watchdog (`DogOK`). The last makes the two bounds inductive: what is
silent past the ceiling has been so at a tick, and what was sent before a tick
is older than the cadence at the one after next.

**`RuntimeAnswer`** (`ModelCallsProofs`), for answers of any number of pieces,
any tool calls and any number of fragments: `AnswersAreWhole`, that
`AnswerIsWhole` holds. Assumed is `Honest`, that the runtime lets no failure look
like an end; the code takes a few of them for one (see below), so it is needed.
It does not exclude an answer that the output bound cut short inside a tool call
of an OpenAI-compatible runtime: such an End carries the half-written call, and
`NoHalfCall` allows it only beside the finish "length".
`AnswerInv` says that what was read of the calls is what was written, that all
the text is told or kept back while the call is at work, that nothing is told of
an answer whose schema was asked for in the prompt, and that calls of an Ollama
answer, or of one that has ended with "stop", are complete; `Settled` is what the End says.

**`HostResources`** (also in `ModelCallsProofs`), for any worker processes and calls, any finite disjoint
sets of warm and on-demand models, any working sets and a reserve of at least
one unit: `MachineAlwaysHasRoom`, that `MachineHasRoom` holds. Of its parts only
the types are inductive. `HostInv` adds, for each call, what its step implies
(`SeatSays`): whoever uses the machine has the lease; what it read of the record
is still the record, since only the holder writes it; a model it has unloaded
and not yet struck off holds nothing; after the probe nothing is left to unload,
and what was seen free, what others used and what its own model held fit in the
machine; a run is on record and alone in memory, and has the room it may grow
to. `OnDemandRuns` adds that a runtime which gives its memory back holds some
only during a run. `HolderIsAlone` carries every step of a holder, `OthersStay`
every step of the rest; the probe needs that one model's units are all that is
held (`OneModelIsLeft`), and the admission that the working set it compares and
the part that is resident are of the same model. A death gives back what the
process held and writes nothing.

**`MachineCapacity`** (`MachineCapacityProofs`), for any sets of processes
and goals, any number of slots, crashes and outages, and any memory (assumed:
goals are not processes, the numbers are naturals, the sentinels are no slot and
no record):

* `TypeCorrect`: types, and no slot has two holders.
* `RunningIsOnRecord`: `NothingIsUnaccounted`.
* `BuildsExcludeWorkspaces`: `BuildsAreAlone`.
* `MemoryIsSpentOnce`: `RoomIsSpentOnce`.

The argument: none of the three is inductive. `IInv` adds what each step of a
holder says of the record in its own slot (`HolderSays`), that no two slots have
the same record and no name is drawn twice (`RecordOK`: otherwise one holder
could start the container another has just confirmed gone and is about to strike
off), that a lock or a record keeps builds off and a build keeps both off
(`FenceOK`), the order of a build's record, directory and command (`BuildOK`),
and that at most one creation is between measuring memory and recording what it
will take (`RoomOK`). `OthersStay` carries every workspace step: it need only be
shown to keep to its own slot. A crash releases locks and moves nothing else, so
each part survives it.

**`AppSession`** (`StreamsProofs`), for any sessions, follow-ups and renewals:
`SessionTypeCorrect`, and `EndsWhole`, that `SessionsEndWhole` holds: no bearer
(its removal is taken to succeed) is on the disk when the cluster hears the End,
a success ran every follow-up it accepted, unpushed work stays, and a renewal
that reported itself reached both the file and the Library client. The inductive `SessionInv` says of each session
that while a bearer is in its file somebody who will remove it is still to come,
that the queue is latched before a success is named, that the directory stands
until its content has been pushed or is to be kept, and that the credentials in
use are no older than what was told; and of a renewal in flight, that what it
read of the session is still so (`RenewalHolds`): it runs on another goroutine,
and the session may end between its two writes.

**`WorkerStream`** (`StreamsProofs`), for any streams, tool calls, other work and
drains: `StreamTypeCorrect`; `NothingCrossesStreams`, that `StreamsAreApart`
holds; and `EveryCancelIsHeard`, the action property `CancelIsHeard`. Both rest
on `StreamInv`: every tool call in flight belongs to the current stream and is in
`toolCallSet`, because it is recorded on the goroutine that reads, and none is
left once that goroutine is past `active.Wait`.

**`RefusalHold`** (`StreamsProofs`), for any pairings, kinds of refusal and
bounds of backoff, grace, streak and hold: `RefusalTypeCorrect`, and
`WaitsAreAlwaysEarned`, that `WaitsAreEarned` holds: a hold follows a streak of
refusals over the grace and none lasts past its ceiling (`HoldIsEarned`), what
`refused.json` says while a hold is on is what the worker knows
(`RecordIsCurrent`), and a stream lost before it proved itself waits at least
twice what the one before it did (`FlappingBacksOff`). That needs `CountIsTrue`
(the streak counts the refusals since the last success), `HoldsAreOfAttempts` (a
hold is on only between two attempts) and `BackoffKeepsUp` (the backoff in hand
is never below what the streams lost so far have earned).

**`ClusterList`** (`CommandsProofs`), for any shells, names, clusters, edits
and faults (assumed: the sentinel is no name, and the local cluster is one):
`TypeCorrect`; `StaleTokensAreDealtWith`, that `TokensAreOfTheirCluster` holds:
the token under an entry's name was given by that entry's cluster, unless its
removal failed or crossed a sign-in, which the model names; and
`ReportsGuessNothing`, that `CommandsGuessNothing` holds: a report without a name
asks the selected cluster or the only one as the list stood when it was read, and
no command replaces an entry another one wrote. The invariant adds that a
command at work has a name (`BusyAreNamed`) and that every stale token is known
to be one (`StaleTokensAreKnown`).

**`SignIn`** (`CommandsProofs`), for any commands, workers, tokens and mishaps,
with a keyring or without one: `SignInTypeCorrect`, and `NoSignInIsLostForNothing`,
that `SignInsAreKept` holds: a sign-in is lost only to a cause that is named, of
the identity service, the disk, a person, or two processes that cross. A refresh
rotates the token, so for a moment the only live copy is in the memory of a
process that may meet another one. The inductive `SignInInv` says what the two stores may hold between them
(`SoundStores`), what a process at work holds and under which lock (`SoundRuns`),
who may be where (`Places`), and that a migration at its removal has put an entry
into the keyring (`Confirmed`). What the keyring's entry is worth by then follows
from it and `SoundStores` (`CopiesAreKept`): identity takes its token, unless a
named cause has cost it that. One such cause is a worker that refreshes the
file's pair in between, and then the removal takes the only sign-in that works.
The attempt to prove it
found an error of the model that one command could not show: the step that
migrates the file into the keyring forgot that another process may have written
the keyring meanwhile.

**`Fleet`** (`CommandsProofs`), for any homes, decisions, failures, deaths and
restarts: `PausesAlwaysHold`, that `PausesHold` holds: a pause the control socket
confirmed is what a restarted worker does, and a paused home has no live run,
whichever step its supervisor was at. The inductive `FleetInv` adds that a
request of the socket and a command each write back what they read and are not
at work together (`OneAtATime`), so that the file says of every home what the
worker last told of it (`FileRemembers`), and that a worker that is down has
neither request nor run (`DownIsOver`). Assumed is `Overlap = FALSE`: the code
lets a command rewrite `workers.yaml` at the same moment, and a pause is then
lost (see below).

**`Consent`** (`StreamsProofs`), for any homes, calls, grants, stops and failures:
`ConsentTypeCorrect`, and `StopsAlwaysTakeHold`, that `StopsTakeHold` holds: a
stop survives a restart, and it reaches the calls that were waiting for a
person. The inductive `ConsentInv` adds that what a process believes it has
saved is on the disk (`SavedIsOnDisk`), what stands while a stop is between its
write and the pending calls (`RevokeIsBetween`), and that a call which has
entered the wait is answered from the map or is still in it (`AnswerIsOwed`).
Assumed is `LateSyncFails = FALSE`: when the rename took place and only the
sync of the directory failed, the code reports a failure of a change that the
next process may or may not see.

**`McpConfig`**, for any sessions, edits, crashes and failures (assumed: a
session id is not a configuration of the user's): `TypeCorrect`;
`EveryBearerIsTracked`, that `BearerIsTracked` holds whenever and however often
the process dies and whichever removals, renames and reads fail; and
`TheUserGetsItBack`, that `UserConfigComesBack`, of a process that has neither
died nor failed. The first rests on the order of the writes (`BearerInv`: an
entry is there from before the bearer is written until after it is off the disk,
in the sweep as in Remove, or the session is one a removal failed on); the second
on what has been moved aside at each step (`UserInv`). A session in `refused` or
a temp file in `cutoff` is exempt: the code does not track those (see below).

**`BackupLedger`**, for any processes, paths, records, sequences and faults:
`LedgerTypeCorrect`, and `AcknowledgedReceiptsSurvive`, that `ReceiptsSurvive`
holds: whatever a power failure leaves of the unsynced lines, what was
acknowledged is read again. The inductive invariant follows one save from memory
to disk: one process holds the ledger (`HeldOnce`); what was synced no failure
takes (`SyncedIsKept`); no sequence number is used for two lines
(`SequencesAreUsedOnce`), so that a reader knows a line of the journal is newer
than the snapshot; lines and snapshot hold what was told (`LinesAreTold`,
`SnapshotIsTold`) and memory is no older than they are (`MemoryIsTrue`); a save
writes what changed since the last (`SavesTheChanges`), and compaction empties
the journal only under a snapshot that has it (`Compacts`). `LateSyncFails =
FALSE` is assumed here as well, and necessary: the run `backup_ledger_sync`
shows the property violated without it.

**`Download`**, for any numbers of blocks, attempts, lost calls, crashes and acts
of the machine's user (assumed: what stands for "no file" is neither a file nor a
journal): `DownloadTypeCorrect`, and `DownloadsAreWhole`, the action property
`DownloadIsWhole`: what is published or reported has every block of the backup,
and a stranger's file keeps its name. The type theorem is the harder one. That no
partial outgrows the backup needs `BlocksAreCounted`, which ties the length of
the file to what the process counts through a write, the journal entry behind
it, a torn block and the cut of what a reopened partial cannot verify
(`VerifiedIsThere`: there is a first block at which the check stops, by the least
number principle); and `NamesAreOwn`, that a partial is worked on only once begun
and its name is never another partial's. `HashedIsWhole` carries the hash through
the link to the report, because nobody but a process at work writes to the file
(the user alters one between runs only, which `Alters` assumes).

**`Upload`**, for any numbers of blocks, edits, lost calls, crashes and pauses and
any window (assumed: what stands for "nothing yet" is neither a byte nor a file):
`UploadTypeCorrect`; `UploadsAreOneVersion`, that `StoredIsOneVersion` holds: a
finished upload is one version of the file; and `BlocksAreSentOnce`, that
`KnownBlocksAreNotResent` does. The run `files` checks the last two as parts of
`StoredIsTrue`. The inductive `UploadInv` follows the digest from the file to
the cluster: as long as stat says that the file a run holds is the one it began
on, the blocks it has hashed are that file's, so that a manifest is only ever of
a version the file has had (`SourceIsAVersion`; an edit under the same size and
time is assumed to meet no run); the job keeps the digest of the run that prepared
it, whatever run comes after, and every staged block is of it
(`StagedIsOfTheSum`); and the staged blocks are the first `k`, each put once, and
a run past its reconciliation knows `k`, also when the answer to a put was lost
(`StagedIsKnown`).

**`ModelPull`** (`MachineCapacityProofs`), for any models, starts, cancels and faults:
`AllowedAfterThePull`, that `OfferedIsPulled` holds: what `policy.yaml` or the
running worker allows, the runtime has; and `CloseCutsNothing`, the action
property `OwnCloseCutsNothing`. The inductive `PullInv` says of each pull that
past the fetch its bytes are here, that what it read of `policy.yaml` is of
models that are here, and that what it said is settled once it no longer counts
as work (`PullSays`); and that between the busy check and the close every pull
but those that started since is idle and settled (`CloseIsIdle`). That a step of
a pull moves nothing of another is `OneKeepsInv`. `PullInv` gives no
`AddingNeverDrops`, which the code does not keep.

**`ExecCall`** (`CommandsProofs`), for any pieces of output and any changes of
the directory's name and of the owner's will: `ExecTellsTrue`, that
`ExecToldTrue` holds: what a caller is told of a command is so. The inductive
`ExecInv` says what each place of the call already knows (`CallIsOrdered`:
nothing has run before the start, nothing is answered before the end, the shell
is gone once the wait is over); that a group which is no longer watched was
killed, or belongs to a shell that was over before the context was
(`GroupIsWatched`); and that an approved call past its gates runs in the
directory it holds, not in what the name stands for (`DirectoryIsHeld`).

**`BuildContainer`** (`MachineCapacityProofs`), for any services, attempts and
mishaps: `ContainerTypeCorrect`; `BuildsAreOnRecord`, that `RunsAreRecorded`
holds: nothing of a build runs that the record does not name; and
`ExitsAreTheCommands`, that `ExitIsReal` does. The run `machine_capacity` checks
them as parts of `BuildsAreWhole`. What makes it hard is the daemon, which may do
later what a client that is gone had asked. The inductive `ContainerInv` says
that of an attempt at most one client was lost, and the last (`OneIsLost`), so
that a late create is never followed by a late start; that a member off the
record is `Quiet`, neither running nor about to be started
(`OthersAreQuiet`, `OnlyOwnAreMade`), and one the removal has passed as well, for as
long as it is sure (`RemovedAreQuiet`); that the record holds from before the
first call to after the last removal (`RecordHolds`). For the exit: the services
ran before the command was made (`ServicesCameFirst`), so a command that ended
without one leaves that service ended where the last look must meet it
(`LossIsSeen`), and what was reported then is not undone by the removal
(`ExitIsKept`).

**Model-checked only.** Liveness under fairness (`BuildsEnd`, `WorkEnds`,
`FilesSettle`, `LocalWorkEnds`, `WorkerComesBack`) and anything about ENABLED are
beyond the prover; so are facts that need induction over data (the joining of
fragments, of blocks and of journal lines, and every module that folds over a
sequence or a set). The clock models but `RefusalHold` and `DeltaStream` have no
theorem: their deadlines relate several clocks over all interleavings.
`RequestsShow`, `TurnTellsItself`, `ActionsAreWhole`, `StoredIsTrue`,
`NothingIsLost`, `DecisionsSurvive`, `OutcomesAreEarned` and `BuildsAreWhole`,
most of them conjunctions over several components of a run, are checked as they
stand and not proved; of `BuildsAreWhole` the containers are proved, of
`StoredIsTrue` the upload. `ApprovalsEndAtTheStop` is not kept by the code (see
below), so no theorem about `Consent` states it.

## Where the code and its documents disagree

Each of these is a run that finds the violation:

* **A piece of the answer can be dropped** (`delta_stream_order`).
  `deltaStream.send` numbers under its lock and sends after it, so a keepalive
  numbered later can be handed over first; "the engine drops out-of-order and
  duplicate deltas" (`connect.go:463-466`).
* **A crash in Remove costs the user's `.mcp.json`** (`mcp_config_user`). The
  file is restored before the ledger entry that names its path is removed, and
  `Sweep` deletes what an entry names.
* **An interrupted goal can be given a second container**
  (`machine_capacity_replay`). `Execute` asks the tombstone whether a goal is
  new; after a crash the tombstone is written only by reconciliation, which
  runs beside dispatch, and the new request may get the other slot.
* **A failed sync loses acknowledged receipts** (`backup_ledger_sync`). After a
  compaction whose last sync fails the next save truncates the journal up to its
  old length, a hole of zeros before its lines (`backup/ledger.go:232`, 285-291).
* **Of a pair of pulls one allowance is dropped** (`model_pull_pair`). Both edit
  `policy.yaml` from the same reading; `inference/allow.go:44-46` says adding
  never replaces.

These were met while modelling and have no run of their own. Some are modelled
behind a constant that the passing runs set to the other value, so that the
rest can be checked.

*Calls and the stream*

* `modelcall/session.go:565-568` says the watchdog has stopped before the End;
  it may be past its check and send a keepalive behind it. A ceiling under one
  and a half times the cadence gives silence as long as the ceiling.
* `modelcall/session.go:449`: a waiter is admitted with the inventory of its
  arrival, to a model that may since have been withdrawn.
* `modelcall/openai.go`: a stream that ends with finish reason "length" inside a
  tool call comes to its [DONE] like any other, and the half-written call is
  attached (181-183, 207-209, 232), against the comment at 225-231.
* `modelcall/openai.go`: an error inside the stream and a frame that cannot be
  parsed are ignored, and a truncated text or call ends with "stop" (`Honest`); an
  answer that is all reasoning ends as an empty "stop". `modalities.go`: an
  error in a 200 body of Ollama's embeddings is ignored, and Speak accepts any
  bytes.
* `modelcall/resources.go`: a model that was removed from Ollama cannot be
  unloaded (404) and keeps every other model from being admitted; servers that
  speak the OpenAI protocol are neither unloaded nor deducted.
* `loop.go:743`: a request answered "nothing changed" leaves the bypass armed,
  against 757-760. `loop.go:746`: work that starts between the busy check and
  the close is cut. `modelinventory.go:43-49` says the 60 s tick keeps the 90 s
  cache warm; a hit does not renew it, so every other tick is late.
* `loop.go:948`: a stream lost while a drain waits inside `handleMessage` is
  not noticed until the tool calls end; `LostWorkEnds` leaves that case out.
* `loop.go:597-614` and 652-658: when the held timer and a new token are ready
  together, `setupBeatSpacing` is not kept. The handshake's `Recv` has no
  deadline, and `c.cancel` is nil during it. `Runner.Close` cancels the run's
  context at once, so its half-close races a reset.
* `refusal.go`: while held, a refusal of another kind does not change the
  record.

*App sessions and the harness*

* `appsession/session.go:918`: a turn that fails leaves the loop without
  latching `turnsClosed`, so a follow-up arriving before the session is
  forgotten is accepted and never run, against 443-445.
* `appsession/session.go:1129-1151`: a renewal that comes before the Library
  client and the configuration are published is lost, yet logged as renewed.
* `appsession/workspace.go:32-35` and `session.go:487-490`: a file over 64 MiB,
  or past the 32nd, of a workspace the session owns is announced, not pushed,
  and removed with it. Inputs of one name overwrite each other (`SameName`),
  a pull may truncate a person's file, `d/a` and `d__a` share an artifact name,
  and an unreadable directory is skipped without a word.
* `appsession/chunks.go:284-285` says "never a silent truncation". The line that
  names what was not pushed goes through `emitChunk` with its error ignored (287,
  303), which drops it past `max_transcript_bytes` and after three failed sends;
  the transcript file was closed before (256). The name is then in the worker's
  log alone, and `session.go:493-494` removes the workspace (`unheard`).
* `appsession/mcpconfig.go:36-38` says every write is recorded and the sweep
  clears the wreckage. Not found by any sweep are: the temp file
  `.memql-mcp-*` of a write that a crash cut off, or that could not be removed
  (519-521); the `.mcp.json` that could not be removed, whose entry goes all the
  same (304 and 318, 389 and 402); and what an entry names that cannot be read or
  parsed (375-387). The next session in that workspace takes such a `.mcp.json`
  for the user's, moves it aside and puts it back. Where the rename back fails
  (310, 396), and the removal before it failed or the user writes another file,
  the next session's move aside overwrites the user's backup.
* `appsession/record.go:455` judges `digestSettle` at the end of the hash, not
  at its start, against 68-72 (`Slow`).
* `harness/codexappserver.go:1276-1290`: usage replayed for an earlier turn is
  billed to the new one (`Replays`); `pendingID` is never used.
* A stopped turn loses the lines not yet read: the reaper closes the pipes.

*Builds*

* `tools/pipeline_step.go`: `runGroup` returns after its second drain bound with
  a reader that may still be sending, so a frame can follow the result
  (`loop.go:133-135`); a send slower than five seconds cuts the output.
* `process.go:35-43`: `flushPartialAfter` and `maxLineBytes` do nothing before
  the end of the output, and the flush at the end can split the last line.
* `tools/pipeline_container.go`: a creation that the daemon finishes late leaves
  a container or a network no record names; the cleanup at the end does not
  compare the daemon's identity.
* A step whose artifacts are too large reports only the patterns missing before
  the limit; `docs/pipelines.md:210` still shows `artifactsTgzBase64`.

*Files*

* `transfer/download.go:229-239`: a crash between the link and the removal of
  the partial leaves it a second name of the finished file, and a later download
  that resumes on it writes that file, against `docs/watched-folders.md`.
* `transfer/runner.go:239-240`: a pause that arrives with a resume in flight
  (157-162) does not stand.
* `backup/backup.go:444`: a conflict is reported that the reading at 296-297
  does not show. A lost reply to a deletion and a file created again strand the
  path. An unmounted mountpoint that is an empty directory is labelled
  "origin_gone", against `backup.go:510-511`.

*The person at the machine*

* `consent/consent.go:654`: a strict call that read the window before a Revoke
  can register its approval after `cancelAllPending`, and then be approved;
  298-303 says no pending strict call can get through a Revoke.
  `persistence.go:37-38`: a stop whose late sync fails does not survive
  (`LateSyncFails`).
* `control.go:137-138`: a pause reported as saved is lost when a command rewrites
  `workers.yaml` at the same moment (`Overlap`); a disabled home stays in the
  legacy mirror (`homes.go`, about 671).
* `setup_permissions.go:37-39`: a skip can be told after the end of the setup.
* `inference/stage.go:464-465`, 496-500: base and ROCm archives of two releases
  can be mixed (`Floating`); between the removal and the rename (435-437)
  neither runtime exists.
* `tools/policy.go:438` with `cli.go:334`: a `policy.yaml` that cannot be parsed
  at the start gives a policy without a path, which no reload repairs
  (`apps_consent.go:236` says a signal suffices). Two reloads can be applied in
  the other order (441, 452). A deleted file keeps everything, merged lists
  never shrink, and `EditPolicy` overwrites a concurrent edit. A SIGHUP before
  `cli.go:382` kills the worker, and `Restart=on-failure` does not start it
  again (947-951).

*Commands*

* `src/internal/auth/token.go:23-25` says a transient failure of a refresh falls
  through to a login; the code returns the error (133-143). An answer lost
  behind the rotation, a failed save or a death before it costs the sign-in; an
  identity that does not echo the refresh token (`Echoes`) makes every second
  refresh refused.
* `FileStore.Put` writes in place: a crash leaves a cut-off file on which every
  command but `logout` fails with "parse token".
* Commands may keep tokens in the keyring while the worker reads only the file:
  "Run `memql login`" (`docs/watched-folders.md:51`, 122) cannot help there, and
  `creds migrate-to-keyring` takes the worker's only copy away; a migration that
  dies between put and delete leaves the pair in both stores, and may overwrite
  a login made in between. A worker that refreshes the file's pair after the
  migration read it (`creds.go:117`) and before its removal (144) leaves the
  keyring a spent token, and the removal takes the only live one, against "the
  keyring is the authoritative copy now" (148-149).
* `logout` and `cluster remove` clear the active store only and never tell
  identity; `src/internal/access/cmd.go:286` says `cluster remove` does not
  clear the selected cluster, though `main.go:351-353` does.
* `device.go:209-211` keeps polling "rather than aborting a sign-in the human may
  be mid-way through approving", but only where the transport fails: a server
  error or a proxy's page, an unknown error, and a 200 that cannot be decoded or
  has no token end it at once (220-227, 254-257, 134-135), also when the code is
  approved (`PollFails`).
* The device flow loses approvals near the window's end when intervals exceed
  15 s, and `slow_down` does not slow further at 10 s and above. The callback's
  page says "You're signed in" before the exchange.
* `models/`: the context label is read from a Go map in no fixed order; two
  declared runtimes of one name make the pick unstable; `scanBudget` does not
  bound the wait for every probe.
* `tools/`: a line cut by the scan budget is withheld although `nextOffsetBytes`
  points behind it. Once the shell is reaped nobody watches the context, so a
  child in the background outlives a timeout, and a command that leaves a child
  on its pipes is told "exec_failed" with exit code 0. A limit that the host
  refuses is told as a command that exited with 125.

## What is not modelled

Generated, vendored and build files; shell installers and the Swift menu
(external to the Go program); probes of hardware, memory and permissions, and
screen, mouse and window code, pure I/O; encoding of model requests, audio and
images; crash logs, metrics and lint; the pairing wizard, whose result is what
`Fleet` starts from; app detection, which `Advertisement` sees as a fingerprint;
the opening of files for a session, sequential and pure.

Within the modelled parts: payloads and prompts are not represented; `AppSession`
takes one session in a workspace at a time (two sharing one would move each
other's configuration aside), and a bearer's removal to succeed (`McpConfig` has
what follows when it fails); `FileRead` takes every write to change the file's
time of modification; `McpConfig` has the Claude Code layout, Codex's
being a directory of its own; `MachineCapacity` leaves out failing writes and
torn records (the code then refuses, and capacity stays reserved), the protocol
inside a container and the expiry of tombstones after two hours; `StepFiles`
leaves out the copy of the tree; `HostResources` takes the bytes a request needs
(`workingSet`) as one of a few sizes; `RuntimeSetup` is the native setup on
Linux; two transfer runners at once, moves recognised by a sweep
(`backup/moves.go`) and one-shot restores are left out. `PROJECT.json` says so
for each component.

## Plan

Done: the modules above, the seven runs over them, and proofs about nineteen of
them. Next:

1. Pairing (`UpsertHome` after a redeemed code) and app detection (its cache and
   the probe that fails for a moment) as modules of their own.
2. The Codex layout of the session configuration, and `moves.go` in
   `BackupSweep`.
3. A refinement for `MachineCapacity`: the abstract machine that has workspaces
   and builds in turns, without locks or records.
