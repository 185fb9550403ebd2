---------------------------- MODULE Advertisement ----------------------------
(***************************************************************************)
(* How a change of the models a machine offers reaches one cluster:        *)
(* internal/worker/loop.go (heartbeatLoop, maybeReadvertiseModels,         *)
(* RequestImmediateReadvertise, busy, connect) over the cached inventory   *)
(* of modelinventory.go.                                                   *)
(*                                                                         *)
(* Labels bind at Register, so re-advertising is closing the stream and    *)
(* connecting again.  Four goroutines meet here: the heartbeat loop, which *)
(* evaluates; the runner, which connects; whoever asks for an immediate    *)
(* re-advertise (a pull that finished, a policy reload); and the receiver, *)
(* which starts work on the stream.                                        *)
(*                                                                         *)
(* A label set is a version of the machine, and versions only grow.  Time  *)
(* is counted in units of half a minute.  It passes only when no goroutine *)
(* of the worker has a step to take: an evaluation, a tick or a request    *)
(* takes far less than a unit.                                             *)
(***************************************************************************)
EXTENDS Integers

CONSTANTS
  Refresh,    \* modelRefreshInterval
  TTL,        \* DefaultModelInventoryTTL
  Floor,      \* modelReadvertiseMinInterval
  MaxEvents,  \* bound: what happens to the machine, the stream and its work
  MaxAsks     \* bound: requests for an immediate re-advertise among them

UnitsAssumption ==
  {Refresh, TTL, Floor} \subseteq Nat \ {0} /\ {MaxEvents, MaxAsks} \subseteq Nat

VARIABLES
  machine,    \* the label set a probe of the machine would find
  cached,     \* policyModelInventory.cached, NoProbe when there is none
  cacheAge,   \* units since policyModelInventory.at
  conn,       \* "down", "dialing", "up", "lost" (Recv has failed or will)
  registered, \* the label set this stream's Register carried
  loop,       \* the heartbeat loop: "off", "select", then evaluating
  refreshIn,  \* units to the next refresh tick
  sinceClose, \* units since lastReadvertise, Floor when the floor has passed
  pending,    \* pendingReadvertise
  wake,       \* readvertiseNow holds its one token
  asker,      \* RequestImmediateReadvertise: "none", "armed", "invalidated"
  work,       \* calls, sessions and pulls in flight
  events,     \* bound: events so far
  asks,       \* ghost: requests made
  bypasses,   \* ghost: floors waived
  wanted,     \* ghost: the label set of the last request
  idleFor     \* ghost: units up and idle since the last request or registration

cache == <<cached, cacheAge>>
ghosts == <<asks, bypasses, wanted, idleFor>>
vars == <<machine, cache, conn, registered, loop, refreshIn, sinceClose, pending, wake,
          asker, work, events, ghosts>>

NoProbe == -1
Versions == 0..MaxEvents
IdleBound == Refresh + Floor

TypeOK ==
  /\ machine \in Versions /\ cached \in Versions \cup {NoProbe} /\ cacheAge \in 0..TTL
  /\ conn \in {"down", "dialing", "up", "lost"}
  /\ registered \in Versions
  /\ loop \in {"off", "select", "evaluate", "changed", "idle", "close"}
  /\ refreshIn \in 0..Refresh /\ sinceClose \in 0..Floor
  /\ pending \in BOOLEAN /\ wake \in BOOLEAN
  /\ asker \in {"none", "armed", "invalidated"}
  /\ work \in 0..MaxEvents /\ events \in 0..MaxEvents
  /\ asks \in 0..MaxAsks /\ bypasses \in Nat
  /\ wanted \in Versions
  /\ idleFor \in 0..IdleBound

(* A machine whose runner has not connected yet; nothing re-advertised.    *)
Init ==
  /\ machine = 0 /\ cached = NoProbe /\ cacheAge = 0
  /\ conn = "down" /\ registered = 0 /\ loop = "off"
  /\ refreshIn = Refresh /\ sinceClose = Floor
  /\ pending = FALSE /\ wake = FALSE /\ asker = "none"
  /\ work = 0 /\ events = 0
  /\ asks = 0 /\ bypasses = 0 /\ wanted = 0 /\ idleFor = 0

-----------------------------------------------------------------------------
(* policyModelInventory                                                    *)

(* Mutant: a cached inventory never expires.                               *)
expiredNever == cached = NoProbe

expired == cached = NoProbe \/ cacheAge >= TTL

(* What Models returns.  The lock is held through the probe, so it returns *)
(* what the machine offers at some moment of it.                           *)
offered == IF expired THEN machine ELSE cached

(* ... and leaves in the cache.                                            *)
ReadModels ==
  /\ cached' = offered
  /\ cacheAge' = IF expired THEN 0 ELSE cacheAge

-----------------------------------------------------------------------------
(* The runner: connect, the end of a stream, reconnecting                  *)

(* The inventory is taken before the dial.  A dial takes longer than the   *)
(* three statements of a request in progress.                              *)
ConnectReads ==
  /\ conn = "down" /\ asker = "none"
  /\ ReadModels
  /\ conn' = "dialing" /\ registered' = offered
  /\ UNCHANGED <<machine, loop, refreshIn, sinceClose, pending, wake, asker, work, events, ghosts>>

ConnectFails ==
  /\ conn = "dialing" /\ events < MaxEvents
  /\ conn' = "down" /\ events' = events + 1
  /\ UNCHANGED <<machine, cache, registered, loop, refreshIn, sinceClose, pending, wake,
                 asker, work, ghosts>>

Registers ==
  /\ conn = "dialing"
  /\ conn' = "up" /\ loop' = "select" /\ refreshIn' = Refresh
  /\ idleFor' = 0
  /\ UNCHANGED <<machine, cache, registered, sinceClose, pending, wake, asker, work, events,
                 asks, bypasses, wanted>>

StreamLost ==
  /\ conn = "up" /\ events < MaxEvents
  /\ conn' = "lost" /\ events' = events + 1
  /\ UNCHANGED <<machine, cache, registered, loop, refreshIn, sinceClose, pending, wake,
                 asker, work, ghosts>>

(* runStream returns once the heartbeat loop, back at its select, has.     *)
StreamReturns ==
  /\ conn = "lost" /\ loop = "select"
  /\ conn' = "down" /\ loop' = "off"
  /\ UNCHANGED <<machine, cache, registered, refreshIn, sinceClose, pending, wake, asker,
                 work, events, ghosts>>

-----------------------------------------------------------------------------
(* The heartbeat loop                                                      *)

LoopWakes ==
  /\ loop = "select" /\ wake
  /\ wake' = FALSE /\ loop' = "evaluate"
  /\ UNCHANGED <<machine, cache, conn, registered, refreshIn, sinceClose, pending, asker,
                 work, events, ghosts>>

LoopTicks ==
  /\ loop = "select" /\ refreshIn = 0
  /\ refreshIn' = Refresh /\ loop' = "evaluate"
  /\ UNCHANGED <<machine, cache, conn, registered, sinceClose, pending, wake, asker, work,
                 events, ghosts>>

EvalUnchanged ==
  /\ loop = "evaluate" /\ offered = registered
  /\ ReadModels
  /\ loop' = "select"
  /\ UNCHANGED <<machine, conn, registered, refreshIn, sinceClose, pending, wake, asker,
                 work, events, asks, bypasses, wanted, idleFor>>

EvalChanged ==
  /\ loop = "evaluate" /\ offered # registered
  /\ ReadModels
  /\ loop' = "changed"
  /\ UNCHANGED <<machine, conn, registered, refreshIn, sinceClose, pending, wake, asker,
                 work, events, ghosts>>

(* busy: a running call, session or pull defers the reconnect.             *)
EvalBusy ==
  /\ loop = "changed"
  /\ loop' = IF work > 0 THEN "select" ELSE "idle"
  /\ UNCHANGED <<machine, cache, conn, registered, refreshIn, sinceClose, pending, wake,
                 asker, work, events, ghosts>>

EvalFloor ==
  /\ loop = "idle" /\ sinceClose < Floor /\ ~pending
  /\ loop' = "select"
  /\ UNCHANGED <<machine, cache, conn, registered, refreshIn, sinceClose, pending, wake,
                 asker, work, events, ghosts>>

(* Mutant: the bypass is looked at, not taken.                             *)
EvalBypassKeeps ==
  /\ loop = "idle" /\ sinceClose < Floor /\ pending
  /\ sinceClose' = 0 /\ loop' = "close"
  /\ bypasses' = bypasses + 1
  /\ UNCHANGED <<machine, cache, conn, registered, refreshIn, pending, wake, asker, work, events,
                 asks, wanted, idleFor>>

EvalBypass ==
  /\ loop = "idle" /\ sinceClose < Floor /\ pending
  /\ pending' = FALSE
  /\ sinceClose' = 0 /\ loop' = "close"
  /\ bypasses' = bypasses + 1
  /\ UNCHANGED <<machine, cache, conn, registered, refreshIn, wake, asker, work, events,
                 asks, wanted, idleFor>>

EvalPastFloor ==
  /\ loop = "idle" /\ sinceClose >= Floor
  /\ pending' = FALSE
  /\ sinceClose' = 0 /\ loop' = "close"
  /\ UNCHANGED <<machine, cache, conn, registered, refreshIn, wake, asker, work, events, ghosts>>

(* Closing the connection ends whatever runs on it: Recv fails.            *)
EvalClose ==
  /\ loop = "close"
  /\ conn' = "lost" /\ loop' = "select"
  /\ UNCHANGED <<machine, cache, registered, refreshIn, sinceClose, pending, wake, asker,
                 work, events, ghosts>>

-----------------------------------------------------------------------------
(* RequestImmediateReadvertise: three statements                           *)

(* A pull that finished changed the machine; a policy reload may not have. *)
AskArms ==
  /\ asker = "none" /\ asks < MaxAsks /\ events < MaxEvents
  /\ machine' \in {machine, machine + 1}
  /\ pending' = TRUE /\ asker' = "armed"
  /\ events' = events + 1 /\ asks' = asks + 1
  /\ wanted' = machine' /\ idleFor' = 0
  /\ UNCHANGED <<cache, conn, registered, loop, refreshIn, sinceClose, wake, work,
                 bypasses>>

(* Mutant: the cached inventory is left alone.                             *)
AskKeepsCache ==
  /\ asker = "armed"
  /\ asker' = "invalidated"
  /\ UNCHANGED <<machine, cache, conn, registered, loop, refreshIn, sinceClose, pending, wake,
                 work, events, ghosts>>

AskInvalidates ==
  /\ asker = "armed"
  /\ cached' = NoProbe /\ cacheAge' = 0
  /\ asker' = "invalidated"
  /\ UNCHANGED <<machine, conn, registered, loop, refreshIn, sinceClose, pending, wake,
                 work, events, ghosts>>

AskWakes ==
  /\ asker = "invalidated"
  /\ wake' = TRUE /\ asker' = "none"
  /\ UNCHANGED <<machine, cache, conn, registered, loop, refreshIn, sinceClose, pending,
                 work, events, ghosts>>

-----------------------------------------------------------------------------
(* The environment: the machine, the work on the stream, time              *)

(* A runtime comes or goes, or a model is removed, with nobody asking.     *)
MachineChanges ==
  /\ events < MaxEvents
  /\ machine' = machine + 1 /\ events' = events + 1
  /\ UNCHANGED <<cache, conn, registered, loop, refreshIn, sinceClose, pending, wake, asker,
                 work, ghosts>>

(* The receiver starts a model call, which resolves against the inventory. *)
WorkStarts ==
  /\ conn = "up" /\ events < MaxEvents
  /\ ReadModels
  /\ work' = work + 1 /\ events' = events + 1 /\ idleFor' = 0
  /\ UNCHANGED <<machine, conn, registered, loop, refreshIn, sinceClose, pending, wake, asker,
                 asks, bypasses, wanted>>

WorkEnds ==
  /\ work > 0 /\ work' = work - 1
  /\ UNCHANGED <<machine, cache, conn, registered, loop, refreshIn, sinceClose, pending, wake,
                 asker, events, ghosts>>

Pause ==
  /\ asker = "none"
  /\ loop = "off" \/ (loop = "select" /\ ~wake /\ refreshIn > 0)
  /\ cacheAge' = IF cached # NoProbe /\ cacheAge < TTL THEN cacheAge + 1 ELSE cacheAge
  /\ refreshIn' = IF loop = "select" THEN refreshIn - 1 ELSE refreshIn
  /\ sinceClose' = IF sinceClose < Floor THEN sinceClose + 1 ELSE Floor
  /\ idleFor' = IF conn = "up" /\ work = 0 THEN (IF idleFor < IdleBound THEN idleFor + 1 ELSE IdleBound)
                ELSE 0
  /\ UNCHANGED <<machine, cached, conn, registered, loop, pending, wake, asker, work, events,
                 asks, bypasses, wanted>>

Evaluation ==
  \/ LoopWakes \/ LoopTicks \/ EvalUnchanged \/ EvalChanged \/ EvalBusy
  \/ EvalFloor \/ EvalBypass \/ EvalPastFloor \/ EvalClose
Asking == AskInvalidates \/ AskWakes

Next ==
  \/ ConnectReads \/ ConnectFails \/ Registers \/ StreamLost \/ StreamReturns
  \/ Evaluation \/ AskArms \/ Asking
  \/ MachineChanges \/ WorkStarts \/ WorkEnds \/ Pause

Spec == Init /\ [][Next]_vars

(* Every goroutine that can step does, the cluster answers a dial, work    *)
(* ends, and time passes.  The select of a loop whose context has ended    *)
(* picks among the ready cases at random, so it does not tick for ever.    *)
Fairness ==
  /\ WF_vars(Evaluation) /\ WF_vars(Asking) /\ SF_vars(StreamReturns)
  /\ WF_vars(ConnectReads) /\ WF_vars(Registers) /\ WF_vars(WorkEnds) /\ WF_vars(Pause)

FairSpec == Spec /\ Fairness

-----------------------------------------------------------------------------
(* Properties                                                              *)

(* A request shows: a stream that has been up and idle for longer than one *)
(* refresh since the request was made carries the labels it was made for,  *)
(* whatever the cache held and however recently the worker reconnected.    *)
RequestsShow == conn = "up" /\ idleFor > Refresh => registered >= wanted

(* A request pays for one waived floor and no more, so a runtime that      *)
(* flaps cannot reconnect a worker over and over.                          *)
FloorIsPaidFor == bypasses + (IF pending THEN 1 ELSE 0) <= asks

(* Once the machine settles and its work is done, what the cluster has is  *)
(* what the machine offers.                                                *)
AdvertisementSettles == <>[](conn = "up" /\ registered = machine)
=============================================================================
