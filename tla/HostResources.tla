---------------------------- MODULE HostResources ----------------------------
(***************************************************************************)
(* Who may use this machine's memory for a model: hostResources in         *)
(* internal/worker/modelcall/resources.go, with the lease and the record   *)
(* of resources_lock_unix.go.                                              *)
(*                                                                         *)
(* Every admitted call of every worker process passes the gate of its      *)
(* process, then the lock file all processes share.  With both in hand it  *)
(* reads which models workers have loaded before, unloads the others, and  *)
(* waits for headroom.  Memory is counted in units; other programs take    *)
(* and give it as they like.                                               *)
(***************************************************************************)
EXTENDS Integers, FiniteSets

CONSTANTS Procs,      \* worker processes of this account
          Seats,      \* places for calls
          Warm,       \* models of Ollama, which keeps them in memory
          OnDemand,   \* models of runtimes that give their memory back
          WorkingSets, \* the working sets of requests
          Total,      \* memoryHeadroom.Total
          Reserve,    \* what is never given out
          MaxOther,   \* bound: memory other programs use
          MaxFaults,  \* bound: failures and deaths
          None

HostAssumption ==
  /\ IsFiniteSet(Warm \cup OnDemand) /\ Warm \cap OnDemand = {}
  /\ WorkingSets \subseteq Nat /\ Total \in Nat /\ Reserve \in Nat \ {0}
  /\ MaxOther \in Nat /\ MaxFaults \in Nat
  /\ None \notin Seats \cup Procs \cup Warm \cup OnDemand

Runners == Warm \cup OnDemand

VARIABLES gate,    \* gate[p]: the call in hostResources.gate of process p
          lease,   \* the call that holds inference.lock
          record,  \* inference-owned.json
          ask,     \* ask[c]: what call c asks for and how far it is
          held,    \* held[m]: memory a runtime holds for m at our asking
          other,   \* memory of everything else
          faults

host_vars == <<gate, lease, record, ask, held, other, faults>>

\* owned: hostResources.owned while the lease is held; free: what the probe
\* saw; seen: history, what others used at that probe.
NoAsk == [at |-> "none", proc |-> None, model |-> None, want |-> 0,
          owned |-> {}, old |-> None, free |-> 0, seen |-> 0]

HostInit ==
  /\ gate = [p \in Procs |-> None]
  /\ lease = None
  /\ record = {}
  /\ ask = [c \in Seats |-> NoAsk]
  /\ held = [m \in Runners |-> 0]
  /\ other \in 0..MaxOther
  /\ faults = 0

Fault == faults < MaxFaults /\ faults' = faults + 1

\* The smaller of two numbers.
Least(a, b) == IF a <= b THEN a ELSE b
\* What models hold is a set of units, each in the hands of its model.
Held(S) == Cardinality(UNION {{m} \X (1..held[m]) : m \in S})

-----------------------------------------------------------------------------
(* hostResources.acquire                                                   *)

Goes(c, at) == ask' = [ask EXCEPT ![c].at = at]

Asks(c, p, m, want) ==
  /\ ask[c].at = "none"
  /\ ask' = [ask EXCEPT ![c] = [NoAsk EXCEPT !.at = "gate", !.proc = p, !.model = m, !.want = want]]
  /\ UNCHANGED <<gate, lease, record, held, other, faults>>

TakesGate(c) ==
  /\ ask[c].at = "gate" /\ gate[ask[c].proc] = None
  /\ gate' = [gate EXCEPT ![ask[c].proc] = c]
  /\ Goes(c, "lease")
  /\ UNCHANGED <<lease, record, held, other, faults>>

\* acquireInferenceLease and readOwned.
TakesLease(c) ==
  /\ ask[c].at = "lease" /\ lease = None
  /\ lease' = c
  /\ ask' = [ask EXCEPT ![c].at = "reclaim", ![c].owned = record]
  /\ UNCHANGED <<gate, record, held, other, faults>>

\* release, in the order of its two lines, and the end of the call.
Releases(c) ==
  /\ lease' = IF lease = c THEN None ELSE lease
  /\ gate' = [p \in Procs |-> IF gate[p] = c THEN None ELSE gate[p]]
  /\ ask' = [ask EXCEPT ![c] = NoAsk]

\* The context ends while the call waits, or the record cannot be read, the
\* probe fails, or the machine is too small for the model: no slot is kept.
GivesUp(c) ==
  /\ ask[c].at \in {"gate", "lease", "reclaim", "probed"}
  /\ Releases(c)
  /\ UNCHANGED <<record, held, other, faults>>

\* The models to unload first: of Ollama, recorded, not the one that is wanted.
ToUnload(c) == (ask[c].owned \cap Warm) \ {ask[c].model}

Unloads(c, m) ==
  /\ ask[c].at = "reclaim" /\ m \in ToUnload(c)
  /\ held' = [held EXCEPT ![m] = 0]
  /\ ask' = [ask EXCEPT ![c].at = "unloaded", ![c].old = m]
  /\ UNCHANGED <<gate, lease, record, other, faults>>

\* The runtime refuses, answers badly, or unloads and the answer is lost.
DoesNotConfirm(c, m) ==
  /\ ask[c].at = "reclaim" /\ m \in ToUnload(c)
  /\ Fault
  /\ held' \in {held, [held EXCEPT ![m] = 0]}
  /\ Releases(c)
  /\ UNCHANGED <<record, other>>

\* delete and save, a rename; a save that fails leaves the file as it was.
Forgets(c) ==
  /\ ask[c].at = "unloaded"
  /\ \/ /\ record' = (ask[c].owned \cap Warm) \ {ask[c].old}
        /\ ask' = [ask EXCEPT ![c].at = "reclaim", ![c].owned = @ \ {ask[c].old}]
        /\ UNCHANGED <<gate, lease, faults>>
     \/ Fault /\ Releases(c) /\ UNCHANGED record
  /\ UNCHANGED <<held, other>>

\* probe reads the memory, ...
ReadsMemory(c) ==
  /\ ask[c].at = "reclaim" /\ ToUnload(c) = {}
  /\ Reserve + ask[c].want <= Total
  /\ LET used == other + Held(Runners) IN
       ask' = [ask EXCEPT ![c].at = "probed", ![c].seen = other,
                          ![c].free = Total - Least(Total, used)]
  /\ UNCHANGED <<gate, lease, record, held, other, faults>>

\* Mutant: the estimate is taken for what is missing, the reserve for free.
RoomUnreserved(c) == ask[c].want - Least(ask[c].want, held[ask[c].model]) <= ask[c].free

\* ... and ollamaResident, later, what of it the model has already: only the
\* rest must be free, beside the reserve.
Room(c) ==
  LET resident == IF ask[c].model \in Warm THEN held[ask[c].model] ELSE 0 IN
    Reserve + ask[c].want - Least(ask[c].want, resident) <= ask[c].free

\* Pressure, or too little room: after a poll the probe comes again.
Waits(c) ==
  /\ ask[c].at = "probed"
  /\ Goes(c, "reclaim")
  /\ UNCHANGED <<gate, lease, record, held, other, faults>>

\* The model is recorded before the runtime is asked for it.
Admits(c) ==
  /\ ask[c].at = "probed" /\ Room(c)
  /\ \/ /\ record' = (ask[c].owned \cup {ask[c].model}) \cap Warm
        /\ Goes(c, "running")
        /\ UNCHANGED <<gate, lease, faults>>
     \/ Fault /\ Releases(c) /\ UNCHANGED record
  /\ UNCHANGED <<held, other>>

-----------------------------------------------------------------------------
(* The run of the call, and its end                                        *)

\* The runtime has what the request needs; a warm model keeps what it has.
Loads(c) ==
  LET m == ask[c].model IN
    /\ ask[c].at = "running" /\ held[m] < ask[c].want
    /\ held' = [held EXCEPT ![m] = ask[c].want]
    /\ UNCHANGED <<gate, lease, record, ask, other, faults>>

\* What a runtime holds for a model when nothing runs on it any more.
Kept(m) == IF m \in Warm THEN held[m] ELSE 0

\* Manager.run returns, however the call went.
Ends(c) ==
  /\ ask[c].at = "running"
  /\ held' = [held EXCEPT ![ask[c].model] = Kept(ask[c].model)]
  /\ Releases(c)
  /\ UNCHANGED <<record, other, faults>>

\* The kernel gives the lock back; a runtime drops a request nobody hears.
Dies(p) ==
  LET ours == {c \in Seats : ask[c].proc = p} IN
    /\ Fault /\ ours # {}
    /\ gate' = [gate EXCEPT ![p] = None]
    /\ lease' = IF lease \in ours THEN None ELSE lease
    /\ ask' = [c \in Seats |-> IF c \in ours THEN NoAsk ELSE ask[c]]
    /\ held' = [m \in Runners |->
         IF \E c \in ours : ask[c].at = "running" /\ ask[c].model = m THEN Kept(m) ELSE held[m]]
    /\ UNCHANGED <<record, other>>

Running(m) == \E c \in Seats : ask[c].at = "running" /\ ask[c].model = m

\* keep_alive runs out.
Expires(m) ==
  /\ m \in Warm /\ held[m] > 0 /\ ~Running(m)
  /\ held' = [held EXCEPT ![m] = 0]
  /\ UNCHANGED <<gate, lease, record, ask, other, faults>>

OthersChange ==
  /\ other' \in 0..MaxOther
  /\ UNCHANGED <<gate, lease, record, ask, held, faults>>

HostNext ==
  \/ \E c \in Seats :
       \/ \E p \in Procs, m \in Runners, want \in WorkingSets : Asks(c, p, m, want)
       \/ TakesGate(c) \/ TakesLease(c) \/ GivesUp(c) \/ Forgets(c) \/ ReadsMemory(c)
       \/ Waits(c) \/ Admits(c) \/ Loads(c) \/ Ends(c)
       \/ \E m \in Warm : Unloads(c, m) \/ DoesNotConfirm(c, m)
  \/ \E p \in Procs : Dies(p)
  \/ \E m \in Warm : Expires(m)
  \/ OthersChange

HostSpec == HostInit /\ [][HostNext]_host_vars

-----------------------------------------------------------------------------
(* Properties                                                              *)

Places == {"none", "gate", "lease", "reclaim", "unloaded", "probed", "running"}

Askings ==
  [at : Places, proc : Procs \cup {None}, model : Runners \cup {None}, want : WorkingSets \cup {0},
   owned : SUBSET Runners, old : Warm \cup {None}, free : 0..Total, seen : 0..MaxOther]

HostTypeOK ==
  /\ gate \in [Procs -> Seats \cup {None}]
  /\ lease \in Seats \cup {None}
  /\ record \subseteq Warm
  /\ ask \in [Seats -> Askings]
  /\ held \in [Runners -> WorkingSets \cup {0}]
  /\ other \in 0..MaxOther /\ faults \in 0..MaxFaults

(* Whatever memory a runtime keeps at a worker's asking, every worker can  *)
(* find it: the model is in the shared record, through failed saves,       *)
(* unconfirmed unloads and deaths, so the next admission unloads it.       *)
LoadedIsOnRecord == \A m \in Warm : held[m] > 0 => m \in record

(* Inference takes turns between all processes, from the reclaim to the    *)
(* end of the run.                                                         *)
Using == {"reclaim", "unloaded", "probed", "running"}
TakesTurns == \A c, d \in Seats : ask[c].at \in Using /\ ask[d].at \in Using => c = d

(* A run has the memory it may grow to: beside what other programs used    *)
(* when it was admitted, and what other models of ours still hold, the     *)
(* reserve stays free.                                                     *)
ReserveIsKept ==
  \A c \in Seats : ask[c].at = "running" =>
    Held(Runners \ {ask[c].model}) + ask[c].want + ask[c].seen + Reserve <= Total

(* One call of all workers uses the machine at a time, it leaves the       *)
(* reserve free however far it grows, and no model stays in memory at a    *)
(* worker's asking that the next admission would not find and unload.      *)
MachineHasRoom == HostTypeOK /\ LoadedIsOnRecord /\ TakesTurns /\ ReserveIsKept

-----------------------------------------------------------------------------
(* Why there is room: the inductive invariant                              *)

\* What is so of one call at each step of it: who uses the machine has the
\* lease; what it read of the record is the record; who unloads has found the
\* model gone, who was probed has nothing left to unload, who runs is on record
\* and alone in memory, and has the room it was promised.
SeatSays(c) ==
  /\ ask[c].at \in Using => lease = c
  /\ ask[c].at # "none" => ask[c].model \in Runners
  /\ ask[c].at \in {"reclaim", "unloaded", "probed"} => ask[c].owned = record
  /\ ask[c].at = "unloaded" => ask[c].old \in Warm /\ held[ask[c].old] = 0
  /\ ask[c].at = "probed" =>
       /\ ToUnload(c) = {}
       /\ ask[c].free = 0 \/ ask[c].free + ask[c].seen + held[ask[c].model] <= Total
  /\ ask[c].at = "running" =>
       /\ ask[c].model \in record \cup OnDemand
       /\ \A m \in Runners \ {ask[c].model} : held[m] = 0
       /\ ask[c].want + ask[c].seen + Reserve <= Total

\* A runtime that gives its memory back holds some only for a run.
OnDemandRuns == \A m \in OnDemand : held[m] > 0 => Running(m)

HostInv == LoadedIsOnRecord /\ OnDemandRuns /\ \A c \in Seats : SeatSays(c)
=============================================================================
