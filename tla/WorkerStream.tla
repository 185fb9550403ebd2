----------------------------- MODULE WorkerStream -----------------------------
(***************************************************************************)
(* One cluster's runner from stream to stream: internal/worker/loop.go     *)
(* (Run, runStream, handleMessage, toolCallSet, Close).                    *)
(*                                                                         *)
(* The receive goroutine reads messages in order and starts work: tool     *)
(* calls, which it waits for before the next stream, and tasks (app        *)
(* sessions, model calls and pulls), which it only tells to stop.  The     *)
(* heartbeat loop runs beside it and is joined.  A place holds one piece   *)
(* of work; its goroutine ends by itself or because its context ended.     *)
(***************************************************************************)
EXTENDS Integers, FiniteSets

CONSTANTS
  Tools,       \* places for tool calls
  Tasks,       \* places for app sessions, model calls and pulls
  MaxStreams,  \* bound: streams one Run opens
  MaxDrains    \* bound: drains the cluster asks for

ASSUME PlacesAssumption ==
  Tools \cap Tasks = {} /\ MaxStreams \in Nat \ {0} /\ MaxDrains \in Nat

Work == Tools \cup Tasks

VARIABLES
  recv,     \* the receive goroutine: "connecting", "reading", "stopping", "waiting",
            \* "joining", "draining" (waiting inside handleMessage), "returned"
  link,     \* the transport under the current stream: "up" or "gone"
  stream,   \* streams opened so far; the current one while reading
  beat,     \* the stream the heartbeat loop beats on, 0 when there is no loop
  state,    \* of each place: "idle", "recorded", "running", "sending"
  on,       \* the stream each piece of work arrived on, 0 when idle
  stopped,  \* the work's context has ended
  tracked,  \* toolCallSet.calls
  late,     \* ToolCancels the cluster has sent for a place and the receiver has not read
  drains,   \* drains handled
  closing   \* Close was called

stream_vars == <<recv, link, stream, beat, state, on, stopped, tracked, late, drains, closing>>

Live == {w \in Work : state[w] # "idle"}
InFlight == Live \cap Tools    \* what Runner.active counts

StreamTypeOK ==
  /\ recv \in {"connecting", "reading", "stopping", "waiting", "joining", "draining", "returned"}
  /\ link \in {"up", "gone"}
  /\ stream \in 0..MaxStreams /\ beat \in 0..MaxStreams
  /\ state \in [Work -> {"idle", "recorded", "running", "sending"}]
  /\ on \in [Work -> 0..MaxStreams]
  /\ stopped \subseteq Work
  /\ tracked \subseteq InFlight
  /\ late \subseteq Tools
  /\ drains \in 0..MaxDrains
  /\ closing \in BOOLEAN

StreamInit ==
  /\ recv = "connecting" /\ link = "gone" /\ stream = 0 /\ beat = 0
  /\ state = [w \in Work |-> "idle"] /\ on = [w \in Work |-> 0]
  /\ stopped = {} /\ tracked = {} /\ late = {}
  /\ drains = 0 /\ closing = FALSE

-----------------------------------------------------------------------------
(* Run                                                                     *)

(* A handshake that was accepted; the heartbeat loop starts.               *)
Connect ==
  /\ recv = "connecting" /\ ~closing /\ stream < MaxStreams
  /\ recv' = "reading" /\ link' = "up"
  /\ stream' = stream + 1 /\ beat' = stream + 1
  /\ UNCHANGED <<state, on, stopped, tracked, late, drains, closing>>

(* stopErr: Close was called, or the bound on streams is reached.          *)
RunReturns ==
  /\ recv = "connecting" /\ (closing \/ stream = MaxStreams)
  /\ recv' = "returned"
  /\ UNCHANGED <<link, stream, beat, state, on, stopped, tracked, late, drains, closing>>

LinkGoes ==
  /\ recv \in {"reading", "draining"} /\ link = "up"
  /\ link' = "gone"
  /\ UNCHANGED <<recv, stream, beat, state, on, stopped, tracked, late, drains, closing>>

-----------------------------------------------------------------------------
(* handleMessage                                                           *)

(* Mutant: the call is recorded by its own goroutine.                      *)
DispatchUnrecorded(w) ==
  /\ recv = "reading" /\ link = "up" /\ state[w] = "idle"
  /\ state' = [state EXCEPT ![w] = "recorded"]
  /\ on' = [on EXCEPT ![w] = stream]
  /\ UNCHANGED <<recv, link, stream, beat, stopped, tracked, late, drains, closing>>

(* A tool call is recorded on the receive goroutine; a task is registered  *)
(* there by its manager.                                                   *)
Dispatch(w) ==
  /\ recv = "reading" /\ link = "up" /\ state[w] = "idle"
  /\ state' = [state EXCEPT ![w] = "recorded"]
  /\ on' = [on EXCEPT ![w] = stream]
  /\ tracked' = tracked \cup ({w} \cap Tools)
  /\ UNCHANGED <<recv, link, stream, beat, stopped, late, drains, closing>>

(* The cluster stops waiting for a call it dispatched on this stream.      *)
ClusterCancels(w) ==
  /\ link = "up" /\ state[w] # "idle" /\ on[w] = stream
  /\ late' = late \cup {w}
  /\ UNCHANGED <<recv, link, stream, beat, state, on, stopped, tracked, drains, closing>>

ToolCancel(w) ==
  /\ recv = "reading" /\ w \in late
  /\ late' = late \ {w}
  /\ stopped' = stopped \cup ({w} \cap tracked)
  /\ UNCHANGED <<recv, link, stream, beat, state, on, tracked, drains, closing>>

(* StopAll of every manager, then active.Wait on this same goroutine.      *)
Drain ==
  /\ recv = "reading" /\ link = "up" /\ drains < MaxDrains
  /\ stopped' = stopped \cup (Live \cap Tasks)
  /\ recv' = "draining"
  /\ drains' = drains + 1
  /\ UNCHANGED <<link, stream, beat, state, on, tracked, late, closing>>

(* errServerDrain comes back to runStream, which logs it and reads on.     *)
DrainReturns ==
  /\ recv = "draining" /\ InFlight = {}
  /\ recv' = "reading"
  /\ UNCHANGED <<link, stream, beat, state, on, stopped, tracked, late, drains, closing>>

-----------------------------------------------------------------------------
(* The end of a stream                                                     *)

(* Mutant: the tool calls are left to finish.                              *)
RecvFailsLeavingTools ==
  /\ recv = "reading" /\ link = "gone"
  /\ stopped' = stopped \cup (Live \cap Tasks)
  /\ recv' = "waiting" /\ late' = {}
  /\ UNCHANGED <<link, stream, beat, state, on, tracked, drains, closing>>

(* Recv fails: StopAll of every manager, then cancelAll.                   *)
RecvFails ==
  /\ recv = "reading" /\ link = "gone"
  /\ stopped' = stopped \cup (Live \cap Tasks) \cup tracked
  /\ recv' = "waiting" /\ late' = {}
  /\ UNCHANGED <<link, stream, beat, state, on, tracked, drains, closing>>

(* Mutant: the runner does not wait for the tool calls.                    *)
ActiveUnwaited ==
  /\ recv = "waiting"
  /\ recv' = "joining"
  /\ UNCHANGED <<link, stream, beat, state, on, stopped, tracked, late, drains, closing>>

ActiveWaited ==
  /\ recv = "waiting" /\ InFlight = {}
  /\ recv' = "joining"
  /\ UNCHANGED <<link, stream, beat, state, on, stopped, tracked, late, drains, closing>>

(* runStream returns when the heartbeat loop has.                          *)
Joined ==
  /\ recv = "joining" /\ beat = 0
  /\ recv' = "connecting"
  /\ UNCHANGED <<link, stream, beat, state, on, stopped, tracked, late, drains, closing>>

(* The loop ends on a beat that fails, or when runStream cancels it.       *)
BeatStops ==
  /\ beat # 0 /\ (link = "gone" \/ recv = "joining" \/ stream # beat)
  /\ beat' = 0
  /\ UNCHANGED <<recv, link, stream, state, on, stopped, tracked, late, drains, closing>>

-----------------------------------------------------------------------------
(* The goroutine of a piece of work                                        *)

Runs(w) ==
  /\ state[w] = "recorded"
  /\ state' = [state EXCEPT ![w] = "running"]
  /\ tracked' = tracked \cup ({w} \cap Tools)
  /\ UNCHANGED <<recv, link, stream, beat, on, stopped, late, drains, closing>>

Finishes(w) ==
  /\ state[w] = "running"
  /\ state' = [state EXCEPT ![w] = "sending"]
  /\ UNCHANGED <<recv, link, stream, beat, on, stopped, tracked, late, drains, closing>>

(* The result is sent on the stream the work came on, then it is forgotten.*)
Reports(w) ==
  /\ state[w] = "sending"
  /\ state' = [state EXCEPT ![w] = "idle"]
  /\ on' = [on EXCEPT ![w] = 0]
  /\ stopped' = stopped \ {w} /\ tracked' = tracked \ {w} /\ late' = late \ {w}
  /\ UNCHANGED <<recv, link, stream, beat, drains, closing>>

(* Close: the loop's context ends, and with it every call's; the stream is *)
(* closed.                                                                 *)
Close ==
  /\ ~closing /\ recv # "returned"
  /\ closing' = TRUE /\ link' = "gone"
  /\ stopped' = stopped \cup Live
  /\ UNCHANGED <<recv, stream, beat, state, on, tracked, late, drains>>

Receiver ==
  \/ DrainReturns \/ RecvFails \/ ActiveWaited \/ Joined \/ RunReturns
  \/ \E w \in Tools : ToolCancel(w)

StreamNext ==
  \/ Connect \/ LinkGoes \/ Drain \/ Receiver \/ BeatStops \/ Close
  \/ \E w \in Work : Dispatch(w) \/ Runs(w) \/ Finishes(w) \/ Reports(w)
  \/ \E w \in Tools : ClusterCancels(w)
  \/ recv = "returned" /\ Live = {} /\ beat = 0 /\ UNCHANGED stream_vars

StreamSpec == StreamInit /\ [][StreamNext]_stream_vars

(* The receiver and the heartbeat loop step, and work whose context ended  *)
(* returns.  Work nobody stops may run for an hour: it is owed nothing.    *)
StreamFairness ==
  /\ WF_stream_vars(Receiver) /\ WF_stream_vars(BeatStops)
  /\ \A w \in Work :
       /\ WF_stream_vars(Runs(w)) /\ WF_stream_vars(Reports(w))
       /\ WF_stream_vars(w \in stopped /\ Finishes(w))

FairStreamSpec == StreamSpec /\ StreamFairness

-----------------------------------------------------------------------------
(* Properties                                                              *)

(* Nothing of one stream touches the next: when a stream is being opened,  *)
(* no tool call of an earlier one is left to report on it, and no          *)
(* heartbeat loop of an earlier one to evaluate or close it.               *)
StreamsAreApart ==
  /\ recv \in {"connecting", "reading", "draining"} =>
       /\ \A w \in InFlight : on[w] = stream
       /\ recv = "connecting" => InFlight = {}
  /\ beat \in {0, stream} /\ (recv = "connecting" => beat = 0)

(* A cancel finds the call it names however soon it comes: the call's      *)
(* context has ended once the cancel has been read.                        *)
CancelIsHeard ==
  [][\A w \in Tools : ToolCancel(w) /\ state[w] # "idle" => w \in stopped']_stream_vars

(* Work on a lost stream that the receiving goroutine is free to stop.     *)
Lost(w) == state[w] # "idle" /\ link = "gone" /\ recv # "draining"

(* Losing the stream ends all the work that came on it.  A stream lost     *)
(* while a drain waits inside handleMessage is not noticed until the tool  *)
(* calls the drain waits for have ended by themselves: Lost leaves that    *)
(* case out, and the README describes it.                                  *)
LostWorkEnds == \A w \in Work : Lost(w) ~> state[w] = "idle"
=============================================================================
