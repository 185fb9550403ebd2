------------------------------ MODULE DeltaStream ------------------------------
(***************************************************************************)
(* What one model call puts on the stream to the cluster: the deltaStream, *)
(* the generation and the watchdog of internal/worker/modelcall/session.go.*)
(*                                                                         *)
(* Two goroutines number deltas from one counter: the call's own (admit's  *)
(* keepalives, then the runtime's answer) and the watchdog (keepalives     *)
(* while the runtime is silent).  A delta is numbered under deltaStream.mu *)
(* and handed to the connection after the lock is let go.                  *)
(*                                                                         *)
(* Time is counted in units.  It passes only while both goroutines wait,   *)
(* so a ticker that fires is served and a numbered delta handed over       *)
(* within the unit: the bounds below are those of a machine that keeps up. *)
(***************************************************************************)
EXTENDS Integers, Sequences, FiniteSets, Functions

CONSTANTS
  Idle,           \* the idle ceiling the caller set, in units
  KeepaliveEvery, \* the keepalive cadence the caller set, in units
  Timeout,        \* the call's absolute deadline, in units
  MaxContent      \* bound: content deltas of one call

(* The units are fine enough that half of the ceiling is one or more.      *)
UnitsAssumption ==
  /\ Idle \in Nat \ {0, 1} /\ KeepaliveEvery \in Nat \ {0} /\ Timeout \in Nat \ {0}
  /\ MaxContent \in Nat

(* A cadence at or above the ceiling is tightened to half of it.           *)
cadence == IF KeepaliveEvery >= Idle THEN Idle \div 2 ELSE KeepaliveEvery

(* Mutant: the watchdog ticks at the cadence it tests.                     *)
tickFull == cadence

(* The watchdog's ticker: half the cadence.                                *)
tick == IF cadence \div 2 = 0 THEN cadence ELSE cadence \div 2

VARIABLES
  call,        \* "waiting" in admit, "running", "returned", "ended"
  dog,         \* the watchdog: "off", "select", "checking", "cadence", "keepalive", "sending", "gone"
  numbered,    \* the delta each goroutine has numbered and not handed over
  seq,         \* deltaStream.seq
  started,     \* deltaStream.started
  sendAge,     \* time since deltaStream.lastSend
  contentAge,  \* time since deltaStream.lastContent
  nextTick,    \* time to the next tick of admit's ticker or the watchdog's
  age,         \* time since Start
  callCtx,         \* the call's context: "live" or "ended"
  observeIdle, \* false for a runtime that buffers tool calls
  open,        \* the stream to the cluster still takes messages
  wire,        \* what the connection took, in order
  silence      \* ghost: time since the runtime last produced anything

clocks == <<sendAge, contentAge, nextTick, age, silence>>
delta_vars == <<call, dog, numbered, seq, started, clocks, callCtx, observeIdle, open, wire>>

Senders == {"call", "dog"}
Nothing == [seq |-> -1, kind |-> "none"]

(* Ages are only compared with the ceilings: they stop at AgeBound.        *)
AgeBound == 2 * (Idle + KeepaliveEvery)
Older(a) == IF a < AgeBound THEN a + 1 ELSE a

Delta == [seq : Int, kind : {"content", "keepalive", "end", "none"}]
Ages == 0..AgeBound

DeltaTypeOK ==
  /\ call \in {"waiting", "running", "returned", "ended"}
  /\ dog \in {"off", "select", "checking", "cadence", "keepalive", "sending", "gone"}
  /\ numbered \in [Senders -> Delta]
  /\ seq \in Nat
  /\ started \in BOOLEAN /\ observeIdle \in BOOLEAN /\ open \in BOOLEAN
  /\ sendAge \in Ages /\ contentAge \in Ages /\ silence \in Ages
  /\ nextTick \in 0..cadence
  /\ age \in 0..Timeout
  /\ callCtx \in {"live", "ended"}
  /\ wire \in Seq(Delta)

DeltaInit ==
  /\ call = "waiting" /\ dog = "off"
  /\ numbered = [s \in Senders |-> Nothing]
  /\ seq = 0 /\ started = FALSE
  /\ sendAge = 0 /\ contentAge = 0 /\ silence = 0
  /\ nextTick = cadence /\ age = 0
  /\ callCtx = "live" /\ observeIdle \in BOOLEAN /\ open = TRUE
  /\ wire = <<>>

AtRest(s) == numbered[s] = Nothing

-----------------------------------------------------------------------------
(* deltaStream                                                             *)

(* Mutant: any delta moves the runtime's clock, a keepalive too.           *)
numberMovesContent(s, kind) ==
  /\ numbered' = [numbered EXCEPT ![s] = [seq |-> seq, kind |-> kind]]
  /\ seq' = seq + 1
  /\ sendAge' = 0
  /\ contentAge' = 0
  /\ started' = (kind = "content" \/ started)

(* Mutant: the watchdog numbers its keepalives by itself.                  *)
numberApart(s, kind) ==
  /\ numbered' = [numbered EXCEPT ![s] = [seq |-> seq, kind |-> kind]]
  /\ seq' = IF s = "dog" THEN seq ELSE seq + 1
  /\ sendAge' = 0
  /\ IF kind = "content" THEN contentAge' = 0 /\ started' = TRUE
                         ELSE UNCHANGED <<contentAge, started>>

(* The locked half of send.                                                *)
number(s, kind) ==
  /\ numbered' = [numbered EXCEPT ![s] = [seq |-> seq, kind |-> kind]]
  /\ seq' = seq + 1
  /\ sendAge' = 0
  /\ IF kind = "content" THEN contentAge' = 0 /\ started' = TRUE
                         ELSE UNCHANGED <<contentAge, started>>

(* The other half, outside the lock: the connection takes the delta, or    *)
(* refuses it because the stream is gone, which ends admit's wait and the  *)
(* client's read, and makes the watchdog cancel the call.                  *)
HandOver(s) ==
  /\ ~AtRest(s)
  /\ numbered' = [numbered EXCEPT ![s] = Nothing]
  /\ wire' = IF open THEN Append(wire, numbered[s]) ELSE wire
  /\ dog' = IF s # "dog" THEN dog ELSE IF open THEN "select" ELSE "gone"
  /\ callCtx' = IF s = "dog" /\ ~open THEN "ended" ELSE callCtx
  /\ call' = IF s = "call" /\ ~open THEN "returned" ELSE call
  /\ UNCHANGED <<seq, started, clocks, observeIdle, open>>

-----------------------------------------------------------------------------
(* The call's goroutine: admit, then run                                   *)

AdmitKeepalive ==
  /\ call = "waiting" /\ AtRest("call")
  /\ nextTick = 0
  /\ nextTick' = cadence
  /\ number("call", "keepalive")
  /\ UNCHANGED <<call, dog, age, silence, callCtx, observeIdle, open, wire>>

(* A slot: the send and content clocks start, and the watchdog with them.  *)
Admitted ==
  /\ call = "waiting" /\ AtRest("call")
  /\ call' = "running"
  /\ sendAge' = 0 /\ contentAge' = 0
  /\ dog' = "select" /\ nextTick' = tick
  /\ UNCHANGED <<numbered, seq, started, age, silence, callCtx, observeIdle, open, wire>>

Content == {i \in 1..Len(wire) : wire[i].kind = "content"}

(* Answer text.                                                            *)
RuntimeOutput ==
  /\ call = "running" /\ AtRest("call")
  /\ callCtx = "live" /\ Cardinality(Content) < MaxContent
  /\ number("call", "content")
  /\ silence' = 0
  /\ UNCHANGED <<call, dog, nextTick, age, callCtx, observeIdle, open, wire>>

(* Reasoning and tool output that is not sent on.                          *)
RuntimeProgress ==
  /\ call = "running" /\ AtRest("call")
  /\ contentAge' = 0 /\ started' = TRUE /\ silence' = 0
  /\ UNCHANGED <<call, dog, numbered, seq, sendAge, nextTick, age, callCtx, observeIdle, open, wire>>

(* Mutant: the client returns on a cancel with an answer still in hand.    *)
ClientReturnsEarly ==
  /\ call = "running"
  /\ call' = "returned"
  /\ UNCHANGED <<dog, numbered, seq, started, clocks, callCtx, observeIdle, open, wire>>

(* The client returns, and the watchdog is told to stop (call is no longer *)
(* "running"), not waited for.                                             *)
ClientReturns ==
  /\ call = "running" /\ AtRest("call")
  /\ call' = "returned"
  /\ UNCHANGED <<dog, numbered, seq, started, clocks, callCtx, observeIdle, open, wire>>

(* The one ModelCallEnd: after the client, or admit's refusal.             *)
SendsEnd ==
  /\ call \in {"waiting", "returned"}
  /\ call = "waiting" => AtRest("call")
  /\ call' = "ended"
  /\ wire' = IF open THEN Append(wire, [seq |-> -1, kind |-> "end"]) ELSE wire
  /\ UNCHANGED <<dog, numbered, seq, started, clocks, callCtx, observeIdle, open>>

-----------------------------------------------------------------------------
(* The watchdog's goroutine                                                *)

DogStops ==
  /\ dog = "select" /\ (call # "running" \/ callCtx = "ended")
  /\ dog' = "gone"
  /\ UNCHANGED <<call, numbered, seq, started, clocks, callCtx, observeIdle, open, wire>>

(* A tick and the end of the call may both be ready: select picks either.  *)
DogTick ==
  /\ dog = "select" /\ nextTick = 0
  /\ dog' = "checking" /\ nextTick' = tick
  /\ UNCHANGED <<call, numbered, seq, started, sendAge, contentAge, age, silence,
                 callCtx, observeIdle, open, wire>>

idleExpired == observeIdle /\ started /\ contentAge >= Idle

(* The runtime is silent past the ceiling: the call's context is ended.    *)
DogIdle ==
  /\ dog = "checking" /\ idleExpired
  /\ dog' = "gone" /\ callCtx' = "ended"
  /\ UNCHANGED <<call, numbered, seq, started, clocks, observeIdle, open, wire>>

DogNotIdle ==
  /\ dog = "checking" /\ ~idleExpired
  /\ dog' = "cadence"
  /\ UNCHANGED <<call, numbered, seq, started, clocks, callCtx, observeIdle, open, wire>>

(* sinceSend is read, and the keepalive numbered, under two locks.         *)
DogCadence ==
  /\ dog = "cadence"
  /\ dog' = IF sendAge >= cadence THEN "keepalive" ELSE "select"
  /\ UNCHANGED <<call, numbered, seq, started, clocks, callCtx, observeIdle, open, wire>>

DogKeepalive ==
  /\ dog = "keepalive"
  /\ dog' = "sending"
  /\ number("dog", "keepalive")
  /\ UNCHANGED <<call, nextTick, age, silence, callCtx, observeIdle, open, wire>>

-----------------------------------------------------------------------------
(* Cancel, StopAll, and a stream that breaks                               *)

CtxEnds ==
  /\ callCtx = "live" /\ call # "ended"
  /\ callCtx' = "ended"
  /\ UNCHANGED <<call, dog, numbered, seq, started, clocks, observeIdle, open, wire>>

StreamBreaks ==
  /\ open /\ open' = FALSE
  /\ UNCHANGED <<call, dog, numbered, seq, started, clocks, callCtx, observeIdle, wire>>

(* A unit of time, which the timeout ends the call at.                     *)
Tick ==
  /\ \A s \in Senders : AtRest(s)
  /\ dog \in {"off", "select", "gone"}
  /\ nextTick = 0 => call # "waiting" /\ dog # "select"
  /\ call \in {"waiting", "running"} /\ age < Timeout
  /\ age' = age + 1
  /\ sendAge' = Older(sendAge) /\ contentAge' = Older(contentAge) /\ silence' = Older(silence)
  /\ nextTick' = IF nextTick > 0 THEN nextTick - 1 ELSE 0
  /\ callCtx' = IF age' = Timeout THEN "ended" ELSE callCtx
  /\ UNCHANGED <<call, dog, numbered, seq, started, observeIdle, open, wire>>

DeltaNext ==
  \/ \E s \in Senders : HandOver(s)
  \/ AdmitKeepalive \/ Admitted
  \/ RuntimeOutput \/ RuntimeProgress \/ ClientReturns \/ SendsEnd
  \/ DogStops \/ DogTick \/ DogIdle \/ DogNotIdle \/ DogCadence \/ DogKeepalive
  \/ CtxEnds \/ StreamBreaks \/ Tick

DeltaSpec == DeltaInit /\ [][DeltaNext]_delta_vars

-----------------------------------------------------------------------------
(* Properties                                                              *)

Numbers == [i \in {j \in 1..Len(wire) : wire[j].kind # "end"} |-> wire[i].seq]

(* One numbering: the two goroutines never put one number on two deltas    *)
(* (the engine drops the second as a duplicate), and the answer's pieces   *)
(* go out in the order of their numbers.                                   *)
OneNumbering ==
  /\ \A i, j \in DOMAIN Numbers : i # j => Numbers[i] # Numbers[j]
  /\ \A s \in Senders : ~AtRest(s) => numbered[s].seq \notin Range(Numbers)
  /\ \A i, j \in Content : i < j => Numbers[i] < Numbers[j]

EndsSent == {i \in 1..Len(wire) : wire[i].kind = "end"}

(* One End, and no part of the answer behind it, where the engine has      *)
(* already closed the call.                                                *)
AnswerBeforeEnd ==
  /\ Cardinality(EndsSent) <= 1
  /\ \A i \in EndsSent, j \in Content : j < i
  /\ call = "ended" /\ ~AtRest("call") => numbered["call"].kind # "content"

(* While the runtime works in silence the cluster still hears from the     *)
(* call within one and a half keepalives.                                  *)
KeepaliveCadence ==
  call = "running" /\ callCtx = "live" => 2 * sendAge <= 3 * cadence

(* A runtime that has started and then says nothing is stopped within a    *)
(* tick of the ceiling: the worker's own keepalives, which go out all      *)
(* along, never count as the runtime's output.                             *)
QuietRuntimeIsStopped ==
  call = "running" /\ callCtx = "live" /\ started /\ observeIdle => silence <= Idle + tick

(* What the cluster sees of a call is one answer, in order, then its End:  *)
(* the pieces go out in the order of their numbers, no two deltas have one *)
(* number, and nothing of the answer is behind the End (deltaStream.send,  *)
(* Manager.run), though two goroutines number and send.                    *)
AnswerIsInOrder == DeltaTypeOK /\ OneNumbering /\ AnswerBeforeEnd

(* A runtime gone quiet is stopped within a tick of the ceiling, and one   *)
(* that works in silence is heard of within one and a half keepalives      *)
(* (Manager.watchdog).                                                     *)
SilenceIsBounded == QuietRuntimeIsStopped /\ KeepaliveCadence

(* What the engine appends: a delta numbered above all before it.          *)
IsKept(i) == \A j \in DOMAIN Numbers : j < i => Numbers[j] < Numbers[i]

(* session.go:893-896: content and keepalives share the counter because    *)
(* the engine's rule is "strictly increasing", so all content is kept.     *)
AllContentIsKept == \A i \in Content : IsKept(i)
=============================================================================
