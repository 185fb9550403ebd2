----------------------------- MODULE MCModelCalls -----------------------------
(* The queue of the model calls (ModelCalls), what one call sends back     *)
(* (DeltaStream), the memory a call runs in (HostResources) and the answer *)
(* of its runtime (RuntimeAnswer), checked in one run.  A behaviour is of  *)
(* one of the four, which Begin chooses; the others stand still.            *)
EXTENDS ModelCalls, DeltaStream, HostResources, RuntimeAnswer, TLC

CONSTANT MaxAborted    \* bound: calls whose context ends

VARIABLE subject    \* the part in play

ASSUME PartBounds == UnitsAssumption /\ HostAssumption /\ AnswerAssumption

(* The owner raises a ceiling to 2, or withdraws the model.                 *)
Changing == {[m \in Models |-> k] : k \in {1, 2, NotOffered}}

(* A call of which nothing is sent.                                         *)
NoStream == DeltaInit /\ observeIdle

(* A machine of which nothing is asked, with nothing else in its memory.    *)
NoHost == HostInit /\ other = 0

(* A call whose request has not been sent.                                  *)
NoAnswer ==
  /\ AnswerInit /\ api = "ollama" /\ ~fits
  /\ want = [kind |-> "chat", schema |-> FALSE, tools |-> FALSE]

Begin ==
  /\ Init
  /\ \/ subject = "queue" /\ NoStream /\ NoHost /\ NoAnswer
     \/ subject = "stream" /\ DeltaInit /\ NoHost /\ NoAnswer /\ inv = [m \in Models |-> 1]
     \/ subject = "host" /\ HostInit /\ NoStream /\ NoAnswer /\ inv = [m \in Models |-> 1]
     \/ subject = "answer" /\ AnswerInit /\ NoStream /\ NoHost /\ inv = [m \in Models |-> 1]

(* A stream stops where its call has ended.                                 *)
Step ==
  /\ UNCHANGED subject
  /\ \/ subject = "queue" /\ Next /\ UNCHANGED <<delta_vars, host_vars, answer_vars>>
     \/ subject = "stream" /\ DeltaNext /\ UNCHANGED <<vars, host_vars, answer_vars>>
     \/ subject = "stream" /\ UNCHANGED <<vars, delta_vars, host_vars, answer_vars>>
     \/ subject = "host" /\ HostNext /\ UNCHANGED <<vars, delta_vars, answer_vars>>
     \/ subject = "answer" /\ AnswerNext /\ UNCHANGED <<vars, delta_vars, host_vars>>

Parts == Begin /\ [][Step]_<<subject, vars, delta_vars, host_vars, answer_vars>>

(* Calls are interchangeable, and so are the ids the cluster gives them:    *)
(* the properties that are checked under it are safety properties.          *)
Symmetry == Permutations(Calls) \cup Permutations(Ids)

(* At most MaxAborted of the calls in flight have their context ended; every *)
(* order of aborting them one after another is kept.                        *)
AbortBound == Cardinality({c \in Calls : ctx[c] # "live"}) <= MaxAborted
=============================================================================
