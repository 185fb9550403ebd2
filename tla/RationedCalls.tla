----------------------------- MODULE RationedCalls -----------------------------
(***************************************************************************)
(* What the machine's concurrency ceiling promises (the package comment of *)
(* internal/worker/modelcall/limiter.go), with no counter, queue or        *)
(* channel: a call comes in, may be admitted to a model while the calls    *)
(* holding that model, and all the calls holding one, are below the        *)
(* ceilings it was told, and leaves.                                       *)
(***************************************************************************)
EXTENDS Naturals, FiniteSets

CONSTANTS Places, Models, NoModel, Ceilings

VARIABLES
  slot,      \* the model each call in flight holds, or NoModel
  inFlight   \* the calls that came in and have not left

Holders == {c \in Places : slot[c] # NoModel}
HoldersOf(m) == {c \in Places : slot[c] = m}

Init == slot = [c \in Places |-> NoModel] /\ inFlight = {}

Arrive(c) ==
  /\ c \notin inFlight
  /\ inFlight' = inFlight \cup {c}
  /\ UNCHANGED slot

Admit(c, m, cap) ==
  /\ c \in inFlight /\ slot[c] = NoModel
  /\ cap.model = 0 \/ Cardinality(HoldersOf(m)) < cap.model
  /\ cap.machine = 0 \/ Cardinality(Holders) < cap.machine
  /\ slot' = [slot EXCEPT ![c] = m]
  /\ UNCHANGED inFlight

Leave(c) ==
  /\ c \in inFlight
  /\ inFlight' = inFlight \ {c}
  /\ slot' = [slot EXCEPT ![c] = NoModel]

Next ==
  \E c \in Places :
    \/ Arrive(c) \/ Leave(c)
    \/ \E m \in Models, cap \in Ceilings : Admit(c, m, cap)

Spec == Init /\ [][Next]_<<slot, inFlight>>
=============================================================================
