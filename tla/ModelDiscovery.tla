--------------------------- MODULE ModelDiscovery ---------------------------
(* Which models this machine offers (internal/worker/models): the floor,   *)
(* the probe of Ollama (the listing, then each model by itself), the       *)
(* probes of the runtimes policy.yaml declares, and the list the cluster   *)
(* is told.  The runtimes go on living between two questions: a model is   *)
(* pulled, replaced or removed, a server starts or stops.  The context     *)
(* window and the quantization, which go the way the size goes, are left   *)
(* out.                                                                    *)
EXTENDS Integers, Functions, FiniteSetsExt, SequencesExt

CONSTANTS
  Ids,         \* model ids
  Builds,      \* what Ollama may have under an id: [can, listed, total, experts, used, tensors]
  Policies,    \* what policy.yaml may declare: sequences of [name, protocol, models]
  Machines,    \* [os, chip, memory, major, nvidia, amd]; Unknown for what cannot be told
  MacMemory, MacMajor, Vram,   \* the floor
  Unknown,     \* a number that is none: what a probe could not read
  MaxProbes, MaxChanges        \* bounds: discoveries, changes and lost answers

Capabilities == {"completion", "tools", "embedding", "vision", "image"}
Claims == {"structured", "tools", "embeddings", "vision", "audioin", "audioout", "imagegen"}

DiscoveryAssumption ==
  /\ Unknown < 0 /\ {MacMemory, MacMajor, Vram} \subseteq Nat \ {0}
  /\ \A b \in Builds : b.can \subseteq Capabilities /\ {b.listed, b.total, b.experts, b.used} \subseteq Nat
  /\ \A p \in Policies : \A k \in DOMAIN p : \A m \in p[k].models : m.id \in Ids /\ m.claims \subseteq Claims
  (* two declared runtimes have two names: the order of their models in    *)
  (* the listing hangs on it                                               *)
  /\ \A p \in Policies : \A j, k \in DOMAIN p : p[j].name = p[k].name => j = k

VARIABLES
  setting,   \* what stays: [machine, policy, allow]
  ollama,    \* [up, has]
  served,    \* the declared runtimes: [up, lists]
  probe,     \* the discovery under way
  inventory, \* what the last one returned
  before,    \* history: the inventory of the one before it
  told,      \* history: the answers to the discovery under way
  quiet,     \* history: nothing changed since the first discovery began
  probes, changes

discovery_vars == <<setting, ollama, served, probe, inventory, before, told, quiet, probes, changes>>

None == [can |-> {"none"}]
Runtimes == DOMAIN setting.policy
NotYet == [met |-> FALSE, models |-> {}, version |-> FALSE]
Idle == [at |-> "idle", met |-> FALSE, left |-> {}, next |-> 1, found |-> {}, version |-> FALSE]

Infos == [id : Ids, kind : {"ollama", "declared"}, runtime : Nat, claims : SUBSET Claims,
          max : Nat, params : Nat, active : Nat]

DiscoveryTypeOK ==
  /\ ollama.up \in BOOLEAN /\ ollama.has \in [Ids -> Builds \cup {None}]
  /\ served \in [Runtimes -> [up : BOOLEAN, lists : SUBSET Ids]]
  /\ probe.at \in {"idle", "tags", "show", "version", "declared", "resolve"}
  /\ probe.left \subseteq Ids /\ probe.next \in 1..Len(setting.policy) + 1
  /\ \A i \in probe.found \cup inventory.models \cup before.models :
       /\ i.id \in Ids /\ i.claims \subseteq Claims /\ i.runtime \in Nat
       /\ {i.params, i.active} \subseteq Nat
  /\ probes \in 0..MaxProbes /\ changes \in 0..MaxChanges

Init ==
  /\ setting \in [machine : Machines, policy : Policies, allow : SUBSET Ids]
  /\ ollama \in [up : BOOLEAN, has : [Ids -> Builds \cup {None}]]
  /\ served = [k \in Runtimes |-> [up |-> TRUE, lists |-> {m.id : m \in setting.policy[k].models}]]
  /\ probe = Idle
  /\ inventory = NotYet /\ before = NotYet
  /\ told = {}
  /\ quiet = FALSE
  /\ probes = 0 /\ changes = 0

-----------------------------------------------------------------------------
(* The floor                                                               *)

(* A Mac: what cannot be told does not meet it.                            *)
MacFloor(m) == m.chip = "apple" /\ m.memory >= MacMemory /\ m.major >= MacMajor

(* A card of nvidia-smi whose memory cannot be read counts with none.      *)
(* Mutant: such a card counts with enough. *)
NvidiaCardsTrusted(m) == {IF v = Unknown THEN Vram ELSE v : v \in m.nvidia}
NvidiaCards(m) == {IF v = Unknown THEN 0 ELSE v : v \in m.nvidia}
(* One of the kernel's is passed over.                                     *)
AmdCards(m) == m.amd \ {Unknown}
Cards(m) == NvidiaCards(m) \cup AmdCards(m)

LinuxFloor(m) == m.chip = "amd64" /\ Cards(m) # {} /\ Max(Cards(m)) >= Vram

Floor(m) == (m.os = "darwin" /\ MacFloor(m)) \/ (m.os = "linux" /\ LinuxFloor(m))

-----------------------------------------------------------------------------
(* What Ollama says of one model                                           *)

Generates(b) == "completion" \in b.can

(* Mutant: an embedder whose template mentions tools is claimed for them. *)
ToolsOfTemplate(b) == "tools" \in b.can
Tools(b) == Generates(b) /\ "tools" \in b.can
StructuredOutput(b) == Tools(b)

ShownClaims(b) ==
  {c \in Claims :
     \/ c = "tools" /\ Tools(b)
     \/ c = "structured" /\ StructuredOutput(b)
     \/ c = "embeddings" /\ "embedding" \in b.can
     \/ c = "vision" /\ Generates(b) /\ "vision" \in b.can
     \/ c = "imagegen" /\ "image" \in b.can}

Sum1(s) == FoldLeft(LAMBDA a, t : a + t.count, 0, s)

(* The share of a mixture's weights that a token does not meet: of each    *)
(* tensor of experts, those that are not used.                             *)
Inactive(b) ==
  FoldLeft(LAMBDA a, t : a + (t.count \div b.experts) * (b.experts - b.used), 0,
           SelectSeq(b.tensors, LAMBDA t : t.of > 0))

(* Nothing is claimed unless the tensors account for the whole count and   *)
(* every tensor of experts has one slice per expert.                       *)
(* Mutant: tensors that are missing are not noticed. *)
ActiveParamsOfSome(b) ==
  IF /\ b.total > 0 /\ b.experts > 1 /\ b.used > 0 /\ b.used <= b.experts
     /\ \A k \in DOMAIN b.tensors : b.tensors[k].of \in {0, b.experts}
     /\ Inactive(b) > 0 /\ Inactive(b) < b.total
  THEN b.total - Inactive(b) ELSE 0
ActiveParams(b) ==
  IF /\ b.total > 0 /\ b.experts > 1 /\ b.used > 0 /\ b.used <= b.experts
     /\ \A k \in DOMAIN b.tensors : b.tensors[k].of \in {0, b.experts}
     /\ Sum1(b.tensors) = b.total
     /\ Inactive(b) > 0 /\ Inactive(b) < b.total
  THEN b.total - Inactive(b) ELSE 0

-----------------------------------------------------------------------------
(* A discovery                                                             *)

World == <<setting, ollama, served, changes>>

(* Discover asks nothing below the floor; Probe, for `memql worker         *)
(* models`, asks all the same and reports the verdict beside it.           *)
Begins(gated) ==
  /\ probe.at = "idle" /\ probes < MaxProbes
  /\ probes' = probes + 1
  /\ told' = {}
  /\ before' = inventory
  /\ quiet' = (probes = 0 \/ quiet)
  /\ IF gated /\ ~Floor(setting.machine)
     THEN inventory' = NotYet /\ UNCHANGED probe
     ELSE /\ probe' = [Idle EXCEPT !.at = "tags", !.met = Floor(setting.machine)]
          /\ UNCHANGED inventory
  /\ UNCHANGED World

(* An answer that does not come is a change of the world the discovery     *)
(* saw, and counts as one.                                                 *)
Lost == changes < MaxChanges /\ changes' = changes + 1 /\ quiet' = FALSE
Answered == UNCHANGED <<changes, quiet>>
Still == UNCHANGED <<setting, ollama, served, inventory, before, probes>>

Pulled == {i \in Ids : ollama.has[i] # None}

(* /api/tags: the models and their sizes.                                  *)
Listed ==
  /\ probe.at = "tags" /\ ollama.up /\ Answered
  /\ probe' = IF Pulled = {} THEN [probe EXCEPT !.at = "declared"]
              ELSE [probe EXCEPT !.at = "show", !.left = Pulled,
                                 !.found = {[id |-> i, kind |-> "ollama", runtime |-> 0, claims |-> {}, max |-> 1,
                                             params |-> ollama.has[i].listed, active |-> 0] : i \in Pulled}]
  /\ told' = told \cup {<<"ollama", i, ollama.has[i]>> : i \in Pulled}
  /\ Still
NotListed ==
  /\ probe.at = "tags" /\ (Lost \/ (~ollama.up /\ Answered))
  /\ probe' = [probe EXCEPT !.at = "declared"]
  /\ UNCHANGED told /\ Still

(* /api/show, one model after the other: what it can do, and a better      *)
(* count of its parameters.                                                *)
Left(i) ==
  LET rest == probe.left \ {i} IN [probe EXCEPT !.left = rest, !.at = IF rest = {} THEN "version" ELSE "show"]
Shown(i) ==
  /\ probe.at = "show" /\ i \in probe.left
  /\ ollama.up /\ ollama.has[i] # None /\ Answered
  /\ LET b == ollama.has[i]
     IN /\ probe' = [Left(i) EXCEPT !.found = {IF m.id # i THEN m
             ELSE [m EXCEPT !.claims = ShownClaims(b), !.active = ActiveParams(b),
                            !.params = IF b.total > 0 THEN b.total ELSE m.params] : m \in probe.found}]
        /\ told' = told \cup {<<"ollama", i, b>>}
  /\ Still
(* One that does not answer keeps what the listing said and claims         *)
(* nothing.                                                                *)
NotShown(i) ==
  /\ probe.at = "show" /\ i \in probe.left
  /\ Lost \/ (Answered /\ (~ollama.up \/ ollama.has[i] = None))
  /\ probe' = Left(i)
  /\ UNCHANGED told /\ Still

VersionRead ==
  /\ probe.at = "version" /\ Answered
  /\ probe' = [probe EXCEPT !.at = "declared", !.version = ollama.up]
  /\ UNCHANGED told /\ Still

-----------------------------------------------------------------------------
(* The runtimes the policy declares, in its order.                         *)

(* What a declared runtime says it serves: a chat server lists its models, *)
(* whisper.cpp only says it is ready.                                      *)
(* Mutant: what is declared is offered whether the server lists it or not. *)
ServesAll(k, m) == m.id \in Ids
Serves(k, m) == setting.policy[k].protocol = "whisper" \/ m.id \in served[k].lists

InfoOf(k, m) ==
  [id |-> m.id, kind |-> "declared", runtime |-> setting.policy[k].name, claims |-> m.claims,
   max |-> IF m.max > 0 THEN m.max ELSE 1, params |-> m.params, active |-> 0]

(* A protocol nobody knows, a server without declared models and one that  *)
(* does not answer contribute nothing.                                     *)
DeclaredAsked ==
  LET k == probe.next
      asked == k <= Len(setting.policy) /\ setting.policy[k].models # {} /\ setting.policy[k].protocol # "odd"
  IN /\ probe.at = "declared" /\ k <= Len(setting.policy)
     /\ probe' = [probe EXCEPT !.next = k + 1,
          !.found = @ \cup IF asked /\ served[k].up
                           THEN {InfoOf(k, m) : m \in {x \in setting.policy[k].models : Serves(k, x)}} ELSE {}]
     /\ told' = told \cup IF asked /\ served[k].up THEN {<<"declared", k, served[k]>>} ELSE {}
     /\ Answered /\ Still

(* One entry per id, in the order of the ids and then of the runtimes'     *)
(* names: a declared one before Ollama's, and the first of two.            *)
(* Mutant: Ollama's count among them. *)
PickedFromAll(group) == group
PickedFrom(group) ==
  LET declared == {i \in group : i.kind = "declared"} IN IF declared = {} THEN group ELSE declared
PickOf(group) == CHOOSE i \in PickedFrom(group) : \A j \in PickedFrom(group) : i.runtime <= j.runtime

(* Mutant: without the order, either of two. *)
ResolvesAny ==
  /\ probe.at = "declared" /\ probe.next > Len(setting.policy) /\ Answered
  /\ \E pick \in [{m.id : m \in probe.found} -> probe.found] :
       /\ \A i \in DOMAIN pick : pick[i] \in PickedFrom({m \in probe.found : m.id = i})
       /\ inventory' = [met |-> probe.met, version |-> probe.version, models |-> Range(pick)]
  /\ probe' = Idle
  /\ UNCHANGED <<told, setting, ollama, served, before, probes>>
Resolves ==
  /\ probe.at = "declared" /\ probe.next > Len(setting.policy) /\ Answered
  /\ inventory' = [met |-> probe.met, version |-> probe.version,
       models |-> {PickOf({m \in probe.found : m.id = i}) : i \in {m.id : m \in probe.found}}]
  /\ probe' = Idle
  /\ UNCHANGED <<told, setting, ollama, served, before, probes>>

-----------------------------------------------------------------------------
(* What the cluster is told, and what a call is served by.                 *)

(* Mutant: a machine below its floor offers what it has. *)
AdvertisedAnyway(inv) == {m \in inv.models : m.id \in setting.allow}
Advertised(inv) == IF inv.met THEN {m \in inv.models : m.id \in setting.allow} ELSE {}
Labels(inv) ==
  {<<m.id, m.claims, m.max, m.params, m.active>> : m \in Advertised(inv)}
    \cup {<<m.kind, m.kind = "ollama" /\ inv.version>> : m \in Advertised(inv)}
Find(inv, i) == {m \in Advertised(inv) : m.id = i}

-----------------------------------------------------------------------------
(* The runtimes' own life                                                  *)

Changed == /\ changes < MaxChanges /\ changes' = changes + 1 /\ quiet' = FALSE
           /\ UNCHANGED <<setting, probe, inventory, before, told, probes>>
OllamaSwitches == Changed /\ ollama' = [ollama EXCEPT !.up = ~@] /\ UNCHANGED served
(* A pull, a replacement of what a name stands for, a removal.             *)
OllamaModelChanges(i, b) ==
  Changed /\ ollama.up /\ b # ollama.has[i] /\ ollama' = [ollama EXCEPT !.has[i] = b] /\ UNCHANGED served
RuntimeSwitches(k) == Changed /\ served' = [served EXCEPT ![k].up = ~@] /\ UNCHANGED ollama
RuntimeListChanges(k, i) ==
  /\ Changed /\ served[k].up
  /\ served' = [served EXCEPT ![k].lists = IF i \in @ THEN @ \ {i} ELSE @ \cup {i}]
  /\ UNCHANGED ollama

Over == probe.at = "idle" /\ probes = MaxProbes /\ UNCHANGED discovery_vars

Next ==
  \/ \E gated \in BOOLEAN : Begins(gated)
  \/ Listed \/ NotListed \/ VersionRead \/ DeclaredAsked \/ Resolves
  \/ \E i \in Ids : Shown(i) \/ NotShown(i)
  \/ OllamaSwitches
  \/ \E i \in Ids, b \in Builds \cup {None} : OllamaModelChanges(i, b)
  \/ \E k \in Runtimes : RuntimeSwitches(k) \/ \E i \in Ids : RuntimeListChanges(k, i)
  \/ Over

Spec == Init /\ [][Next]_discovery_vars

-----------------------------------------------------------------------------
(* Every model a finished discovery offers is offered on somebody's word,  *)
(* given in this very discovery: of Ollama's models each claim is in what  *)
(* Ollama said of that model (no chat, tools or pictures of one that only  *)
(* embeds), an active count is the part of an exact account that a token   *)
(* meets, and a declared model is one its running server lists.  Nothing   *)
(* is offered by a machine that is not known to meet the floor, nothing    *)
(* its owner did not allow, nothing without a ceiling, and of each name    *)
(* one entry, the declared one where there is one; a call for anything     *)
(* else is refused.  (models/ollama.go, openai.go, discover.go, models.go) *)
MeetsSurely(m) ==
  \/ m.os = "darwin" /\ m.chip = "apple" /\ ~(m.memory < MacMemory \/ m.major < MacMajor)
  \/ m.os = "linux" /\ m.chip = "amd64" /\ \E v \in m.nvidia \cup m.amd : v >= Vram
ActiveShare(b) ==
  FoldLeft(LAMBDA a, t : a + IF t.of > 0 THEN (t.count * b.used) \div b.experts ELSE t.count, 0, b.tensors)
SaidOf(m, b) ==
  /\ "tools" \in m.claims => {"completion", "tools"} \subseteq b.can
  /\ "structured" \in m.claims => {"completion", "tools"} \subseteq b.can
  /\ "vision" \in m.claims => {"completion", "vision"} \subseteq b.can
  /\ "embeddings" \in m.claims => "embedding" \in b.can
  /\ "imagegen" \in m.claims => "image" \in b.can
  /\ m.active > 0 => m.active = ActiveShare(b) /\ Sum1(b.tensors) = m.params
  /\ m.claims \cap {"audioin", "audioout"} = {}
Offering(m) ==
  {t \in told : /\ t[1] = "declared" /\ setting.policy[t[2]].protocol # "odd"
                /\ setting.policy[t[2]].protocol = "whisper" \/ m.id \in t[3].lists
                /\ \E d \in setting.policy[t[2]].models : d.id = m.id}
ClaimsAreEarned ==
  probe.at = "idle" /\ inventory # NotYet =>
    \A m \in Advertised(inventory) :
      /\ MeetsSurely(setting.machine) /\ m.id \in setting.allow /\ m.max > 0
      /\ Find(inventory, m.id) = {m}
      /\ m.kind = "ollama" => Offering(m) = {} /\ \E t \in told : t[1] = "ollama" /\ t[2] = m.id /\ SaidOf(m, t[3])
      /\ m.kind = "declared" =>
           \E t \in Offering(m) : /\ setting.policy[t[2]].name = m.runtime
                                  /\ \E d \in setting.policy[t[2]].models : d.id = m.id /\ d.claims = m.claims

(* While nothing changes on the machine, two discoveries by the same gate  *)
(* give the same labels, in whatever order the runtimes list their models: *)
(* the row of a registration is not rewritten for nothing.                 *)
(* (models/discover.go Probe, models.go Labels)                            *)
LabelsAreStable ==
  (probe.at = "idle" /\ probes > 1 /\ quiet) => Labels(inventory) = Labels(before)
=============================================================================
