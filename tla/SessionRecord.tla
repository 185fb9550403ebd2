----------------------------- MODULE SessionRecord -----------------------------
(* What an app session tells the engine while it runs: narration and       *)
(* actions of several goroutines, numbered and sent one at a time with a   *)
(* retry, under a limit that narration alone is subject to; and the file   *)
(* an action names, hashed or remembered, whose digest travels unless the  *)
(* file carries a credential of the session.                               *)
EXTENDS Naturals, Sequences, FiniteSets, SequencesExt

CONSTANTS
  Emitters,      \* goroutines that emit
  Recorder,      \* the one of them that runs the harness and records
  MaxBytes,      \* limits.max_transcript_bytes; 0 is no limit
  Attempts,      \* chunkSendAttempts
  Settle,        \* digestSettle, in ticks of the file system's clock
  Slow,          \* whether hashing a file may outlast digestSettle
  MaxItems,      \* bound: what is said and recorded
  MaxFaults,     \* bound: sends that fail
  MaxClock,      \* bound: ticks
  MaxRenewals    \* bound: bearers after the first

RecordAssumption ==
  /\ Recorder \in Emitters /\ MaxBytes \in Nat /\ Attempts \in Nat \ {0} /\ Settle \in Nat \ {0} /\ Slow \in BOOLEAN
  /\ MaxItems \in Nat /\ MaxFaults \in Nat /\ MaxClock \in Nat /\ MaxRenewals \in Nat

VARIABLES
  at,               \* where an emitter is
  holder,           \* who holds sendMu
  seq,              \* the session's last number
  streamed, capped, \* the narration let through, and whether the limit was reached
  artifact,         \* the transcript on the disk: all that was emitted
  wire,             \* what the engine kept, by its place in the artifact; 0 is the notice
  heard,            \* the last number the engine saw
  lost,             \* places whose every attempt failed
  faults,
  clock,
  file,             \* the file the actions name: what it holds and when it was written
  digests,          \* contentPolicy.digests
  given,            \* how many bearers the redactor knows
  told              \* the last digest an action carried, what the file held, and given

emission == <<holder, seq, streamed, capped, artifact, wire, heard, lost, faults>>
world == <<clock, file, given>>
recVars == <<at, emission, world, digests, told>>

Nobody == "nobody"
NoDigest == [mtime |-> 0, held |-> 0, secrets |-> 0]
Idle == [is |-> "idle"]

(* 0 and 1 are two contents without a bearer; k + 1 carries the k-th, and  *)
(* the redactor finds it once it knows that bearer.                        *)
Contents == 0 .. MaxRenewals + 2
carries(held, known) == held \in 2 .. known + 1

RecordTypeOK ==
  /\ \A w \in Emitters : at[w].is \in {"idle", "hashing", "hashed", "waiting", "sending", "noticing"}
  /\ holder \in Emitters \cup {Nobody} /\ seq \in Nat /\ heard \in 0 .. seq
  /\ streamed \in Nat /\ capped \in BOOLEAN
  /\ \A i \in DOMAIN artifact : artifact[i].kind \in {"text", "action"} /\ artifact[i].size \in Nat
  /\ wire \in Seq(0 .. Len(artifact)) /\ lost \subseteq DOMAIN artifact /\ faults \in 0 .. MaxFaults
  /\ clock \in 0 .. MaxClock /\ given \in 1 .. MaxRenewals + 1
  /\ file.held \in Contents /\ file.mtime <= clock /\ digests.held \in Contents

Init ==
  /\ at = [w \in Emitters |-> Idle] /\ holder = Nobody /\ seq = 0
  /\ streamed = 0 /\ capped = FALSE /\ artifact = <<>> /\ wire = <<>> /\ heard = 0 /\ lost = {} /\ faults = 0
  /\ clock = 0 /\ file = [held |-> 0, mtime |-> 0] /\ digests = NoDigest /\ given = 1
  /\ told = [digest |-> 0, held |-> 0, given |-> 1]

Said == Len(artifact) + Cardinality({w \in Emitters : at[w].is \in {"waiting", "hashing", "hashed"}})
Waits(kind, size) == [is |-> "waiting", kind |-> kind, size |-> size]

-----------------------------------------------------------------------------
(* The world: time, the app's writes, a new bearer                         *)

Hashing == at[Recorder].is \in {"hashing", "hashed"}

Ticks ==
  /\ clock < MaxClock /\ clock' = clock + 1
  /\ ~Slow => ~(Hashing /\ clock' - at[Recorder].since >= Settle)
  /\ UNCHANGED <<at, emission, file, given, digests, told>>

(* Something writes the file, at the size it had.                          *)
Edits(held) ==
  /\ held # file.held /\ file' = [held |-> held, mtime |-> clock]
  /\ UNCHANGED <<at, emission, clock, given, digests, told>>

Renews ==
  /\ given <= MaxRenewals /\ given' = given + 1
  /\ UNCHANGED <<at, emission, clock, file, digests, told>>

-----------------------------------------------------------------------------
(* recordAction: the file the action names, then the action                *)

(* Mutant: a file is trusted to be what it was when its times are.         *)
SettledAlways(mtime) == TRUE

Settled(mtime) == clock - mtime >= Settle

(* Mutant: what was scanned for the first bearer is not scanned again.     *)
rememberedOnce(mtime) == Settled(mtime) /\ digests # NoDigest /\ digests.mtime = mtime

(* The digest taken earlier of this file, unchanged since and scanned for  *)
(* every bearer known now.                                                 *)
remembered(mtime) ==
  Settled(mtime) /\ digests # NoDigest /\ digests.mtime = mtime /\ digests.secrets = given

Recall ==
  /\ at[Recorder].is = "idle" /\ Said < MaxItems /\ remembered(file.mtime)
  /\ at' = [at EXCEPT ![Recorder] = Waits("action", 1)]
  /\ told' = [digest |-> digests.held, held |-> file.held, given |-> given]
  /\ UNCHANGED <<emission, world, digests>>

(* The file is opened and its times taken.                                 *)
Opens ==
  /\ at[Recorder].is = "idle" /\ Said < MaxItems /\ ~remembered(file.mtime)
  /\ at' = [at EXCEPT ![Recorder] = [is |-> "hashing", mtime |-> file.mtime, secrets |-> given, since |-> clock]]
  /\ UNCHANGED <<emission, world, digests, told>>

(* It is read, hashed and scanned in one pass.                             *)
Hashes ==
  /\ at[Recorder].is = "hashing"
  /\ at' = [at EXCEPT ![Recorder] =
       [is |-> "hashed", mtime |-> @.mtime, secrets |-> @.secrets, since |-> @.since, held |-> file.held,
        found |-> carries(file.held, given)]]
  /\ told' = IF carries(file.held, given) THEN told
             ELSE [digest |-> file.held, held |-> file.held, given |-> given]
  /\ UNCHANGED <<emission, world, digests>>

(* Only a file found to carry none is remembered, once it has settled.     *)
(* encodeAction refuses an action too large even without its data and      *)
(* arguments: nothing is sent.                                             *)
Records(refused) ==
  /\ at[Recorder].is = "hashed"
  /\ digests' = IF at[Recorder].found \/ ~Settled(at[Recorder].mtime) THEN digests
                ELSE [mtime |-> at[Recorder].mtime, held |-> at[Recorder].held, secrets |-> at[Recorder].secrets]
  /\ at' = [at EXCEPT ![Recorder] = IF refused THEN Idle ELSE Waits("action", 1)]
  /\ UNCHANGED <<emission, world, told>>

-----------------------------------------------------------------------------
(* emit                                                                    *)

Says(w, size) ==
  /\ at[w].is = "idle" /\ Said < MaxItems
  /\ at' = [at EXCEPT ![w] = Waits("text", size)]
  /\ UNCHANGED <<emission, world, digests, told>>

(* Mutant: the limit swallows the recording too.                           *)
limitedAll(item) == MaxBytes > 0

(* Narration alone is subject to the limit.                                *)
limited(item) == MaxBytes > 0 /\ item.kind = "text"

(* What is sent next, under the next number.                               *)
Numbered(w, is, place) ==
  /\ seq' = seq + 1 /\ holder' = w
  /\ at' = [at EXCEPT ![w] = [is |-> is, n |-> seq + 1, place |-> place, tries |-> 0]]

(* Under sendMu: the transcript's line, then the limit, then the number.   *)
Takes(w) ==
  /\ at[w].is = "waiting" /\ holder = Nobody
  /\ artifact' = Append(artifact, [kind |-> at[w].kind, size |-> at[w].size])
  /\ \/ /\ ~limited(at[w])
        /\ Numbered(w, "sending", Len(artifact) + 1) /\ UNCHANGED <<streamed, capped>>
     \/ /\ limited(at[w]) /\ ~capped /\ streamed' = streamed + at[w].size
        /\ capped' = (streamed' > MaxBytes)
        /\ IF capped' THEN Numbered(w, "noticing", 0) ELSE Numbered(w, "sending", Len(artifact) + 1)
     \/ /\ limited(at[w]) /\ capped
        /\ at' = [at EXCEPT ![w] = Idle] /\ UNCHANGED <<holder, seq, streamed, capped>>
  /\ UNCHANGED <<wire, heard, lost, faults, world, digests, told>>

Leaves(w) == holder' = Nobody /\ at' = [at EXCEPT ![w] = Idle]

(* The engine drops a number it has seen and one out of order.             *)
Arrives(w) ==
  IF at[w].n > heard THEN heard' = at[w].n /\ wire' = Append(wire, at[w].place) ELSE UNCHANGED <<heard, wire>>

Sends(w) ==
  /\ at[w].is \in {"sending", "noticing"}
  /\ Arrives(w) /\ Leaves(w)
  /\ UNCHANGED <<seq, streamed, capped, artifact, lost, faults, world, digests, told>>

(* Mutant: a retry takes a number of its own.                              *)
RetriesAnew(w) ==
  /\ at[w].is = "sending" /\ at[w].tries + 1 < Attempts
  /\ seq' = seq + 1 /\ at' = [at EXCEPT ![w].tries = @ + 1, ![w].n = seq + 1]
  /\ UNCHANGED <<holder, lost>>

(* A chunk is tried again under the number it has, sendMu held.            *)
Retries(w) ==
  /\ at[w].is = "sending" /\ at[w].tries + 1 < Attempts
  /\ at' = [at EXCEPT ![w].tries = @ + 1]
  /\ UNCHANGED <<holder, seq, lost>>

(* The notice is tried once.                                               *)
GivesUp(w) ==
  /\ at[w].is = "noticing" \/ at[w].tries + 1 = Attempts
  /\ lost' = IF at[w].is = "sending" THEN lost \cup {at[w].place} ELSE lost
  /\ Leaves(w) /\ UNCHANGED seq

(* A send that reports an error may have arrived.                          *)
Fails(w) ==
  /\ at[w].is \in {"sending", "noticing"} /\ faults < MaxFaults /\ faults' = faults + 1
  /\ Arrives(w) \/ UNCHANGED <<heard, wire>>
  /\ Retries(w) \/ GivesUp(w)
  /\ UNCHANGED <<streamed, capped, artifact, world, digests, told>>

-----------------------------------------------------------------------------
Next ==
  \/ Ticks \/ Renews \/ (\E held \in Contents : Edits(held))
  \/ Recall \/ Opens \/ Hashes \/ (\E refused \in BOOLEAN : Records(refused))
  \/ \E w \in Emitters : (\E size \in 1 .. 2 : Says(w, size)) \/ Takes(w) \/ Sends(w) \/ Fails(w)

Spec == Init /\ [][Next]_recVars

-----------------------------------------------------------------------------
(* Properties                                                              *)

Narrated(i) == FoldLeft(LAMBDA sum, item : IF item.kind = "text" THEN sum + item.size ELSE sum,
                        0, SubSeq(artifact, 1, i))
Swallowed(i) == artifact[i].kind = "text" /\ MaxBytes > 0 /\ Narrated(i) > MaxBytes
InTheMaking(i) == \E w \in Emitters : at[w].is = "sending" /\ at[w].place = i

(* emit: the engine keeps the session in the order of the transcript on    *)
(* the disk, nothing twice; it lacks an action only when every attempt     *)
(* failed, and narration for that or because the limit was passed, which   *)
(* it is told at most once.                                                *)
RecordIsWhole ==
  /\ \A i, j \in DOMAIN wire : i < j /\ 0 \notin {wire[i], wire[j]} => wire[i] < wire[j]
  /\ Cardinality({i \in DOMAIN wire : wire[i] = 0}) <= 1
  /\ \A i \in DOMAIN artifact :
       i \in Range(wire) \cup lost \/ Swallowed(i) \/ InTheMaking(i)
  /\ \A i \in DOMAIN artifact : Swallowed(i) => i \notin Range(wire)

(* readFile: a digest that travels is that of what the file holds, and     *)
(* never of a file that carries a bearer known by then.                    *)
DigestsAreTrue == told.digest = told.held /\ ~carries(told.digest, told.given)
=============================================================================
