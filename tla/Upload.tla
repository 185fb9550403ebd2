-------------------------------- MODULE Upload --------------------------------
(***************************************************************************)
(* One upload, from the job a person creates in the cluster to the stored  *)
(* version: Runner.RunPending and Runner.Run in                            *)
(* internal/worker/transfer/runner.go, source in manifest.go.              *)
(*                                                                         *)
(* The machine works on a copy of the cluster's job that each reply        *)
(* refreshes, on a file the owner may edit, and on a manifest on disk that *)
(* survives it.  A reply can be lost after the cluster has acted, and the  *)
(* process can die between any two steps.  The bytes of a block are a      *)
(* number.                                                                 *)
(***************************************************************************)
EXTENDS Integers, Sequences, TLAPS

CONSTANTS Blocks,      \* blocks of the file: 1..Blocks
          Window,      \* checkpointBlocks, what the cluster lets a run stage unseen
          MaxEdits,    \* bound: edits of the file
          MaxFaults,   \* bound: lost calls and replies, and crashes
          MaxPauses,   \* bound: pauses by the person
          None         \* nothing yet

Contents == [1..Blocks -> 0..MaxEdits]

(* What a path names, as stat and read tell it.                             *)
Files == [bytes : Contents, stat : 0..MaxEdits]

UploadAssumption ==
  /\ Blocks \in Nat \ {0} /\ Window \in Nat \ {0}
  /\ MaxEdits \in Nat /\ MaxFaults \in Nat /\ MaxPauses \in Nat
  /\ None \notin 0..MaxEdits /\ None \notin Contents /\ None \notin Files

VARIABLES job,       \* the cluster's row, with what is staged for it
          file,      \* what the path names: its bytes, and what stat says of it
          manifest,  \* id.source.json
          run,       \* the process: where it is, and its local variables
          past,      \* history: the contents the file has had
          puts,      \* history: how often each block was sent and stored
          wish,      \* history: what the person last asked for
          budget     \* edits, faults and pauses so far

vars == <<job, file, manifest, run, past, puts, wish, budget>>

Idle == [pc |-> "idle", state |-> None, desired |-> None, at |-> 0, staged |-> 0,
         stat |-> 0, chunks |-> <<>>, before |-> 0, held |-> None, data |-> None, told |-> FALSE]

Init ==
  /\ job = [state |-> "checking", desired |-> "running", sum |-> None, committed |-> 0,
            blocks |-> [n \in 1..Blocks |-> None]]
  /\ file = [bytes |-> [n \in 1..Blocks |-> 0], stat |-> 0]
  /\ manifest = None
  /\ run = Idle
  /\ past = {file.bytes}
  /\ puts = [n \in 1..Blocks |-> 0]
  /\ wish = "running"
  /\ budget = [edits |-> 0, faults |-> 0, pauses |-> 0]

-----------------------------------------------------------------------------
(* The cluster, as the worker uses it                                      *)

(* The longest prefix of blocks that is staged.                             *)
Prefix == CHOOSE k \in 0..Blocks :
            /\ \A n \in 1..k : job.blocks[n] # None
            /\ k = Blocks \/ job.blocks[k + 1] = None

Resumed == [job EXCEPT !.desired = "running", !.state = IF @ = "complete" THEN @ ELSE "preparing"]

(* A job that was prepared keeps the digest it was prepared with.           *)
Prepared == IF job.sum \in {None, run.chunks} /\ job.desired = "running" /\ job.state # "complete"
              THEN [job EXCEPT !.state = "uploading", !.sum = run.chunks]
              ELSE job

Inventoried(final) ==
  [job EXCEPT !.committed = Prefix,
              !.state = IF final /\ Prefix = Blocks /\ job.desired = "running" THEN "complete" ELSE @]

Waiting == IF job.state = "complete" THEN job ELSE [job EXCEPT !.state = "waiting"]

-----------------------------------------------------------------------------
(* The run                                                                 *)

Goes(pc) == run' = [run EXCEPT !.pc = pc]
Fails == Goes("failed")
Stops == Goes("paused")

(* The context of a run ends when its watcher has read that it should.      *)
Live == run.pc \notin {"idle", "failed", "paused"} /\ ~run.told

(* A call refreshes the machine's copy of the job and goes on.              *)
Answered(j, pc) ==
  run' = [run EXCEPT !.pc = pc, !.state = j.state, !.desired = j.desired, !.at = j.committed,
                     !.staged = 0]

(* Bytes the held file has: its own after the path was given to another.    *)
Held == IF run.held = None THEN file ELSE run.held

(* Mutant: a job that waits is left for its person.                         *)
ListsFresh ==
  /\ run.pc = "idle" /\ job.desired = "running" /\ job.state \notin {"complete", "waiting"}
  /\ run' = [Idle EXCEPT !.pc = "source", !.state = job.state, !.desired = job.desired,
                         !.at = job.committed]
  /\ UNCHANGED <<job, file, manifest, past, puts, wish, budget>>

(* RunPending lists the job and finds it wanted.                            *)
Lists ==
  /\ run.pc = "idle" /\ job.desired = "running" /\ job.state # "complete"
  /\ run' = [Idle EXCEPT !.pc = "source", !.state = job.state, !.desired = job.desired,
                         !.at = job.committed]
  /\ UNCHANGED <<job, file, manifest, past, puts, wish, budget>>

(* source: the path is opened; a manifest of this very file is taken as it  *)
(* is, and otherwise its blocks are read.                                   *)
Opens ==
  /\ Live /\ run.pc = "source"
  /\ run' = IF manifest # None /\ manifest.stat = file.stat
              THEN [run EXCEPT !.pc = "stat", !.stat = file.stat, !.chunks = manifest.chunks]
              ELSE [run EXCEPT !.pc = "hash", !.stat = file.stat, !.chunks = <<>>]
  /\ UNCHANGED <<job, file, manifest, past, puts, wish, budget>>

HashesBlock ==
  /\ Live /\ run.pc = "hash" /\ Len(run.chunks) < Blocks
  /\ run' = [run EXCEPT !.chunks = Append(@, Held.bytes[Len(@) + 1])]
  /\ UNCHANGED <<job, file, manifest, past, puts, wish, budget>>

(* Only a file that did not change meanwhile gets its manifest.             *)
WritesManifest ==
  /\ Live /\ run.pc = "hash" /\ Len(run.chunks) = Blocks
  /\ IF Held.stat = run.stat
       THEN manifest' = [stat |-> run.stat, chunks |-> run.chunks] /\ Goes("stat")
       ELSE Fails /\ UNCHANGED manifest
  /\ UNCHANGED <<job, file, past, puts, wish, budget>>

(* The stat that the end of the run is compared with.                       *)
StatsBefore ==
  /\ Live /\ run.pc = "stat"
  /\ run' = [run EXCEPT !.pc = IF run.state \in {"waiting", "error"} THEN "resume" ELSE "prepare",
                        !.before = Held.stat]
  /\ UNCHANGED <<job, file, manifest, past, puts, wish, budget>>

Resumes ==
  /\ Live /\ run.pc = "resume"
  /\ job' = Resumed
  /\ Answered(job', "prepare")
  /\ UNCHANGED <<file, manifest, past, puts, wish, budget>>

Prepares ==
  /\ Live /\ run.pc = "prepare"
  /\ job' = Prepared
  /\ IF job.sum \notin {None, run.chunks} THEN Fails
     ELSE Answered(job', IF job'.state = "complete" THEN "idle"
                         ELSE IF job'.desired # "running" \/ job'.state # "uploading" THEN "paused"
                         ELSE "reconcile")
  /\ UNCHANGED <<file, manifest, past, puts, wish, budget>>

(* Mutant: the blocks the cluster counted are taken for all that it has.    *)
ReconcilesNothing ==
  /\ Live /\ run.pc = "reconcile"
  /\ Answered(job, "loop")
  /\ UNCHANGED <<job, file, manifest, past, puts, wish, budget>>

(* Before anything is sent: a stored block's answer may have been lost.     *)
Reconciles ==
  /\ Live /\ run.pc = "reconcile"
  /\ job' = Inventoried(FALSE)
  /\ Answered(job', "loop")
  /\ UNCHANGED <<file, manifest, past, puts, wish, budget>>

(* Mutant: the block that is read is not compared with the manifest.        *)
ReadsUnchecked ==
  /\ Live /\ run.pc = "loop" /\ run.at < Blocks
  /\ IF run.desired # "running" \/ job.desired # "running" THEN Stops
     ELSE run' = [run EXCEPT !.pc = "put", !.data = Held.bytes[run.at + 1]]
  /\ UNCHANGED <<job, file, manifest, past, puts, wish, budget>>

(* One round of the loop up to the grant: the block is read and compared    *)
(* with the manifest, and the cluster asked for a place to put it.          *)
ReadsBlock ==
  /\ Live /\ run.pc = "loop" /\ run.at < Blocks
  /\ LET n == run.at + 1 IN
       IF run.desired # "running" \/ job.desired # "running" THEN Stops
       ELSE IF Held.bytes[n] # run.chunks[n] THEN Fails
       ELSE run' = [run EXCEPT !.pc = "put", !.data = Held.bytes[n]]
  /\ UNCHANGED <<job, file, manifest, past, puts, wish, budget>>

(* The bytes arrive; the offset of this side moves on, the cluster's does   *)
(* not until the next checkpoint.                                           *)
PutsBlock ==
  /\ Live /\ run.pc = "put"
  /\ LET n == run.at + 1 IN
       /\ job' = [job EXCEPT !.blocks[n] = run.data]
       /\ puts' = [puts EXCEPT ![n] = @ + 1]
       /\ run' = [run EXCEPT !.pc = IF run.staged + 1 >= Window \/ n = Blocks
                                      THEN "checkpoint" ELSE "loop",
                             !.at = n, !.staged = @ + 1, !.data = None]
  /\ UNCHANGED <<file, manifest, past, wish, budget>>

(* A checkpoint of what is staged; the window, or half a minute, is over.   *)
Checkpoints ==
  /\ Live /\ \/ run.pc = "checkpoint"
             \/ run.pc = "loop" /\ run.staged > 0
  /\ job' = Inventoried(FALSE)
  /\ Answered(job', "loop")
  /\ UNCHANGED <<file, manifest, past, puts, wish, budget>>

(* The held file and the one at the path must still be the one that was     *)
(* read from the first block to the last.                                   *)
ChecksSource ==
  /\ Live /\ run.pc = "loop" /\ run.at = Blocks
  /\ IF Held.stat = run.before /\ file.stat = run.before THEN Goes("final") ELSE Fails
  /\ UNCHANGED <<job, file, manifest, past, puts, wish, budget>>

Finishes ==
  /\ Live /\ run.pc = "final"
  /\ job' = Inventoried(TRUE)
  /\ Answered(job', "idle")
  /\ UNCHANGED <<file, manifest, past, puts, wish, budget>>

(* A run that failed is reported as waiting and tried again; one that found *)
(* itself paused says nothing.                                              *)
Reports ==
  /\ run.pc \in {"failed", "paused"}
  /\ job' = IF run.pc = "failed" THEN Waiting ELSE job
  /\ run' = Idle
  /\ UNCHANGED <<file, manifest, past, puts, wish, budget>>

(* The watcher of a run reads the job every three seconds.                  *)
WatcherHears ==
  /\ run.pc \notin {"idle", "failed", "paused"} /\ ~run.told /\ job.desired # "running"
  /\ run' = [run EXCEPT !.told = TRUE]
  /\ UNCHANGED <<job, file, manifest, past, puts, wish, budget>>

(* A run whose context ended leaves at its next call.                       *)
Unwinds ==
  /\ run.pc \notin {"idle", "failed", "paused"} /\ run.told
  /\ Fails
  /\ UNCHANGED <<job, file, manifest, past, puts, wish, budget>>

-----------------------------------------------------------------------------
(* Failures, and the people at both ends                                   *)

Fault == budget.faults < MaxFaults /\ budget' = [budget EXCEPT !.faults = @ + 1]

(* A call fails on its way, or its answer is lost when the cluster has      *)
(* already done what it asked.                                              *)
CallIsLost ==
  /\ Fault /\ Live
  /\ run.pc \in {"resume", "prepare", "reconcile", "put", "checkpoint", "final"}
  /\ \/ UNCHANGED <<job, puts>>
     \/ /\ job' = CASE run.pc = "resume" -> Resumed
                    [] run.pc = "prepare" -> Prepared
                    [] run.pc = "put" -> [job EXCEPT !.blocks[run.at + 1] = run.data]
                    [] OTHER -> Inventoried(run.pc = "final")
        /\ puts' = IF run.pc = "put" THEN [puts EXCEPT ![run.at + 1] = @ + 1] ELSE puts
  /\ Fails
  /\ UNCHANGED <<file, manifest, past, wish>>

Crashes ==
  /\ Fault /\ run.pc # "idle"
  /\ run' = Idle
  /\ UNCHANGED <<job, file, manifest, past, puts, wish>>

Edit == budget.edits < MaxEdits /\ budget' = [budget EXCEPT !.edits = @ + 1]

Edited(n) == [bytes |-> [file.bytes EXCEPT ![n] = budget'.edits], stat |-> budget'.edits]

(* The owner writes into the file, or puts another in its place.            *)
Edits(n) ==
  /\ Edit
  /\ file' = Edited(n)
  /\ past' = past \cup {file'.bytes}
  /\ UNCHANGED <<job, manifest, run, puts, wish>>

Replaces(n) ==
  /\ Edit
  /\ file' = Edited(n)
  /\ past' = past \cup {file'.bytes}
  /\ run' = IF run.pc \in {"idle", "source"} \/ run.held # None THEN run
            ELSE [run EXCEPT !.held = file]
  /\ UNCHANGED <<job, manifest, puts, wish>>

(* Between two runs the bytes change under the same size and time.          *)
EditsUnseen(n) ==
  /\ Edit /\ run.pc = "idle"
  /\ file' = [Edited(n) EXCEPT !.stat = file.stat]
  /\ past' = past \cup {file'.bytes}
  /\ UNCHANGED <<job, manifest, run, puts, wish>>

Pauses ==
  /\ budget.pauses < MaxPauses /\ wish = "running" /\ job.state # "complete"
  /\ wish' = "paused"
  /\ job' = [job EXCEPT !.desired = "paused", !.state = "paused"]
  /\ budget' = [budget EXCEPT !.pauses = @ + 1]
  /\ UNCHANGED <<file, manifest, run, past, puts>>

PersonResumes ==
  /\ wish = "paused"
  /\ wish' = "running"
  /\ job' = Resumed
  /\ UNCHANGED <<file, manifest, run, past, puts, budget>>

-----------------------------------------------------------------------------
Steps ==
  \/ Opens \/ HashesBlock \/ WritesManifest \/ StatsBefore \/ Resumes \/ Prepares \/ Reconciles
  \/ ReadsBlock \/ PutsBlock \/ Checkpoints \/ ChecksSource \/ Finishes

Next ==
  \/ Lists \/ Steps \/ Reports \/ WatcherHears \/ Unwinds \/ CallIsLost \/ Crashes
  \/ \E n \in 1..Blocks : Edits(n) \/ Replaces(n) \/ EditsUnseen(n)
  \/ Pauses \/ PersonResumes

Spec == Init /\ [][Next]_vars

(* RunPending comes back to a job every few seconds, a run goes on, and its *)
(* watcher reads on.  Nobody need pause, resume or edit.                    *)
Fairness == WF_vars(Lists) /\ WF_vars(Steps \/ Unwinds) /\ WF_vars(Reports) /\ WF_vars(WatcherHears)

FairSpec == Spec /\ Fairness

-----------------------------------------------------------------------------
(* Properties                                                              *)

Pcs == {"idle", "source", "hash", "stat", "resume", "prepare", "reconcile", "loop", "put",
        "checkpoint", "final", "failed", "paused"}

UploadTypeOK ==
  /\ job.state \in {"checking", "preparing", "uploading", "waiting", "paused", "complete"}
  /\ job.desired \in {"running", "paused"} /\ job.committed \in 0..Blocks
  /\ job.blocks \in [1..Blocks -> {None} \cup (0..MaxEdits)]
  /\ file.bytes \in Contents /\ past \subseteq Contents
  /\ run.pc \in Pcs /\ run.at \in 0..Blocks /\ Len(run.chunks) <= Blocks

(* A finished upload is one version of the file: no mixture of the bytes    *)
(* before and after an edit, a replacement, a restart or a lost reply, is   *)
(* ever stored as if the owner had saved it.                                *)
StoredIsOneVersion == job.state = "complete" => job.blocks \in past

(* A block the cluster has is not sent again, whatever answer was lost and  *)
(* however often the process died.                                          *)
KnownBlocksAreNotResent == \A n \in 1..Blocks : puts[n] <= 1

(* A person's pause stands until a person ends it.  The code does not keep  *)
(* it: a run that began on an older copy of the job resumes it.             *)
PausesStand == wish = "paused" => job.desired = "paused"

(* What counts as the end of an upload, which every crash and lost call     *)
(* still leads to.                                                          *)
Finished == job.state = "complete" \/ budget.edits > 0 \/ budget.pauses > 0


-----------------------------------------------------------------------------
(* The inductive invariant                                                 *)

States == {"checking", "preparing", "uploading", "waiting", "paused", "complete"}
Wishes == {"running", "paused"}
Blanks == {None} \cup (0..MaxEdits)

Jobs == [state : States, desired : Wishes, sum : {None} \cup Contents, committed : 0..Blocks,
         blocks : [1..Blocks -> Blanks]]
Runs == [pc : Pcs, state : {None} \cup States, desired : {None} \cup Wishes, at : 0..Blocks,
         staged : Nat, stat : 0..MaxEdits, chunks : Seq(0..MaxEdits), before : 0..MaxEdits,
         held : {None} \cup Files, data : Blanks, told : BOOLEAN]

UploadTypes ==
  /\ job \in Jobs /\ run \in Runs /\ file \in Files
  /\ manifest \in {None} \cup [stat : 0..MaxEdits, chunks : Contents]
  /\ past \subseteq Contents /\ puts \in [1..Blocks -> Nat]
  /\ budget \in [edits : 0..MaxEdits, faults : Nat, pauses : Nat]
  /\ Len(run.chunks) <= Blocks

(* The bytes a run has read are of a version of the file once it has read   *)
(* them all; until then, of the version it began on if that still stands.  *)
SourceIsAVersion ==
  /\ file.bytes \in past /\ file.stat <= budget.edits
  /\ run.stat <= budget.edits
  /\ manifest # None => manifest.chunks \in past
  /\ Held.bytes \in past
  /\ run.pc = "hash" /\ Held.stat = run.stat =>
       \A n \in 1..Len(run.chunks) : run.chunks[n] = Held.bytes[n]
  /\ run.pc \in {"stat", "resume", "prepare", "reconcile", "loop", "put", "checkpoint", "final"} =>
       run.chunks \in past

Sending == {"reconcile", "loop", "put", "checkpoint", "final"}

(* All that is staged is of the version the job was prepared with, and a    *)
(* run sends only what its own manifest, the same, says.                    *)
StagedIsOfTheSum ==
  /\ job.sum # None => job.sum \in past
  /\ \A n \in 1..Blocks :
       job.blocks[n] # None => job.sum # None /\ job.blocks[n] = job.sum[n]
  /\ run.pc \in Sending => job.sum = run.chunks
  /\ run.pc = "put" => run.at < Blocks /\ run.data = run.chunks[run.at + 1]

StagedTo(k) == \A n \in 1..Blocks : job.blocks[n] # None <=> n <= k

(* The staged blocks are the first ones, each put once, and a run that      *)
(* sends knows how many they are.                                           *)
StagedIsKnown ==
  /\ \E k \in 0..Blocks : StagedTo(k)
  /\ run.pc \in {"loop", "put", "checkpoint"} => StagedTo(run.at)
  /\ \A n \in 1..Blocks : puts[n] = IF job.blocks[n] = None THEN 0 ELSE 1
  /\ job.state = "complete" => StagedTo(Blocks)

UploadInv == UploadTypes /\ SourceIsAVersion /\ StagedIsOfTheSum /\ StagedIsKnown

-----------------------------------------------------------------------------
(* Lemmas                                                                  *)

(* A manifest's chunks are a sequence with an entry for each block.         *)
LEMMA ChunksAreSequences ==
  ASSUME UploadAssumption, NEW c \in Contents
  PROVE  c \in Seq(0..MaxEdits) /\ Len(c) = Blocks
BY DEF UploadAssumption, Contents

LEMMA ReadToTheEnd ==
  ASSUME UploadAssumption, NEW c \in Seq(0..MaxEdits), Len(c) = Blocks
  PROVE  c \in Contents
BY DEF UploadAssumption, Contents

(* Two contents with the same blocks are one.                               *)
LEMMA SameBlocks ==
  ASSUME NEW b \in Contents, NEW c \in Contents, \A n \in 1..Blocks : b[n] = c[n]
  PROVE  b = c
<1>1. b = [n \in 1..Blocks |-> b[n]] /\ c = [n \in 1..Blocks |-> c[n]]
  BY DEF Contents
<1>2. [n \in 1..Blocks |-> b[n]] = [n \in 1..Blocks |-> c[n]]
  OBVIOUS
<1> QED
  BY <1>1, <1>2

(* What a run holds is a file.                                              *)
LEMMA HeldIsAFile ==
  ASSUME UploadInv
  PROVE  Held \in Files
BY DEF UploadInv, UploadTypes, Runs, Held

(* The cluster counts exactly what it has.                                  *)
LEMMA PrefixIsStaged ==
  ASSUME UploadAssumption, UploadInv
  PROVE  Prefix \in 0..Blocks /\ StagedTo(Prefix)
<1> DEFINE Counted(k) == /\ \A n \in 1..k : job.blocks[n] # None
                         /\ k = Blocks \/ job.blocks[k + 1] = None
<1>1. PICK k \in 0..Blocks : StagedTo(k)
  BY DEF UploadInv, StagedIsKnown
<1>2. Counted(k)
  BY <1>1 DEF StagedTo, UploadAssumption
<1>3. Prefix \in 0..Blocks /\ Counted(Prefix)
  BY <1>2 DEF Prefix
<1>4. Prefix = k
  BY <1>1, <1>3 DEF StagedTo, UploadAssumption
<1> QED
  BY <1>1, <1>4

(* What a call may do to the job: it keeps its blocks, takes the digest of  *)
(* a run that prepares it, once, and is complete only with every block.     *)
JobGoesOn ==
  /\ job' \in Jobs /\ job'.blocks = job.blocks
  /\ \/ job'.sum = job.sum
     \/ /\ job.sum = None
        /\ job'.sum = run.chunks /\ run.chunks \in past
  /\ job'.state = "complete" => StagedTo(Blocks)

LEMMA CallsGoOn ==
  ASSUME UploadAssumption, UploadInv,
         \/ job' = job
         \/ job' = Resumed
         \/ job' = Waiting
         \/ run.pc = "prepare" /\ job' = Prepared
         \/ \E final \in BOOLEAN : job' = Inventoried(final)
  PROVE  JobGoesOn
<1> job \in Jobs /\ run \in Runs /\ (job.state = "complete" => StagedTo(Blocks))
  BY DEF UploadInv, UploadTypes, StagedIsKnown
<1>1. CASE job' = job
  BY <1>1 DEF JobGoesOn
<1>2. CASE job' = Resumed
  BY <1>2 DEF JobGoesOn, Resumed, Jobs, States, Wishes
<1>3. CASE job' = Waiting
  BY <1>3 DEF JobGoesOn, Waiting, Jobs, States
<1>4. CASE run.pc = "prepare" /\ job' = Prepared
  <2>1. run.chunks \in past /\ run.chunks \in Contents
    BY <1>4 DEF UploadInv, UploadTypes, SourceIsAVersion
  <2> QED
    BY <1>4, <2>1 DEF JobGoesOn, Prepared, Jobs, States
<1>5. ASSUME NEW final \in BOOLEAN, job' = Inventoried(final)
      PROVE  JobGoesOn
  <2>1. Prefix \in 0..Blocks /\ StagedTo(Prefix)
    BY PrefixIsStaged
  <2>2. job' \in Jobs /\ job'.blocks = job.blocks /\ job'.sum = job.sum
    BY <1>5, <2>1 DEF Inventoried, Jobs, States
  <2>3. job'.state = "complete" => job.state = "complete" \/ Prefix = Blocks
    BY <1>5 DEF Inventoried, Jobs
  <2> QED
    BY <2>1, <2>2, <2>3 DEF JobGoesOn
<1> QED
  BY <1>1, <1>2, <1>3, <1>4, <1>5

LEMMA UploadStarts ==
  ASSUME UploadAssumption, Init
  PROVE  UploadInv
<1> USE DEF UploadAssumption, Init, Idle
<1>1. UploadTypes
  BY DEF UploadTypes, Jobs, Runs, Files, Contents, States, Wishes, Blanks, Pcs
<1>2. SourceIsAVersion
  BY DEF SourceIsAVersion, Held
<1>3. StagedIsOfTheSum
  BY DEF StagedIsOfTheSum, Sending
<1>4. StagedTo(0) /\ 0 \in 0..Blocks
  BY DEF StagedTo
<1>5. StagedIsKnown
  BY <1>4 DEF StagedIsKnown
<1> QED
  BY <1>1, <1>2, <1>3, <1>5 DEF UploadInv

-----------------------------------------------------------------------------
(* The steps of a run that call nobody                                     *)

LEMMA ReadsKeep ==
  ASSUME UploadAssumption, UploadInv,
         \/ Lists \/ Opens \/ HashesBlock \/ WritesManifest \/ StatsBefore \/ ReadsBlock
         \/ ChecksSource \/ WatcherHears \/ Unwinds
  PROVE  UploadInv'
<1> DEFINE Types == UploadTypes'
           Source == SourceIsAVersion'
           Staged == StagedIsOfTheSum'
           Known == StagedIsKnown'
           Still == UNCHANGED <<job, file, past, puts, budget>>
<1> Blocks \in Nat /\ 0 < Blocks /\ MaxEdits \in Nat
  BY DEF UploadAssumption
<1> UploadTypes /\ SourceIsAVersion /\ StagedIsOfTheSum /\ StagedIsKnown
  BY DEF UploadInv
<1>0. Held \in Files
  BY HeldIsAFile
<1>a. ASSUME Still, run'.pc \notin Sending
      PROVE  Staged /\ Known
  <2>1. Staged
    BY <1>a DEF StagedIsOfTheSum, Sending
  <2>2. Known
    BY <1>a DEF StagedIsKnown, StagedTo, Sending
  <2> QED
    BY <2>1, <2>2
<1>b. ASSUME Still, NEW pc \in Pcs, Goes(pc), manifest' = manifest
      PROVE  Types
  BY <1>b DEF UploadTypes, Runs, Goes
<1>d. ASSUME Still, manifest' = manifest, run' \in Runs, Len(run'.chunks) <= Blocks
      PROVE  Types
  BY <1>d DEF UploadTypes
<1>e. /\ file.stat \in 0..MaxEdits /\ file.bytes \in Contents
      /\ run \in Runs /\ run.chunks \in Seq(0..MaxEdits) /\ Len(run.chunks) \in Nat
      /\ Len(run.chunks) <= Blocks
  BY DEF UploadTypes, Files, Runs
<1>c. ASSUME Still, manifest' = manifest, Goes("failed") \/ Goes("paused")
      PROVE  UploadInv'
  <2>1. Types
    BY <1>b, <1>c DEF Pcs
  <2>2. Source
    BY <1>c DEF Goes, UploadTypes, Runs, SourceIsAVersion, Held
  <2>3. run'.pc \notin Sending
    BY <1>c DEF Goes, UploadTypes, Runs, Sending
  <2> QED
    BY <1>a, <1>c, <2>1, <2>2, <2>3 DEF UploadInv
<1>1. CASE Lists
  <2>a. /\ Still /\ manifest' = manifest
        /\ job.state \in States /\ job.desired \in Wishes /\ job.committed \in 0..Blocks
    BY <1>1 DEF Lists, UploadTypes, Jobs
  <2>b. run' = [pc |-> "source", state |-> job.state, desired |-> job.desired,
                at |-> job.committed, staged |-> 0, stat |-> 0, chunks |-> <<>>,
                before |-> 0, held |-> None, data |-> None, told |-> FALSE]
    BY <1>1 DEF Lists, Idle
  <2>1. Types
    BY <1>d, <2>a, <2>b DEF Runs, Blanks, Pcs
  <2>2. Source
    BY <1>1 DEF Lists, SourceIsAVersion, UploadTypes, Idle, Files, Held
  <2>3. Still /\ run'.pc \notin Sending
    BY <1>1 DEF Lists, Idle, Sending
  <2> QED
    BY <1>a, <2>1, <2>2, <2>3 DEF UploadInv
<1>2. CASE Opens
  <2>1. Still /\ manifest' = manifest
    BY <1>2 DEF Opens
  <2>2. CASE manifest # None /\ manifest.stat = file.stat
    <3>1. run' = [run EXCEPT !.pc = "stat", !.stat = file.stat, !.chunks = manifest.chunks]
      BY <1>2, <2>2 DEF Opens
    <3>2. /\ manifest.chunks \in Contents
          /\ manifest.chunks \in Seq(0..MaxEdits) /\ Len(manifest.chunks) = Blocks
      BY <2>2, ChunksAreSequences DEF UploadTypes
    <3>3. Types
      <4>1. run' \in Runs
        BY <1>e, <3>1, <3>2 DEF Runs, Pcs
      <4>2. Len(run'.chunks) <= Blocks
        BY <1>e, <3>1, <3>2 DEF Runs
      <4> QED
        BY <1>d, <2>1, <4>1, <4>2
    <3>4. Source
      BY <2>1, <2>2, <3>1 DEF UploadTypes, Runs, SourceIsAVersion, Held
    <3>5. run'.pc \notin Sending
      BY <3>1 DEF UploadTypes, Runs, Sending
    <3> QED
      BY <1>a, <2>1, <3>3, <3>4, <3>5 DEF UploadInv
  <2>3. CASE ~(manifest # None /\ manifest.stat = file.stat)
    <3>1. run' = [run EXCEPT !.pc = "hash", !.stat = file.stat, !.chunks = <<>>]
      BY <1>2, <2>3 DEF Opens
    <3>2. Types
      <4>1. run' \in Runs
        <5>1. <<>> \in Seq(0..MaxEdits)
          OBVIOUS
        <5> QED
          BY <1>e, <3>1, <5>1 DEF Runs, Pcs
      <4>2. run'.chunks = <<>>
        BY <1>e, <3>1 DEF Runs
      <4>3. Len(run'.chunks) <= Blocks
        BY <4>2
      <4> QED
        BY <1>d, <2>1, <4>1, <4>3
    <3>3. Source
      BY <2>1, <3>1 DEF UploadTypes, Runs, SourceIsAVersion, Held
    <3>4. run'.pc \notin Sending
      BY <3>1 DEF UploadTypes, Runs, Sending
    <3> QED
      BY <1>a, <2>1, <3>2, <3>3, <3>4 DEF UploadInv
  <2> QED
    BY <2>2, <2>3
<1>3. CASE HashesBlock
  <2>1. /\ Still /\ manifest' = manifest
        /\ run.pc = "hash" /\ Len(run.chunks) < Blocks
        /\ run' = [run EXCEPT !.chunks = Append(@, Held.bytes[Len(@) + 1])]
    BY <1>3 DEF HashesBlock
  <2>2. Held.bytes[Len(run.chunks) + 1] \in 0..MaxEdits
    <3>1. Held.bytes \in [1..Blocks -> 0..MaxEdits]
      BY <1>0 DEF Files, Contents
    <3>2. Len(run.chunks) + 1 \in 1..Blocks
      BY <1>e, <2>1
    <3> QED
      BY <3>1, <3>2
  <2>a. /\ run'.chunks = Append(run.chunks, Held.bytes[Len(run.chunks) + 1])
        /\ run'.pc = "hash" /\ run'.stat = run.stat /\ run'.held = run.held
    BY <1>e, <2>1 DEF Runs
  <2>b. /\ run'.chunks \in Seq(0..MaxEdits) /\ Len(run'.chunks) = Len(run.chunks) + 1
        /\ \A n \in 1..Len(run.chunks) : run'.chunks[n] = run.chunks[n]
        /\ run'.chunks[Len(run.chunks) + 1] = Held.bytes[Len(run.chunks) + 1]
    BY <1>e, <2>2, <2>a
  <2>c. run' = [run EXCEPT !.chunks = run'.chunks]
    BY <2>1, <2>a
  <2>d. run' \in Runs
    BY <1>e, <2>b, <2>c DEF Runs
  <2>3. Types
    BY <1>d, <1>e, <2>1, <2>b, <2>d
  <2>4. Held' = Held
    BY <2>1, <2>a DEF Held
  <2>5. Source
    <3>1. CASE Held.stat = run.stat
      <4>1. \A n \in 1..Len(run'.chunks) : run'.chunks[n] = Held.bytes[n]
        BY <1>e, <2>1, <2>b, <3>1 DEF SourceIsAVersion
      <4> QED
        BY <2>1, <2>a, <2>4, <4>1 DEF SourceIsAVersion
    <3>2. CASE Held.stat # run.stat
      BY <2>1, <2>a, <2>4, <3>2 DEF SourceIsAVersion
    <3> QED
      BY <3>1, <3>2
  <2>6. run'.pc \notin Sending
    BY <2>a DEF Sending
  <2> QED
    BY <1>a, <2>1, <2>3, <2>5, <2>6 DEF UploadInv
<1>4. CASE WritesManifest
  <2>1. /\ Still /\ run.pc = "hash" /\ Len(run.chunks) = Blocks
    BY <1>4 DEF WritesManifest
  <2>2. CASE Held.stat = run.stat
    <3>1. /\ manifest' = [stat |-> run.stat, chunks |-> run.chunks]
          /\ run' = [run EXCEPT !.pc = "stat"]
      BY <1>4, <2>2 DEF WritesManifest, Goes
    <3>2. run.chunks \in Contents
      BY <2>1, ReadToTheEnd DEF UploadTypes, Runs
    <3>3. run.chunks = Held.bytes
      BY <1>0, <2>1, <2>2, <3>2 DEF SourceIsAVersion, Files, Contents
    <3>4. Types
      BY <2>1, <3>1, <3>2 DEF UploadTypes, Runs, Pcs
    <3>5. Held' = Held
      BY <2>1, <3>1 DEF Held, UploadTypes, Runs
    <3>6. Source
      BY <2>1, <3>1, <3>3, <3>5 DEF UploadTypes, Runs, SourceIsAVersion
    <3>7. run'.pc \notin Sending
      BY <3>1 DEF UploadTypes, Runs, Sending
    <3> QED
      BY <1>a, <2>1, <3>4, <3>6, <3>7 DEF UploadInv
  <2>3. CASE Held.stat # run.stat
    <3>1. Goes("failed") /\ manifest' = manifest
      BY <1>4, <2>3 DEF WritesManifest, Fails
    <3> QED
      BY <1>c, <2>1, <3>1
  <2> QED
    BY <2>2, <2>3
<1>5. CASE StatsBefore
  <2>1. /\ Still /\ manifest' = manifest /\ run.pc = "stat"
        /\ run' = [run EXCEPT !.pc = IF run.state \in {"waiting", "error"} THEN "resume"
                                     ELSE "prepare", !.before = Held.stat]
    BY <1>5 DEF StatsBefore
  <2>2. Types
    BY <1>0, <2>1 DEF UploadTypes, Runs, Files, Pcs
  <2>3. Source
    BY <2>1 DEF UploadTypes, Runs, SourceIsAVersion, Held
  <2>4. run'.pc \notin Sending
    BY <2>1 DEF UploadTypes, Runs, Sending
  <2> QED
    BY <1>a, <2>1, <2>2, <2>3, <2>4 DEF UploadInv
<1>6. CASE ReadsBlock
  <2>1. /\ Still /\ manifest' = manifest /\ run.pc = "loop" /\ run.at < Blocks
        /\ run.at + 1 \in 1..Blocks
    BY <1>6 DEF ReadsBlock, UploadTypes, Runs
  <2>2. \/ Goes("paused") \/ Goes("failed")
        \/ /\ Held.bytes[run.at + 1] = run.chunks[run.at + 1]
           /\ run' = [run EXCEPT !.pc = "put", !.data = Held.bytes[run.at + 1]]
    BY <1>6 DEF ReadsBlock, Stops, Fails
  <2>3. ASSUME Held.bytes[run.at + 1] = run.chunks[run.at + 1],
               run' = [run EXCEPT !.pc = "put", !.data = Held.bytes[run.at + 1]]
        PROVE  UploadInv'
    <3>1. Held.bytes[run.at + 1] \in 0..MaxEdits
      BY <1>0, <2>1 DEF Files, Contents
    <3>2. Types
      BY <2>1, <2>3, <3>1 DEF UploadTypes, Runs, Pcs, Blanks
    <3>3. Source
      BY <2>1, <2>3 DEF UploadTypes, Runs, SourceIsAVersion, Held
    <3>4. Staged
      BY <2>1, <2>3 DEF UploadTypes, Runs, StagedIsOfTheSum, Sending
    <3>5. Known
      BY <2>1, <2>3 DEF UploadTypes, Runs, StagedIsKnown, StagedTo
    <3> QED
      BY <3>2, <3>3, <3>4, <3>5 DEF UploadInv
  <2> QED
    BY <1>c, <2>1, <2>2, <2>3 DEF Pcs
<1>7. CASE ChecksSource
  <2>1. /\ Still /\ manifest' = manifest /\ run.pc = "loop"
        /\ Goes("final") \/ Goes("failed")
    BY <1>7 DEF ChecksSource, Fails
  <2>2. ASSUME Goes("final")
        PROVE  UploadInv'
    <3>1. Types
      BY <1>b, <2>1, <2>2 DEF Pcs
    <3>2. Source
      BY <2>1, <2>2 DEF Goes, UploadTypes, Runs, SourceIsAVersion, Held
    <3>3. Staged
      BY <2>1, <2>2 DEF Goes, UploadTypes, Runs, StagedIsOfTheSum, Sending
    <3>4. Known
      BY <2>1, <2>2 DEF Goes, UploadTypes, Runs, StagedIsKnown, StagedTo
    <3> QED
      BY <3>1, <3>2, <3>3, <3>4 DEF UploadInv
  <2> QED
    BY <1>c, <2>1, <2>2
<1>8. CASE WatcherHears
  <2>1. Still /\ manifest' = manifest /\ run' = [run EXCEPT !.told = TRUE]
    BY <1>8 DEF WatcherHears
  <2>2. Types
    BY <2>1 DEF UploadTypes, Runs
  <2>3. Source
    BY <2>1 DEF UploadTypes, Runs, SourceIsAVersion, Held
  <2>4. Staged
    BY <2>1 DEF UploadTypes, Runs, StagedIsOfTheSum, Sending
  <2>5. Known
    BY <2>1 DEF UploadTypes, Runs, StagedIsKnown, StagedTo
  <2> QED
    BY <2>2, <2>3, <2>4, <2>5 DEF UploadInv
<1>9. CASE Unwinds
  <2>1. Still /\ manifest' = manifest /\ Goes("failed")
    BY <1>9 DEF Unwinds, Fails
  <2> QED
    BY <1>c, <2>1
<1> QED
  BY <1>1, <1>2, <1>3, <1>4, <1>5, <1>6, <1>7, <1>8, <1>9

-----------------------------------------------------------------------------
(* The calls of a run, and the ends of one                                 *)

(* What the job has keeps being of one version, and counted.                *)
LEMMA JobStaysTrue ==
  ASSUME UploadAssumption, UploadInv, JobGoesOn, past' = past, puts' = puts
  PROVE  /\ job'.sum # None => job'.sum \in past'
         /\ \A n \in 1..Blocks :
              job'.blocks[n] # None => job'.sum # None /\ job'.blocks[n] = job'.sum[n]
         /\ \A k \in 0..Blocks : StagedTo(k) <=> StagedTo(k)'
         /\ \E k \in 0..Blocks : StagedTo(k)'
         /\ \A n \in 1..Blocks : puts'[n] = IF job'.blocks[n] = None THEN 0 ELSE 1
         /\ job'.state = "complete" => StagedTo(Blocks)'
         /\ job.sum # None => job'.sum = job.sum
<1> /\ StagedIsOfTheSum /\ StagedIsKnown /\ Blocks \in 0..Blocks
  BY DEF UploadInv, UploadAssumption
<1>1. \A k \in 0..Blocks : StagedTo(k) <=> StagedTo(k)'
  BY DEF JobGoesOn, StagedTo
<1>2. job'.sum # None => job'.sum \in past'
  BY DEF JobGoesOn, StagedIsOfTheSum
<1>3. \A n \in 1..Blocks :
        job'.blocks[n] # None => job'.sum # None /\ job'.blocks[n] = job'.sum[n]
  BY DEF JobGoesOn, StagedIsOfTheSum
<1>4. \A n \in 1..Blocks : puts'[n] = IF job'.blocks[n] = None THEN 0 ELSE 1
  BY DEF JobGoesOn, StagedIsKnown
<1>5. \E k \in 0..Blocks : StagedTo(k)'
  BY <1>1 DEF StagedIsKnown
<1>6. job'.state = "complete" => StagedTo(Blocks)'
  BY <1>1 DEF JobGoesOn
<1> QED
  BY <1>1, <1>2, <1>3, <1>4, <1>5, <1>6 DEF JobGoesOn

(* A run that has failed, is paused or begins anew holds nothing that the   *)
(* job could contradict.                                                    *)
LEMMA EndsKeep ==
  ASSUME UploadAssumption, UploadInv, JobGoesOn, UNCHANGED <<file, manifest, past, puts>>,
         budget' \in [edits : 0..MaxEdits, faults : Nat, pauses : Nat],
         budget'.edits = budget.edits,
         Goes("failed") \/ Goes("paused") \/ run' = Idle
  PROVE  UploadInv'
<1>1. Blocks \in Nat /\ 0 < Blocks /\ MaxEdits \in Nat
  BY DEF UploadAssumption
<1>2. UploadTypes /\ SourceIsAVersion
  BY DEF UploadInv
<1>3. run' \in Runs /\ Len(run'.chunks) <= Blocks
  <2>1. CASE Goes("failed") \/ Goes("paused")
    BY <1>2, <2>1 DEF Goes, UploadTypes, Runs, Pcs
  <2>2. CASE run' = Idle
    BY <1>1, <2>2 DEF Idle, Runs, Pcs, Blanks
  <2> QED
    BY <2>1, <2>2
<1>4. /\ run'.pc \in {"failed", "paused", "idle"}
      /\ run'.stat = run.stat \/ run'.stat = 0
      /\ run'.held = run.held \/ run'.held = None
  BY <1>2 DEF Goes, Idle, UploadTypes, Runs
<1>5. UploadTypes'
  BY <1>2, <1>3 DEF UploadTypes, JobGoesOn
<1>6. SourceIsAVersion'
  BY <1>2, <1>4 DEF SourceIsAVersion, UploadTypes, Held
<1>7. StagedIsOfTheSum'
  BY <1>4, JobStaysTrue DEF StagedIsOfTheSum, Sending
<1>8. StagedIsKnown'
  BY <1>4, JobStaysTrue DEF StagedIsKnown
<1> QED
  BY <1>5, <1>6, <1>7, <1>8 DEF UploadInv

(* An answer refreshes the copy of the job and changes nothing of the file. *)
LEMMA AnswersKeepSource ==
  ASSUME UploadAssumption, UploadInv, JobGoesOn,
         UNCHANGED <<file, manifest, past, puts, budget>>,
         NEW pc \in Pcs, Answered(job', pc),
         pc # "hash" /\ (pc # "idle" => run.chunks \in past)
  PROVE  /\ UploadTypes' /\ SourceIsAVersion'
         /\ run'.pc = pc /\ run'.chunks = run.chunks /\ run'.at = job'.committed
<1>1. UploadTypes /\ SourceIsAVersion
  BY DEF UploadInv
<1>2. job'.state \in States /\ job'.desired \in Wishes /\ job'.committed \in 0..Blocks
  BY DEF JobGoesOn, Jobs
<1>3. run' \in Runs
  BY <1>1, <1>2 DEF UploadTypes, Runs, Answered
<1>4. /\ run'.pc = pc /\ run'.chunks = run.chunks /\ run'.at = job'.committed
      /\ run'.stat = run.stat /\ run'.held = run.held
  BY <1>1 DEF UploadTypes, Runs, Answered
<1>5. UploadTypes'
  BY <1>1, <1>3, <1>4 DEF UploadTypes, JobGoesOn
<1>6. SourceIsAVersion'
  BY <1>1, <1>4 DEF SourceIsAVersion, Held
<1> QED
  BY <1>4, <1>5, <1>6

(* A block that arrives is the next one of the prepared version, and was    *)
(* never sent before.                                                       *)
BlockArrives ==
  /\ job' = [job EXCEPT !.blocks[run.at + 1] = run.data]
  /\ puts' = [puts EXCEPT ![run.at + 1] = @ + 1]

LEMMA PutsKeepJob ==
  ASSUME UploadAssumption, UploadInv, run.pc = "put", BlockArrives, past' = past
  PROVE  /\ run.at + 1 \in 1..Blocks
         /\ job' \in Jobs /\ puts' \in [1..Blocks -> Nat]
         /\ job'.sum = job.sum /\ job.sum = run.chunks /\ job.sum \in past
         /\ \A n \in 1..Blocks : job'.blocks[n] # None => job'.blocks[n] = job.sum[n]
         /\ \A n \in 1..Blocks : job'.blocks[n] # None <=> n <= run.at + 1
         /\ \A n \in 1..Blocks : puts'[n] = IF job'.blocks[n] = None THEN 0 ELSE 1
         /\ job.sum # None /\ job'.state # "complete"
<1>1. Blocks \in Nat /\ 0 < Blocks /\ None \notin 0..MaxEdits /\ None \notin Contents
  BY DEF UploadAssumption
<1>2. /\ job \in Jobs /\ run.at \in 0..Blocks /\ run.at < Blocks
      /\ puts \in [1..Blocks -> Nat]
      /\ run.data = run.chunks[run.at + 1] /\ job.sum = run.chunks
      /\ StagedTo(run.at)
  BY DEF UploadInv, UploadTypes, Runs, StagedIsOfTheSum, StagedIsKnown, Sending
<1>3. job.sum \in past /\ job.sum \in Contents
  BY <1>2 DEF UploadInv, UploadTypes, SourceIsAVersion
<1>4. run.at + 1 \in 1..Blocks
  BY <1>1, <1>2
<1>5. run.data \in 0..MaxEdits /\ run.data # None /\ run.data = job.sum[run.at + 1]
  BY <1>1, <1>2, <1>3, <1>4 DEF Contents
<1>6. /\ job.blocks \in [1..Blocks -> Blanks] /\ job.sum \in {None} \cup Contents
      /\ job'.blocks = [job.blocks EXCEPT ![run.at + 1] = run.data]
      /\ job'.sum = job.sum /\ job'.state = job.state
  BY <1>2 DEF BlockArrives, Jobs
<1>7. /\ job'.blocks \in [1..Blocks -> Blanks]
      /\ job'.blocks[run.at + 1] = run.data
      /\ \A n \in 1..Blocks : n # run.at + 1 => job'.blocks[n] = job.blocks[n]
  BY <1>4, <1>5, <1>6 DEF Blanks
<1>8. job' \in Jobs
  BY <1>2, <1>6, <1>7 DEF BlockArrives, Jobs
<1>9. \A n \in 1..Blocks : job'.blocks[n] # None => job'.blocks[n] = job.sum[n]
  BY <1>5, <1>7 DEF UploadInv, StagedIsOfTheSum
<1>10. \A n \in 1..Blocks : job'.blocks[n] # None <=> n <= run.at + 1
  <2> TAKE n \in 1..Blocks
  <2>1. CASE n = run.at + 1
    BY <1>5, <1>7, <2>1
  <2>2. CASE n # run.at + 1
    <3>1. job.blocks[n] # None <=> n <= run.at
      BY <1>2 DEF StagedTo
    <3>2. n <= run.at <=> n <= run.at + 1
      BY <1>1, <1>2, <2>2
    <3> QED
      BY <1>7, <2>2, <3>1, <3>2
  <2> QED
    BY <2>1, <2>2
<1>11. job.blocks[run.at + 1] = None
  BY <1>2, <1>4 DEF StagedTo
<1>12. /\ puts' \in [1..Blocks -> Nat] /\ puts'[run.at + 1] = puts[run.at + 1] + 1
       /\ \A n \in 1..Blocks : n # run.at + 1 => puts'[n] = puts[n]
  BY <1>2, <1>4 DEF BlockArrives
<1>13. \A n \in 1..Blocks : puts'[n] = IF job'.blocks[n] = None THEN 0 ELSE 1
  BY <1>4, <1>5, <1>7, <1>11, <1>12 DEF UploadInv, StagedIsKnown
<1>14. job.state # "complete"
  BY <1>4, <1>11 DEF UploadInv, StagedIsKnown, StagedTo
<1> QED
  BY <1>1, <1>2, <1>3, <1>4, <1>6, <1>8, <1>9, <1>10, <1>12, <1>13, <1>14

LEMMA CallsKeep ==
  ASSUME UploadAssumption, UploadInv,
         \/ Resumes \/ Prepares \/ Reconciles \/ PutsBlock \/ Checkpoints \/ Finishes
         \/ Reports
  PROVE  UploadInv'
<1>0. UploadTypes /\ SourceIsAVersion /\ StagedIsOfTheSum /\ StagedIsKnown
  BY DEF UploadInv
<1>a. Prefix \in 0..Blocks /\ StagedTo(Prefix)
  BY PrefixIsStaged
<1>1. CASE Resumes
  <2>1. /\ UNCHANGED <<file, manifest, past, puts, budget>>
        /\ job' = Resumed /\ Answered(job', "prepare") /\ run.chunks \in past
    BY <1>0, <1>1 DEF Resumes, SourceIsAVersion
  <2>2. JobGoesOn
    BY <2>1, CallsGoOn
  <2>3. UploadTypes' /\ SourceIsAVersion' /\ run'.pc = "prepare"
    BY <2>1, <2>2, AnswersKeepSource DEF Pcs
  <2>4. StagedIsOfTheSum' /\ StagedIsKnown'
    BY <2>1, <2>2, <2>3, JobStaysTrue DEF StagedIsOfTheSum, StagedIsKnown, Sending
  <2> QED
    BY <2>3, <2>4 DEF UploadInv
<1>2. CASE Prepares
  <2>1. /\ UNCHANGED <<file, manifest, past, puts, budget>>
        /\ run.pc = "prepare" /\ job' = Prepared /\ run.chunks \in past
    BY <1>0, <1>2 DEF Prepares, SourceIsAVersion
  <2>2. JobGoesOn
    BY <2>1, CallsGoOn
  <2>3. CASE job.sum \notin {None, run.chunks}
    <3>1. Goes("failed")
      BY <1>2, <2>3 DEF Prepares, Fails
    <3>2. /\ budget' \in [edits : 0..MaxEdits, faults : Nat, pauses : Nat]
          /\ budget'.edits = budget.edits
      BY <1>0, <2>1 DEF UploadTypes
    <3> QED
      BY <2>1, <2>2, <3>1, <3>2, EndsKeep
  <2>4. CASE job.sum \in {None, run.chunks}
    <3>1. PICK pc \in {"idle", "paused", "reconcile"} :
            /\ Answered(job', pc)
            /\ pc = "reconcile" =>
                 job'.state # "complete" /\ job'.desired = "running" /\ job'.state = "uploading"
      BY <1>2, <2>4 DEF Prepares
    <3>2. /\ UploadTypes' /\ SourceIsAVersion'
          /\ run'.pc = pc /\ run'.chunks = run.chunks
      BY <2>1, <2>2, <3>1, AnswersKeepSource DEF Pcs
    <3>3. pc = "reconcile" => job'.sum = run.chunks
      BY <1>0, <2>1, <2>4, <3>1 DEF Prepared, UploadTypes, Jobs
    <3>4. StagedIsOfTheSum' /\ StagedIsKnown'
      BY <2>1, <2>2, <3>2, <3>3, JobStaysTrue DEF StagedIsOfTheSum, StagedIsKnown, Sending
    <3> QED
      BY <3>2, <3>4 DEF UploadInv
  <2> QED
    BY <2>3, <2>4
<1>3. CASE Reconciles \/ Checkpoints
  <2>1. /\ UNCHANGED <<file, manifest, past, puts, budget>>
        /\ job' = Inventoried(FALSE) /\ Answered(job', "loop")
        /\ run.chunks \in past /\ run.pc \in Sending
    BY <1>0, <1>3 DEF Reconciles, Checkpoints, SourceIsAVersion, Sending
  <2>2. JobGoesOn
    BY <2>1, CallsGoOn
  <2>3. /\ UploadTypes' /\ SourceIsAVersion'
        /\ run'.pc = "loop" /\ run'.chunks = run.chunks /\ run'.at = job'.committed
    BY <2>1, <2>2, AnswersKeepSource DEF Pcs
  <2>4. job'.committed = Prefix /\ job'.sum = job.sum
    BY <1>0, <2>1 DEF Inventoried, UploadTypes, Jobs
  <2>5. job.sum = run.chunks
    BY <1>0, <2>1 DEF StagedIsOfTheSum
  <2>6. StagedIsOfTheSum'
    BY <2>1, <2>2, <2>3, <2>4, <2>5, JobStaysTrue DEF StagedIsOfTheSum
  <2>7. run'.at \in 0..Blocks /\ StagedTo(run'.at)
    BY <1>a, <2>3, <2>4
  <2>8. \A n \in 1..Blocks : job'.blocks[n] # None <=> n <= run'.at
    BY <2>2, <2>7 DEF JobGoesOn, StagedTo
  <2>9. StagedIsKnown'
    BY <2>1, <2>2, <2>8, JobStaysTrue DEF StagedIsKnown, StagedTo
  <2> QED
    BY <2>3, <2>6, <2>9 DEF UploadInv
<1>4. CASE PutsBlock
  <2>1. /\ UNCHANGED <<file, manifest, past, budget>> /\ run.pc = "put" /\ BlockArrives
        /\ run.chunks \in past
    BY <1>0, <1>4 DEF PutsBlock, BlockArrives, SourceIsAVersion
  <2>2. /\ run.at + 1 \in 1..Blocks
        /\ job' \in Jobs /\ puts' \in [1..Blocks -> Nat]
        /\ job'.sum = job.sum /\ job.sum = run.chunks /\ job.sum \in past
        /\ \A n \in 1..Blocks : job'.blocks[n] # None => job'.blocks[n] = job.sum[n]
        /\ \A n \in 1..Blocks : job'.blocks[n] # None <=> n <= run.at + 1
        /\ \A n \in 1..Blocks : puts'[n] = IF job'.blocks[n] = None THEN 0 ELSE 1
        /\ job.sum # None /\ job'.state # "complete"
    BY <2>1, PutsKeepJob
  <2>3. PICK pc \in {"checkpoint", "loop"} :
          run' = [run EXCEPT !.pc = pc, !.at = run.at + 1, !.staged = @ + 1, !.data = None]
    BY <1>4 DEF PutsBlock
  <2>4. run' \in Runs
    <3>1. run \in Runs /\ run.staged + 1 \in Nat /\ run.at + 1 \in 0..Blocks
      BY <1>0, <2>2 DEF UploadTypes, Runs
    <3> QED
      BY <2>3, <3>1 DEF Runs, Pcs, Blanks
  <2>5. /\ run'.pc = pc /\ run'.at = run.at + 1 /\ run'.chunks = run.chunks
        /\ run'.stat = run.stat /\ run'.held = run.held
    BY <1>0, <2>3 DEF UploadTypes, Runs
  <2>6. UploadTypes'
    BY <1>0, <2>1, <2>2, <2>4, <2>5 DEF UploadTypes
  <2>7. SourceIsAVersion'
    BY <1>0, <2>1, <2>5 DEF SourceIsAVersion, Held
  <2>8. StagedIsOfTheSum'
    BY <2>1, <2>2, <2>5 DEF StagedIsOfTheSum
  <2>9. StagedIsKnown'
    <3>1. run.at + 1 \in 0..Blocks
      BY <2>2
    <3> QED
      BY <2>2, <2>5, <3>1 DEF StagedIsKnown, StagedTo
  <2> QED
    BY <2>6, <2>7, <2>8, <2>9 DEF UploadInv
<1>5. CASE Finishes
  <2>1. /\ UNCHANGED <<file, manifest, past, puts, budget>>
        /\ job' = Inventoried(TRUE) /\ Answered(job', "idle")
    BY <1>5 DEF Finishes
  <2>2. JobGoesOn
    BY <2>1, CallsGoOn
  <2>3. UploadTypes' /\ SourceIsAVersion' /\ run'.pc = "idle"
    BY <2>1, <2>2, AnswersKeepSource DEF Pcs
  <2>4. StagedIsOfTheSum' /\ StagedIsKnown'
    BY <2>1, <2>2, <2>3, JobStaysTrue DEF StagedIsOfTheSum, StagedIsKnown, Sending
  <2> QED
    BY <2>3, <2>4 DEF UploadInv
<1>6. CASE Reports
  <2>1. /\ UNCHANGED <<file, manifest, past, puts, budget>>
        /\ job' = Waiting \/ job' = job
        /\ run' = Idle
    BY <1>6 DEF Reports
  <2>2. JobGoesOn
    BY <2>1, CallsGoOn
  <2>3. /\ budget' \in [edits : 0..MaxEdits, faults : Nat, pauses : Nat]
        /\ budget'.edits = budget.edits
    BY <1>0, <2>1 DEF UploadTypes
  <2> QED
    BY <2>1, <2>2, <2>3, EndsKeep
<1> QED
  BY <1>1, <1>2, <1>3, <1>4, <1>5, <1>6

-----------------------------------------------------------------------------
(* Faults and people                                                       *)

LEMMA FaultsKeep ==
  ASSUME UploadAssumption, UploadInv, CallIsLost \/ Crashes
  PROVE  UploadInv'
<1>0. UploadTypes /\ SourceIsAVersion /\ StagedIsOfTheSum /\ StagedIsKnown
  BY DEF UploadInv
<1>1. /\ budget' \in [edits : 0..MaxEdits, faults : Nat, pauses : Nat]
      /\ budget'.edits = budget.edits
      /\ UNCHANGED <<file, manifest, past>>
  <2>1. /\ budget \in [edits : 0..MaxEdits, faults : Nat, pauses : Nat]
        /\ budget' = [budget EXCEPT !.faults = @ + 1]
        /\ UNCHANGED <<file, manifest, past>>
    BY <1>0 DEF UploadTypes, CallIsLost, Crashes, Fault
  <2> QED
    BY <2>1
<1>2. CASE Crashes
  <2>1. run' = Idle /\ job' = job /\ puts' = puts
    BY <1>2 DEF Crashes
  <2>2. JobGoesOn
    BY <2>1, CallsGoOn
  <2> QED
    BY <1>1, <2>1, <2>2, EndsKeep
<1>3. CASE CallIsLost
  <2>1. Goes("failed")
    BY <1>3 DEF CallIsLost, Fails
  <2>2. CASE run.pc = "put" /\ ~UNCHANGED <<job, puts>>
    <3>1. BlockArrives
      BY <1>3, <2>2 DEF CallIsLost, BlockArrives
    <3>2. /\ job' \in Jobs /\ puts' \in [1..Blocks -> Nat]
          /\ job'.sum = job.sum /\ job.sum \in past
          /\ \A n \in 1..Blocks : job'.blocks[n] # None => job'.blocks[n] = job.sum[n]
          /\ \A n \in 1..Blocks : job'.blocks[n] # None <=> n <= run.at + 1
          /\ \A n \in 1..Blocks : puts'[n] = IF job'.blocks[n] = None THEN 0 ELSE 1
          /\ job.sum # None /\ job'.state # "complete"
          /\ run.at + 1 \in 1..Blocks
      BY <1>1, <2>2, <3>1, PutsKeepJob
    <3>3. run' \in Runs
      BY <1>0, <2>1 DEF Goes, UploadTypes, Runs, Pcs
    <3>4. /\ run'.pc = "failed" /\ run'.chunks = run.chunks
          /\ run'.stat = run.stat /\ run'.held = run.held
      BY <1>0, <2>1 DEF Goes, UploadTypes, Runs
    <3>5. UploadTypes'
      BY <1>0, <1>1, <3>2, <3>3, <3>4 DEF UploadTypes
    <3>6. SourceIsAVersion'
      BY <1>0, <1>1, <3>4 DEF SourceIsAVersion, Held
    <3>7. StagedIsOfTheSum'
      BY <1>1, <3>2, <3>4 DEF StagedIsOfTheSum, Sending
    <3>8. StagedIsKnown'
      <4>1. run.at + 1 \in 0..Blocks
        BY <3>2
      <4> QED
        BY <3>2, <3>4, <4>1 DEF StagedIsKnown, StagedTo
    <3> QED
      BY <3>5, <3>6, <3>7, <3>8 DEF UploadInv
  <2>3. CASE run.pc # "put" \/ UNCHANGED <<job, puts>>
    <3>1. /\ puts' = puts
          /\ \/ job' = job
             \/ job' = Resumed
             \/ run.pc = "prepare" /\ job' = Prepared
             \/ \E final \in BOOLEAN : job' = Inventoried(final)
      BY <1>3, <2>3 DEF CallIsLost
    <3>2. JobGoesOn
      BY <3>1, CallsGoOn
    <3> QED
      BY <1>1, <2>1, <3>1, <3>2, EndsKeep
  <2> QED
    BY <2>2, <2>3
<1> QED
  BY <1>2, <1>3

(* A change of the file is a version of its own, which no run has read; one *)
(* that keeps what stat says meets no run.                                  *)
LEMMA OwnersKeep ==
  ASSUME UploadAssumption, UploadInv,
         NEW n \in 1..Blocks, Edits(n) \/ Replaces(n) \/ EditsUnseen(n)
  PROVE  UploadInv'
<1>0. /\ UploadTypes /\ SourceIsAVersion /\ StagedIsOfTheSum /\ StagedIsKnown
      /\ MaxEdits \in Nat /\ None \notin Files
  BY DEF UploadInv, UploadAssumption
<1>1. /\ budget' \in [edits : 0..MaxEdits, faults : Nat, pauses : Nat]
      /\ budget'.edits = budget.edits + 1 /\ budget.edits \in Nat
  <2>1. /\ budget \in [edits : 0..MaxEdits, faults : Nat, pauses : Nat]
        /\ budget' = [budget EXCEPT !.edits = @ + 1] /\ budget.edits < MaxEdits
    BY <1>0 DEF UploadTypes, Edits, Replaces, EditsUnseen, Edit
  <2> QED
    BY <1>0, <2>1
<1>2. /\ file'.bytes = [file.bytes EXCEPT ![n] = budget'.edits]
      /\ file'.stat \in {budget'.edits, file.stat}
      /\ file' = [bytes |-> file'.bytes, stat |-> file'.stat]
      /\ past' = past \cup {file'.bytes}
      /\ UNCHANGED <<manifest, puts, job>>
  BY DEF Edits, Replaces, EditsUnseen, Edited
<1>3. file' \in Files /\ file'.bytes \in Contents
  BY <1>0, <1>1, <1>2 DEF UploadTypes, Files, Contents
<1>4. /\ run' \in Runs /\ run'.pc = run.pc /\ run'.chunks = run.chunks
      /\ run'.stat = run.stat /\ run'.at = run.at /\ run'.data = run.data
      /\ \/ run'.held = run.held
         \/ run'.held = file /\ run.held = None /\ run.pc \notin {"idle", "source"}
  BY <1>0 DEF Edits, Replaces, EditsUnseen, UploadTypes, Runs
<1>5. UploadTypes'
  BY <1>0, <1>1, <1>2, <1>3, <1>4 DEF UploadTypes
<1>6. Held' = Held \/ Held' = file'
  BY <1>0, <1>4 DEF Held, UploadTypes
<1>7. run.pc = "hash" => Held' = Held \/ Held'.stat = budget'.edits
  BY <1>1, <1>2, <1>6 DEF EditsUnseen, Edits, Replaces, Edited
<1>8. SourceIsAVersion'
  <2>1. /\ file'.bytes \in past' /\ file'.stat <= budget'.edits /\ run'.stat <= budget'.edits
        /\ manifest' # None => manifest'.chunks \in past'
        /\ Held'.bytes \in past'
    BY <1>0, <1>1, <1>2, <1>4, <1>6 DEF SourceIsAVersion, UploadTypes, Files, Runs
  <2>2. run'.pc = "hash" /\ Held'.stat = run'.stat => Held' = Held
    BY <1>0, <1>1, <1>4, <1>7 DEF SourceIsAVersion, UploadTypes, Runs
  <2>3. /\ run'.pc = "hash" /\ Held'.stat = run'.stat =>
             \A m \in 1..Len(run'.chunks) : run'.chunks[m] = Held'.bytes[m]
        /\ run'.pc \in {"stat", "resume", "prepare", "reconcile", "loop", "put", "checkpoint", "final"} =>
             run'.chunks \in past'
    BY <1>0, <1>2, <1>4, <2>2 DEF SourceIsAVersion
  <2> QED
    BY <2>1, <2>3 DEF SourceIsAVersion
<1>9. StagedIsOfTheSum'
  BY <1>0, <1>2, <1>4 DEF StagedIsOfTheSum, Sending
<1>10. StagedIsKnown'
  BY <1>0, <1>2, <1>4 DEF StagedIsKnown, StagedTo
<1> QED
  BY <1>5, <1>8, <1>9, <1>10 DEF UploadInv

LEMMA PeopleKeep ==
  ASSUME UploadAssumption, UploadInv, Pauses \/ PersonResumes
  PROVE  UploadInv'
<1>0. UploadTypes /\ SourceIsAVersion /\ StagedIsOfTheSum /\ StagedIsKnown
  BY DEF UploadInv
<1>1. /\ UNCHANGED <<file, manifest, run, past, puts>>
      /\ budget' \in [edits : 0..MaxEdits, faults : Nat, pauses : Nat]
      /\ budget'.edits = budget.edits
  <2>1. /\ budget \in [edits : 0..MaxEdits, faults : Nat, pauses : Nat]
        /\ budget' = budget \/ budget' = [budget EXCEPT !.pauses = @ + 1]
        /\ UNCHANGED <<file, manifest, run, past, puts>>
    BY <1>0 DEF UploadTypes, Pauses, PersonResumes
  <2> QED
    BY <2>1
<1>2. JobGoesOn /\ job'.sum = job.sum
  <2>1. CASE Pauses
    BY <1>0, <2>1 DEF Pauses, UploadTypes, Jobs, States, Wishes, JobGoesOn
  <2>2. CASE PersonResumes
    <3>1. job' = Resumed
      BY <2>2 DEF PersonResumes
    <3>2. JobGoesOn
      BY <3>1, CallsGoOn
    <3>3. job'.sum = job.sum
      BY <1>0, <3>1 DEF Resumed, UploadTypes, Jobs
    <3> QED
      BY <3>2, <3>3
  <2> QED
    BY <2>1, <2>2
<1>3. UploadTypes'
  BY <1>0, <1>1, <1>2 DEF UploadTypes, JobGoesOn
<1>4. SourceIsAVersion'
  BY <1>0, <1>1 DEF SourceIsAVersion, Held
<1>5. StagedIsOfTheSum'
  BY <1>0, <1>1, <1>2, JobStaysTrue DEF StagedIsOfTheSum
<1>6. StagedIsKnown'
  BY <1>0, <1>1, <1>2, JobStaysTrue DEF StagedIsKnown, StagedTo, JobGoesOn
<1> QED
  BY <1>3, <1>4, <1>5, <1>6 DEF UploadInv

-----------------------------------------------------------------------------
LEMMA UploadKeeps ==
  ASSUME UploadAssumption, UploadInv, [Next]_vars
  PROVE  UploadInv'
<1>1. CASE Steps \/ Lists \/ Reports \/ WatcherHears \/ Unwinds
  BY <1>1, ReadsKeep, CallsKeep DEF Steps
<1>2. CASE CallIsLost \/ Crashes
  BY <1>2, FaultsKeep
<1>3. ASSUME NEW n \in 1..Blocks, Edits(n) \/ Replaces(n) \/ EditsUnseen(n)
      PROVE  UploadInv'
  BY <1>3, OwnersKeep
<1>4. CASE Pauses \/ PersonResumes
  BY <1>4, PeopleKeep
<1>5. CASE UNCHANGED vars
  BY <1>5 DEF vars, UploadInv, UploadTypes, SourceIsAVersion, Held, StagedIsOfTheSum,
              StagedIsKnown, StagedTo
<1> QED
  BY <1>1, <1>2, <1>3, <1>4, <1>5 DEF Next

(* The types of an upload hold: the block that a run reads next is one of   *)
(* the file's, and it has read no more of them than there are.              *)
THEOREM UploadTypeCorrect == UploadAssumption => (Spec => []UploadTypeOK)
<1> SUFFICES ASSUME UploadAssumption PROVE Spec => []UploadTypeOK
  OBVIOUS
<1>1. Init => UploadInv
  BY UploadStarts
<1>2. UploadInv /\ [Next]_vars => UploadInv'
  BY UploadKeeps
<1>3. UploadInv => UploadTypeOK
  <2> SUFFICES ASSUME UploadInv PROVE UploadTypeOK
    OBVIOUS
  <2>1. /\ job.state \in States /\ job.desired \in Wishes /\ job.committed \in 0..Blocks
        /\ job.blocks \in [1..Blocks -> Blanks]
    BY DEF UploadInv, UploadTypes, Jobs
  <2>2. file.bytes \in Contents /\ past \subseteq Contents
    BY DEF UploadInv, UploadTypes, Files
  <2>3. run.pc \in Pcs /\ run.at \in 0..Blocks /\ Len(run.chunks) <= Blocks
    BY DEF UploadInv, UploadTypes, Runs
  <2> QED
    BY <2>1, <2>2, <2>3 DEF UploadTypeOK, States, Wishes, Blanks
<1> QED
  BY <1>1, <1>2, <1>3, PTL DEF Spec

(* A finished upload is one version that the file has had, whatever the     *)
(* owner did to it in between and however often the run was interrupted.    *)
THEOREM UploadsAreOneVersion == UploadAssumption => (Spec => []StoredIsOneVersion)
<1> SUFFICES ASSUME UploadAssumption PROVE Spec => []StoredIsOneVersion
  OBVIOUS
<1>1. Init => UploadInv
  BY UploadStarts
<1>2. UploadInv /\ [Next]_vars => UploadInv'
  BY UploadKeeps
<1>3. UploadInv => StoredIsOneVersion
  <2> SUFFICES ASSUME UploadInv, job.state = "complete" PROVE job.blocks \in past
    BY DEF StoredIsOneVersion
  <2>1. job.blocks \in [1..Blocks -> Blanks] /\ job.sum \in {None} \cup Contents
    BY DEF UploadInv, UploadTypes, Jobs
  <2>2. \A n \in 1..Blocks : job.blocks[n] # None
    BY DEF UploadInv, StagedIsKnown, StagedTo
  <2>3. Blocks \in Nat \ {0} /\ 1 \in 1..Blocks
    BY DEF UploadAssumption
  <2>4. job.sum # None /\ \A n \in 1..Blocks : job.blocks[n] = job.sum[n]
    BY <2>2, <2>3 DEF UploadInv, StagedIsOfTheSum
  <2>5. job.blocks = job.sum
    <3>1. job.sum \in Contents
      BY <2>1, <2>4
    <3>2. \A n \in 1..Blocks : job.blocks[n] \in 0..MaxEdits
      BY <2>4, <3>1 DEF Contents
    <3>3. job.blocks \in Contents
      BY <2>1, <3>2 DEF Contents
    <3> QED
      BY <2>4, <3>1, <3>3, SameBlocks
  <2> QED
    BY <2>4, <2>5 DEF UploadInv, StagedIsOfTheSum
<1> QED
  BY <1>1, <1>2, <1>3, PTL DEF Spec

(* No block is sent twice, whatever answers are lost and however often the  *)
(* process dies: a run counts what the cluster has before it sends.         *)
THEOREM BlocksAreSentOnce == UploadAssumption => (Spec => []KnownBlocksAreNotResent)
<1> SUFFICES ASSUME UploadAssumption PROVE Spec => []KnownBlocksAreNotResent
  OBVIOUS
<1>1. Init => UploadInv
  BY UploadStarts
<1>2. UploadInv /\ [Next]_vars => UploadInv'
  BY UploadKeeps
<1>3. UploadInv => KnownBlocksAreNotResent
  BY DEF UploadInv, StagedIsKnown, KnownBlocksAreNotResent
<1> QED
  BY <1>1, <1>2, <1>3, PTL DEF Spec
=============================================================================
