------------------------------- MODULE Download -------------------------------
(***************************************************************************)
(* One download to a place the owner of the machine named:                 *)
(* Runner.download in internal/worker/transfer/download.go, under          *)
(* Runner.RunPending.                                                      *)
(*                                                                         *)
(* The bytes go into a partial file with a random name beside the          *)
(* destination, a journal names it and counts the blocks verified in it,   *)
(* and a hard link publishes it.  Attempt k of the download has partial k; *)
(* a block is TRUE when it is the backup's and FALSE when it is not.       *)
(* Pauses are in Upload, which shares Runner.Run with this.                *)
(***************************************************************************)
EXTENDS Integers, Sequences, WellFoundedInduction, TLAPS

CONSTANTS Blocks,      \* blocks of the backup
          Attempts,    \* bound: 1..Attempts partial files
          MaxMishaps,  \* bound: lost calls and replies, wrong answers, crashes
          MaxMeddles,  \* bound: acts of the machine's user in the directory
          NoName       \* no such name, no journal

Partials == 1..Attempts
Other == 0    \* a file that is not the download's

(* What a journal says: the partial, whether its identity is known, and    *)
(* the blocks verified in it.                                              *)
Trails == [k : Partials, sure : BOOLEAN, blocks : 0..Blocks]

DownloadAssumption ==
  /\ Blocks \in Nat \ {0} /\ Attempts \in Nat \ {0}
  /\ MaxMishaps \in Nat /\ MaxMeddles \in Nat
  /\ NoName \notin {Other} \cup Partials \cup Trails

VARIABLES job,      \* the cluster's row
          dest,     \* what the destination names: NoName, Other, or a partial's file
          part,     \* what each partial's name names: NoName, Other, or its file
          bytes,    \* the blocks in each partial's file
          trail,    \* id.download.json
          run,      \* the process
          elsewhere, \* history: published files the user has moved elsewhere
          budget    \* faults and meddles so far

download_vars == <<job, dest, part, bytes, trail, run, elsewhere, budget>>

Whole == [n \in 1..Blocks |-> TRUE]
Idle == [pc |-> "idle", state |-> NoName, k |-> Other, at |-> 0, fresh |-> TRUE]

DownloadInit ==
  /\ job = [state |-> "downloading", committed |-> 0]
  /\ dest = NoName
  /\ part = [k \in Partials |-> NoName]
  /\ bytes = [k \in Partials |-> <<>>]
  /\ trail = NoName
  /\ run = Idle
  /\ elsewhere = {}
  /\ budget = [faults |-> 0, meddles |-> 0, attempts |-> 0]

-----------------------------------------------------------------------------
Goes(pc) == run' = [run EXCEPT !.pc = pc]
GivesUp == Goes("failed")
Reported(state, at) == IF job.state = "complete" THEN job ELSE [state |-> state, committed |-> at]

(* The journal names a partial whose identity it has, and that name exists. *)
Known == trail # NoName /\ trail.sure /\ part[trail.k] # NoName

(* Mutant: a job that waits is left for its person.                         *)
ListsFresh ==
  /\ run.pc = "idle" /\ job.state = "downloading"
  /\ run' = [Idle EXCEPT !.pc = "look", !.state = job.state]
  /\ UNCHANGED <<job, dest, part, bytes, trail, elsewhere, budget>>

Lists ==
  /\ run.pc = "idle" /\ job.state # "complete"
  /\ run' = [Idle EXCEPT !.pc = IF job.state = "waiting" THEN "resume" ELSE "look", !.state = job.state]
  /\ UNCHANGED <<job, dest, part, bytes, trail, elsewhere, budget>>

Resumes ==
  /\ run.pc = "resume"
  /\ job' = [job EXCEPT !.state = "downloading"]
  /\ Goes("look")
  /\ UNCHANGED <<dest, part, bytes, trail, elsewhere, budget>>

(* Mutant: the file the journal knows is taken as it is.                    *)
LooksAtNameOnly ==
  /\ run.pc = "look"
  /\ IF dest # NoName
       THEN IF trail # NoName /\ trail.sure /\ dest = trail.k THEN Goes("report") ELSE GivesUp
       ELSE Goes(IF Known THEN "reopen" ELSE "intend")
  /\ UNCHANGED <<job, dest, part, bytes, trail, elsewhere, budget>>

(* What exists at the destination is taken for a finished download only if  *)
(* the journal knows that very file and every byte of it is right.          *)
Looks ==
  /\ run.pc = "look"
  /\ IF dest # NoName
       THEN IF trail # NoName /\ trail.sure /\ dest = trail.k /\ bytes[dest] = Whole
              THEN Goes("report") ELSE GivesUp
       ELSE Goes(IF Known THEN "reopen" ELSE "intend")
  /\ UNCHANGED <<job, dest, part, bytes, trail, elsewhere, budget>>

(* The prefix the journal counts is checked again, block by block, and what *)
(* follows it is cut off.                                                   *)
Verified(k, n) ==
  CHOOSE v \in 0..n :
    /\ v <= Len(bytes[k]) /\ \A b \in 1..v : bytes[k][b]
    /\ v = n \/ v = Len(bytes[k]) \/ ~bytes[k][v + 1]

Reopens ==
  /\ run.pc = "reopen"
  /\ LET k == trail.k
         v == Verified(k, trail.blocks) IN
       IF part[k] # k THEN GivesUp /\ UNCHANGED bytes
       ELSE /\ bytes' = [bytes EXCEPT ![k] = SubSeq(@, 1, v)]
            /\ run' = [run EXCEPT !.pc = "fetch", !.k = k, !.at = v, !.fresh = FALSE]
  /\ UNCHANGED <<job, dest, part, trail, elsewhere, budget>>

(* A new partial: its name is journalled, it is made, its identity is.      *)
Intends ==
  /\ run.pc = "intend" /\ budget.attempts < Attempts
  /\ LET k == budget.attempts + 1 IN
       /\ trail' = [k |-> k, sure |-> FALSE, blocks |-> 0]
       /\ run' = [run EXCEPT !.pc = "create", !.k = k]
       /\ budget' = [budget EXCEPT !.attempts = k]
  /\ UNCHANGED <<job, dest, part, bytes, elsewhere>>

Creates ==
  /\ run.pc = "create"
  /\ part' = [part EXCEPT ![run.k] = run.k]
  /\ Goes("identify")
  /\ UNCHANGED <<job, dest, bytes, trail, elsewhere, budget>>

Identifies ==
  /\ run.pc = "identify"
  /\ trail' = [trail EXCEPT !.sure = TRUE]
  /\ Goes("fetch")
  /\ UNCHANGED <<job, dest, part, bytes, elsewhere, budget>>

(* A block of the right range, version and checksum is written behind the   *)
(* verified prefix, if the name still is this file.                         *)
WritesBlock ==
  /\ run.pc = "fetch" /\ run.at < Blocks
  /\ IF part[run.k] # run.k THEN GivesUp /\ UNCHANGED bytes
     ELSE /\ bytes' = [bytes EXCEPT ![run.k] = Append(@, TRUE)]
          /\ Goes("journal")
  /\ UNCHANGED <<job, dest, part, trail, elsewhere, budget>>

Journals ==
  /\ run.pc = "journal"
  /\ trail' = [trail EXCEPT !.blocks = run.at + 1]
  /\ run' = [run EXCEPT !.pc = IF run.at + 1 >= job.committed THEN "progress" ELSE "fetch",
                        !.at = @ + 1]
  /\ UNCHANGED <<job, dest, part, bytes, elsewhere, budget>>

ReportsProgress ==
  /\ run.pc = "progress"
  /\ job' = Reported("downloading", run.at)
  /\ Goes("fetch")
  /\ UNCHANGED <<dest, part, bytes, trail, elsewhere, budget>>

(* The whole file is hashed, and its name looked at once more.              *)
Hashes ==
  /\ run.pc = "fetch" /\ run.at = Blocks
  /\ IF bytes[run.k] = Whole /\ part[run.k] = run.k THEN Goes("link") ELSE GivesUp
  /\ UNCHANGED <<job, dest, part, bytes, trail, elsewhere, budget>>

(* Mutant: rename(2), which replaces what has the name.                     *)
Renames ==
  /\ run.pc = "link"
  /\ IF part[run.k] # NoName
       THEN dest' = part[run.k] /\ Goes("linked")
       ELSE GivesUp /\ UNCHANGED dest
  /\ UNCHANGED <<job, part, bytes, trail, elsewhere, budget>>

(* link(2): a second name for whatever the partial's name names, at a name  *)
(* nothing has.                                                             *)
Links ==
  /\ run.pc = "link"
  /\ IF dest = NoName /\ part[run.k] # NoName
       THEN dest' = part[run.k] /\ Goes("linked")
       ELSE GivesUp /\ UNCHANGED dest
  /\ UNCHANGED <<job, part, bytes, trail, elsewhere, budget>>

ChecksLink ==
  /\ run.pc = "linked"
  /\ IF dest = run.k THEN Goes("remove") ELSE GivesUp
  /\ UNCHANGED <<job, dest, part, bytes, trail, elsewhere, budget>>

Removes ==
  /\ run.pc = "remove"
  /\ IF part[run.k] = NoName THEN GivesUp /\ UNCHANGED part
     ELSE part' = [part EXCEPT ![run.k] = NoName] /\ Goes("report")
  /\ UNCHANGED <<job, dest, bytes, trail, elsewhere, budget>>

ReportsComplete ==
  /\ run.pc = "report"
  /\ job' = Reported("complete", Blocks)
  /\ Goes("idle")
  /\ UNCHANGED <<dest, part, bytes, trail, elsewhere, budget>>

(* RunPending: a failed run waits and is tried again.                       *)
ReportsWaiting ==
  /\ run.pc = "failed"
  /\ job' = Reported("waiting", job.committed)
  /\ run' = Idle
  /\ UNCHANGED <<dest, part, bytes, trail, elsewhere, budget>>

-----------------------------------------------------------------------------
(* Failures, and the user                                                  *)

Mishap == budget.faults < MaxMishaps /\ budget' = [budget EXCEPT !.faults = @ + 1]

(* A call or a range is lost or wrong, or the reply to a report is.         *)
CallIsLost ==
  /\ Mishap /\ run.pc \in {"resume", "fetch", "progress", "report"}
  /\ \/ UNCHANGED job
     \/ /\ run.pc # "fetch"
        /\ job' = CASE run.pc = "resume" -> [job EXCEPT !.state = "downloading"]
                    [] run.pc = "progress" -> Reported("downloading", run.at)
                    [] run.pc = "report" -> Reported("complete", Blocks)
  /\ GivesUp
  /\ UNCHANGED <<dest, part, bytes, trail, elsewhere>>

(* The process dies; a block that was being written may be torn.            *)
Crashes ==
  /\ Mishap /\ run.pc # "idle"
  /\ run' = Idle
  /\ \/ UNCHANGED bytes
     \/ run.pc = "fetch" /\ run.at < Blocks
        /\ bytes' = [bytes EXCEPT ![run.k] = Append(@, FALSE)]
  /\ UNCHANGED <<job, dest, part, trail, elsewhere>>

Meddle == budget.meddles < MaxMeddles /\ budget' = [budget EXCEPT !.meddles = @ + 1]

PutsFileAtDestination ==
  /\ Meddle /\ dest = NoName
  /\ dest' = Other
  /\ UNCHANGED <<job, part, bytes, trail, run, elsewhere>>

MovesDestination ==
  /\ Meddle /\ dest # NoName
  /\ dest' = NoName
  /\ elsewhere' = IF dest = Other THEN elsewhere ELSE elsewhere \cup {dest}
  /\ UNCHANGED <<job, part, bytes, trail, run>>

RemovesPartial(k) ==
  /\ Meddle /\ part[k] # NoName
  /\ part' = [part EXCEPT ![k] = NoName]
  /\ UNCHANGED <<job, dest, bytes, trail, run, elsewhere>>

ReplacesPartial(k) ==
  /\ Meddle /\ part[k] = k
  /\ part' = [part EXCEPT ![k] = Other]
  /\ UNCHANGED <<job, dest, bytes, trail, run, elsewhere>>

(* Between two runs, bytes of a file of the download are changed in place.  *)
Alters(k, b) ==
  /\ Meddle /\ run.pc = "idle" /\ b \in DOMAIN bytes[k]
  /\ part[k] = k \/ dest = k \/ k \in elsewhere
  /\ bytes' = [bytes EXCEPT ![k][b] = FALSE]
  /\ UNCHANGED <<job, dest, part, trail, run, elsewhere>>

-----------------------------------------------------------------------------
DownloadSteps ==
  \/ Resumes \/ Looks \/ Reopens \/ Intends \/ Creates \/ Identifies \/ WritesBlock \/ Journals
  \/ ReportsProgress \/ Hashes \/ Links \/ ChecksLink \/ Removes \/ ReportsComplete

DownloadNext ==
  \/ Lists \/ DownloadSteps \/ ReportsWaiting \/ CallIsLost \/ Crashes
  \/ PutsFileAtDestination \/ MovesDestination
  \/ \E k \in Partials : \/ RemovesPartial(k) \/ ReplacesPartial(k)
                         \/ \E b \in 1..Blocks : Alters(k, b)

DownloadSpec == DownloadInit /\ [][DownloadNext]_download_vars

(* RunPending comes back to a job every few seconds, and a run goes on.     *)
FairDownloadSpec ==
  /\ DownloadSpec
  /\ WF_download_vars(Lists)
  /\ WF_download_vars(DownloadSteps)
  /\ WF_download_vars(ReportsWaiting)

-----------------------------------------------------------------------------
(* Properties                                                              *)

Pcs == {"idle", "resume", "look", "reopen", "intend", "create", "identify", "fetch", "journal",
        "progress", "link", "linked", "remove", "report", "failed"}

Runs == [pc : Pcs, state : {NoName, "downloading", "waiting"}, k : {Other} \cup Partials,
         at : 0..Blocks, fresh : BOOLEAN]

DownloadTypeOK ==
  /\ job \in [state : {"downloading", "waiting", "complete"}, committed : 0..Blocks]
  /\ dest \in {NoName, Other} \cup Partials
  /\ part \in [Partials -> {NoName, Other} \cup Partials]
  /\ bytes \in [Partials -> Seq(BOOLEAN)] /\ \A k \in Partials : Len(bytes[k]) <= Blocks
  /\ trail \in {NoName} \cup Trails
  /\ run \in Runs
  /\ elsewhere \subseteq Partials
  /\ budget \in [faults : 0..MaxMishaps, meddles : 0..MaxMeddles, attempts : 0..Attempts]

(* A step that publishes or reports only whole files.                      *)
PublishesWhole ==
  /\ \A k \in Partials : dest # k /\ dest' = k => bytes[k] = Whole
  /\ job.state # "complete" /\ job'.state = "complete" => \E k \in Partials : bytes[k] = Whole

(* A step that leaves a stranger's file its name.                          *)
ReplacesNothing == dest = Other => dest' \notin Partials

(* What appears at the destination has every byte of the backup, and the    *)
(* cluster is told of a finished download only when such a file exists: no  *)
(* torn write, altered partial or wrong range is ever published or adopted. *)
(* A file that was there, or comes while the download runs, keeps its name. *)
DownloadIsWhole == [][PublishesWhole /\ ReplacesNothing]_download_vars

(* What counts as the end of a download.                                   *)
Finished == job.state = "complete" \/ budget.meddles > 0

(* A download nobody meddles with is finished, through crashes at every     *)
(* step and lost calls.                                                     *)
DownloadFinishes == <>Finished

-----------------------------------------------------------------------------
(* Why a download is whole: the inductive invariant                        *)

(* A partial's name names its own file, another's or none; the partial at  *)
(* work and the one that the journal names have been begun.                *)
NamesAreOwn ==
  /\ \A k \in Partials : part[k] \in {NoName, Other, k}
  /\ trail # NoName => trail.k <= budget.attempts
  /\ run.pc \in {"create", "identify", "fetch", "journal", "progress", "link", "linked", "remove"} =>
       run.k \in 1..budget.attempts
  /\ run.pc \in {"reopen", "create", "identify", "fetch", "journal", "progress"} => trail # NoName

(* A partial is empty until its first block, and behind the blocks the     *)
(* process counts there is at most the one that is being journalled.       *)
BlocksAreCounted ==
  /\ \A k \in Partials : k > budget.attempts => bytes[k] = <<>>
  /\ run.pc \in {"create", "identify"} => bytes[run.k] = <<>>
  /\ run.pc \in {"resume", "look", "intend", "create", "identify"} => run.at = 0
  /\ run.pc \in {"fetch", "progress"} => Len(bytes[run.k]) = run.at
  /\ run.pc = "journal" => run.at < Blocks /\ Len(bytes[run.k]) = run.at + 1

(* Between the hash of the file and the report of it, it is whole.         *)
HashedIsWhole ==
  /\ run.pc \in {"link", "linked", "remove"} => bytes[run.k] = Whole
  /\ run.pc = "report" => \E k \in Partials : bytes[k] = Whole

DownloadInv == DownloadTypeOK /\ NamesAreOwn /\ BlocksAreCounted /\ HashedIsWhole

(* The verified prefix is one of the file, and no longer than the journal  *)
(* counts: there is a first place where the check stops.                   *)
LEMMA VerifiedIsThere ==
  ASSUME NEW k \in Partials, NEW n \in Nat, bytes[k] \in Seq(BOOLEAN)
  PROVE  Verified(k, n) \in 0..n /\ Verified(k, n) <= Len(bytes[k])
<1> DEFINE Stops(v) == v = n \/ v = Len(bytes[k]) \/ ~bytes[k][v + 1]
           S == {v \in Nat : Stops(v)}
<1>1. PICK m \in S : \A v \in S : ~ (<<v, m>> \in OpToRel(<, Nat))
  <2>1. n \in S /\ S \subseteq Nat
    OBVIOUS
  <2> HIDE DEF S
  <2> QED BY <2>1, WFMin, NatLessThanWellFounded
<1>a. m \in Nat /\ Stops(m)
  BY <1>1, Zenon
<1>2. ASSUME NEW v \in S PROVE m <= v
  <2>1. ~ (<<v, m>> \in OpToRel(<, Nat))
    BY <1>1
  <2>2. ~ (v < m)
    BY <2>1, <1>1 DEF OpToRel
  <2> QED BY <2>2, <1>a
<1>3. Len(bytes[k]) \in S /\ n \in S
  OBVIOUS
<1>4. m <= n /\ m <= Len(bytes[k])
  BY <1>2, <1>3, <1>a
<1>5. ASSUME NEW b \in 1..m PROVE bytes[k][b]
  <2>1. b - 1 \in Nat /\ ~(m <= b - 1)
    BY <1>a
  <2>2. b - 1 \notin S
    BY <1>2, <2>1
  <2>3. (b - 1) + 1 = b
    OBVIOUS
  <2> QED BY <2>1, <2>2, <2>3
<1>6. /\ m \in 0..n /\ m <= Len(bytes[k]) /\ \A b \in 1..m : bytes[k][b]
      /\ m = n \/ m = Len(bytes[k]) \/ ~bytes[k][m + 1]
  BY <1>a, <1>4, <1>5
<1> QED BY <1>6 DEF Verified

(* The process goes on where it says.                                      *)
LEMMA GoesOn ==
  ASSUME run \in Runs, NEW pc \in Pcs, Goes(pc)
  PROVE  /\ run' \in Runs /\ run'.pc = pc
         /\ run'.k = run.k /\ run'.at = run.at /\ run'.state = run.state
BY DEF Goes, Runs

(* A process that is not at work.                                          *)
LEMMA AtRest == DownloadAssumption => Idle \in Runs
BY DEF DownloadAssumption, Idle, Runs, Pcs

(* A download starts without a file of its own.                            *)
LEMMA InitDownload == DownloadAssumption /\ DownloadInit => DownloadInv
<1> SUFFICES ASSUME DownloadAssumption, DownloadInit PROVE DownloadInv
  OBVIOUS
<1>1. DownloadTypeOK
  BY AtRest DEF DownloadAssumption, DownloadInit, DownloadTypeOK, Partials, Other, Trails
<1> QED
  BY <1>1 DEF DownloadInit, DownloadInv, NamesAreOwn, BlocksAreCounted, HashedIsWhole, Idle

(* What each kind of step leaves: the process alone moves on ...           *)
LEMMA MovesKeep ==
  ASSUME DownloadAssumption, DownloadInv,
         Lists \/ Resumes \/ Looks \/ Hashes \/ ChecksLink \/ ReportsProgress \/ ReportsComplete
           \/ ReportsWaiting
  PROVE  DownloadInv'
<1> USE DEF DownloadInv
<1>1. run \in Runs /\ job \in [state : {"downloading", "waiting", "complete"}, committed : 0..Blocks]
  BY DEF DownloadTypeOK
<1>2. CASE Lists
  <2>1. run'.k = Other /\ run'.at = 0 /\ run'.pc \in {"resume", "look"} /\ run' \in Runs
    <3>1. /\ job.state # "complete" /\ job.state \in {"downloading", "waiting"}
          /\ run' = [Idle EXCEPT !.pc = run'.pc, !.state = job.state]
          /\ run'.pc \in {"resume", "look"}
      BY <1>1, <1>2 DEF Lists, Idle
    <3> QED BY <3>1, AtRest DEF Idle, Runs, Pcs
  <2>2. DownloadTypeOK'
    BY <1>2, <2>1 DEF Lists, DownloadTypeOK
  <2> QED BY <1>2, <2>1, <2>2 DEF Lists, NamesAreOwn, BlocksAreCounted, HashedIsWhole
<1>3. CASE Resumes
  <2>1. run' \in Runs /\ run'.pc = "look" /\ run'.k = run.k /\ run'.at = run.at
    BY <1>1, <1>3, GoesOn DEF Resumes, Pcs
  <2>2. DownloadTypeOK'
    BY <1>1, <1>3, <2>1 DEF Resumes, DownloadTypeOK
  <2> QED BY <1>3, <2>1, <2>2 DEF Resumes, NamesAreOwn, BlocksAreCounted, HashedIsWhole
<1>4. CASE Looks
  <2>1. /\ run.pc = "look" /\ run' \in Runs /\ run'.k = run.k /\ run'.at = run.at
        /\ run'.pc \in {"report", "failed", "reopen", "intend"}
        /\ run'.pc = "report" => dest = trail.k /\ trail # NoName /\ bytes[dest] = Whole
        /\ run'.pc = "reopen" => trail # NoName
        /\ UNCHANGED <<job, dest, part, bytes, trail, elsewhere, budget>>
    BY <1>1, <1>4, GoesOn DEF Looks, GivesUp, Known, Pcs
  <2>2. DownloadTypeOK'
    BY <2>1 DEF DownloadTypeOK
  <2>3. run'.pc = "report" => \E k \in Partials : bytes[k] = Whole
    BY <2>1 DEF DownloadTypeOK, Trails
  <2> QED BY <2>1, <2>2, <2>3 DEF NamesAreOwn, BlocksAreCounted, HashedIsWhole, Whole
<1>5. CASE Hashes
  <2>1. /\ run' \in Runs /\ run'.k = run.k /\ run'.at = run.at /\ run'.pc \in {"link", "failed"}
        /\ run'.pc = "link" => bytes[run.k] = Whole
    BY <1>1, <1>5, GoesOn DEF Hashes, GivesUp, Pcs
  <2>2. DownloadTypeOK'
    BY <1>5, <2>1 DEF Hashes, DownloadTypeOK
  <2> QED BY <1>5, <2>1, <2>2 DEF Hashes, NamesAreOwn, BlocksAreCounted, HashedIsWhole, Whole
<1>6. CASE ChecksLink
  <2>1. run' \in Runs /\ run'.k = run.k /\ run'.at = run.at /\ run'.pc \in {"remove", "failed"}
    BY <1>1, <1>6, GoesOn DEF ChecksLink, GivesUp, Pcs
  <2>2. DownloadTypeOK'
    BY <1>6, <2>1 DEF ChecksLink, DownloadTypeOK
  <2> QED BY <1>6, <2>1, <2>2 DEF ChecksLink, NamesAreOwn, BlocksAreCounted, HashedIsWhole, Whole
<1>7. CASE ReportsProgress
  <2>1. run' \in Runs /\ run'.k = run.k /\ run'.at = run.at /\ run'.pc = "fetch"
    BY <1>1, <1>7, GoesOn DEF ReportsProgress, Pcs
  <2>2. job' \in [state : {"downloading", "waiting", "complete"}, committed : 0..Blocks]
    BY <1>1, <1>7 DEF ReportsProgress, Reported, Runs
  <2>3. DownloadTypeOK'
    BY <1>7, <2>1, <2>2 DEF ReportsProgress, DownloadTypeOK
  <2> QED BY <1>7, <2>1, <2>3 DEF ReportsProgress, NamesAreOwn, BlocksAreCounted, HashedIsWhole, Whole
<1>8. CASE ReportsComplete
  <2>1. run' \in Runs /\ run'.k = run.k /\ run'.at = run.at /\ run'.pc = "idle"
    BY <1>1, <1>8, GoesOn DEF ReportsComplete, Pcs
  <2>2. job' \in [state : {"downloading", "waiting", "complete"}, committed : 0..Blocks]
    BY <1>1, <1>8 DEF ReportsComplete, Reported, DownloadAssumption
  <2>3. DownloadTypeOK'
    BY <1>8, <2>1, <2>2 DEF ReportsComplete, DownloadTypeOK
  <2> QED BY <1>8, <2>1, <2>3 DEF ReportsComplete, NamesAreOwn, BlocksAreCounted, HashedIsWhole, Whole
<1>9. CASE ReportsWaiting
  <2>1. run' \in Runs /\ run'.pc = "idle"
    BY <1>9, AtRest DEF ReportsWaiting, Idle
  <2>2. job' \in [state : {"downloading", "waiting", "complete"}, committed : 0..Blocks]
    BY <1>1, <1>9 DEF ReportsWaiting, Reported
  <2>3. DownloadTypeOK'
    BY <1>9, <2>1, <2>2 DEF ReportsWaiting, DownloadTypeOK
  <2> QED BY <1>9, <2>1, <2>3 DEF ReportsWaiting, NamesAreOwn, BlocksAreCounted, HashedIsWhole, Whole
<1> QED BY <1>2, <1>3, <1>4, <1>5, <1>6, <1>7, <1>8, <1>9

(* ... a partial is begun, or taken up again ...                           *)
LEMMA BeginningsKeep ==
  ASSUME DownloadAssumption, DownloadInv, Intends \/ Creates \/ Identifies \/ Reopens
  PROVE  DownloadInv'
<1> USE DEF DownloadInv
<1>1. /\ run \in Runs /\ trail \in {NoName} \cup Trails /\ NoName \notin Partials
      /\ part \in [Partials -> {NoName, Other} \cup Partials] /\ bytes \in [Partials -> Seq(BOOLEAN)]
      /\ budget \in [faults : 0..MaxMishaps, meddles : 0..MaxMeddles, attempts : 0..Attempts]
      /\ Attempts \in Nat /\ NoName \notin Trails
  BY DEF DownloadTypeOK, DownloadAssumption, Partials
<1>2. CASE Intends
  <2> DEFINE k == budget.attempts + 1
  <2>1. k \in Partials /\ k > budget.attempts
    BY <1>1, <1>2 DEF Intends, Partials
  <2>2. /\ run' = [run EXCEPT !.pc = "create", !.k = k]
        /\ trail' = [k |-> k, sure |-> FALSE, blocks |-> 0]
        /\ budget' = [budget EXCEPT !.attempts = k]
        /\ run.pc = "intend" /\ UNCHANGED <<job, dest, part, bytes, elsewhere>>
    BY <1>2 DEF Intends
  <2>3. run' \in Runs /\ run'.pc = "create" /\ run'.k = k /\ run'.at = run.at
    BY <1>1, <2>1, <2>2 DEF Runs, Pcs
  <2>4. trail' \in Trails /\ trail'.k = k
    BY <2>1, <2>2 DEF Trails, DownloadAssumption
  <2>5. /\ budget' \in [faults : 0..MaxMishaps, meddles : 0..MaxMeddles, attempts : 0..Attempts]
        /\ budget'.attempts = k
    <3>1. k \in 0..Attempts
      BY <2>1 DEF Partials
    <3> HIDE DEF k
    <3> QED BY <1>1, <2>2, <3>1
  <2> HIDE DEF k
  <2>6. DownloadTypeOK'
    BY <2>2, <2>3, <2>4, <2>5 DEF DownloadTypeOK
  <2>7. NamesAreOwn'
    <3>1. k \in 1..k /\ k <= k
      BY <2>1 DEF Partials
    <3>2. \A j \in Partials : part'[j] \in {NoName, Other, j}
      BY <2>2 DEF NamesAreOwn
    <3>3. trail' # NoName
      BY <1>1, <2>4
    <3> QED BY <2>3, <2>4, <2>5, <3>1, <3>2, <3>3 DEF NamesAreOwn
  <2>8. BlocksAreCounted'
    <3>1. bytes[k] = <<>>
      BY <2>1 DEF BlocksAreCounted
    <3>2. \A j \in Partials : j > k => j > budget.attempts
      BY <1>1, <2>1 DEF Partials
    <3> QED BY <2>2, <2>3, <2>5, <3>1, <3>2 DEF BlocksAreCounted
  <2>9. HashedIsWhole'
    BY <2>2, <2>3 DEF HashedIsWhole
  <2> QED BY <2>6, <2>7, <2>8, <2>9
<1>3. CASE Creates
  <2>1. /\ run' \in Runs /\ run'.pc = "identify" /\ run'.k = run.k /\ run'.at = run.at
        /\ run.pc = "create" /\ UNCHANGED <<job, dest, bytes, trail, elsewhere, budget>>
    BY <1>1, <1>3, GoesOn DEF Creates, Pcs
  <2>2. run.k \in 1..budget.attempts /\ run.k \in Partials
    BY <1>1, <2>1 DEF NamesAreOwn, Partials
  <2>3. /\ part' \in [Partials -> {NoName, Other} \cup Partials]
        /\ \A k \in Partials : part'[k] \in {NoName, Other, k}
    BY <1>1, <1>3, <2>2 DEF Creates, NamesAreOwn
  <2>4. DownloadTypeOK'
    BY <2>1, <2>3 DEF DownloadTypeOK
  <2> QED BY <2>1, <2>2, <2>3, <2>4 DEF NamesAreOwn, BlocksAreCounted, HashedIsWhole
<1>4. CASE Identifies
  <2>1. /\ run' \in Runs /\ run'.pc = "fetch" /\ run'.k = run.k /\ run'.at = run.at
        /\ run.pc = "identify" /\ UNCHANGED <<job, dest, part, bytes, elsewhere, budget>>
    BY <1>1, <1>4, GoesOn DEF Identifies, Pcs
  <2>2. run.k \in 1..budget.attempts /\ trail # NoName /\ run.at = 0 /\ bytes[run.k] = <<>>
    BY <2>1 DEF NamesAreOwn, BlocksAreCounted
  <2>3. trail' \in Trails /\ trail'.k = trail.k
    BY <1>1, <1>4, <2>2 DEF Identifies, Trails
  <2>4. trail' # NoName
    BY <1>1, <2>3
  <2>5. DownloadTypeOK'
    BY <2>1, <2>3 DEF DownloadTypeOK
  <2> QED BY <2>1, <2>2, <2>3, <2>4, <2>5 DEF NamesAreOwn, BlocksAreCounted, HashedIsWhole
<1>5. CASE Reopens
  <2> DEFINE k == trail.k
             v == Verified(k, trail.blocks)
  <2>1. /\ run.pc = "reopen" /\ trail \in Trails /\ k \in Partials /\ k \in 1..budget.attempts
        /\ trail # NoName /\ UNCHANGED <<job, dest, part, trail, elsewhere, budget>>
    BY <1>1, <1>5 DEF Reopens, NamesAreOwn, Trails, Partials
  <2>2. CASE part[k] # k
    <3>1. run' \in Runs /\ run'.pc = "failed" /\ bytes' = bytes
      BY <1>1, <1>5, <2>2, GoesOn DEF Reopens, GivesUp, Pcs
    <3>2. DownloadTypeOK'
      BY <2>1, <3>1 DEF DownloadTypeOK
    <3> QED BY <2>1, <3>1, <3>2 DEF NamesAreOwn, BlocksAreCounted, HashedIsWhole
  <2>3. CASE part[k] = k
    <3>1. v \in 0..trail.blocks /\ v <= Len(bytes[k]) /\ trail.blocks \in 0..Blocks
      BY <1>1, <2>1, VerifiedIsThere DEF Trails
    <3>2. /\ bytes' = [bytes EXCEPT ![k] = SubSeq(bytes[k], 1, v)]
          /\ run' = [run EXCEPT !.pc = "fetch", !.k = k, !.at = v, !.fresh = FALSE]
      BY <1>5, <2>3 DEF Reopens
    <3> HIDE DEF k, v
    <3>3. v \in 0..Blocks /\ bytes[k] \in Seq(BOOLEAN) /\ Len(bytes[k]) \in Nat
      BY <1>1, <2>1, <3>1 DEF DownloadAssumption
    <3>4. SubSeq(bytes[k], 1, v) \in Seq(BOOLEAN) /\ Len(SubSeq(bytes[k], 1, v)) = v
      BY <3>1, <3>3
    <3>5. /\ run' \in Runs /\ run'.pc = "fetch" /\ run'.k = k /\ run'.at = v
      BY <1>1, <2>1, <3>2, <3>3 DEF Runs, Pcs
    <3>6. /\ bytes' \in [Partials -> Seq(BOOLEAN)] /\ Len(bytes'[k]) = v
          /\ \A j \in Partials : j # k => bytes'[j] = bytes[j]
      BY <1>1, <2>1, <3>2, <3>4
    <3>7. \A j \in Partials : Len(bytes'[j]) <= Blocks
      <4>1. v <= Blocks /\ \A j \in Partials : Len(bytes[j]) <= Blocks
        BY <3>3 DEF DownloadTypeOK, DownloadAssumption
      <4> QED BY <3>6, <4>1
    <3>8. DownloadTypeOK'
      BY <2>1, <3>5, <3>6, <3>7 DEF DownloadTypeOK
    <3>9. NamesAreOwn'
      BY <2>1, <3>5 DEF NamesAreOwn, k
    <3>10. BlocksAreCounted'
      <4>1. \A j \in Partials : j > budget.attempts => j # k
        BY <1>1, <2>1 DEF Partials
      <4> QED BY <2>1, <3>5, <3>6, <4>1 DEF BlocksAreCounted
    <3> QED BY <3>5, <3>8, <3>9, <3>10 DEF HashedIsWhole
  <2> QED BY <2>2, <2>3
<1> QED BY <1>2, <1>3, <1>4, <1>5

(* ... a block is written and journalled, the whole file is linked and its *)
(* partial's name removed ...                                              *)
LEMMA WritesKeep ==
  ASSUME DownloadAssumption, DownloadInv, WritesBlock \/ Journals \/ Links \/ Removes
  PROVE  DownloadInv'
<1> USE DEF DownloadInv
<1>1. /\ run \in Runs /\ trail \in {NoName} \cup Trails /\ NoName \notin Trails
      /\ dest \in {NoName, Other} \cup Partials
      /\ part \in [Partials -> {NoName, Other} \cup Partials] /\ bytes \in [Partials -> Seq(BOOLEAN)]
      /\ budget.attempts \in 0..Attempts /\ Attempts \in Nat /\ Blocks \in Nat
  BY DEF DownloadTypeOK, DownloadAssumption, Partials
<1>2. CASE WritesBlock
  <2>1. /\ run.pc = "fetch" /\ run.at < Blocks /\ run.k \in 1..budget.attempts /\ trail # NoName
        /\ run.k \in Partials /\ Len(bytes[run.k]) = run.at
        /\ UNCHANGED <<job, dest, part, trail, elsewhere, budget>>
    BY <1>1, <1>2 DEF WritesBlock, NamesAreOwn, BlocksAreCounted, Partials
  <2>2. CASE part[run.k] # run.k
    <3>1. run' \in Runs /\ run'.pc = "failed" /\ bytes' = bytes
      BY <1>1, <1>2, <2>2, GoesOn DEF WritesBlock, GivesUp, Pcs
    <3>2. DownloadTypeOK'
      BY <2>1, <3>1 DEF DownloadTypeOK
    <3> QED BY <2>1, <3>1, <3>2 DEF NamesAreOwn, BlocksAreCounted, HashedIsWhole
  <2>3. CASE part[run.k] = run.k
    <3>1. /\ run' \in Runs /\ run'.pc = "journal" /\ run'.k = run.k /\ run'.at = run.at
          /\ bytes' = [bytes EXCEPT ![run.k] = Append(bytes[run.k], TRUE)]
      BY <1>1, <1>2, <2>3, GoesOn DEF WritesBlock, Pcs
    <3>2. /\ bytes' \in [Partials -> Seq(BOOLEAN)] /\ Len(bytes'[run.k]) = run.at + 1
          /\ \A j \in Partials : j # run.k => bytes'[j] = bytes[j]
      BY <1>1, <2>1, <3>1
    <3>3. \A j \in Partials : Len(bytes'[j]) <= Blocks
      <4>1. run.at + 1 <= Blocks /\ \A j \in Partials : Len(bytes[j]) <= Blocks
        BY <1>1, <2>1 DEF DownloadTypeOK, Runs
      <4> QED BY <3>2, <4>1
    <3>4. DownloadTypeOK'
      BY <2>1, <3>1, <3>2, <3>3 DEF DownloadTypeOK
    <3>5. BlocksAreCounted'
      <4>1. \A j \in Partials : j > budget.attempts => j # run.k
        BY <1>1, <2>1 DEF Partials
      <4> QED BY <2>1, <3>1, <3>2, <4>1 DEF BlocksAreCounted
    <3> QED BY <2>1, <3>1, <3>4, <3>5 DEF NamesAreOwn, HashedIsWhole
  <2> QED BY <2>2, <2>3
<1>3. CASE Journals
  <2>1. /\ run.pc = "journal" /\ run.at < Blocks /\ run.k \in 1..budget.attempts /\ trail \in Trails
        /\ Len(bytes[run.k]) = run.at + 1 /\ trail' = [trail EXCEPT !.blocks = run.at + 1]
        /\ UNCHANGED <<job, dest, part, bytes, elsewhere, budget>>
    BY <1>1, <1>3 DEF Journals, NamesAreOwn, BlocksAreCounted
  <2>2. run.at + 1 \in 0..Blocks
    BY <1>1, <2>1 DEF Runs
  <2>3. /\ run' \in Runs /\ run'.pc \in {"progress", "fetch"} /\ run'.k = run.k /\ run'.at = run.at + 1
    <3>1. run' = [run EXCEPT !.pc = IF run.at + 1 >= job.committed THEN "progress" ELSE "fetch",
                             !.at = run.at + 1]
      BY <1>1, <1>3 DEF Journals, Runs
    <3> QED BY <1>1, <2>2, <3>1 DEF Runs, Pcs
  <2>4. trail' \in Trails /\ trail'.k = trail.k
    BY <2>1, <2>2 DEF Trails
  <2>5. DownloadTypeOK'
    BY <2>1, <2>3, <2>4 DEF DownloadTypeOK
  <2>6. trail' # NoName
    BY <1>1, <2>4
  <2>7. NamesAreOwn'
    BY <2>1, <2>3, <2>4, <2>6 DEF NamesAreOwn
  <2> QED BY <2>1, <2>3, <2>5, <2>7 DEF BlocksAreCounted, HashedIsWhole
<1>4. CASE Links
  <2>1. /\ run.pc = "link" /\ run.k \in 1..budget.attempts /\ run.k \in Partials /\ bytes[run.k] = Whole
        /\ UNCHANGED <<job, part, bytes, trail, elsewhere, budget>>
    BY <1>1, <1>4 DEF Links, NamesAreOwn, HashedIsWhole, Partials
  <2>2. /\ run' \in Runs /\ run'.pc \in {"linked", "failed"} /\ run'.k = run.k
        /\ dest' \in {dest, part[run.k]}
    BY <1>1, <1>4, GoesOn DEF Links, GivesUp, Pcs
  <2>3. DownloadTypeOK'
    BY <1>1, <2>1, <2>2 DEF DownloadTypeOK
  <2> QED BY <2>1, <2>2, <2>3 DEF NamesAreOwn, BlocksAreCounted, HashedIsWhole, Whole
<1>5. CASE Removes
  <2>1. /\ run.pc = "remove" /\ run.k \in 1..budget.attempts /\ run.k \in Partials /\ bytes[run.k] = Whole
        /\ UNCHANGED <<job, dest, bytes, trail, elsewhere, budget>>
    BY <1>1, <1>5 DEF Removes, NamesAreOwn, HashedIsWhole, Partials
  <2>2. /\ run' \in Runs /\ run'.pc \in {"report", "failed"} /\ run'.k = run.k
        /\ part' \in {part, [part EXCEPT ![run.k] = NoName]}
    BY <1>1, <1>5, GoesOn DEF Removes, GivesUp, Pcs
  <2>3. /\ part' \in [Partials -> {NoName, Other} \cup Partials]
        /\ \A j \in Partials : part'[j] \in {NoName, Other, j}
    BY <1>1, <2>1, <2>2 DEF NamesAreOwn
  <2>4. DownloadTypeOK'
    BY <2>1, <2>2, <2>3 DEF DownloadTypeOK
  <2> QED BY <2>1, <2>2, <2>3, <2>4 DEF NamesAreOwn, BlocksAreCounted, HashedIsWhole, Whole
<1> QED BY <1>2, <1>3, <1>4, <1>5

(* ... a call is lost, or the process dies, with half a block behind it ... *)
LEMMA FaultsKeep ==
  ASSUME DownloadAssumption, DownloadInv, CallIsLost \/ Crashes
  PROVE  DownloadInv'
<1> USE DEF DownloadInv
<1>1. /\ run \in Runs /\ bytes \in [Partials -> Seq(BOOLEAN)] /\ Blocks \in Nat
      /\ job \in [state : {"downloading", "waiting", "complete"}, committed : 0..Blocks]
      /\ budget \in [faults : 0..MaxMishaps, meddles : 0..MaxMeddles, attempts : 0..Attempts]
      /\ MaxMishaps \in Nat /\ Attempts \in Nat
  BY DEF DownloadTypeOK, DownloadAssumption
<1>2. /\ budget' \in [faults : 0..MaxMishaps, meddles : 0..MaxMeddles, attempts : 0..Attempts]
      /\ budget'.attempts = budget.attempts
  <2>1. budget.faults < MaxMishaps /\ budget' = [budget EXCEPT !.faults = budget.faults + 1]
    BY DEF CallIsLost, Crashes, Mishap
  <2> QED BY <1>1, <2>1
<1>3. CASE CallIsLost
  <2>1. /\ run' \in Runs /\ run'.pc = "failed"
        /\ UNCHANGED <<dest, part, bytes, trail, elsewhere>>
    BY <1>1, <1>3, GoesOn DEF CallIsLost, GivesUp, Pcs
  <2>2. job' \in [state : {"downloading", "waiting", "complete"}, committed : 0..Blocks]
    <3>1. \/ job' = job \/ job' = [job EXCEPT !.state = "downloading"]
          \/ job' = [state |-> "downloading", committed |-> run.at]
          \/ job' = [state |-> "complete", committed |-> Blocks]
      BY <1>3 DEF CallIsLost, Reported
    <3> QED BY <1>1, <3>1 DEF Runs
  <2>3. DownloadTypeOK'
    BY <1>2, <2>1, <2>2 DEF DownloadTypeOK
  <2> QED BY <1>2, <2>1, <2>3 DEF NamesAreOwn, BlocksAreCounted, HashedIsWhole
<1>4. CASE Crashes
  <2>1. /\ run' \in Runs /\ run'.pc = "idle"
        /\ UNCHANGED <<job, dest, part, trail, elsewhere>>
    BY <1>4, AtRest DEF Crashes, Idle
  <2>2. CASE bytes' = bytes
    <3>1. DownloadTypeOK'
      BY <1>2, <2>1, <2>2 DEF DownloadTypeOK
    <3> QED BY <1>2, <2>1, <2>2, <3>1 DEF NamesAreOwn, BlocksAreCounted, HashedIsWhole
  <2>3. CASE run.pc = "fetch" /\ run.at < Blocks /\ bytes' = [bytes EXCEPT ![run.k] = Append(bytes[run.k], FALSE)]
    <3>1. run.k \in 1..budget.attempts /\ run.k \in Partials /\ Len(bytes[run.k]) = run.at
      BY <1>1, <2>3 DEF NamesAreOwn, BlocksAreCounted, Partials
    <3>2. /\ bytes' \in [Partials -> Seq(BOOLEAN)] /\ Len(bytes'[run.k]) = run.at + 1
          /\ \A j \in Partials : j # run.k => bytes'[j] = bytes[j]
      <4>1. bytes[run.k] \in Seq(BOOLEAN)
        BY <1>1, <3>1
      <4>2. /\ Append(bytes[run.k], FALSE) \in Seq(BOOLEAN)
            /\ Len(Append(bytes[run.k], FALSE)) = run.at + 1
        BY <3>1, <4>1
      <4> QED BY <1>1, <2>3, <3>1, <4>2
    <3>3. \A j \in Partials : Len(bytes'[j]) <= Blocks
      <4>1. run.at + 1 <= Blocks /\ \A j \in Partials : Len(bytes[j]) <= Blocks
        BY <1>1, <2>3 DEF DownloadTypeOK, Runs
      <4> QED BY <3>2, <4>1
    <3>4. DownloadTypeOK'
      BY <1>2, <2>1, <3>2, <3>3 DEF DownloadTypeOK
    <3>5. \A j \in Partials : j > budget.attempts => j # run.k
      BY <1>1, <3>1 DEF Partials
    <3> QED BY <1>2, <2>1, <3>2, <3>4, <3>5 DEF NamesAreOwn, BlocksAreCounted, HashedIsWhole
  <2> QED BY <1>4, <2>2, <2>3 DEF Crashes
<1> QED BY <1>3, <1>4

(* ... and the user of the machine acts beside it.                         *)
LEMMA MeddlingKeeps ==
  ASSUME DownloadAssumption, DownloadInv,
         \/ PutsFileAtDestination \/ MovesDestination
         \/ \E k \in Partials : \/ RemovesPartial(k) \/ ReplacesPartial(k)
                                \/ \E b \in 1..Blocks : Alters(k, b)
  PROVE  DownloadInv'
<1> USE DEF DownloadInv
<1>1. /\ bytes \in [Partials -> Seq(BOOLEAN)] /\ elsewhere \subseteq Partials
      /\ part \in [Partials -> {NoName, Other} \cup Partials] /\ dest \in {NoName, Other} \cup Partials
      /\ budget \in [faults : 0..MaxMishaps, meddles : 0..MaxMeddles, attempts : 0..Attempts]
      /\ MaxMeddles \in Nat
  BY DEF DownloadTypeOK, DownloadAssumption
<1>2. /\ budget' \in [faults : 0..MaxMishaps, meddles : 0..MaxMeddles, attempts : 0..Attempts]
      /\ budget'.attempts = budget.attempts
  <2>1. budget.meddles < MaxMeddles /\ budget' = [budget EXCEPT !.meddles = budget.meddles + 1]
    BY DEF PutsFileAtDestination, MovesDestination, RemovesPartial, ReplacesPartial, Alters, Meddle
  <2>2. /\ budget \in [faults : 0..MaxMishaps, meddles : 0..MaxMeddles, attempts : 0..Attempts]
        /\ MaxMeddles \in Nat
    BY <1>1
  <2>3. budget.meddles + 1 \in 0..MaxMeddles
    BY <2>1, <2>2
  <2> QED BY <2>1, <2>2, <2>3
<1>3. CASE PutsFileAtDestination \/ MovesDestination
  <2>1. /\ dest' \in {NoName, Other} /\ elsewhere' \in {elsewhere, elsewhere \cup {dest}}
        /\ elsewhere' # elsewhere => dest \in Partials
        /\ UNCHANGED <<job, part, bytes, trail, run>>
    BY <1>1, <1>3 DEF PutsFileAtDestination, MovesDestination
  <2>2. DownloadTypeOK'
    <3>1. elsewhere' \subseteq Partials
      BY <1>1, <2>1
    <3> QED BY <1>2, <2>1, <3>1 DEF DownloadTypeOK
  <2> QED BY <1>2, <2>1, <2>2 DEF NamesAreOwn, BlocksAreCounted, HashedIsWhole
<1>4. ASSUME NEW k \in Partials, RemovesPartial(k) \/ ReplacesPartial(k)
      PROVE  DownloadInv'
  <2>1. /\ part' \in {[part EXCEPT ![k] = NoName], [part EXCEPT ![k] = Other]}
        /\ UNCHANGED <<job, dest, bytes, trail, run, elsewhere>>
    BY <1>4 DEF RemovesPartial, ReplacesPartial
  <2>2. /\ part' \in [Partials -> {NoName, Other} \cup Partials]
        /\ \A j \in Partials : part'[j] \in {NoName, Other, j}
    BY <1>1, <2>1 DEF NamesAreOwn
  <2>3. DownloadTypeOK'
    BY <1>2, <2>1, <2>2 DEF DownloadTypeOK
  <2> QED BY <1>2, <2>1, <2>2, <2>3 DEF NamesAreOwn, BlocksAreCounted, HashedIsWhole
<1>5. ASSUME NEW k \in Partials, NEW b \in 1..Blocks, Alters(k, b)
      PROVE  DownloadInv'
  <2>1. /\ bytes' = [bytes EXCEPT ![k] = [bytes[k] EXCEPT ![b] = FALSE]] /\ run.pc = "idle"
        /\ b \in DOMAIN bytes[k] /\ UNCHANGED <<job, dest, part, trail, run, elsewhere>>
    BY <1>5 DEF Alters
  <2>2. /\ [bytes[k] EXCEPT ![b] = FALSE] \in Seq(BOOLEAN)
        /\ Len([bytes[k] EXCEPT ![b] = FALSE]) = Len(bytes[k])
    <3> DEFINE n == Len(bytes[k])
    <3>1. n \in Nat /\ bytes[k] \in [1..n -> BOOLEAN] /\ b \in 1..n
      BY <1>1, <2>1
    <3> HIDE DEF n
    <3>2. [bytes[k] EXCEPT ![b] = FALSE] \in [1..n -> BOOLEAN]
      BY <3>1
    <3>3. \A s : s \in [1..n -> BOOLEAN] => s \in Seq(BOOLEAN) /\ Len(s) = n
      BY <3>1
    <3> QED BY <3>2, <3>3 DEF n
  <2>3. /\ bytes' \in [Partials -> Seq(BOOLEAN)]
        /\ \A j \in Partials : Len(bytes'[j]) = Len(bytes[j])
    BY <1>1, <2>1, <2>2
  <2>4. DownloadTypeOK'
    BY <1>2, <2>1, <2>3 DEF DownloadTypeOK
  <2>5. \A j \in Partials : j > budget.attempts => bytes'[j] = <<>>
    <3>1. \A j \in Partials : j > budget.attempts => j # k
      BY <2>1 DEF BlocksAreCounted
    <3> QED BY <1>1, <2>1, <3>1 DEF BlocksAreCounted
  <2> QED BY <1>2, <2>1, <2>4, <2>5 DEF NamesAreOwn, BlocksAreCounted, HashedIsWhole
<1> QED BY <1>3, <1>4, <1>5

(* The invariant is inductive.                                             *)
LEMMA DownloadKeeps ==
  ASSUME DownloadAssumption, DownloadInv, [DownloadNext]_download_vars
  PROVE  DownloadInv'
<1>1. CASE UNCHANGED download_vars
  BY <1>1 DEF download_vars, DownloadInv, DownloadTypeOK, NamesAreOwn, BlocksAreCounted, HashedIsWhole
<1>2. CASE DownloadNext
  BY <1>2, MovesKeep, BeginningsKeep, WritesKeep, FaultsKeep, MeddlingKeeps
     DEF DownloadNext, DownloadSteps
<1> QED BY <1>1, <1>2

(* What is published, and what is reported as finished, has been hashed.   *)
LEMMA StepsPublishWhole ==
  ASSUME DownloadAssumption, DownloadInv, [DownloadNext]_download_vars
  PROVE  PublishesWhole /\ ReplacesNothing
<1> USE DEF DownloadInv
<1>1. CASE Links
  <2>1. /\ run.pc = "link" /\ bytes[run.k] = Whole /\ job' = job
        /\ run.k \in Partials /\ part[run.k] \in {NoName, Other, run.k}
    <3>1. run.pc = "link" /\ job' = job
      BY <1>1 DEF Links
    <3>2. run.k \in 1..budget.attempts /\ bytes[run.k] = Whole
      BY <3>1 DEF HashedIsWhole, NamesAreOwn
    <3>3. budget.attempts \in 0..Attempts /\ Attempts \in Nat
      BY DEF DownloadTypeOK, DownloadAssumption
    <3> QED BY <3>1, <3>2, <3>3 DEF NamesAreOwn, Partials
  <2>2. dest' = dest \/ (dest = NoName /\ dest' = part[run.k])
    BY <1>1 DEF Links, Goes, GivesUp
  <2>3. NoName \notin {Other} \cup Partials /\ Other \notin Partials
    BY DEF DownloadAssumption, Other, Partials
  <2> QED BY <2>1, <2>2, <2>3 DEF PublishesWhole, ReplacesNothing, Whole
<1>2. CASE ReportsComplete \/ CallIsLost
  <2>1. dest' = dest /\ (job'.state = "complete" => job.state = "complete" \/ run.pc = "report")
    <3>1. \/ job' = job \/ job' = [job EXCEPT !.state = "downloading"]
          \/ job' = [state |-> "downloading", committed |-> run.at]
          \/ run.pc = "report"
      BY <1>2 DEF ReportsComplete, CallIsLost, Reported
    <3>2. job \in [state : {"downloading", "waiting", "complete"}, committed : 0..Blocks]
      BY DEF DownloadTypeOK
    <3>3. dest' = dest
      BY <1>2 DEF ReportsComplete, CallIsLost
    <3> QED BY <3>1, <3>2, <3>3
  <2> QED BY <2>1 DEF PublishesWhole, ReplacesNothing, HashedIsWhole, Partials, Other
<1>3. CASE PutsFileAtDestination \/ MovesDestination
  <2>1. dest' \in {NoName, Other} /\ job' = job
    BY <1>3 DEF PutsFileAtDestination, MovesDestination
  <2>2. NoName \notin Partials /\ Other \notin Partials
    BY DEF DownloadAssumption, Other, Partials
  <2> QED BY <2>1, <2>2 DEF PublishesWhole, ReplacesNothing
<1>4. ASSUME dest' = dest, job'.state = "complete" => job.state = "complete"
      PROVE  PublishesWhole /\ ReplacesNothing
  BY <1>4 DEF PublishesWhole, ReplacesNothing, Other, Partials
<1>5. CASE Resumes \/ ReportsProgress \/ ReportsWaiting
  BY <1>4, <1>5 DEF Resumes, ReportsProgress, ReportsWaiting, Reported, DownloadTypeOK
<1>6. CASE \/ Lists \/ Looks \/ Reopens \/ Intends \/ Creates \/ Identifies \/ WritesBlock \/ Journals
           \/ Hashes \/ ChecksLink \/ Removes \/ Crashes \/ UNCHANGED download_vars
           \/ \E k \in Partials : \/ RemovesPartial(k) \/ ReplacesPartial(k)
                                  \/ \E b \in 1..Blocks : Alters(k, b)
  BY <1>4, <1>6
     DEF Lists, Looks, Reopens, Intends, Creates, Identifies, WritesBlock, Journals, Hashes,
         ChecksLink, Removes, Crashes, RemovesPartial, ReplacesPartial, Alters, download_vars
<1> QED BY <1>1, <1>2, <1>3, <1>5, <1>6 DEF DownloadNext, DownloadSteps

(* A download, its files and its journal keep their types.                 *)
THEOREM DownloadTypeCorrect == DownloadAssumption => (DownloadSpec => []DownloadTypeOK)
<1> SUFFICES ASSUME DownloadAssumption PROVE DownloadSpec => []DownloadTypeOK
  OBVIOUS
<1>1. DownloadInv /\ [DownloadNext]_download_vars => DownloadInv'
  BY DownloadKeeps
<1>2. DownloadInv => DownloadTypeOK
  BY DEF DownloadInv
<1> QED BY InitDownload, <1>1, <1>2, PTL DEF DownloadSpec

(* However many blocks and attempts, lost calls, crashes, torn writes and  *)
(* acts of the user there are, what a download publishes or reports is     *)
(* whole, and a file of somebody else's keeps its name (Runner.download).  *)
THEOREM DownloadsAreWhole ==
  ASSUME DownloadAssumption
  PROVE  DownloadSpec => DownloadIsWhole
<1>1. DownloadInv /\ [DownloadNext]_download_vars => DownloadInv'
  BY DownloadKeeps
<1>2. DownloadInv /\ [DownloadNext]_download_vars => [PublishesWhole /\ ReplacesNothing]_download_vars
  BY StepsPublishWhole
<1> QED BY InitDownload, <1>1, <1>2, PTL DEF DownloadSpec, DownloadIsWhole
=============================================================================
