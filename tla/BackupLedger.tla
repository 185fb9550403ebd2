----------------------------- MODULE BackupLedger -----------------------------
(***************************************************************************)
(* What a machine remembers of the files it has sent: Ledger in            *)
(* internal/worker/backup/ledger.go, under the sweep lock of               *)
(* Manager.sweep.                                                          *)
(*                                                                         *)
(* A snapshot file carries the sequence it was taken at; changes are       *)
(* appended to a journal, each with the next sequence.  Two processes (the *)
(* worker and `memql worker backup --once`) hold the ledger in memory in   *)
(* turns.  A power failure leaves of the journal's unsynced end any        *)
(* prefix.  Lines are told apart by their sequences, so the journal is a   *)
(* set of them and a position in it is the last sequence before it.        *)
(***************************************************************************)
EXTENDS Integers, WellFoundedInduction, TLAPS

CONSTANTS Procs,      \* the processes that sweep
          Paths,      \* files of one watched folder
          Records,    \* what the ledger may say of one
          Nothing,    \* says nothing of it; nobody; nothing yet
          MaxSeq,     \* bound: changes written
          MaxFaults,  \* bound: failed writes and crashes
          LateSyncFails  \* whether the sync that ends a compaction may fail

ASSUME LedgerAssumption ==
  /\ Nothing \notin Records /\ Nothing \notin Procs
  /\ MaxSeq \in Nat /\ MaxFaults \in Nat /\ LateSyncFails \in BOOLEAN

Contents == [Paths -> Records \cup {Nothing}]
Empty == [p \in Paths |-> Nothing]
Lines == [seq : 1..MaxSeq, path : Paths, record : Records \cup {Nothing}]

VARIABLES snapshot,  \* <watch>.json: [seq, files]
          journal,   \* <watch>.json.journal as readers see it: its lines, and
                     \* the position behind which nothing can be read
          synced,    \* the journal that a power failure cannot take back
          lock,      \* sweep.lock: who sweeps
          memory,    \* each process's Ledger, while it sweeps
          told,      \* history: for each path what may be read of it: what the last
                     \* Save promised, and what was written since
          faults     \* failures so far

ledger_vars == <<snapshot, journal, synced, lock, memory, told, faults>>

Absent == [pc |-> "out", files |-> Empty, dirty |-> {}, seq |-> 0, end |-> 0, todo |-> {}]
NoHole == MaxSeq + 1

LedgerInit ==
  /\ snapshot = [seq |-> 0, files |-> Empty]
  /\ journal = [lines |-> {}, hole |-> NoHole]
  /\ synced = {}
  /\ lock = Nothing
  /\ memory = [p \in Procs |-> Absent]
  /\ told = [p \in Paths |-> {Nothing}]
  /\ faults = 0

-----------------------------------------------------------------------------
(* Reading                                                                 *)

Readable(j) == {l \in j.lines : l.seq < j.hole}

(* The last word on a path: of the lines behind the snapshot's sequence the *)
(* latest, or else the snapshot.                                            *)
Newer(lines, path) == {l \in lines : l.path = path /\ l.seq > snapshot.seq}
Latest(lines) == CHOOSE l \in lines : \A k \in lines : k.seq <= l.seq

Replayed(lines) ==
  [p \in Paths |-> IF Newer(lines, p) = {} THEN snapshot.files[p] ELSE Latest(Newer(lines, p)).record]

(* A number that nothing in the set exceeds, of the set or the given one.   *)
Last(lines, least) ==
  CHOOSE n \in {least} \cup {l.seq : l \in lines} : n >= least /\ \A l \in lines : l.seq <= n

Lands(p, pc) == memory' = [memory EXCEPT ![p].pc = pc]

(* sweep takes the lock, forgets what it knew, and reads the ledger again.  *)
Loads(p) ==
  /\ lock = Nothing
  /\ lock' = p
  /\ memory' = [memory EXCEPT ![p] = [Absent EXCEPT
       !.pc = "in", !.files = Replayed(Readable(journal)),
       !.seq = Last(Readable(journal), snapshot.seq), !.end = Last(Readable(journal), 0)]]
  /\ UNCHANGED <<snapshot, journal, synced, told, faults>>

(* A sweep that ends gives the lock up; what it did not save is gone.       *)
Leaves(p) ==
  /\ memory[p].pc = "in"
  /\ lock' = Nothing
  /\ memory' = [memory EXCEPT ![p] = Absent]
  /\ UNCHANGED <<snapshot, journal, synced, told, faults>>

-----------------------------------------------------------------------------
(* Changing                                                                *)

(* Put, or with Nothing, Forget.                                            *)
Puts(p, path, record) ==
  /\ memory[p].pc = "in"
  /\ memory' = [memory EXCEPT ![p].files[path] = record, ![p].dirty = @ \cup {path}]
  /\ UNCHANGED <<snapshot, journal, synced, lock, told, faults>>

(* Save cuts off whatever an earlier one left behind its end.  A file that  *)
(* is shorter than that grows a hole which no reader gets past.             *)
Begins(p) ==
  /\ memory[p].pc = "in" /\ memory[p].dirty # {}
  /\ LET end == memory[p].end IN
       journal' = [lines |-> {l \in journal.lines : l.seq <= end},
                   hole |-> IF end > Last(journal.lines, 0) THEN 1
                           ELSE IF end = 0 THEN NoHole ELSE journal.hole]
  /\ memory' = [memory EXCEPT ![p].pc = "write", ![p].todo = memory[p].dirty]
  /\ UNCHANGED <<snapshot, synced, lock, told, faults>>

(* One line for each changed path, in no order.                             *)
Writes(p, path) ==
  /\ memory[p].pc = "write" /\ path \in memory[p].todo /\ memory[p].seq < MaxSeq
  /\ LET seq == memory[p].seq + 1 IN
       /\ journal' = [journal EXCEPT !.lines =
            @ \cup {[seq |-> seq, path |-> path, record |-> memory[p].files[path]]}]
       /\ memory' = [memory EXCEPT ![p].seq = seq, ![p].todo = @ \ {path}]
  /\ told' = [told EXCEPT ![path] = @ \cup {memory[p].files[path]}]
  /\ UNCHANGED <<snapshot, synced, lock, faults>>

(* Mutant: the lines are taken for kept as soon as they are written.        *)
AcknowledgesEarly(p) ==
  /\ memory[p].pc = "write" /\ memory[p].todo = {}
  /\ told' = [path \in Paths |-> {memory[p].files[path]}]
  /\ memory' = [memory EXCEPT ![p].end = memory[p].seq, ![p].dirty = {}, ![p].pc = "synced"]
  /\ UNCHANGED <<snapshot, journal, synced, lock, faults>>

(* The sync; from here on the changes are kept, whatever Save returns.      *)
Syncs(p) ==
  /\ memory[p].pc = "write" /\ memory[p].todo = {}
  /\ synced' = journal.lines
  /\ told' = [path \in Paths |-> {memory[p].files[path]}]
  /\ memory' = [memory EXCEPT ![p].end = memory[p].seq, ![p].dirty = {}, ![p].pc = "synced"]
  /\ UNCHANGED <<snapshot, journal, lock, faults>>

(* A journal that is still short is left as it is.                          *)
Returns(p) ==
  /\ memory[p].pc = "synced"
  /\ Lands(p, "in")
  /\ UNCHANGED <<snapshot, journal, synced, lock, told, faults>>

(* A long one is replaced by a snapshot, in one rename that is durable, ... *)
Snapshots(p) ==
  /\ memory[p].pc = "synced"
  /\ snapshot' = [seq |-> memory[p].seq, files |-> memory[p].files]
  /\ Lands(p, "empty")
  /\ UNCHANGED <<journal, synced, lock, told, faults>>

(* ... and emptied, ...                                                     *)
Empties(p) ==
  /\ memory[p].pc = "empty"
  /\ journal' = [lines |-> {}, hole |-> NoHole]
  /\ Lands(p, "emptied")
  /\ UNCHANGED <<snapshot, synced, lock, told, faults>>

(* ... which only its sync makes the new beginning.                         *)
SyncsEmpty(p) ==
  /\ memory[p].pc = "emptied"
  /\ synced' = {}
  /\ memory' = [memory EXCEPT ![p].end = 0, ![p].pc = "in"]
  /\ UNCHANGED <<snapshot, journal, lock, told, faults>>

-----------------------------------------------------------------------------
(* Failures                                                                *)

Fault == faults < MaxFaults /\ faults' = faults + 1

(* A write or a sync fails and Save returns the error.                      *)
Fails(p) ==
  /\ Fault
  /\ memory[p].pc \in {"write", "synced", "empty"} \cup (IF LateSyncFails THEN {"emptied"} ELSE {})
  /\ Lands(p, "in")
  /\ UNCHANGED <<snapshot, journal, synced, lock, told>>

(* The process is killed; what it wrote is in the page cache.               *)
Killed(p) ==
  /\ Fault /\ memory[p].pc # "out"
  /\ memory' = [memory EXCEPT ![p] = Absent]
  /\ lock' = Nothing
  /\ UNCHANGED <<snapshot, journal, synced, told>>

(* The power fails: of what is not synced the first lines are there, or     *)
(* the journal is the one of the last sync.                                 *)
PowerFails ==
  /\ Fault
  /\ \E n \in 0..MaxSeq, kept \in {synced, synced \cap journal.lines} :
       journal' = [journal EXCEPT !.lines = kept \cup {l \in @ : l.seq <= n}]
  /\ synced' = journal'.lines
  /\ memory' = [p \in Procs |-> Absent]
  /\ lock' = Nothing
  /\ UNCHANGED <<snapshot, told>>

-----------------------------------------------------------------------------
LedgerNext ==
  \/ \E p \in Procs :
       \/ Loads(p) \/ Leaves(p) \/ Begins(p) \/ Syncs(p) \/ Returns(p) \/ Snapshots(p)
       \/ Empties(p) \/ SyncsEmpty(p) \/ Fails(p) \/ Killed(p)
       \/ \E path \in Paths : Writes(p, path) \/ \E r \in Records \cup {Nothing} : Puts(p, path, r)
  \/ PowerFails

LedgerSpec == LedgerInit /\ [][LedgerNext]_ledger_vars

-----------------------------------------------------------------------------
(* Properties                                                              *)

LedgerTypeOK ==
  /\ snapshot \in [seq : 0..MaxSeq, files : Contents]
  /\ journal \in [lines : SUBSET Lines, hole : {1, NoHole}]
  /\ synced \in SUBSET Lines
  /\ lock \in Procs \cup {Nothing}
  /\ memory \in [Procs -> [pc : {"out", "in", "write", "synced", "empty", "emptied"}, files : Contents,
                           dirty : SUBSET Paths, seq : 0..MaxSeq, end : 0..MaxSeq,
                           todo : SUBSET Paths]]
  /\ told \in [Paths -> SUBSET (Records \cup {Nothing})]
  /\ faults \in 0..MaxFaults

(* What a Save has returned for is what the next sweep reads, in this       *)
(* process or another, whatever crash or failed write came since: a receipt *)
(* is never lost or rolled back to an earlier one.                          *)
ReceiptsSurvive == \A path \in Paths : Replayed(Readable(journal))[path] \in told[path]

-----------------------------------------------------------------------------
(* Why receipts survive: the inductive invariant.                          *)

Holder(p) == memory[p].pc # "out"
End(p) == memory[p].end
LastSeq(p) == memory[p].seq

(* One process at a time has the ledger in memory, and every position it   *)
(* knows is a position in the journal.                                     *)
HeldOnce ==
  /\ \A p \in Procs : Holder(p) => lock = p
  /\ journal.hole = NoHole
  /\ \A p \in Procs : Holder(p) =>
       /\ \A l \in journal.lines \cup synced : l.seq <= LastSeq(p)
       /\ snapshot.seq <= LastSeq(p) /\ End(p) <= LastSeq(p)
       /\ memory[p].pc # "emptied" /\ End(p) # 0 => \E l \in journal.lines : l.seq = End(p)

(* What is durable and not in the snapshot is in the journal, before the   *)
(* end that the holder cuts it off at.                                     *)
SyncedIsKept ==
  \A l \in synced : l.seq > snapshot.seq =>
    /\ l \in journal.lines
    /\ \A p \in Procs : Holder(p) => l.seq <= End(p)

SequencesAreUsedOnce ==
  \A k, l \in journal.lines : k.seq = l.seq /\ k.seq > snapshot.seq => k = l

(* A line that a reader may find last on its path is one it may read.      *)
LinesAreTold ==
  \A l \in journal.lines : l.seq > snapshot.seq =>
    \/ l.record \in told[l.path]
    \/ \E k \in synced : k.path = l.path /\ k.seq > l.seq

SnapshotIsTold ==
  \A path \in Paths :
    \/ snapshot.files[path] \in told[path]
    \/ \E k \in synced : k.path = path /\ k.seq > snapshot.seq

(* What the holder has not changed is what it would read again up to its   *)
(* end.                                                                    *)
Within(p, l) == l \in journal.lines /\ snapshot.seq < l.seq /\ l.seq <= End(p)
LastWord(p, path) ==
  /\ \A l \in journal.lines : l.path = path /\ Within(p, l) =>
       \/ l.record = memory[p].files[path]
       \/ \E k \in journal.lines : k.path = path /\ Within(p, k) /\ k.seq > l.seq
  /\ \/ snapshot.files[path] = memory[p].files[path]
     \/ \E l \in journal.lines : l.path = path /\ Within(p, l)
MemoryIsTrue == \A p \in Procs : Holder(p) => \A path \in Paths \ memory[p].dirty : LastWord(p, path)

(* What a Save has written so far.                                         *)
Written(p) == memory[p].dirty \ memory[p].todo
SavesTheChanges ==
  \A p \in Procs : memory[p].pc = "write" =>
    /\ memory[p].todo \subseteq memory[p].dirty /\ memory[p].dirty # {}
    /\ \A l \in journal.lines : l.seq > End(p) =>
         l.path \in Written(p) /\ l.record = memory[p].files[l.path]
    /\ \A path \in Written(p) : \E l \in journal.lines :
         l.path = path /\ l.seq > End(p) /\ l.seq > snapshot.seq
    /\ Written(p) # {} => \E l \in journal.lines : l.seq = LastSeq(p)

(* What a Save that compacts knows.                                        *)
Compacts ==
  \A p \in Procs :
    /\ memory[p].pc = "synced" => \A path \in Paths : memory[p].files[path] \in told[path]
    /\ memory[p].pc \in {"empty", "emptied"} =>
         snapshot.seq = LastSeq(p) /\ snapshot.files = memory[p].files

LedgerInv ==
  /\ LedgerTypeOK /\ HeldOnce /\ SyncedIsKept /\ SequencesAreUsedOnce /\ LinesAreTold
  /\ SnapshotIsTold /\ MemoryIsTrue /\ SavesTheChanges /\ Compacts

-----------------------------------------------------------------------------
(* Its proof                                                               *)

(* A set of sequences has a largest.                                       *)
LEMMA LargestExists ==
  ASSUME NEW N \in Nat, NEW S \in SUBSET (0..N), S # {}
  PROVE  \E n \in S : \A k \in S : k <= n
<1> DEFINE T == {t \in Nat : N - t \in S}
<1>1. T \subseteq Nat /\ T # {}
  <2>1. PICK k \in S : k \in 0..N
    OBVIOUS
  <2>2. N - k \in Nat /\ N - (N - k) = k
    BY <2>1
  <2> QED BY <2>1, <2>2
<1>2. PICK x \in T : \A y \in T : ~ (<<y, x>> \in OpToRel(<, Nat))
  <2> HIDE DEF T
  <2> QED BY <1>1, WFMin, NatLessThanWellFounded
<1>3. ASSUME NEW k \in S PROVE k <= N - x
  <2>1. k \in 0..N /\ N - k \in T
    <3>1. k \in 0..N
      OBVIOUS
    <3>2. N - k \in Nat /\ N - (N - k) = k
      BY <3>1
    <3> QED BY <3>1, <3>2
  <2>2. ~ (<<N - k, x>> \in OpToRel(<, Nat))
    BY <1>2, <2>1
  <2>3. ~ (N - k < x)
    BY <2>1, <2>2, <1>1 DEF OpToRel
  <2> QED BY <2>1, <2>3, <1>1
<1>4. N - x \in S
  OBVIOUS
<1> QED BY <1>3, <1>4

(* Last is what it is named for: among the lines and the given number.    *)
LEMMA LastIsLargest ==
  ASSUME NEW lines \in SUBSET Lines, NEW least \in 0..MaxSeq
  PROVE  /\ Last(lines, least) \in 0..MaxSeq
         /\ Last(lines, least) >= least
         /\ \A l \in lines : l.seq <= Last(lines, least)
         /\ Last(lines, least) = least \/ \E l \in lines : l.seq = Last(lines, least)
<1> DEFINE S == {least} \cup {l.seq : l \in lines}
<1>1. MaxSeq \in Nat
  BY LedgerAssumption DEF LedgerAssumption
<1>2. S \in SUBSET (0..MaxSeq) /\ S # {}
  BY <1>1 DEF Lines
<1>3. \E n \in S : \A k \in S : k <= n
  BY <1>1, <1>2, LargestExists
<1>4. \E n \in S : n >= least /\ \A l \in lines : l.seq <= n
  BY <1>2, <1>3
<1>5. Last(lines, least) \in S /\ Last(lines, least) >= least /\ \A l \in lines : l.seq <= Last(lines, least)
  BY <1>4 DEF Last
<1> QED BY <1>2, <1>5

(* So is Latest.                                                           *)
LEMMA LatestIsLatest ==
  ASSUME NEW lines \in SUBSET Lines, lines # {}
  PROVE  Latest(lines) \in lines /\ \A k \in lines : k.seq <= Latest(lines).seq
<1> DEFINE S == {l.seq : l \in lines}
<1>1. MaxSeq \in Nat
  BY LedgerAssumption DEF LedgerAssumption
<1>2. S \in SUBSET (0..MaxSeq) /\ S # {}
  BY <1>1 DEF Lines
<1>3. \E n \in S : \A k \in S : k <= n
  BY <1>1, <1>2, LargestExists
<1>4. \E l \in lines : \A k \in lines : k.seq <= l.seq
  BY <1>3
<1> QED BY <1>4 DEF Latest

(* What is read of a path is the last line behind the snapshot, or else    *)
(* the snapshot's word.                                                    *)
LEMMA ReplayedIsTheLastWord ==
  ASSUME LedgerTypeOK, NEW lines \in SUBSET Lines
  PROVE  /\ Replayed(lines) \in Contents
         /\ \A path \in Paths :
              \/ /\ \A l \in lines : ~ (l.path = path /\ l.seq > snapshot.seq)
                 /\ Replayed(lines)[path] = snapshot.files[path]
              \/ \E l \in lines :
                   /\ l.path = path /\ l.seq > snapshot.seq
                   /\ Replayed(lines)[path] = l.record
                   /\ \A k \in lines : k.path = path /\ k.seq > snapshot.seq => k.seq <= l.seq
<1>1. snapshot.files \in Contents
  BY DEF LedgerTypeOK
<1>2. ASSUME NEW path \in Paths, Newer(lines, path) # {}
      PROVE  \E l \in lines :
                   /\ l.path = path /\ l.seq > snapshot.seq
                   /\ Replayed(lines)[path] = l.record
                   /\ \A k \in lines : k.path = path /\ k.seq > snapshot.seq => k.seq <= l.seq
  <2> DEFINE l == Latest(Newer(lines, path))
  <2>1. l \in Newer(lines, path) /\ \A k \in Newer(lines, path) : k.seq <= l.seq
    BY <1>1, <1>2, LatestIsLatest DEF Newer
  <2>2. Replayed(lines)[path] = l.record
    BY <1>2 DEF Replayed
  <2> QED BY <2>1, <2>2 DEF Newer
<1>3. ASSUME NEW path \in Paths, Newer(lines, path) = {}
      PROVE  /\ \A l \in lines : ~ (l.path = path /\ l.seq > snapshot.seq)
             /\ Replayed(lines)[path] = snapshot.files[path]
  BY <1>3 DEF Replayed, Newer
<1>4. \A path \in Paths : Replayed(lines)[path] \in Records \cup {Nothing}
  BY <1>1, <1>2, <1>3 DEF Lines, Contents
<1>5. Replayed(lines) \in Contents
  BY <1>4 DEF Replayed, Contents
<1> QED BY <1>2, <1>3, <1>5

(* Every line is before the hole there is not.                             *)
LEMMA AllIsReadable ==
  ASSUME LedgerTypeOK, HeldOnce
  PROVE  Readable(journal) = journal.lines
BY LedgerAssumption DEF LedgerTypeOK, HeldOnce, Readable, Lines, NoHole, LedgerAssumption

(* The invariant says that what a reader finds last is what it may read.   *)
LEMMA ReceiptsAreTold ==
  ASSUME LedgerInv
  PROVE  ReceiptsSurvive
<1> USE DEF LedgerInv
<1>1. SUFFICES ASSUME NEW path \in Paths PROVE Replayed(journal.lines)[path] \in told[path]
  BY AllIsReadable DEF ReceiptsSurvive
<1>2. CASE /\ \A l \in journal.lines : ~ (l.path = path /\ l.seq > snapshot.seq)
           /\ Replayed(journal.lines)[path] = snapshot.files[path]
  BY <1>2 DEF SnapshotIsTold, SyncedIsKept
<1>3. CASE \E l \in journal.lines :
             /\ l.path = path /\ l.seq > snapshot.seq
             /\ Replayed(journal.lines)[path] = l.record
             /\ \A k \in journal.lines : k.path = path /\ k.seq > snapshot.seq => k.seq <= l.seq
  <2>1. PICK l \in journal.lines :
             /\ l.path = path /\ l.seq > snapshot.seq
             /\ Replayed(journal.lines)[path] = l.record
             /\ \A k \in journal.lines : k.path = path /\ k.seq > snapshot.seq => k.seq <= l.seq
    BY <1>3
  <2>2. ASSUME NEW k \in synced, k.path = path, k.seq > l.seq PROVE FALSE
    <3>1. k.seq \in Nat /\ l.seq \in Nat /\ snapshot.seq \in Nat
      BY LedgerAssumption DEF LedgerTypeOK, Lines, LedgerAssumption
    <3>2. k \in journal.lines /\ k.seq > snapshot.seq
      BY <2>1, <2>2, <3>1 DEF SyncedIsKept
    <3> QED BY <2>1, <2>2, <3>1, <3>2
  <2> QED BY <2>1, <2>2 DEF LinesAreTold
<1>4. journal.lines \in SUBSET Lines
  BY DEF LedgerTypeOK
<1> QED BY <1>2, <1>3, <1>4, ReplayedIsTheLastWord

-----------------------------------------------------------------------------
(* Types                                                                   *)

(* An empty ledger promises nothing.                                       *)
LEMMA InitInv ==
  ASSUME LedgerInit
  PROVE  LedgerInv
<1>1. LedgerTypeOK
  BY LedgerAssumption
     DEF LedgerInit, LedgerTypeOK, Absent, Empty, Contents, NoHole, LedgerAssumption, Lines
<1>2. \A p \in Procs : ~Holder(p) /\ memory[p].pc = "out"
  BY DEF LedgerInit, Absent, Holder
<1>3. \A path \in Paths : snapshot.files[path] \in told[path]
  BY DEF LedgerInit, Empty
<1> QED
  BY <1>1, <1>2, <1>3
     DEF LedgerInv, LedgerInit, HeldOnce, SyncedIsKept, SequencesAreUsedOnce, LinesAreTold,
         SnapshotIsTold, MemoryIsTrue, SavesTheChanges, Compacts

(* Every step keeps the types.                                             *)
LEMMA TypePreserved ==
  ASSUME LedgerTypeOK, [LedgerNext]_ledger_vars
  PROVE  LedgerTypeOK'
<1> USE LedgerAssumption DEF LedgerAssumption
<1>1. ASSUME NEW p \in Procs, Loads(p) PROVE LedgerTypeOK'
  <2>1. Readable(journal) \in SUBSET Lines
    BY DEF Readable, LedgerTypeOK
  <2>2. Last(Readable(journal), snapshot.seq) \in 0..MaxSeq /\ Last(Readable(journal), 0) \in 0..MaxSeq
    BY <2>1, LastIsLargest DEF LedgerTypeOK
  <2>3. Replayed(Readable(journal)) \in Contents
    BY <2>1, ReplayedIsTheLastWord
  <2> QED BY <1>1, <2>2, <2>3 DEF Loads, LedgerTypeOK, Absent
<1>2. ASSUME NEW p \in Procs, Leaves(p) PROVE LedgerTypeOK'
  BY <1>2 DEF Leaves, LedgerTypeOK, Absent, Empty, Contents
<1>3. ASSUME NEW p \in Procs, Begins(p) PROVE LedgerTypeOK'
  <2>1. journal' = [lines |-> journal'.lines, hole |-> journal'.hole]
        /\ journal'.lines \subseteq journal.lines /\ journal'.hole \in {1, NoHole}
    BY <1>3 DEF Begins, LedgerTypeOK
  <2>3. journal' \in [lines : SUBSET Lines, hole : {1, NoHole}]
    BY <2>1 DEF LedgerTypeOK
  <2>4. memory' = [memory EXCEPT ![p] = [memory[p] EXCEPT !.pc = "write", !.todo = memory[p].dirty]]
    BY <1>3 DEF Begins, LedgerTypeOK
  <2>5. [memory[p] EXCEPT !.pc = "write", !.todo = memory[p].dirty]
          \in [pc : {"out", "in", "write", "synced", "empty", "emptied"},
               files : Contents, dirty : SUBSET Paths, seq : 0..MaxSeq, end : 0..MaxSeq,
               todo : SUBSET Paths]
    BY DEF LedgerTypeOK
  <2> QED BY <1>3, <2>3, <2>4, <2>5 DEF Begins, LedgerTypeOK
<1>4. ASSUME NEW p \in Procs, Syncs(p) PROVE LedgerTypeOK'
  BY <1>4 DEF Syncs, LedgerTypeOK, Contents
<1>5. ASSUME NEW p \in Procs, Returns(p) PROVE LedgerTypeOK'
  BY <1>5 DEF Returns, Lands, LedgerTypeOK
<1>6. ASSUME NEW p \in Procs, Snapshots(p) PROVE LedgerTypeOK'
  BY <1>6 DEF Snapshots, Lands, LedgerTypeOK
<1>7. ASSUME NEW p \in Procs, Empties(p) PROVE LedgerTypeOK'
  BY <1>7 DEF Empties, Lands, LedgerTypeOK
<1>8. ASSUME NEW p \in Procs, SyncsEmpty(p) PROVE LedgerTypeOK'
  BY <1>8 DEF SyncsEmpty, LedgerTypeOK
<1>9. ASSUME NEW p \in Procs, Fails(p) PROVE LedgerTypeOK'
  BY <1>9 DEF Fails, Fault, Lands, LedgerTypeOK
<1>10. ASSUME NEW p \in Procs, Killed(p) PROVE LedgerTypeOK'
  BY <1>10 DEF Killed, Fault, LedgerTypeOK, Absent, Empty, Contents
<1>11. ASSUME NEW p \in Procs, NEW path \in Paths, Writes(p, path) PROVE LedgerTypeOK'
  <2> DEFINE line == [seq |-> memory[p].seq + 1, path |-> path, record |-> memory[p].files[path]]
  <2>1. line \in Lines
    BY <1>11 DEF Writes, LedgerTypeOK, Lines, Contents
  <2>2. journal' \in [lines : SUBSET Lines, hole : {1, NoHole}]
    <3>1. journal' = [journal EXCEPT !.lines = @ \cup {line}]
      BY <1>11 DEF Writes
    <3> QED BY <2>1, <3>1 DEF LedgerTypeOK
  <2>3. told' \in [Paths -> SUBSET (Records \cup {Nothing})]
    BY <1>11 DEF Writes, LedgerTypeOK, Contents
  <2> QED BY <1>11, <2>2, <2>3 DEF Writes, LedgerTypeOK
<1>12. ASSUME NEW p \in Procs, NEW path \in Paths, NEW r \in Records \cup {Nothing}, Puts(p, path, r)
       PROVE  LedgerTypeOK'
  <2> DEFINE files == [memory[p].files EXCEPT ![path] = r]
             after == [memory[p] EXCEPT !.files = files, !.dirty = @ \cup {path}]
  <2>1. files \in Contents
    BY DEF LedgerTypeOK, Contents
  <2>2. after \in [pc : {"out", "in", "write", "synced", "empty", "emptied"}, files : Contents,
                   dirty : SUBSET Paths, seq : 0..MaxSeq, end : 0..MaxSeq, todo : SUBSET Paths]
    BY <2>1 DEF LedgerTypeOK
  <2>3. memory' = [memory EXCEPT ![p] = after]
    BY <1>12 DEF Puts, LedgerTypeOK
  <2> QED BY <1>12, <2>2, <2>3 DEF Puts, LedgerTypeOK
<1>13. ASSUME PowerFails PROVE LedgerTypeOK'
  <2>1. PICK n \in 0..MaxSeq, kept \in {synced, synced \cap journal.lines} :
          journal' = [journal EXCEPT !.lines = kept \cup {l \in journal.lines : l.seq <= n}]
    BY <1>13 DEF PowerFails
  <2>2. journal' \in [lines : SUBSET Lines, hole : {1, NoHole}]
    BY <2>1 DEF LedgerTypeOK
  <2> QED BY <1>13, <2>2 DEF PowerFails, Fault, LedgerTypeOK, Absent, Empty, Contents
<1>14. CASE UNCHANGED ledger_vars
  BY <1>14 DEF LedgerTypeOK, ledger_vars
<1> QED
  BY <1>1, <1>2, <1>3, <1>4, <1>5, <1>6, <1>7, <1>8, <1>9, <1>10, <1>11, <1>12, <1>13, <1>14
     DEF LedgerNext

-----------------------------------------------------------------------------
(* Each step keeps the invariant                                           *)

(* The positions are numbers.                                              *)
LEMMA Numbers ==
  ASSUME LedgerTypeOK
  PROVE  /\ MaxSeq \in Nat /\ snapshot.seq \in Nat
         /\ \A l \in journal.lines \cup synced : l.seq \in Nat /\ l.path \in Paths
         /\ \A p \in Procs : LastSeq(p) \in Nat /\ End(p) \in Nat
BY LedgerAssumption DEF LedgerTypeOK, Lines, LastSeq, End, LedgerAssumption

(* A process that loads remembers what it has read, and no line is past    *)
(* its end.                                                                *)
LEMMA LoadsKeeps ==
  ASSUME LedgerInv, LedgerTypeOK', NEW p \in Procs, Loads(p)
  PROVE  LedgerInv'
<1> USE DEF LedgerInv
<1> DEFINE L == journal.lines
           last == Last(L, snapshot.seq)
           end == Last(L, 0)
<1>1. L \subseteq Lines /\ Readable(journal) = L /\ snapshot.seq \in 0..MaxSeq /\ 0 \in 0..MaxSeq
  BY AllIsReadable, LedgerAssumption DEF LedgerTypeOK, LedgerAssumption
<1>2. /\ last \in 0..MaxSeq /\ last >= snapshot.seq /\ \A l \in L : l.seq <= last
      /\ end \in 0..MaxSeq /\ end >= 0 /\ \A l \in L : l.seq <= end
      /\ end = 0 \/ \E l \in L : l.seq = end
  BY <1>1, LastIsLargest
<1>3. \A q \in Procs : ~Holder(q)
  BY LedgerAssumption DEF Loads, HeldOnce, LedgerAssumption
<1>4. /\ lock' = p /\ journal' = journal /\ synced' = synced /\ snapshot' = snapshot /\ told' = told
      /\ memory' = [memory EXCEPT ![p] = [Absent EXCEPT
           !.pc = "in", !.files = Replayed(L), !.seq = last, !.end = end]]
  BY <1>1 DEF Loads
<1> HIDE DEF last, end
<1>5. /\ memory'[p].pc = "in" /\ memory'[p].files = Replayed(L) /\ memory'[p].dirty = {}
      /\ memory'[p].seq = last /\ memory'[p].end = end
      /\ \A q \in Procs : q # p => memory'[q].pc = "out"
  BY <1>3, <1>4 DEF LedgerTypeOK, Holder, Absent
<1>6. \A q \in Procs : Holder(q)' => q = p
  BY <1>5 DEF Holder
<1>7. HeldOnce'
  <2>1. last \in Nat /\ end \in Nat /\ end <= last
    BY <1>2, Numbers
  <2>2. \A l \in synced : l.seq <= last
    BY <1>2, <2>1, Numbers DEF SyncedIsKept
  <2> QED BY <1>2, <1>4, <1>5, <1>6, <2>1, <2>2 DEF HeldOnce, LastSeq, End
<1>8. SyncedIsKept'
  BY <1>2, <1>4, <1>5, <1>6 DEF SyncedIsKept, End
<1>9. SequencesAreUsedOnce' /\ LinesAreTold' /\ SnapshotIsTold'
  BY <1>4 DEF SequencesAreUsedOnce, LinesAreTold, SnapshotIsTold
<1>10. MemoryIsTrue'
  <2>1. SUFFICES ASSUME NEW path \in Paths PROVE LastWord(p, path)'
    BY <1>6 DEF MemoryIsTrue
  <2>2. \A l \in L : Within(p, l)' <=> l.seq > snapshot.seq
    BY <1>2, <1>4, <1>5, Numbers DEF Within, End
  <2>3. CASE /\ \A l \in L : ~ (l.path = path /\ l.seq > snapshot.seq)
             /\ Replayed(L)[path] = snapshot.files[path]
    BY <1>4, <1>5, <2>2, <2>3 DEF LastWord
  <2>4. CASE \E l \in L :
               /\ l.path = path /\ l.seq > snapshot.seq
               /\ Replayed(L)[path] = l.record
               /\ \A k \in L : k.path = path /\ k.seq > snapshot.seq => k.seq <= l.seq
    <3>1. PICK l \in L :
               /\ l.path = path /\ l.seq > snapshot.seq
               /\ Replayed(L)[path] = l.record
               /\ \A k \in L : k.path = path /\ k.seq > snapshot.seq => k.seq <= l.seq
      BY <2>4
    <3>2. ASSUME NEW k \in L, k.path = path, Within(p, k)'
          PROVE  k = l \/ k.seq < l.seq
      BY <2>2, <3>1, <3>2, Numbers DEF SequencesAreUsedOnce
    <3> QED BY <1>4, <1>5, <2>2, <3>1, <3>2, Numbers DEF LastWord
  <2>5. L \in SUBSET Lines
    BY <1>1
  <2> QED BY <2>3, <2>4, <2>5, ReplayedIsTheLastWord
<1>11. SavesTheChanges' /\ Compacts'
  BY <1>5 DEF SavesTheChanges, Compacts
<1> QED BY <1>7, <1>8, <1>9, <1>10, <1>11

(* Steps after which nobody holds the ledger.                              *)
LEMMA GivenUp ==
  ASSUME LedgerInv, LedgerTypeOK', NEW p \in Procs, Leaves(p) \/ Killed(p)
  PROVE  LedgerInv'
<1> USE DEF LedgerInv
<1>1. /\ journal' = journal /\ synced' = synced /\ snapshot' = snapshot /\ told' = told
      /\ memory' = [memory EXCEPT ![p] = Absent] /\ Holder(p)
  BY DEF Leaves, Killed, Holder
<1>2. \A q \in Procs : memory'[q].pc = "out" /\ ~Holder(q)'
  BY <1>1 DEF HeldOnce, Holder, LedgerTypeOK, Absent
<1> QED
  BY <1>1, <1>2 DEF HeldOnce, SyncedIsKept, SequencesAreUsedOnce, LinesAreTold, SnapshotIsTold,
                    MemoryIsTrue, SavesTheChanges, Compacts

(* Steps of the holder's that leave the files alone.                       *)
LEMMA PutsKeeps ==
  ASSUME LedgerInv, LedgerTypeOK', NEW p \in Procs, NEW path \in Paths,
         NEW r \in Records \cup {Nothing}, Puts(p, path, r)
  PROVE  LedgerInv'
<1> USE DEF LedgerInv
<1>1. /\ journal' = journal /\ synced' = synced /\ snapshot' = snapshot /\ told' = told /\ lock' = lock
      /\ Holder(p) /\ memory[p].pc = "in"
  BY DEF Puts, Holder
<1>2. /\ memory'[p].pc = "in" /\ memory'[p].dirty = memory[p].dirty \cup {path}
      /\ memory'[p].seq = memory[p].seq /\ memory'[p].end = memory[p].end
      /\ \A other \in Paths \ {path} : memory'[p].files[other] = memory[p].files[other]
  BY DEF Puts, LedgerTypeOK, Contents
<1>3. \A q \in Procs : q # p => memory'[q] = memory[q] /\ memory[q].pc = "out"
  BY <1>1 DEF Puts, LedgerTypeOK, HeldOnce, Holder
<1>4. \A q \in Procs : Holder(q)' => q = p
  BY <1>3 DEF Holder
<1>5. HeldOnce'
  BY <1>1, <1>2, <1>4 DEF HeldOnce, LastSeq, End, Holder
<1>6. SyncedIsKept' /\ SequencesAreUsedOnce' /\ LinesAreTold' /\ SnapshotIsTold'
  BY <1>1, <1>2, <1>4
     DEF SyncedIsKept, SequencesAreUsedOnce, LinesAreTold, SnapshotIsTold, End, Holder
<1>7. MemoryIsTrue'
  <2>1. \A l : Within(p, l)' <=> Within(p, l)
    BY <1>1, <1>2 DEF Within, End
  <2>2. ASSUME NEW other \in Paths \ memory'[p].dirty PROVE LastWord(p, other)'
    <3>1. other \in Paths \ memory[p].dirty /\ other # path
      BY <1>2
    <3>2. LastWord(p, other)
      BY <1>1, <3>1 DEF MemoryIsTrue
    <3> QED BY <1>1, <1>2, <2>1, <3>1, <3>2 DEF LastWord
  <2> QED BY <1>4, <2>2 DEF MemoryIsTrue
<1>8. SavesTheChanges' /\ Compacts'
  BY <1>2, <1>3 DEF SavesTheChanges, Compacts
<1> QED BY <1>5, <1>6, <1>7, <1>8

(* A Save that ends, well or not, remembers what it remembered.            *)
LEMMA SaveEnds ==
  ASSUME LedgerInv, LedgerTypeOK', LateSyncFails = FALSE, NEW p \in Procs, Returns(p) \/ Fails(p)
  PROVE  LedgerInv'
<1> USE DEF LedgerInv
<1>1. /\ journal' = journal /\ synced' = synced /\ snapshot' = snapshot /\ told' = told /\ lock' = lock
      /\ memory[p].pc \in {"write", "synced", "empty"} /\ Holder(p)
      /\ memory' = [memory EXCEPT ![p].pc = "in"]
  BY DEF Returns, Fails, Lands, Holder
<1>2. /\ memory'[p].pc = "in" /\ memory'[p].dirty = memory[p].dirty
      /\ memory'[p].seq = memory[p].seq /\ memory'[p].end = memory[p].end
      /\ memory'[p].files = memory[p].files
  BY <1>1 DEF LedgerTypeOK
<1>3. \A q \in Procs : q # p => memory'[q] = memory[q] /\ memory[q].pc = "out"
  BY <1>1 DEF LedgerTypeOK, HeldOnce, Holder
<1>4. \A q \in Procs : Holder(q)' => q = p
  BY <1>3 DEF Holder
<1>5. HeldOnce'
  BY <1>1, <1>2, <1>4 DEF HeldOnce, LastSeq, End, Holder
<1>6. SyncedIsKept' /\ SequencesAreUsedOnce' /\ LinesAreTold' /\ SnapshotIsTold'
  BY <1>1, <1>2, <1>4
     DEF SyncedIsKept, SequencesAreUsedOnce, LinesAreTold, SnapshotIsTold, End, Holder
<1>7. MemoryIsTrue'
  <2>1. \A l : Within(p, l)' <=> Within(p, l)
    BY <1>1, <1>2 DEF Within, End
  <2> QED BY <1>1, <1>2, <1>4, <2>1 DEF MemoryIsTrue, LastWord
<1>8. SavesTheChanges' /\ Compacts'
  BY <1>2, <1>3 DEF SavesTheChanges, Compacts
<1> QED BY <1>5, <1>6, <1>7, <1>8

(* What a Save cuts off is behind its end, where nothing is synced that    *)
(* the snapshot does not have.                                             *)
LEMMA BeginsKeeps ==
  ASSUME LedgerInv, LedgerTypeOK', NEW p \in Procs, Begins(p)
  PROVE  LedgerInv'
<1> USE DEF LedgerInv
<1>1. /\ journal'.lines = {l \in journal.lines : l.seq <= End(p)}
      /\ synced' = synced /\ snapshot' = snapshot /\ told' = told /\ lock' = lock
      /\ memory[p].pc = "in" /\ Holder(p) /\ memory[p].dirty # {}
  BY DEF Begins, Holder, End
<1>2. /\ memory'[p].pc = "write" /\ memory'[p].dirty = memory[p].dirty
      /\ memory'[p].seq = memory[p].seq /\ memory'[p].end = memory[p].end
      /\ memory'[p].files = memory[p].files /\ memory'[p].todo = memory[p].dirty
  BY DEF Begins, LedgerTypeOK
<1>3. \A q \in Procs : q # p => memory'[q] = memory[q] /\ memory[q].pc = "out"
  BY <1>1 DEF Begins, LedgerTypeOK, HeldOnce, Holder
<1>4. \A q \in Procs : Holder(q)' => q = p
  BY <1>3 DEF Holder
<1>5. journal'.hole = NoHole
  <2>1. Last(journal.lines, 0) \in Nat /\ \A l \in journal.lines : l.seq <= Last(journal.lines, 0)
    <3>1. 0 \in 0..MaxSeq /\ journal.lines \in SUBSET Lines
      BY Numbers DEF LedgerTypeOK
    <3> QED BY <3>1, LastIsLargest, Numbers
  <2>2. End(p) = 0 \/ \E l \in journal.lines : l.seq = End(p)
    BY <1>1 DEF HeldOnce
  <2>3. ~ (End(p) > Last(journal.lines, 0))
    BY <2>1, <2>2, Numbers
  <2> QED BY <2>3 DEF Begins, HeldOnce, End
<1>6. HeldOnce'
  <2>1. End(p) # 0 => \E l \in journal'.lines : l.seq = End(p)
    BY <1>1, Numbers DEF HeldOnce
  <2> QED BY <1>1, <1>2, <1>4, <1>5, <2>1 DEF HeldOnce, LastSeq, End, Holder
<1>7. SyncedIsKept' /\ SequencesAreUsedOnce' /\ LinesAreTold' /\ SnapshotIsTold'
  <2>1. SyncedIsKept'
    BY <1>1, <1>2, <1>4, Numbers DEF SyncedIsKept, End
  <2> QED BY <1>1, <2>1 DEF SequencesAreUsedOnce, LinesAreTold, SnapshotIsTold
<1>8. MemoryIsTrue'
  <2>1. \A l : Within(p, l)' <=> Within(p, l)
    BY <1>1, <1>2 DEF Within, End
  <2>2. \A l : Within(p, l) => l \in journal'.lines /\ l \in journal.lines
    BY <1>1 DEF Within
  <2>3. ASSUME NEW path \in Paths \ memory'[p].dirty PROVE LastWord(p, path)'
    <3>1. LastWord(p, path)
      BY <1>1, <1>2 DEF MemoryIsTrue
    <3> QED BY <1>1, <1>2, <2>1, <2>2, <3>1 DEF LastWord
  <2> QED BY <1>4, <2>3 DEF MemoryIsTrue
<1>9. SavesTheChanges'
  <2>1. Written(p)' = {}
    BY <1>2 DEF Written
  <2>2. \A l \in journal'.lines : ~ (l.seq > End(p))
    BY <1>1, Numbers
  <2> QED BY <1>1, <1>2, <1>3, <2>1, <2>2 DEF SavesTheChanges, End
<1>10. Compacts'
  BY <1>2, <1>3 DEF Compacts
<1> QED BY <1>6, <1>7, <1>8, <1>9, <1>10

(* A line that is written is past every other; it may be read at once.     *)
LEMMA WritesKeeps ==
  ASSUME LedgerInv, LedgerTypeOK', NEW p \in Procs, NEW path \in Paths, Writes(p, path)
  PROVE  LedgerInv'
<1> USE DEF LedgerInv
<1> DEFINE line == [seq |-> LastSeq(p) + 1, path |-> path, record |-> memory[p].files[path]]
<1>1. /\ journal' = [journal EXCEPT !.lines = @ \cup {line}]
      /\ synced' = synced /\ snapshot' = snapshot /\ lock' = lock
      /\ memory[p].pc = "write" /\ Holder(p) /\ path \in memory[p].todo
  BY DEF Writes, Holder, LastSeq
<1>2. /\ journal'.lines = journal.lines \cup {line} /\ journal'.hole = journal.hole
      /\ line.seq = LastSeq(p) + 1 /\ line.path = path /\ line.record = memory[p].files[path]
  BY <1>1 DEF LedgerTypeOK
<1>3. /\ memory'[p].pc = "write" /\ memory'[p].dirty = memory[p].dirty
      /\ memory'[p].seq = LastSeq(p) + 1 /\ memory'[p].end = memory[p].end
      /\ memory'[p].files = memory[p].files /\ memory'[p].todo = memory[p].todo \ {path}
  BY DEF Writes, LedgerTypeOK, LastSeq
<1>4. \A q \in Procs : q # p => memory'[q] = memory[q] /\ memory[q].pc = "out"
  BY <1>1 DEF Writes, LedgerTypeOK, HeldOnce, Holder
<1>5. \A q \in Procs : Holder(q)' => q = p
  BY <1>4 DEF Holder
<1>6. /\ memory[p].files[path] \in told'[path]
      /\ \A other \in Paths : told[other] \subseteq told'[other]
  BY DEF Writes, LedgerTypeOK
<1>7. /\ \A l \in journal.lines \cup synced : l.seq < line.seq
      /\ snapshot.seq < line.seq /\ End(p) < line.seq /\ line.seq \in Nat
  BY <1>1, <1>2, Numbers DEF HeldOnce
<1> HIDE DEF line
<1>8. HeldOnce'
  <2>1. \A l \in journal'.lines \cup synced' : l.seq <= line.seq
    BY <1>1, <1>2, <1>7, Numbers
  <2>2. snapshot.seq <= line.seq /\ End(p) <= line.seq
    BY <1>7, Numbers
  <2>3. End(p) # 0 => \E l \in journal'.lines : l.seq = End(p)
    BY <1>1, <1>2 DEF HeldOnce
  <2> QED BY <1>1, <1>2, <1>3, <1>5, <2>1, <2>2, <2>3 DEF HeldOnce, LastSeq, End
<1>9. SyncedIsKept' /\ SequencesAreUsedOnce' /\ LinesAreTold' /\ SnapshotIsTold'
  <2>1. SyncedIsKept'
    BY <1>1, <1>2, <1>3, <1>5 DEF SyncedIsKept, End
  <2>2. SequencesAreUsedOnce'
    BY <1>1, <1>2, <1>7, Numbers DEF SequencesAreUsedOnce
  <2>3. LinesAreTold'
    BY <1>1, <1>2, <1>6, Numbers DEF LinesAreTold
  <2>4. SnapshotIsTold'
    BY <1>1, <1>6 DEF SnapshotIsTold
  <2> QED BY <2>1, <2>2, <2>3, <2>4
<1>10. MemoryIsTrue'
  <2>1. \A l : Within(p, l)' <=> Within(p, l)
    BY <1>1, <1>2, <1>3, <1>7, Numbers DEF Within, End
  <2>2. \A l : Within(p, l) => l \in journal'.lines /\ l \in journal.lines
    BY <1>2 DEF Within
  <2>3. ASSUME NEW other \in Paths \ memory'[p].dirty PROVE LastWord(p, other)'
    <3>1. LastWord(p, other)
      BY <1>1, <1>3 DEF MemoryIsTrue
    <3> QED BY <1>1, <1>3, <2>1, <2>2, <3>1 DEF LastWord
  <2> QED BY <1>5, <2>3 DEF MemoryIsTrue
<1>11. SavesTheChanges'
  <2>1. Written(p)' = Written(p) \cup {path} /\ memory'[p].todo \subseteq memory'[p].dirty
    BY <1>1, <1>3 DEF Written, SavesTheChanges
  <2>2. \A l \in journal'.lines : l.seq > End(p) =>
          l.path \in Written(p)' /\ l.record = memory'[p].files[l.path]
    BY <1>1, <1>2, <1>3, <2>1 DEF SavesTheChanges
  <2>3. \A other \in Written(p)' : \E l \in journal'.lines :
          l.path = other /\ l.seq > End(p) /\ l.seq > snapshot.seq
    BY <1>1, <1>2, <1>7, <2>1, Numbers DEF SavesTheChanges
  <2>4. \E l \in journal'.lines : l.seq = LastSeq(p)'
    BY <1>2, <1>3 DEF LastSeq
  <2> QED BY <1>1, <1>3, <1>4, <2>1, <2>2, <2>3, <2>4 DEF SavesTheChanges, End
<1>12. Compacts'
  BY <1>3, <1>4 DEF Compacts
<1> QED BY <1>8, <1>9, <1>10, <1>11, <1>12

(* The sync makes the last line of each path the only thing to be read.    *)
LEMMA SyncsKeeps ==
  ASSUME LedgerInv, LedgerTypeOK', NEW p \in Procs, Syncs(p)
  PROVE  LedgerInv'
<1> USE DEF LedgerInv
<1>1. /\ journal' = journal /\ synced' = journal.lines /\ snapshot' = snapshot /\ lock' = lock
      /\ memory[p].pc = "write" /\ Holder(p) /\ memory[p].todo = {}
  BY DEF Syncs, Holder
<1>2. /\ memory'[p].pc = "synced" /\ memory'[p].dirty = {}
      /\ memory'[p].seq = LastSeq(p) /\ memory'[p].end = LastSeq(p)
      /\ memory'[p].files = memory[p].files
  BY DEF Syncs, LedgerTypeOK, LastSeq
<1>3. \A q \in Procs : q # p => memory'[q] = memory[q] /\ memory[q].pc = "out"
  BY <1>1 DEF Syncs, LedgerTypeOK, HeldOnce, Holder
<1>4. \A q \in Procs : Holder(q)' => q = p
  BY <1>3 DEF Holder
<1>5. \A path \in Paths : memory[p].files[path] \in told'[path]
  BY DEF Syncs
<1>6. \A l \in journal.lines : l.seq <= LastSeq(p)
  BY <1>1 DEF HeldOnce
<1>7. Written(p) = memory[p].dirty /\ Written(p) # {}
  BY <1>1 DEF Written, SavesTheChanges
(* A line is the last word of memory on its path, or is followed by one.   *)
<1>8. ASSUME NEW path \in Paths PROVE LastWord(p, path)'
  <2>1. \A l \in journal.lines : Within(p, l)' <=> snapshot.seq < l.seq
    BY <1>1, <1>2, <1>6, Numbers DEF Within, End
  <2>2. CASE path \in memory[p].dirty
    <3>1. PICK k \in journal.lines : k.path = path /\ k.seq > End(p) /\ k.seq > snapshot.seq
      BY <1>1, <1>7, <2>2 DEF SavesTheChanges
    <3>2. \A l \in journal.lines : l.path = path =>
            l.record = memory[p].files[path] \/ k.seq > l.seq
      BY <1>1, <3>1, Numbers DEF SavesTheChanges
    <3> QED BY <1>1, <1>2, <2>1, <3>1, <3>2 DEF LastWord
  <2>3. CASE path \notin memory[p].dirty
    <3>1. LastWord(p, path)
      BY <1>1, <2>3 DEF MemoryIsTrue
    <3>2. \A l \in journal.lines : l.path = path => l.seq <= End(p)
      BY <1>1, <1>7, <2>3, Numbers DEF SavesTheChanges
    <3>3. \A l \in journal.lines : l.path = path => (Within(p, l)' <=> Within(p, l))
      BY <2>1, <3>2 DEF Within
    <3> QED BY <1>1, <1>2, <3>1, <3>3 DEF LastWord
  <2> QED BY <2>2, <2>3
<1>9. HeldOnce'
  <2>1. \E l \in journal.lines : l.seq = LastSeq(p)
    BY <1>1, <1>7 DEF SavesTheChanges
  <2> QED BY <1>1, <1>2, <1>4, <2>1, Numbers DEF HeldOnce, LastSeq, End, Holder
<1>10. SyncedIsKept' /\ SequencesAreUsedOnce'
  BY <1>1, <1>2, <1>4, <1>6 DEF SyncedIsKept, SequencesAreUsedOnce, End
<1>11. LinesAreTold' /\ SnapshotIsTold'
  <2>1. \A l \in journal.lines : Within(p, l)' <=> snapshot.seq < l.seq
    BY <1>1, <1>2, <1>6, Numbers DEF Within, End
  <2>2. LinesAreTold'
    <3> SUFFICES ASSUME NEW l \in journal.lines, l.seq > snapshot.seq
                 PROVE  l.record \in told'[l.path] \/ \E k \in journal.lines : k.path = l.path /\ k.seq > l.seq
      BY <1>1 DEF LinesAreTold
    <3>1. l.path \in Paths /\ Within(p, l)'
      BY <2>1, Numbers
    <3> QED BY <1>1, <1>2, <1>5, <1>8, <3>1 DEF LastWord
  <2>3. SnapshotIsTold'
    <3> SUFFICES ASSUME NEW path \in Paths
                 PROVE  snapshot.files[path] \in told'[path]
                        \/ \E k \in journal.lines : k.path = path /\ k.seq > snapshot.seq
      BY <1>1 DEF SnapshotIsTold
    <3>1. LastWord(p, path)'
      BY <1>8
    <3> QED BY <1>1, <1>2, <1>5, <2>1, <3>1, Numbers DEF LastWord
  <2> QED BY <2>2, <2>3
<1>12. MemoryIsTrue'
  BY <1>4, <1>8 DEF MemoryIsTrue
<1>13. SavesTheChanges' /\ Compacts'
  BY <1>2, <1>3, <1>5 DEF SavesTheChanges, Compacts
<1> QED BY <1>9, <1>10, <1>11, <1>12, <1>13

(* A snapshot of what is remembered leaves no line to be read behind it.   *)
LEMMA SnapshotsKeeps ==
  ASSUME LedgerInv, LedgerTypeOK', NEW p \in Procs, Snapshots(p)
  PROVE  LedgerInv'
<1> USE DEF LedgerInv
<1>1. /\ journal' = journal /\ synced' = synced /\ told' = told /\ lock' = lock
      /\ snapshot'.seq = LastSeq(p) /\ snapshot'.files = memory[p].files
      /\ memory[p].pc = "synced" /\ Holder(p)
  BY DEF Snapshots, Holder, LastSeq
<1>2. /\ memory'[p].pc = "empty" /\ memory'[p].dirty = memory[p].dirty
      /\ memory'[p].seq = memory[p].seq /\ memory'[p].end = memory[p].end
      /\ memory'[p].files = memory[p].files
  BY DEF Snapshots, Lands, LedgerTypeOK
<1>3. \A q \in Procs : q # p => memory'[q] = memory[q] /\ memory[q].pc = "out"
  BY <1>1 DEF Snapshots, Lands, LedgerTypeOK, HeldOnce, Holder
<1>4. \A q \in Procs : Holder(q)' => q = p
  BY <1>3 DEF Holder
<1>5. HeldOnce'
  BY <1>1, <1>2, <1>4, Numbers DEF HeldOnce, LastSeq, End, Holder
<1>6. \A l \in journal.lines \cup synced : ~ (l.seq > snapshot'.seq)
  BY <1>1, Numbers DEF HeldOnce
<1>7. SyncedIsKept' /\ SequencesAreUsedOnce' /\ LinesAreTold'
  BY <1>1, <1>6 DEF SyncedIsKept, SequencesAreUsedOnce, LinesAreTold
<1>8. SnapshotIsTold'
  BY <1>1 DEF SnapshotIsTold, Compacts
<1>9. MemoryIsTrue'
  BY <1>1, <1>2, <1>4, <1>6, Numbers DEF MemoryIsTrue, LastWord, Within
<1>10. SavesTheChanges' /\ Compacts'
  BY <1>1, <1>2, <1>3 DEF SavesTheChanges, Compacts, LastSeq
<1> QED BY <1>5, <1>7, <1>8, <1>9, <1>10

(* Lines that the snapshot has may go, and so may the sync of them.        *)
LEMMA EmptiesKeeps ==
  ASSUME LedgerInv, LedgerTypeOK', NEW p \in Procs, Empties(p) \/ SyncsEmpty(p)
  PROVE  LedgerInv'
<1> USE DEF LedgerInv
<1>1. /\ told' = told /\ lock' = lock /\ snapshot' = snapshot /\ Holder(p)
      /\ memory[p].pc \in {"empty", "emptied"}
      /\ journal'.hole = NoHole /\ journal'.lines \subseteq journal.lines
      /\ synced' \subseteq synced
  BY DEF Empties, SyncsEmpty, Holder, HeldOnce
<1>2. /\ snapshot.seq = LastSeq(p) /\ snapshot.files = memory[p].files
      /\ \A l \in journal.lines \cup synced : ~ (l.seq > snapshot.seq)
  BY <1>1, Numbers DEF Compacts, HeldOnce
<1>3. /\ memory'[p].pc \in {"emptied", "in"} /\ memory'[p].dirty = memory[p].dirty
      /\ memory'[p].seq = memory[p].seq /\ memory'[p].files = memory[p].files
      /\ (memory'[p].end = 0 \/ (memory'[p].pc = "emptied" /\ memory'[p].end = memory[p].end))
  BY DEF Empties, SyncsEmpty, Lands, LedgerTypeOK
<1>4. \A q \in Procs : q # p => memory'[q] = memory[q] /\ memory[q].pc = "out"
  BY <1>1 DEF Empties, SyncsEmpty, Lands, LedgerTypeOK, HeldOnce, Holder
<1>5. \A q \in Procs : Holder(q)' => q = p
  BY <1>4 DEF Holder
<1>6. HeldOnce'
  <2>1. End(p)' <= LastSeq(p)
    BY <1>1, <1>3, Numbers DEF HeldOnce, End
  <2> QED BY <1>1, <1>3, <1>5, <2>1, Numbers DEF HeldOnce, LastSeq, End, Holder
<1>7. SyncedIsKept' /\ SequencesAreUsedOnce' /\ LinesAreTold'
  BY <1>1, <1>2 DEF SyncedIsKept, SequencesAreUsedOnce, LinesAreTold
<1>8. SnapshotIsTold'
  BY <1>1, <1>2 DEF SnapshotIsTold
<1>9. MemoryIsTrue'
  BY <1>1, <1>2, <1>3, <1>5, Numbers DEF MemoryIsTrue, LastWord, Within
<1>10. SavesTheChanges' /\ Compacts'
  BY <1>1, <1>2, <1>3, <1>4 DEF SavesTheChanges, Compacts, LastSeq
<1> QED BY <1>6, <1>7, <1>8, <1>9, <1>10

(* What a power failure leaves still has the synced lines the snapshot has *)
(* not, and no line that was not there.                                    *)
LEMMA PowerFailsKeeps ==
  ASSUME LedgerInv, LedgerTypeOK', PowerFails
  PROVE  LedgerInv'
<1> USE DEF LedgerInv
<1>1. PICK n \in 0..MaxSeq, kept \in {synced, synced \cap journal.lines} :
        journal' = [journal EXCEPT !.lines = kept \cup {l \in journal.lines : l.seq <= n}]
  BY DEF PowerFails
<1>2. /\ journal'.hole = NoHole /\ journal'.lines = kept \cup {l \in journal.lines : l.seq <= n}
      /\ synced' = journal'.lines /\ snapshot' = snapshot /\ told' = told
  BY <1>1 DEF PowerFails, LedgerTypeOK, HeldOnce
<1>3. \A q \in Procs : memory'[q].pc = "out" /\ ~Holder(q)'
  BY DEF PowerFails, Holder, Absent
<1>4. /\ \A l \in journal'.lines : l.seq > snapshot.seq => l \in journal.lines
      /\ \A l \in synced : l.seq > snapshot.seq => l \in journal'.lines
  BY <1>2 DEF SyncedIsKept
<1>5. LinesAreTold'
  BY <1>2, <1>4, Numbers DEF LinesAreTold
<1>6. SnapshotIsTold'
  BY <1>2, <1>4 DEF SnapshotIsTold
<1> QED
  BY <1>2, <1>3, <1>4, <1>5, <1>6
     DEF HeldOnce, SyncedIsKept, SequencesAreUsedOnce, MemoryIsTrue, SavesTheChanges, Compacts

(* Every step of LedgerNext keeps the invariant, action by action.  Only here    *)
(* does the sync that ends a compaction matter: had it failed, the Save    *)
(* would return with a synced journal that is not the one it cuts.         *)
LEMMA InvPreserved ==
  ASSUME LateSyncFails = FALSE, LedgerInv, [LedgerNext]_ledger_vars
  PROVE  LedgerInv'
<1>1. LedgerTypeOK'
  BY TypePreserved DEF LedgerInv
<1>2. CASE UNCHANGED ledger_vars
  BY <1>2 DEF ledger_vars, LedgerInv, LedgerTypeOK, HeldOnce, SyncedIsKept, SequencesAreUsedOnce,
              LinesAreTold, SnapshotIsTold, MemoryIsTrue, LastWord, Within, SavesTheChanges,
              Written, Compacts, Holder, LastSeq, End
<1>3. CASE PowerFails
  BY <1>1, <1>3, PowerFailsKeeps
<1>4. CASE \E p \in Procs : Loads(p) \/ Leaves(p) \/ Killed(p)
  BY <1>1, <1>4, LoadsKeeps, GivenUp
<1>5. CASE \E p \in Procs : Begins(p) \/ Syncs(p) \/ Returns(p) \/ Fails(p)
  BY <1>1, <1>5, BeginsKeeps, SyncsKeeps, SaveEnds
<1>6. CASE \E p \in Procs : Snapshots(p) \/ Empties(p) \/ SyncsEmpty(p)
  BY <1>1, <1>6, SnapshotsKeeps, EmptiesKeeps
<1>7. CASE \E p \in Procs, path \in Paths :
             Writes(p, path) \/ \E r \in Records \cup {Nothing} : Puts(p, path, r)
  BY <1>1, <1>7, WritesKeeps, PutsKeeps
<1> QED BY <1>2, <1>3, <1>4, <1>5, <1>6, <1>7 DEF LedgerNext

(* The ledger, its file and what the processes remember keep their types   *)
(* (Ledger in ledger.go), whatever the sync of a compaction does.          *)
THEOREM LedgerTypeCorrect == LedgerSpec => []LedgerTypeOK
<1>1. LedgerInit => LedgerTypeOK
  BY InitInv DEF LedgerInv
<1>2. LedgerTypeOK /\ [LedgerNext]_ledger_vars => LedgerTypeOK'
  BY TypePreserved
<1> QED BY <1>1, <1>2, PTL DEF LedgerSpec

(* What a Save has returned for is what the next sweep reads, however many *)
(* processes, paths, changes and failures there are (Ledger.Save and       *)
(* Ledger.replay), as long as the sync that ends a compaction does not     *)
(* fail by itself: without that it is not so.                              *)
THEOREM AcknowledgedReceiptsSurvive ==
  ASSUME LateSyncFails = FALSE
  PROVE  LedgerSpec => []ReceiptsSurvive
<1>1. LedgerInit => LedgerInv
  BY InitInv
<1>2. LedgerInv /\ [LedgerNext]_ledger_vars => LedgerInv'
  BY InvPreserved
<1>3. LedgerInv => ReceiptsSurvive
  BY ReceiptsAreTold
<1> QED BY <1>1, <1>2, <1>3, PTL DEF LedgerSpec
=============================================================================
