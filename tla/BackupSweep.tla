------------------------------ MODULE BackupSweep ------------------------------
(***************************************************************************)
(* One file of a watched folder through sweeps of it: Manager.sweep,       *)
(* sweepWatch, pushIfChanged and verify in internal/worker/backup/         *)
(* backup.go, pushSync and syncDeletions in sync.go, Scan in scan.go,      *)
(* snapshot in snapshot.go, and the routes of library.go.                  *)
(*                                                                         *)
(* A folder is either retained (copies are kept, and labelled) or synced   *)
(* (a deletion goes to the Bin).  The file's bytes are a number, and so is *)
(* what stat says of it.  Ledger writes are those of BackupLedger: Save is *)
(* durable or did not happen.  An upload of a synced file is the one of    *)
(* module Upload in a single step: one version of the file, or nothing.    *)
(***************************************************************************)
EXTENDS Integers

CONSTANTS MaxEdits,   \* bound: writes by the owner of the machine
          MaxClouds,  \* bound: new versions from elsewhere
          MaxFaults,  \* bound: lost calls and replies, and crashes
          MaxMoves,   \* bound: disks unmounted
          None        \* no file, no copy, no record of it

SweepAssumption ==
  MaxEdits \in Nat /\ MaxClouds \in Nat /\ MaxFaults \in Nat /\ MaxMoves \in Nat

VARIABLES watch,    \* the folder's mode, and whether its files take the session route
          disk,     \* the mount, and the file on it
          row,      \* the stored copy at this machine and path, out of the Bin
          session,  \* upload sessions by the bytes they are for
          job,      \* the transfer of a synced file
          kept,     \* the ledger's record, as a crash leaves it
          sweep,    \* the sweep: where it is, and what it has read
          person,   \* history: the owner has deleted the file since it was stored
          others,   \* history: digests that came from elsewhere
          budget

vars == <<watch, disk, row, session, job, kept, sweep, person, others, budget>>

Contents == 1..(MaxEdits + 1)
Cloud == MaxEdits + 2   \* the bytes of a version from elsewhere

Unknown == [stamp |-> None, sha |-> None, file |-> FALSE, version |-> 0, link |-> None,
            session |-> None, transfer |-> FALSE, bin |-> FALSE]
Resting == [pc |-> "idle", entry |-> None, root |-> "here", skipped |-> FALSE, mem |-> Unknown,
            prior |-> Unknown, bytes |-> None, stamp |-> None]

Init ==
  /\ watch \in [mode : {"retain", "sync"}, big : BOOLEAN]
  /\ disk = [mount |-> "here", file |-> [bytes |-> 1, stamp |-> 1]]
  /\ row = None /\ session = [d \in Contents |-> None] /\ job = None
  /\ kept = Unknown
  /\ sweep = Resting
  /\ person = FALSE /\ others = {}
  /\ budget = [edits |-> 1, clouds |-> 0, faults |-> 0, moves |-> 0]

-----------------------------------------------------------------------------
(* What a look at the path finds: the file, its absence, or an error.       *)
Here == disk.mount = "here"
File == IF Here THEN disk.file ELSE None
Absent == disk.mount # "gone" /\ File = None

To(pc) == sweep' = [sweep EXCEPT !.pc = pc]
After == IF watch.mode = "sync" THEN "delete" ELSE "verify"

(* Put, and Save: the record in memory, and on disk.                        *)
Put(rec, pc) == sweep' = [sweep EXCEPT !.mem = rec, !.prior = rec, !.pc = pc] /\ UNCHANGED kept
PutAndSave(rec, pc) ==
  sweep' = [sweep EXCEPT !.mem = rec, !.prior = rec, !.pc = pc] /\ kept' = rec

Labelled(link) == IF row = None THEN row ELSE [row EXCEPT !.link = link]

-----------------------------------------------------------------------------
(* The cluster, as the worker uses it                                      *)

Version == IF row = None THEN 0 ELSE row.version

(* A push of bytes for a version that is expected, or for none in           *)
(* particular; the (machine, path) key makes it the next version.           *)
Accepts(expected) == expected = 0 \/ (row # None /\ row.version = expected)
Stored(digest) == [digest |-> digest, version |-> Version + 1, link |-> "synced"]

-----------------------------------------------------------------------------
(* The sweep                                                               *)

(* The ledger is read again, and the folder walked.  A missing root, or an  *)
(* unreadable one, makes every copy unavailable and ends the pass; a part   *)
(* of the tree that cannot be read is counted.                              *)
Scans ==
  /\ sweep.pc = "idle"
  /\ IF disk.mount = "gone"
       THEN /\ row' = IF kept.file THEN Labelled("unavailable") ELSE row
            /\ kept' = IF kept.file THEN [kept EXCEPT !.link = "unavailable"] ELSE kept
            /\ UNCHANGED sweep
       ELSE /\ \E skipped \in BOOLEAN :
                 sweep' = [Resting EXCEPT
                   !.pc = IF skipped \/ File = None THEN After
                          ELSE IF watch.mode = "sync" THEN "sync" ELSE "push",
                   !.entry = IF skipped \/ File = None THEN None ELSE File.stamp,
                   !.root = disk.mount, !.skipped = skipped, !.mem = kept, !.prior = kept]
            /\ UNCHANGED <<row, kept>>
  /\ UNCHANGED <<watch, disk, session, job, person, others, budget>>

(* pushIfChanged: an unchanged stamp costs nothing, and otherwise the file  *)
(* is copied aside and what this copy has is what is declared and recorded. *)
Snapshots ==
  /\ sweep.pc = "push"
  /\ sweep' = IF sweep.mem.stamp = sweep.entry \/ File = None
                THEN [sweep EXCEPT !.pc = After]
                ELSE [sweep EXCEPT !.pc = IF sweep.mem.version = 0 THEN "baseline" ELSE "send",
                                   !.bytes = File.bytes, !.stamp = File.stamp]
  /\ UNCHANGED <<watch, disk, row, session, job, kept, person, others, budget>>

(* Mutant: any stored copy is taken as the baseline.                        *)
AdoptsAnything ==
  /\ sweep.pc = "baseline"
  /\ sweep' = [sweep EXCEPT !.prior.file = (row # None), !.prior.version = Version, !.pc = "send"]
  /\ UNCHANGED <<watch, disk, row, session, job, kept, person, others, budget>>

(* Without a version to build on, a stored copy must be this file, or the   *)
(* one this machine knows it stored.                                        *)
ReadsBaseline ==
  /\ sweep.pc = "baseline"
  /\ LET adopted == [sweep.prior EXCEPT !.file = TRUE, !.version = Version] IN
     IF row = None THEN To("send") /\ UNCHANGED <<row, kept>>
     ELSE IF row.digest \notin {sweep.bytes, sweep.prior.sha}
       THEN row' = Labelled("conflict") /\ To(After) /\ UNCHANGED kept
     ELSE IF row.digest = sweep.bytes
       THEN /\ PutAndSave([adopted EXCEPT !.stamp = sweep.stamp, !.sha = sweep.bytes,
                                          !.link = "synced"], After)
            /\ UNCHANGED row
     ELSE /\ sweep' = [sweep EXCEPT !.prior = adopted, !.pc = "send"]
          /\ UNCHANGED <<row, kept>>
  /\ UNCHANGED <<watch, disk, session, job, person, others, budget>>

(* The same bytes need no upload; a session is looked up or opened, and its *)
(* id is saved before the first chunk.                                      *)
Sends ==
  /\ sweep.pc = "send"
  /\ IF sweep.prior.sha = sweep.bytes /\ sweep.prior.file
       THEN Put([sweep.prior EXCEPT !.stamp = sweep.stamp], After) /\ UNCHANGED session
     ELSE IF ~watch.big \/ sweep.mem.session = sweep.bytes
       THEN To("commit") /\ UNCHANGED <<kept, session>>
     ELSE /\ session' = [session EXCEPT ![sweep.bytes] = [expected |-> sweep.prior.version, done |-> 0]]
          /\ To("remember") /\ UNCHANGED kept
  /\ UNCHANGED <<watch, disk, row, job, person, others, budget>>

Remembers ==
  /\ sweep.pc = "remember"
  /\ PutAndSave([sweep.prior EXCEPT !.session = sweep.bytes], "commit")
  /\ UNCHANGED <<watch, disk, row, session, job, person, others, budget>>

(* The commit on the cluster's side: a session that was completed answers   *)
(* again, and nothing is stored twice.                                      *)
Committed(answer) ==
  LET d == sweep.bytes
      expected == IF watch.big THEN session[d].expected ELSE sweep.prior.version IN
    IF watch.big /\ session[d].done > 0
      THEN answer = session[d].done /\ UNCHANGED <<row, session>>
    ELSE IF Accepts(expected)
      THEN /\ row' = Stored(d) /\ answer = Version + 1
           /\ session' = IF watch.big THEN [session EXCEPT ![d].done = answer] ELSE session
    ELSE answer = 0 /\ UNCHANGED <<row, session>>

(* Mutant: the stamp that is recorded is the file's after the upload.       *)
ReceiptOfNow(version) ==
  [Unknown EXCEPT !.stamp = IF File = None THEN None ELSE File.stamp, !.sha = sweep.bytes,
                  !.file = TRUE, !.version = version, !.link = "synced"]

Receipt(version) ==
  [Unknown EXCEPT !.stamp = sweep.stamp, !.sha = sweep.bytes, !.file = TRUE, !.version = version,
                  !.link = "synced"]

Commits ==
  /\ sweep.pc = "commit"
  /\ \E answer \in 0..(Version + 1) :
       /\ Committed(answer)
       /\ IF answer = 0 THEN To("refused") /\ UNCHANGED kept
          ELSE Put(Receipt(answer), "save")
  /\ UNCHANGED <<watch, disk, job, person, others, budget>>

Saves ==
  /\ sweep.pc = "save"
  /\ PutAndSave(sweep.mem, After)
  /\ UNCHANGED <<watch, disk, row, session, job, person, others, budget>>

(* A refused version is a conflict, of a copy this machine had stored.      *)
Refused ==
  /\ sweep.pc = "refused"
  /\ IF sweep.prior.file
       THEN Put([sweep.prior EXCEPT !.link = "conflict"], After) /\ row' = Labelled("conflict")
       ELSE To(After) /\ UNCHANGED <<row, kept>>
  /\ UNCHANGED <<watch, disk, session, job, person, others, budget>>

(* verify: the label of the copy, written when it changed or is old; then   *)
(* the deferred Save.                                                       *)
Label ==
  IF sweep.entry = None THEN IF Absent THEN "origin_gone" ELSE "unavailable"
  ELSE IF sweep.entry = sweep.mem.stamp THEN "synced"
  ELSE IF sweep.mem.link = "conflict" THEN "conflict" ELSE "stale"

Verifies ==
  /\ sweep.pc = "verify"
  /\ \E old \in BOOLEAN :
       row' = IF sweep.mem.file /\ (old \/ sweep.mem.link # Label) THEN Labelled(Label) ELSE row
  /\ kept' = IF sweep.mem.file THEN [sweep.mem EXCEPT !.link = Label] ELSE sweep.mem
  /\ sweep' = Resting
  /\ UNCHANGED <<watch, disk, session, job, person, others, budget>>

-----------------------------------------------------------------------------
(* Sync mode                                                               *)

(* A file that came back out of the Bin starts anew, or from its restored   *)
(* copy; an unfinished transfer is taken up again.                          *)
Begins ==
  /\ sweep.pc = "sync"
  /\ LET p == IF ~sweep.mem.bin THEN sweep.mem
              ELSE IF row = None THEN Unknown ELSE [sweep.mem EXCEPT !.bin = FALSE] IN
       sweep' = [sweep EXCEPT !.prior = p,
                   !.pc = IF ~sweep.mem.bin /\ p.stamp = sweep.entry /\ ~p.transfer THEN After
                          ELSE IF p.transfer THEN "run" ELSE "compare"]
  /\ UNCHANGED <<watch, disk, row, session, job, kept, person, others, budget>>

(* The copy must be this file, or the version this machine stored last; the *)
(* transfer's id is saved before the transfer exists.                       *)
Compares ==
  /\ sweep.pc = "compare"
  /\ LET p == sweep.prior IN
     IF File = None THEN To(After) /\ UNCHANGED <<kept, job>>
     ELSE IF row # None /\ row.digest = File.bytes
       THEN /\ PutAndSave([p EXCEPT !.stamp = sweep.entry, !.sha = File.bytes, !.file = TRUE,
                                    !.version = Version, !.link = "synced"], After)
            /\ UNCHANGED job
     ELSE IF IF row = None THEN p.file
             ELSE ~p.file \/ p.sha # row.digest \/ p.version # row.version
       THEN To(After) /\ UNCHANGED <<kept, job>>
     ELSE PutAndSave([p EXCEPT !.transfer = TRUE], "run") /\ job' = None
  /\ UNCHANGED <<watch, disk, row, session, person, others, budget>>

(* Create and Run: a transfer that was finished says so, one that was       *)
(* prepared keeps its digest, and its commit wants the expected version.    *)
Ran(ok) ==
  IF job # None /\ job.done > 0 THEN ok = (File # None /\ File.bytes = job.digest) /\ UNCHANGED <<row, job>>
  ELSE IF File # None /\ ((row = None /\ sweep.prior.version = 0)
                          \/ (row # None /\ row.version = sweep.prior.version))
    THEN /\ ok = TRUE /\ row' = Stored(File.bytes)
         /\ job' = [digest |-> File.bytes, done |-> Version + 1]
  ELSE ok = FALSE /\ UNCHANGED <<row, job>>

Runs ==
  /\ sweep.pc = "run"
  /\ \E ok \in BOOLEAN :
       /\ Ran(ok)
       /\ sweep' = [sweep EXCEPT
            !.pc = IF ok THEN "save" ELSE After,
            !.mem = IF ok THEN [Unknown EXCEPT !.stamp = sweep.entry, !.sha = job'.digest, !.file = TRUE,
                                               !.version = job'.done, !.link = "synced"] ELSE @]
       /\ person' = (person /\ ~ok)
  /\ UNCHANGED <<watch, disk, session, kept, others, budget>>

(* Mutant: the disk of the closest surviving ancestor is not compared.      *)
IsAbsent ==
  /\ ~sweep.skipped /\ disk.mount = sweep.root
  /\ sweep.entry = None /\ sweep.mem.file /\ ~sweep.mem.bin /\ ~sweep.mem.transfer
  /\ Absent

(* A deletion is believed of a whole scan of this very root, of a path that *)
(* is absent where the file's own disk is; the cluster wants the version    *)
(* that was stored.                                                         *)
IsDeleted ==
  /\ ~sweep.skipped /\ disk.mount = sweep.root
  /\ sweep.entry = None /\ sweep.mem.file /\ ~sweep.mem.bin /\ ~sweep.mem.transfer
  /\ Absent /\ Here

Binned == row # None /\ row.digest = sweep.mem.sha /\ row.version = sweep.mem.version

Deletes ==
  /\ sweep.pc = "delete"
  /\ IF IsDeleted THEN To("bin") /\ UNCHANGED kept
     ELSE kept' = sweep.mem /\ sweep' = Resting
  /\ UNCHANGED <<watch, disk, row, session, job, person, others, budget>>

Bins ==
  /\ sweep.pc = "bin"
  /\ IF Binned
       THEN /\ row' = None /\ kept' = [sweep.mem EXCEPT !.bin = TRUE, !.link = "origin_gone"]
            /\ sweep' = Resting
       ELSE kept' = sweep.mem /\ sweep' = Resting /\ UNCHANGED row
  /\ UNCHANGED <<watch, disk, session, job, person, others, budget>>

-----------------------------------------------------------------------------
(* Failures, and the people at both ends                                   *)

Fault == budget.faults < MaxFaults /\ budget' = [budget EXCEPT !.faults = @ + 1]

(* A call fails, or its reply is lost after the cluster did what it says.   *)
CallIsLost ==
  /\ Fault
  /\ \/ sweep.pc \in {"baseline", "compare", "commit", "run", "bin", "verify"}
                        \cup (IF watch.big THEN {"send"} ELSE {})
        /\ UNCHANGED <<row, session, job>>
     \/ sweep.pc = "commit" /\ (\E answer \in 0..(Version + 1) : Committed(answer)) /\ UNCHANGED job
     \/ sweep.pc = "run" /\ (\E ok \in BOOLEAN : Ran(ok)) /\ UNCHANGED session
     \/ sweep.pc = "bin" /\ Binned /\ row' = None /\ UNCHANGED <<session, job>>
  /\ IF sweep.pc \in {"bin", "verify"} THEN kept' = sweep.mem /\ sweep' = Resting ELSE To(After) /\ UNCHANGED kept
  /\ UNCHANGED <<watch, disk, person, others>>

(* The process dies, or a Save fails and the ledger is read again.          *)
Crashes ==
  /\ Fault /\ sweep.pc # "idle"
  /\ sweep' = Resting
  /\ UNCHANGED <<watch, disk, row, session, job, kept, person, others>>

(* The file is written, or only touched.                                    *)
Writes ==
  /\ budget.edits <= MaxEdits /\ Here
  /\ budget' = [budget EXCEPT !.edits = @ + 1]
  /\ \E bytes \in {budget'.edits} \cup (IF File = None THEN {} ELSE {File.bytes}) :
       disk' = [disk EXCEPT !.file = [bytes |-> bytes, stamp |-> budget'.edits]]
  /\ UNCHANGED <<watch, row, session, job, kept, sweep, person, others>>

Removes ==
  /\ File # None /\ budget.edits <= MaxEdits
  /\ disk' = [disk EXCEPT !.file = None]
  /\ person' = TRUE
  /\ budget' = [budget EXCEPT !.edits = @ + 1]
  /\ UNCHANGED <<watch, row, session, job, kept, sweep, others>>

(* The disk goes, with its directory or leaving it empty, and comes back.   *)
Mounts ==
  /\ IF Here THEN /\ budget.moves < MaxMoves /\ budget' = [budget EXCEPT !.moves = @ + 1]
                  /\ \E m \in {"gone", "empty"} : disk' = [disk EXCEPT !.mount = m]
     ELSE disk' = [disk EXCEPT !.mount = "here"] /\ UNCHANGED budget
  /\ UNCHANGED <<watch, row, session, job, kept, sweep, person, others>>

ChangesCopy ==
  /\ row # None /\ budget.clouds < MaxClouds
  /\ row' = [digest |-> Cloud, version |-> Version + 1, link |-> None]
  /\ others' = others \cup {Cloud}
  /\ budget' = [budget EXCEPT !.clouds = @ + 1]
  /\ UNCHANGED <<watch, disk, session, job, kept, sweep, person>>

-----------------------------------------------------------------------------
Steps ==
  \/ Snapshots \/ ReadsBaseline \/ Sends \/ Remembers \/ Commits \/ Saves \/ Refused \/ Verifies
  \/ Begins \/ Compares \/ Runs \/ Deletes \/ Bins

Next == Scans \/ Steps \/ CallIsLost \/ Crashes \/ Writes \/ Removes \/ Mounts \/ ChangesCopy

Spec == Init /\ [][Next]_vars

(* A sweep comes every few minutes and goes on, a tree that can be read is  *)
(* read in the end, and a disk comes back.                                  *)
Fairness ==
  /\ WF_vars(Scans) /\ WF_vars(Steps)
  /\ SF_vars(Scans /\ ~sweep'.skipped /\ disk.mount = "here") /\ WF_vars(Mounts /\ ~Here)

FairSpec == Spec /\ Fairness

-----------------------------------------------------------------------------
(* Properties                                                              *)

Stamps == {None} \cup 1..(MaxEdits + 1)
Versions == 0..(MaxEdits + MaxFaults + MaxClouds + 2)
Links == {None, "synced", "stale", "conflict", "unavailable", "origin_gone"}
RecordsOfFile ==
  [stamp : Stamps, sha : Stamps, file : BOOLEAN, version : Versions, link : Links, session : Stamps,
   transfer : BOOLEAN, bin : BOOLEAN]

SweepTypeOK ==
  /\ disk.mount \in {"here", "gone", "empty"}
  /\ row = None \/ row \in [digest : Contents \cup {Cloud}, version : Versions, link : Links]
  /\ kept \in RecordsOfFile /\ sweep.mem \in RecordsOfFile /\ sweep.prior \in RecordsOfFile
  /\ sweep.pc \in {"idle", "push", "baseline", "send", "remember", "commit", "save", "refused", "verify",
                   "sync", "compare", "run", "delete", "bin"}

(* A step that bins only what was deleted here.                            *)
BinsTheDeleted == row # None /\ row' = None => person

(* An unmounted disk, a partial scan or a lost file system deletes nothing: *)
(* a copy goes to the Bin only after its owner deleted the file.            *)
UnmountedDeletesNothing == [][BinsTheDeleted]_vars

(* A step that keeps a version from elsewhere.                             *)
OverwritesNoCopy == row # None /\ row' # None /\ row.digest \in others => row'.digest \in others

(* A version that came from elsewhere is not overwritten by this machine,   *)
(* whatever was lost of what the ledger knew.                               *)
NoCopyIsOverwritten == [][OverwritesNoCopy]_vars

(* A file the next sweep will pass over because the ledger knows its stamp  *)
(* is stored with the bytes it has: nothing is recorded that was not sent.  *)
WhatIsSkippedIsStored ==
  kept.file /\ row # None /\ row.version = kept.version /\ disk.file # None
    /\ kept.stamp = disk.file.stamp /\ ~kept.transfer
    => row.digest = disk.file.bytes

(* A copy is called a conflict only when somebody else changed it.          *)
ConflictsAreReal == row # None /\ row.link = "conflict" => others # {}

(* The cluster did what the ledger does not know, and the ledger cannot find *)
(* out: a version whose receipt was lost, when the file has changed since or *)
(* was sent in a single request, or a deletion, when the file came back.    *)
Stranded ==
  \/ row = None /\ kept.file /\ ~kept.bin
  \/ /\ row # None /\ row.version # kept.version
     /\ \/ row.digest # disk.file.bytes
        \/ watch.mode = "retain" /\ ~watch.big /\ kept.version > 0

(* Nothing is left for the sweep to do, or nothing it could do.            *)
IsStored ==
  \/ disk.file = None \/ others # {} \/ Stranded
  \/ row # None /\ row.digest = disk.file.bytes /\ row.version = kept.version

(* Every file is stored as it is in the end, and the ledger knows it,       *)
(* through crashes, lost calls and unmounted disks.                         *)
FilesAreStored == <>[]IsStored
=============================================================================
