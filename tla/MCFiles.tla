------------------------------- MODULE MCFiles -------------------------------
(* What the worker does with files, checked in one run: the configuration  *)
(* of an agent's session (McpConfig), its inputs and outputs, an upload, a *)
(* download, the backup's ledger (BackupLedger) and its sweep.  A          *)
(* behaviour is of one of them, which Start chooses: the last four share   *)
(* no state in the code, and of what the first two share each has its own  *)
(* view.  McpConfig, BackupLedger and Download stand still in the          *)
(* behaviours of the others, and any other variable no part in play has is *)
(* None.                                                                   *)
EXTENDS McpConfig, BackupLedger, Download

VARIABLES subject,                                              \* the part in play
          errand, agent, spent, file, manifest, past, puts, wish, \* Upload
          watch, store, row, session, kept, sweep, person, others, \* BackupSweep
          own, tree, phase, landed, before, queue, notes,       \* SessionOutputs
          unheard, pushFailed, library, made, writes

Up == INSTANCE Upload
        WITH job <- errand, run <- agent, budget <- spent, Window <- 2, MaxEdits <- 2,
             MaxFaults <- 2, MaxPauses <- 1
Sweep == INSTANCE BackupSweep
           WITH job <- errand, disk <- store, budget <- spent, MaxEdits <- 2, MaxClouds <- 1, MaxFaults <- 2, MaxMoves <- 1

Outputs == INSTANCE SessionOutputs
             WITH disk <- tree, Caps <- {1, 2}, MaxWrites <- 2, SameName <- FALSE, Keeps <- FALSE

ASSUME Bounds == DownloadAssumption /\ Up!UploadAssumption
                 /\ Sweep!SweepAssumption /\ Outputs!OutputsAssumption

ofUpload == <<file, manifest, past, puts, wish>>
ofSweep == <<watch, store, row, session, kept, sweep, person, others>>
ofOutputs == <<own, tree, phase, landed, before, queue, notes, unheard, pushFailed, library, made, writes>>

NoUpload == file = None /\ manifest = None /\ past = None /\ puts = None /\ wish = None
NoTransfer == agent = None
NoSweep == /\ watch = None /\ store = None /\ row = None /\ session = None /\ kept = None
           /\ sweep = None /\ person = None /\ others = None
NoOutputs == /\ own = None /\ tree = None /\ phase = None /\ landed = None /\ before = None
             /\ queue = None /\ notes = None /\ unheard = None /\ pushFailed = None /\ library = None
             /\ made = None /\ writes = None
NoJob == errand = None /\ spent = None

Running(p) == subject = p /\ UNCHANGED subject

idle_vars == <<vars, ledger_vars, download_vars>>

everything == <<idle_vars, subject, errand, agent, spent, ofUpload, ofSweep, ofOutputs>>

Start ==
  /\ Init /\ LedgerInit /\ DownloadInit
  /\ \/ /\ subject \in {"session", "ledger", "download"} /\ NoJob /\ NoTransfer
        /\ NoUpload /\ NoSweep /\ NoOutputs
     \/ /\ subject = "upload" /\ Up!Init /\ NoSweep /\ NoOutputs
     \/ /\ subject = "sweep" /\ Sweep!Init /\ NoTransfer /\ NoUpload /\ NoOutputs
     \/ /\ subject = "outputs" /\ Outputs!Init /\ NoJob /\ NoTransfer
        /\ NoUpload /\ NoSweep

(* A transfer that is finished, a ledger at its bound and a folder at rest *)
(* may stop; the configuration of a session does not.                      *)
Step ==
  \/ /\ Running("session") /\ Next
     /\ UNCHANGED <<ledger_vars, download_vars, errand, agent, spent, ofUpload, ofSweep, ofOutputs>>
  \/ /\ Running("ledger") /\ LedgerNext
     /\ UNCHANGED <<vars, download_vars, errand, agent, spent, ofUpload, ofSweep, ofOutputs>>
  \/ /\ Running("download") /\ DownloadNext
     /\ UNCHANGED <<vars, ledger_vars, errand, agent, spent, ofUpload, ofSweep, ofOutputs>>
  \/ /\ Running("upload") /\ Up!Next
     /\ UNCHANGED <<idle_vars, ofSweep, ofOutputs>>
  \/ /\ Running("sweep") /\ Sweep!Next
     /\ UNCHANGED <<idle_vars, agent, ofUpload, ofOutputs>>
  \/ /\ Running("outputs") /\ Outputs!Next
     /\ UNCHANGED <<idle_vars, errand, agent, spent, ofUpload, ofSweep>>
  \/ subject # "session" /\ UNCHANGED everything

up_vars == Up!vars
sweep_vars == Sweep!vars

(* The fairness of the parts, each for the behaviours it is in play.       *)
Fairness ==
  /\ WF_vars(subject = "session" /\ Working)
  /\ WF_up_vars(subject = "upload" /\ Up!Lists)
  /\ WF_up_vars(subject = "upload" /\ (Up!Steps \/ Up!Unwinds))
  /\ WF_up_vars(subject = "upload" /\ Up!Reports)
  /\ WF_up_vars(subject = "upload" /\ Up!WatcherHears)
  /\ WF_download_vars(subject = "download" /\ Lists)
  /\ WF_download_vars(subject = "download" /\ DownloadSteps)
  /\ WF_download_vars(subject = "download" /\ ReportsWaiting)
  /\ WF_sweep_vars(subject = "sweep" /\ Sweep!Scans)
  /\ WF_sweep_vars(subject = "sweep" /\ Sweep!Steps)
  /\ SF_sweep_vars(subject = "sweep" /\ Sweep!Scans /\ ~sweep'.skipped /\ store.mount = "here")
  /\ WF_sweep_vars(subject = "sweep" /\ Sweep!Mounts /\ ~Sweep!Here)

Parts == Start /\ [][Step]_everything /\ Fairness

-----------------------------------------------------------------------------
(* Properties: those of the parts (McpConfig, BackupLedger and Download     *)
(* have theirs)                                                            *)

(* Types of McpConfig, Upload, Download, BackupLedger, BackupSweep and     *)
(* SessionOutputs.                                                         *)
PartsTypeOK ==
  /\ TypeOK /\ LedgerTypeOK /\ DownloadTypeOK
  /\ subject = "upload" => Up!UploadTypeOK
  /\ subject = "sweep" => Sweep!SweepTypeOK
  /\ subject = "outputs" => Outputs!OutputsTypeOK

(* Upload: no mixture of two versions of a file is stored, and no block    *)
(* the cluster has is sent twice.  BackupSweep: what the ledger lets a     *)
(* sweep skip is stored as it is.  SessionOutputs: the Library is given    *)
(* outputs only, each under a name of its own, and of what an app made in  *)
(* a directory of the session's own the end finds each file stored, still  *)
(* there, or named, though the line that names it may be dropped.  And the *)
(* types of the parts.                                                     *)
StoredIsTrue ==
  /\ PartsTypeOK
  /\ subject = "upload" => Up!StoredIsOneVersion /\ Up!KnownBlocksAreNotResent
  /\ subject = "sweep" => Sweep!WhatIsSkippedIsStored
  /\ subject = "outputs" => Outputs!ArtifactsAreOutputs /\ Outputs!OutputsAreTold

(* Nobody's file is lost: a sweep bins no copy of a file that was not      *)
(* deleted and overwrites none that came from elsewhere (BackupSweep), and *)
(* an app starts with every input whole (SessionOutputs).                  *)
NothingIsLost ==
  [][/\ subject = "sweep" => Sweep!BinsTheDeleted /\ Sweep!OverwritesNoCopy
     /\ subject = "outputs" => Outputs!InputsAreWhole]_everything

(* Every transfer that is left alone is finished in the end, every file of *)
(* a folder stored, and a bearer that is being removed goes, unless a      *)
(* removal failed on it (Upload, Download, BackupSweep, McpConfig).        *)
FilesSettle ==
  /\ <>(/\ subject = "upload" => Up!Finished
        /\ subject = "download" => Finished)
  /\ <>[](subject = "sweep" => Sweep!IsStored)
  /\ BearersGo
=============================================================================
