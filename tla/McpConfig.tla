------------------------------ MODULE McpConfig ------------------------------
(***************************************************************************)
(* The .mcp.json of a workspace, which holds a session's bearer while the  *)
(* session runs and the user's own configuration the rest of the time:     *)
(* internal/worker/appsession/mcpconfig.go, across crashes.                *)
(*                                                                         *)
(* Claude Code's layout in one workspace, whose sessions run one after     *)
(* another.  A file holds the user's configuration or names the session    *)
(* whose bearer is in it.                                                  *)
(***************************************************************************)
EXTENDS Integers, FiniteSets, TLAPS

CONSTANTS Sessions,    \* session ids
          MaxEdits,    \* bound: configurations the user writes
          MaxCrashes,  \* bound: times the process dies
          MaxFailures, \* bound: removals, renames and reads that fail
          None         \* no file

ASSUME BoundsAssumption ==
  /\ MaxEdits \in Nat /\ MaxCrashes \in Nat /\ MaxFailures \in Nat
  /\ None \notin Sessions \cup (1..MaxEdits) /\ Sessions \cap (1..MaxEdits) = {}

VARIABLES
  config,   \* .mcp.json
  backup,   \* .mcp.json.memql-session-backup
  temps,    \* the sessions whose bearer is in a temp file of writeFileAtomic
  ledger,   \* the sessions with a ledger entry
  step,     \* where the code stands: a session's write or removal, or the sweep
  held,     \* the session in progress, or None
  moved,    \* its mcpConfig has a backupPath
  todo,     \* the ledger entries the sweep has read and not come to
  swept,    \* the ledger entry the sweep is at, or None
  refused,  \* history: sessions a removal or a sweep failed on
  cutoff,   \* history: sessions that left a temp file behind
  mine,     \* history: what the user last wrote
  edits, crashes, failures

vars == <<config, backup, temps, ledger, step, held, moved, todo, swept, refused, cutoff,
          mine, edits, crashes, failures>>
disk == <<config, backup, temps, ledger>>
user == <<mine, edits>>
lapses == <<refused, cutoff, failures>>

Files == {None} \cup Sessions \cup (1..MaxEdits)

Init ==
  /\ config = None /\ backup = None /\ temps = {} /\ ledger = {}
  /\ step = "idle" /\ held = None /\ moved = FALSE /\ todo = {} /\ swept = None
  /\ refused = {} /\ cutoff = {}
  /\ mine = None /\ edits = 0 /\ crashes = 0 /\ failures = 0

-----------------------------------------------------------------------------
(* What os.Remove and os.Rename do where nobody looks at their error       *)

Failing == failures < MaxFailures /\ failures' = failures + 1

ConfigGoes ==
  \/ config' = None /\ UNCHANGED <<refused, failures>>
  \/ /\ config # None /\ Failing
     /\ refused' = refused \cup (Sessions \cap {config})
     /\ UNCHANGED config

BackupReturns ==
  \/ config' = backup /\ backup' = None /\ UNCHANGED failures
  \/ Failing /\ UNCHANGED <<config, backup>>

EntryGoes(s) ==
  \/ ledger' = ledger \ {s} /\ UNCHANGED failures
  \/ s \in ledger /\ Failing /\ UNCHANGED ledger

-----------------------------------------------------------------------------
(* writeMCPConfig                                                          *)

(* Mutant: the file that is there is overwritten.                          *)
LayoutOver(s) ==
  /\ step = "idle"
  /\ held' = s /\ step' = "laid out" /\ moved' = FALSE
  /\ UNCHANGED <<disk, todo, swept, user, crashes, lapses>>

(* layoutClaudeCode moves a .mcp.json that is there aside.                 *)
Layout(s) ==
  /\ step = "idle"
  /\ held' = s /\ step' = "laid out"
  /\ moved' = (config # None)
  /\ IF config # None THEN backup' = config /\ config' = None ELSE UNCHANGED <<backup, config>>
  /\ UNCHANGED <<temps, ledger, todo, swept, user, crashes, lapses>>

(* Mutant: the bearer is written and then recorded.                        *)
WriteLedgerLate ==
  /\ step = "laid out"
  /\ temps' = temps \cup {held}
  /\ step' = "writing"
  /\ UNCHANGED <<config, backup, ledger, held, moved, todo, swept, user, crashes, lapses>>

WriteLedger ==
  /\ step = "laid out"
  /\ ledger' = ledger \cup {held}
  /\ step' = "recorded"
  /\ UNCHANGED <<config, backup, temps, held, moved, todo, swept, user, crashes, lapses>>

(* Renew, the first and every later one: a temp file, renamed.             *)
RenewStarts ==
  /\ step \in {"recorded", "live"}
  /\ temps' = temps \cup {held}
  /\ step' = "writing"
  /\ UNCHANGED <<config, backup, ledger, held, moved, todo, swept, user, crashes, lapses>>

(* A temp file an earlier write left has a name of its own, and stays.     *)
RenewEnds ==
  /\ step = "writing"
  /\ temps' = temps \ ({held} \ cutoff)
  /\ config' = held
  /\ step' = "live"
  /\ UNCHANGED <<backup, ledger, held, moved, todo, swept, user, crashes, lapses>>

(* A write that fails removes its temp file, or fails at that.  The first  *)
(* write failing ends the session; a later one leaves the bearer that was  *)
(* there.                                                                  *)
RenewFails ==
  /\ step = "writing"
  /\ \/ temps' = temps \ ({held} \ cutoff) /\ UNCHANGED lapses
     \/ Failing /\ cutoff' = cutoff \cup {held} /\ UNCHANGED <<temps, refused>>
  /\ step' = IF config = held THEN "live" ELSE "removing"
  /\ UNCHANGED <<config, backup, ledger, held, moved, todo, swept, user, crashes>>

-----------------------------------------------------------------------------
(* Remove: the session ends, or writing its configuration failed.          *)

RemoveStarts ==
  /\ step \in {"laid out", "live"}
  /\ step' = "removing"
  /\ UNCHANGED <<disk, held, moved, todo, swept, user, crashes, lapses>>

RemoveConfig ==
  /\ step = "removing"
  /\ ConfigGoes
  /\ step' = "restoring"
  /\ UNCHANGED <<backup, temps, ledger, held, moved, todo, swept, cutoff, user, crashes>>

Restore ==
  /\ step = "restoring"
  /\ IF moved THEN BackupReturns ELSE UNCHANGED <<config, backup, failures>>
  /\ step' = "forgetting"
  /\ UNCHANGED <<temps, ledger, held, moved, todo, swept, refused, cutoff, user, crashes>>

RemoveLedger ==
  /\ step = "forgetting"
  /\ EntryGoes(held)
  /\ step' = "idle" /\ held' = None /\ moved' = FALSE
  /\ UNCHANGED <<config, backup, temps, todo, swept, refused, cutoff, user, crashes>>

-----------------------------------------------------------------------------
(* A crash, and the sweep of the next process                              *)

(* A write under way leaves its temp file.  The next process reads the     *)
(* ledger's directory, or cannot and sweeps nothing.                       *)
Crash ==
  /\ crashes < MaxCrashes
  /\ crashes' = crashes + 1
  /\ step' = "sweeping" /\ held' = None /\ moved' = FALSE /\ swept' = None
  /\ cutoff' = IF step = "writing" THEN cutoff \cup {held} ELSE cutoff
  /\ \/ todo' = ledger /\ UNCHANGED <<refused, failures>>
     \/ Failing /\ todo' = {} /\ refused' = refused \cup ledger
  /\ UNCHANGED <<disk, user>>

(* An entry that cannot be read or parsed is dropped, and what it named    *)
(* stays.                                                                  *)
SweepDrops ==
  /\ step = "sweeping" /\ swept = None
  /\ Failing
  /\ \E s \in todo :
       /\ refused' = refused \cup {s}
       /\ todo' = todo \ {s}
       /\ ledger' = ledger \ {s}
  /\ UNCHANGED <<config, backup, temps, step, held, moved, swept, cutoff, user, crashes>>

SweepPath ==
  /\ step = "sweeping" /\ swept = None
  /\ \E s \in todo : swept' = s /\ todo' = todo \ {s}
  /\ ConfigGoes
  /\ UNCHANGED <<backup, temps, ledger, step, held, moved, cutoff, user, crashes>>

(* A backup is put back whoever moved it, and the entry goes.              *)
SweepBackup ==
  /\ step = "sweeping" /\ swept # None
  /\ IF backup # None THEN BackupReturns ELSE UNCHANGED <<config, backup, failures>>
  /\ step' = "swept"
  /\ UNCHANGED <<temps, ledger, held, moved, todo, swept, refused, cutoff, user, crashes>>

SweepEntry ==
  /\ step = "swept"
  /\ EntryGoes(swept)
  /\ swept' = None /\ step' = "sweeping"
  /\ UNCHANGED <<config, backup, temps, held, moved, todo, refused, cutoff, user, crashes>>

(* Mutant: a worker starts work without sweeping.                          *)
SweepNothing ==
  /\ step = "sweeping" /\ swept = None
  /\ step' = "idle" /\ todo' = {}
  /\ UNCHANGED <<disk, held, moved, swept, user, crashes, lapses>>

SweepEnds ==
  /\ step = "sweeping" /\ swept = None /\ todo = {}
  /\ step' = "idle"
  /\ UNCHANGED <<disk, held, moved, todo, swept, user, crashes, lapses>>

-----------------------------------------------------------------------------
(* The user writes a configuration of their own while no session runs.     *)
UserEdits ==
  /\ step = "idle" /\ edits < MaxEdits
  /\ edits' = edits + 1
  /\ config' = edits + 1 /\ mine' = edits + 1
  /\ UNCHANGED <<backup, temps, ledger, step, held, moved, todo, swept, crashes, lapses>>

Working ==
  \/ WriteLedger \/ RenewEnds \/ RenewFails \/ RemoveConfig \/ Restore \/ RemoveLedger
  \/ SweepDrops \/ SweepPath \/ SweepBackup \/ SweepEntry \/ SweepEnds
  \/ step = "recorded" /\ RenewStarts

Next ==
  \/ \E s \in Sessions : Layout(s)
  \/ RenewStarts \/ RemoveStarts \/ Crash \/ UserEdits \/ Working

Spec == Init /\ [][Next]_vars

(* What the code is in the middle of goes on.  A session is owed no end,   *)
(* and the process no life: only one that died is started again.           *)
FairSpec == Spec /\ WF_vars(Working)

-----------------------------------------------------------------------------
(* Properties                                                              *)

Steps == {"idle", "laid out", "recorded", "writing", "live", "removing", "restoring",
          "forgetting", "sweeping", "swept"}

TypeOK ==
  /\ config \in Files /\ backup \in Files
  /\ temps \subseteq Sessions /\ ledger \subseteq Sessions
  /\ step \in Steps
  /\ held \in Sessions \cup {None} /\ swept \in Sessions \cup {None}
  /\ moved \in BOOLEAN
  /\ todo \subseteq Sessions /\ refused \subseteq Sessions /\ cutoff \subseteq Sessions
  /\ mine \in {None} \cup (1..MaxEdits)
  /\ edits \in 0..MaxEdits /\ crashes \in 0..MaxCrashes /\ failures \in 0..MaxFailures
  /\ held # None <=> step \in Steps \ {"idle", "sweeping", "swept"}

(* Wherever the process dies, a bearer in .mcp.json is one the next sweep  *)
(* finds, and the file moved aside never holds one, but for a session on   *)
(* which a removal or a sweep failed: its entry goes all the same.  And a  *)
(* bearer in a temp file is one of a write under way, or of one that a     *)
(* death or a failed removal cut off, which no sweep looks for.            *)
BearerIsTracked ==
  /\ config \in Sessions => config \in ledger \cup refused
  /\ backup \in Sessions => backup \in refused
  /\ \A s \in temps : s \in cutoff \/ (s = held /\ step = "writing" /\ s \in ledger)

(* A process that does not die, and whose removals and renames do what     *)
(* they are told, gives the user's configuration back after every session, *)
(* however its writes and renewals went, and leaves nothing of its own.    *)
UserConfigComesBack ==
  crashes = 0 /\ failures = 0 /\ step = "idle" =>
    config = mine /\ backup = None /\ temps = {} /\ ledger = {}

(* Once a session is being removed, or its process has died, its bearer    *)
(* leaves .mcp.json, though the removal or the sweep is itself cut off,    *)
(* unless a removal or a sweep failed on it.                               *)
BearersGo ==
  (config \in Sessions /\ step \in {"removing", "sweeping"}) ~>
    (config \notin Sessions \/ config \in refused)

(* layoutClaudeCode moves the user's file aside because destroying "a      *)
(* config the user wrote ... is a worse outcome than anything this feature *)
(* is worth": it stays on disk, under its own name or as the backup.       *)
UserConfigIsKept == mine # None => mine \in {config, backup}

-----------------------------------------------------------------------------
(* Proofs                                                                  *)

(* Where a bearer may be: recorded before it is written, off the disk      *)
(* before it is forgotten, and never where a session finds it as the       *)
(* user's, unless a removal failed on it.                                  *)
BearerInv ==
  /\ config \in Sessions => config \in ledger \cup refused
  /\ backup \in Sessions => backup \in refused
  /\ step \in {"recorded", "writing", "live"} => held \in ledger
  /\ step \in {"laid out", "recorded", "writing", "live", "removing"} => config \in {None, held}
  /\ step \in {"idle", "restoring", "forgetting", "swept"} =>
       (config \in Sessions => config \in refused)
  /\ step = "sweeping" => (config \in Sessions => config \in refused \cup todo)
  /\ step = "sweeping" /\ swept # None => (config \in Sessions => config \in refused)
  /\ \A s \in temps : s \in cutoff \/ (s = held /\ step = "writing" /\ s \in ledger)

(* What a process that has neither died nor failed keeps aside, and leaves *)
(* behind.                                                                 *)
Laid == {"laid out", "recorded", "writing", "live", "removing", "restoring"}
UserInv ==
  crashes = 0 /\ failures = 0 =>
    /\ step \notin {"sweeping", "swept"}
    /\ step \in {"idle", "forgetting"} => config = mine /\ backup = None
    /\ step = "idle" => ledger = {}
    /\ step \in Laid =>
         /\ moved => backup = mine
         /\ ~moved => backup = None /\ mine = None
         /\ step # "restoring" => config \in {None, held}
         /\ step = "restoring" => config = None
    /\ cutoff = {}
    /\ step = "writing" => temps = {held}
    /\ step # "writing" => temps = {}
    /\ ledger \subseteq {held}

IInv == TypeOK /\ BearerInv /\ UserInv

(* An empty workspace satisfies the invariant.                             *)
LEMMA InitIInv == Init => IInv
<1> SUFFICES ASSUME Init PROVE IInv
  OBVIOUS
<1>1. TypeOK
  <2>1. moved \in BOOLEAN
    BY DEF Init
  <2>2. QED
    BY <2>1, BoundsAssumption DEF Init, TypeOK, Files, Steps
<1>2. BearerInv /\ UserInv
  BY BoundsAssumption DEF Init, BearerInv, UserInv, Laid
<1>3. QED
  BY <1>1, <1>2 DEF IInv

(* A crash is counted, so a process that has not died is told apart.       *)
LEMMA CrashCounts ==
  ASSUME TypeOK, Crash
  PROVE  crashes' \in 0..MaxCrashes /\ crashes' # 0
<1>1. crashes \in 0..MaxCrashes
  BY DEF TypeOK
<1>2. crashes < MaxCrashes /\ crashes' = crashes + 1
  BY DEF Crash
<1>3. QED
  BY <1>1, <1>2, BoundsAssumption

(* And so is a failure.                                                    *)
LEMMA FailureCounts ==
  ASSUME TypeOK, Failing
  PROVE  failures' \in 0..MaxFailures /\ failures' # 0
<1>1. failures \in 0..MaxFailures
  BY DEF TypeOK
<1>2. failures < MaxFailures /\ failures' = failures + 1
  BY DEF Failing
<1>3. QED
  BY <1>1, <1>2, BoundsAssumption

(* .mcp.json is removed, or a failure is counted against its session.      *)
LEMMA ConfigGoesOrRefuses ==
  ASSUME TypeOK, ConfigGoes
  PROVE  /\ config' \in {None, config}
         /\ config' \in Sessions => config' \in refused'
         /\ refused \subseteq refused' /\ refused' \subseteq Sessions
         /\ failures' \in 0..MaxFailures
         /\ failures' = 0 => config' = None /\ failures = 0 /\ refused' = refused
<1>1. CASE config' = None /\ UNCHANGED <<refused, failures>>
  BY <1>1, BoundsAssumption DEF TypeOK
<1>2. CASE Failing /\ refused' = refused \cup (Sessions \cap {config}) /\ UNCHANGED config
  <2>1. failures' \in 0..MaxFailures /\ failures' # 0
    BY <1>2, FailureCounts
  <2>2. QED
    BY <1>2, <2>1 DEF TypeOK
<1>3. QED
  BY <1>1, <1>2 DEF ConfigGoes

(* The backup is renamed, or a failure is counted and all stays.           *)
LEMMA BackupReturnsOrStays ==
  ASSUME TypeOK, BackupReturns
  PROVE  /\ \/ config' = backup /\ backup' = None
            \/ UNCHANGED <<config, backup>>
         /\ failures' \in 0..MaxFailures
         /\ failures' = 0 => config' = backup /\ backup' = None /\ failures = 0
<1>1. CASE config' = backup /\ backup' = None /\ UNCHANGED failures
  BY <1>1 DEF TypeOK
<1>2. CASE Failing /\ UNCHANGED <<config, backup>>
  <2>1. failures' \in 0..MaxFailures /\ failures' # 0
    BY <1>2, FailureCounts
  <2>2. QED
    BY <1>2, <2>1
<1>3. QED
  BY <1>1, <1>2 DEF BackupReturns

(* An entry is removed, or a failure is counted and it stays.              *)
LEMMA EntryGoesOrStays ==
  ASSUME TypeOK, NEW s, EntryGoes(s)
  PROVE  /\ ledger' \in {ledger, ledger \ {s}}
         /\ failures' \in 0..MaxFailures
         /\ failures' = 0 => ledger' = ledger \ {s} /\ failures = 0
<1>1. CASE ledger' = ledger \ {s} /\ UNCHANGED failures
  BY <1>1 DEF TypeOK
<1>2. CASE Failing /\ UNCHANGED ledger
  <2>1. failures' \in 0..MaxFailures /\ failures' # 0
    BY <1>2, FailureCounts
  <2>2. QED
    BY <1>2, <2>1
<1>3. QED
  BY <1>1, <1>2 DEF EntryGoes

(* Each part is kept by every step.                                        *)
LEMMA NextType == TypeOK /\ [Next]_vars => TypeOK'
<1> SUFFICES ASSUME TypeOK, [Next]_vars PROVE TypeOK'
  OBVIOUS
<1>a. Crash => crashes' \in 0..MaxCrashes /\ crashes' # 0
  BY CrashCounts
<1>f. Failing => failures' \in 0..MaxFailures /\ failures' # 0
  BY FailureCounts
<1>c. ConfigGoes =>
        /\ config' \in {None, config}
        /\ config' \in Sessions => config' \in refused'
        /\ refused \subseteq refused' /\ refused' \subseteq Sessions
        /\ failures' \in 0..MaxFailures
        /\ failures' = 0 => config' = None /\ failures = 0 /\ refused' = refused
  BY ConfigGoesOrRefuses
<1>b. BackupReturns =>
        /\ \/ config' = backup /\ backup' = None
           \/ UNCHANGED <<config, backup>>
        /\ failures' \in 0..MaxFailures
        /\ failures' = 0 => config' = backup /\ backup' = None /\ failures = 0
  BY BackupReturnsOrStays
<1>e. ASSUME NEW s, EntryGoes(s)
      PROVE  /\ ledger' \in {ledger, ledger \ {s}}
             /\ failures' \in 0..MaxFailures
             /\ failures' = 0 => ledger' = ledger \ {s} /\ failures = 0
  BY <1>e, EntryGoesOrStays
<1> USE BoundsAssumption DEF TypeOK, Files, Steps, disk, user, lapses
<1>1. ASSUME NEW s \in Sessions, Layout(s) PROVE TypeOK'
  BY <1>1 DEF Layout
<1>2. CASE WriteLedger
  BY <1>2 DEF WriteLedger
<1>3. CASE RenewStarts
  BY <1>3 DEF RenewStarts
<1>4. CASE RenewEnds
  BY <1>4 DEF RenewEnds
<1>5. CASE RenewFails
  BY <1>5, <1>f DEF RenewFails
<1>6. CASE RemoveStarts
  BY <1>6 DEF RemoveStarts
<1>7. CASE RemoveConfig
  BY <1>7, <1>c DEF RemoveConfig
<1>8. CASE Restore
  BY <1>8, <1>b DEF Restore
<1>9. CASE RemoveLedger
  <2>1. moved' \in BOOLEAN
    BY <1>9, <1>e DEF RemoveLedger
  <2>2. /\ config' \in Files /\ backup' \in Files /\ mine' \in {None} \cup (1..MaxEdits)
        /\ temps' \subseteq Sessions /\ ledger' \subseteq Sessions
        /\ swept' \in Sessions \cup {None}
        /\ todo' \subseteq Sessions /\ refused' \subseteq Sessions /\ cutoff' \subseteq Sessions
        /\ edits' \in 0..MaxEdits /\ crashes' \in 0..MaxCrashes
        /\ failures' \in 0..MaxFailures
    BY <1>9, <1>e DEF RemoveLedger
  <2>3. held' = None /\ step' \in {"idle", "sweeping"}
    BY <1>9, <1>e DEF RemoveLedger
  <2>4. QED
    BY <2>1, <2>2, <2>3
<1>10. CASE Crash
  <2>1. moved' \in BOOLEAN
    BY <1>10 DEF Crash
  <2>2. /\ config' \in Files /\ backup' \in Files /\ mine' \in {None} \cup (1..MaxEdits)
        /\ temps' \subseteq Sessions /\ ledger' \subseteq Sessions
        /\ swept' \in Sessions \cup {None}
        /\ todo' \subseteq Sessions /\ refused' \subseteq Sessions /\ cutoff' \subseteq Sessions
        /\ edits' \in 0..MaxEdits /\ failures' \in 0..MaxFailures
    BY <1>10, <1>f DEF Crash
  <2>3. held' = None /\ step' \in {"idle", "sweeping"}
    BY <1>10 DEF Crash
  <2>4. crashes' \in 0..MaxCrashes
    BY <1>10, <1>a
  <2>5. QED
    BY <2>1, <2>2, <2>3, <2>4
<1>11. CASE SweepPath
  BY <1>11, <1>c DEF SweepPath
<1>12. CASE SweepBackup
  BY <1>12, <1>b DEF SweepBackup
<1>13. CASE SweepEntry
  BY <1>13, <1>e DEF SweepEntry
<1>14. CASE SweepEnds
  BY <1>14 DEF SweepEnds
<1>15. CASE UserEdits
  BY <1>15 DEF UserEdits
<1>16. CASE UNCHANGED vars
  BY <1>16 DEF vars
<1>17. CASE SweepDrops
  BY <1>17, <1>f DEF SweepDrops
<1>18. QED
  BY <1>1, <1>2, <1>3, <1>4, <1>5, <1>6, <1>7, <1>8, <1>9, <1>10, <1>11, <1>12, <1>13, <1>14, <1>15, <1>16, <1>17 DEF Next, Working

(* Recorded before written, removed before forgotten.                      *)
LEMMA NextBearer == TypeOK /\ BearerInv /\ [Next]_vars => BearerInv'
<1> SUFFICES ASSUME TypeOK, BearerInv, [Next]_vars PROVE BearerInv'
  OBVIOUS
<1>f. Failing => failures' \in 0..MaxFailures /\ failures' # 0
  BY FailureCounts
<1>c. ConfigGoes =>
        /\ config' \in {None, config}
        /\ config' \in Sessions => config' \in refused'
        /\ refused \subseteq refused' /\ refused' \subseteq Sessions
        /\ failures' \in 0..MaxFailures
        /\ failures' = 0 => config' = None /\ failures = 0 /\ refused' = refused
  BY ConfigGoesOrRefuses
<1>b. BackupReturns =>
        /\ \/ config' = backup /\ backup' = None
           \/ UNCHANGED <<config, backup>>
        /\ failures' \in 0..MaxFailures
        /\ failures' = 0 => config' = backup /\ backup' = None /\ failures = 0
  BY BackupReturnsOrStays
<1>e. ASSUME NEW s, EntryGoes(s)
      PROVE  /\ ledger' \in {ledger, ledger \ {s}}
             /\ failures' \in 0..MaxFailures
             /\ failures' = 0 => ledger' = ledger \ {s} /\ failures = 0
  BY <1>e, EntryGoesOrStays
<1> USE BoundsAssumption DEF TypeOK, BearerInv, Files, Steps, disk, user, lapses
<1>1. ASSUME NEW s \in Sessions, Layout(s) PROVE BearerInv'
  BY <1>1 DEF Layout
<1>2. CASE WriteLedger
  BY <1>2 DEF WriteLedger
<1>3. CASE RenewStarts
  BY <1>3 DEF RenewStarts
<1>4. CASE RenewEnds
  <2>1. \A s \in temps' : s \in cutoff'
    BY <1>4 DEF RenewEnds
  <2>2. /\ step' = "live" /\ config' = held /\ held \in ledger
        /\ UNCHANGED <<backup, ledger, refused, held>>
    BY <1>4 DEF RenewEnds
  <2>3. QED
    BY <2>1, <2>2
<1>5. CASE RenewFails
  <2>1. \A s \in temps' : s \in cutoff'
    <3>1. CASE temps' = temps \ ({held} \ cutoff) /\ UNCHANGED lapses
      BY <1>5, <3>1 DEF RenewFails
    <3>2. CASE cutoff' = cutoff \cup {held} /\ UNCHANGED <<temps, refused>>
      BY <1>5, <3>2 DEF RenewFails
    <3>3. QED
      BY <1>5, <3>1, <3>2 DEF RenewFails
  <2>2. /\ step' = IF config = held THEN "live" ELSE "removing"
        /\ step = "writing" /\ held \in ledger
        /\ UNCHANGED <<config, backup, ledger, refused, held>>
    BY <1>5 DEF RenewFails
  <2>3. config \in {None, held}
    BY <2>2
  <2>4. QED
    BY <2>1, <2>2, <2>3
<1>6. CASE RemoveStarts
  BY <1>6 DEF RemoveStarts
<1>7. CASE RemoveConfig
  BY <1>7, <1>c DEF RemoveConfig
<1>8. CASE Restore
  BY <1>8, <1>b DEF Restore
<1>9. CASE RemoveLedger
  BY <1>9, <1>e DEF RemoveLedger
<1>10. CASE Crash
  BY <1>10 DEF Crash
<1>11. CASE SweepPath
  BY <1>11, <1>c DEF SweepPath
<1>12. CASE SweepBackup
  BY <1>12, <1>b DEF SweepBackup
<1>13. CASE SweepEntry
  BY <1>13, <1>e DEF SweepEntry
<1>14. CASE SweepEnds
  BY <1>14 DEF SweepEnds
<1>15. CASE UserEdits
  BY <1>15 DEF UserEdits
<1>16. CASE UNCHANGED vars
  BY <1>16 DEF vars
<1>17. CASE SweepDrops
  BY <1>17, <1>f DEF SweepDrops
<1>18. QED
  BY <1>1, <1>2, <1>3, <1>4, <1>5, <1>6, <1>7, <1>8, <1>9, <1>10, <1>11, <1>12, <1>13, <1>14, <1>15, <1>16, <1>17 DEF Next, Working

(* Moved aside once, put back once.                                        *)
LEMMA NextUser == TypeOK /\ UserInv /\ [Next]_vars => UserInv'
<1> SUFFICES ASSUME TypeOK, UserInv, [Next]_vars PROVE UserInv'
  OBVIOUS
<1>a. Crash => crashes' \in 0..MaxCrashes /\ crashes' # 0
  BY CrashCounts
<1>f. Failing => failures' \in 0..MaxFailures /\ failures' # 0
  BY FailureCounts
<1>c. ConfigGoes =>
        /\ config' \in {None, config}
        /\ config' \in Sessions => config' \in refused'
        /\ refused \subseteq refused' /\ refused' \subseteq Sessions
        /\ failures' \in 0..MaxFailures
        /\ failures' = 0 => config' = None /\ failures = 0 /\ refused' = refused
  BY ConfigGoesOrRefuses
<1>b. BackupReturns =>
        /\ \/ config' = backup /\ backup' = None
           \/ UNCHANGED <<config, backup>>
        /\ failures' \in 0..MaxFailures
        /\ failures' = 0 => config' = backup /\ backup' = None /\ failures = 0
  BY BackupReturnsOrStays
<1>e. ASSUME NEW s, EntryGoes(s)
      PROVE  /\ ledger' \in {ledger, ledger \ {s}}
             /\ failures' \in 0..MaxFailures
             /\ failures' = 0 => ledger' = ledger \ {s} /\ failures = 0
  BY <1>e, EntryGoesOrStays
<1> USE BoundsAssumption DEF TypeOK, UserInv, Laid, Files, Steps, disk, user, lapses
<1>1. ASSUME NEW s \in Sessions, Layout(s) PROVE UserInv'
  BY <1>1 DEF Layout
<1>2. CASE WriteLedger
  BY <1>2 DEF WriteLedger
<1>3. CASE RenewStarts
  BY <1>3 DEF RenewStarts
<1>4. CASE RenewEnds
  BY <1>4 DEF RenewEnds
<1>5. CASE RenewFails
  BY <1>5, <1>f DEF RenewFails
<1>6. CASE RemoveStarts
  BY <1>6 DEF RemoveStarts
<1>7. CASE RemoveConfig
  BY <1>7, <1>c DEF RemoveConfig
<1>8. CASE Restore
  BY <1>8, <1>b DEF Restore
<1>9. CASE RemoveLedger
  BY <1>9, <1>e DEF RemoveLedger
<1>10. CASE Crash
  <2>1. crashes' # 0
    BY <1>10, <1>a
  <2>2. QED
    BY <2>1
<1>11. CASE SweepPath
  BY <1>11, <1>c DEF SweepPath
<1>12. CASE SweepBackup
  BY <1>12, <1>b DEF SweepBackup
<1>13. CASE SweepEntry
  BY <1>13, <1>e DEF SweepEntry
<1>14. CASE SweepEnds
  BY <1>14 DEF SweepEnds
<1>15. CASE UserEdits
  BY <1>15 DEF UserEdits
<1>16. CASE UNCHANGED vars
  BY <1>16 DEF vars
<1>17. CASE SweepDrops
  BY <1>17, <1>f DEF SweepDrops
<1>18. QED
  BY <1>1, <1>2, <1>3, <1>4, <1>5, <1>6, <1>7, <1>8, <1>9, <1>10, <1>11, <1>12, <1>13, <1>14, <1>15, <1>16, <1>17 DEF Next, Working

(* The invariant is inductive.                                            *)
LEMMA AlwaysIInv == Spec => []IInv
<1>1. IInv /\ [Next]_vars => IInv'
  BY NextType, NextBearer, NextUser DEF IInv
<1>2. QED
  BY InitIInv, <1>1, PTL DEF Spec

-----------------------------------------------------------------------------
(* Every variable keeps its type; a session is held where one is underway. *)
THEOREM TypeCorrect == Spec => []TypeOK
<1>1. IInv => TypeOK
  BY DEF IInv
<1>2. QED
  BY AlwaysIInv, <1>1, PTL

(* However often the process dies, wherever, and whichever removals,       *)
(* renames and reads fail: a bearer in .mcp.json has an entry that the     *)
(* next sweep finds, or is of a session a removal or a sweep failed on;    *)
(* the backup holds only one of those; and a temp file only the bearer of  *)
(* a write under way or of one that was cut off.                           *)
THEOREM EveryBearerIsTracked == Spec => []BearerIsTracked
<1>1. IInv => BearerIsTracked
  BY DEF IInv, TypeOK, Files, BearerInv, BearerIsTracked
<1>2. QED
  BY AlwaysIInv, <1>1, PTL

(* A process that has not died, and had no removal or rename fail, has     *)
(* given the user's configuration back after every session, and left       *)
(* nothing of its own.                                                     *)
THEOREM TheUserGetsItBack == Spec => []UserConfigComesBack
<1>1. IInv => UserConfigComesBack
  BY DEF IInv, TypeOK, UserInv, UserConfigComesBack
<1>2. QED
  BY AlwaysIInv, <1>1, PTL
=============================================================================
