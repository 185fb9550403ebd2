---------------------------- MODULE SessionOutputs ----------------------------
(* The files of one app session: the inputs it is handed, what its app     *)
(* makes, and what of that is in the Library when its directory goes.      *)
(* Source: src/internal/worker/appsession/library.go, chunks.go,           *)
(* workspace.go, session.go (execute, pullInputs, run).                    *)
(*                                                                         *)
(* A file is a version of its content, which its size and time tell apart  *)
(* (a rewrite that keeps both is not seen by the code, and is left out),   *)
(* whether it is over the cap and whether it holds the session's           *)
(* credential.  The paths stand for two files at the top, one of the same  *)
(* name in a directory, one in a dependency tree and the session's own     *)
(* configuration.                                                          *)
EXTENDS Naturals, Sequences, FiniteSets, SequencesExt

CONSTANTS Caps,         \* bound: the values of maxPushFiles that are tried
          MaxWrites,    \* bound: writes of the app and of the person
          SameName,     \* two inputs of one file name
          Keeps         \* a file that was left out keeps the directory; FALSE is the code

OutputsAssumption ==
  Caps \subseteq Nat /\ MaxWrites \in Nat /\ SameName \in BOOLEAN /\ Keeps \in BOOLEAN

Listing == <<"a", "b", "d/a", "vendor/a", ".mcp.json">> \* in the order of a listing
AllPaths == ToSet(Listing)
Dependency == "vendor/a"
Config == ".mcp.json"
Output == AllPaths \ {Dependency, Config}               \* what can travel

Landing == <<"a", IF SameName THEN "a" ELSE "b">>       \* the name of each input, in order

VARIABLES
  own,        \* ownsWorkspace: the directory was made for this session alone
  disk,       \* of each path its file
  phase,      \* of execute and run
  landed,     \* how many inputs have landed
  before,     \* snapshotWorkspace: the file of each path; none before it is taken
  queue,      \* collectProduced: the files still to push, in order
  notes,      \* files the stream named as not pushed
  unheard,    \* and those whose naming the stream did not take
  pushFailed, \* pushOutputs will return an error
  library,    \* what the Library took
  made,       \* ghost: of each path the version the app left last; 0 for none
  writes      \* versions written so far

vars == <<own, disk, phase, landed, before, queue, notes, unheard, pushFailed, library, made, writes>>

File(v, big, credential) == [v |-> v, big |-> big, credential |-> credential]
NoFile == File(0, FALSE, FALSE)
Partial == File(9, FALSE, FALSE)           \* an input that is being written
Artifact(i) == File(i, FALSE, FALSE)
Old == File(3, FALSE, FALSE)               \* a file from before the session
There(p) == disk[p].v # 0

(* A workspace the engine named may hold files already.  The configuration *)
(* with the credential is written before the inputs come.                  *)
Init ==
  /\ own \in BOOLEAN
  /\ \E old \in {NoFile, Old} :
       disk = [p \in AllPaths |-> IF p = Config THEN File(4, FALSE, TRUE)
                                  ELSE IF p \in {Dependency, "d/a"} /\ ~own THEN old ELSE NoFile]
  /\ phase = "pulling" /\ landed = 0 /\ before = {} /\ queue = <<>> /\ notes = {} /\ unheard = {}
  /\ pushFailed = FALSE /\ library = {} /\ made = [p \in AllPaths |-> 0] /\ writes = 0

Step(from, to) == phase = from /\ phase' = to

-----------------------------------------------------------------------------
(* pullInputs and Pull                                                     *)

Pulling == phase = "pulling" /\ landed < Len(Landing)
At == Landing[landed + 1]

(* The file is made, or an old one emptied.                                *)
Creates ==
  /\ Pulling /\ disk[At] # Partial
  /\ disk' = [disk EXCEPT ![At] = Partial]
  /\ UNCHANGED <<own, phase, landed, before, queue, notes, unheard, pushFailed, library, made, writes>>

(* Mutant: what was copied so far is handed over.                          *)
PullKeepsPartial ==
  /\ Pulling /\ disk[At] = Partial
  /\ \E whole \in BOOLEAN : disk' = IF whole THEN [disk EXCEPT ![At] = Artifact(landed + 1)] ELSE disk
  /\ landed' = landed + 1
  /\ UNCHANGED <<own, phase, before, queue, notes, unheard, pushFailed, library, made, writes>>

Lands ==
  /\ Pulling /\ disk[At] = Partial
  /\ disk' = [disk EXCEPT ![At] = Artifact(landed + 1)]
  /\ landed' = landed + 1
  /\ UNCHANGED <<own, phase, before, queue, notes, unheard, pushFailed, library, made, writes>>

(* A refusal, or a copy or a close that fails: the file is removed and the *)
(* session is over before its app starts.                                  *)
PullFails ==
  /\ Pulling /\ phase' = "releasing"
  /\ disk' = [disk EXCEPT ![Config] = NoFile, ![At] = IF @ = Partial THEN NoFile ELSE @]
  /\ UNCHANGED <<own, landed, before, queue, notes, unheard, pushFailed, library, made, writes>>

Picture == {<<p, disk[p].v>> : p \in {q \in AllPaths : There(q)}}

(* Mutant: the picture is of the directory without the inputs.             *)
SnapshotsEmpty ==
  /\ Step("pulling", "running") /\ landed = Len(Landing)
  /\ before' = {f \in Picture : f[1] \notin ToSet(Landing)}
  /\ UNCHANGED <<own, disk, landed, queue, notes, unheard, pushFailed, library, made, writes>>

(* snapshotWorkspace, after the inputs have landed and before the app      *)
(* starts.                                                                 *)
Snapshots ==
  /\ Step("pulling", "running") /\ landed = Len(Landing)
  /\ before' = Picture
  /\ UNCHANGED <<own, disk, landed, queue, notes, unheard, pushFailed, library, made, writes>>

-----------------------------------------------------------------------------
(* The app, and the person whose project it may be                         *)

(* A new version of p; they are numbered after those of Init.              *)
Rewrites(p, credentials) ==
  /\ writes < MaxWrites /\ writes' = writes + 1
  /\ \E big \in BOOLEAN, credential \in credentials :
       disk' = [disk EXCEPT ![p] = File(10 + writes, big, credential)]

AppWrites ==
  /\ phase = "running"
  /\ \E p \in AllPaths \ {Config} : Rewrites(p, BOOLEAN) /\ made' = [made EXCEPT ![p] = 10 + writes]
  /\ UNCHANGED <<own, phase, landed, before, queue, notes, unheard, pushFailed, library>>

(* The app is stopped before its outputs are collected; a person may write *)
(* to, or delete from, a directory of theirs until the end.                *)
PersonWrites ==
  /\ phase \in {"running", "collecting", "pushing"} /\ ~own
  /\ \E p \in Output : Rewrites(p, {FALSE})
  /\ UNCHANGED <<own, phase, landed, before, queue, notes, unheard, pushFailed, library, made>>

PersonDeletes ==
  /\ phase = "pushing" /\ ~own /\ writes < MaxWrites /\ writes' = writes + 1
  /\ \E p \in Output : There(p) /\ disk' = [disk EXCEPT ![p] = NoFile]
  /\ UNCHANGED <<own, phase, landed, before, queue, notes, unheard, pushFailed, library, made>>

(* The turns end, well or not; teardown stops the app and removes its      *)
(* configuration.  The outputs are pushed either way.                      *)
AppEnds ==
  /\ Step("running", "collecting")
  /\ disk' = [disk EXCEPT ![Config] = NoFile]
  /\ UNCHANGED <<own, landed, before, queue, notes, unheard, pushFailed, library, made, writes>>

(* A panic pushes nothing and keeps the directory.                         *)
Panics ==
  /\ Step("running", "ended")
  /\ disk' = [disk EXCEPT ![Config] = NoFile]
  /\ UNCHANGED <<own, landed, before, queue, notes, unheard, pushFailed, library, made, writes>>

-----------------------------------------------------------------------------
(* pushOutputs                                                             *)

Changed(p) == There(p) /\ <<p, disk[p].v>> \notin before

Produced == SelectSeq(Listing, LAMBDA p : p \in Output /\ Changed(p))
Small == SelectSeq(Produced, LAMBDA p : ~disk[p].big)
Taken(cap) == SubSeq(Small, 1, IF Len(Small) > cap THEN cap ELSE Len(Small))

(* emitChunk for a file that is left out: past max_transcript_bytes, or    *)
(* where the stream takes none of its three tries, the line goes nowhere,  *)
(* and the transcript is closed by now.                                    *)
Names(files) ==
  \E dropped \in SUBSET files :
    notes' = notes \cup (files \ dropped) /\ unheard' = unheard \cup dropped

(* Mutant: what is past the count is left out without a word.              *)
CollectsQuietly ==
  /\ Step("collecting", "pushing")
  /\ \E cap \in Caps : queue' = Taken(cap)
  /\ Names(ToSet(Produced) \ ToSet(Small))
  /\ UNCHANGED <<own, disk, landed, before, pushFailed, library, made, writes>>

(* collectProduced: the files that changed, without dependencies and       *)
(* scaffolding, in the order of their names; what is over the size or past *)
(* the count is named.                                                     *)
Collects ==
  /\ Step("collecting", "pushing")
  /\ \E cap \in Caps : queue' = Taken(cap) /\ Names(ToSet(Produced) \ ToSet(Taken(cap)))
  /\ UNCHANGED <<own, disk, landed, before, pushFailed, library, made, writes>>

(* Mutant: the last segment, as the Library would name it.                 *)
lastSegment(p) == IF p = "d/a" THEN "a" ELSE p

(* artifactName: the whole path, flattened.                                *)
artifactName(p) == IF p = "d/a" THEN "d__a" ELSE p

Pushing(p) == phase = "pushing" /\ queue # <<>> /\ p = Head(queue) /\ queue' = Tail(queue)

Sent(p) ==
  [path |-> p, name |-> artifactName(p), v |-> disk[p].v, credential |-> disk[p].credential]

(* Mutant: the file is sent without a look inside.                         *)
PushesUnread ==
  /\ \E p \in Output : Pushing(p) /\ There(p) /\ library' = library \cup {Sent(p)}
  /\ UNCHANGED <<own, disk, phase, landed, before, notes, unheard, pushFailed, made, writes>>

(* holdsFile and Push: a file that holds the credential is named and left; *)
(* another is sent.                                                        *)
Pushes ==
  /\ \E p \in Output :
       /\ Pushing(p) /\ There(p)
       /\ IF disk[p].credential THEN Names({p}) /\ UNCHANGED library
          ELSE library' = library \cup {Sent(p)} /\ UNCHANGED <<notes, unheard>>
  /\ UNCHANGED <<own, disk, phase, landed, before, pushFailed, made, writes>>

(* The file is gone or cannot be read, or the push fails, perhaps only its *)
(* reply; the next file is pushed all the same.                            *)
PushFails ==
  /\ pushFailed' = TRUE
  /\ \E p \in Output, arrived \in BOOLEAN :
       /\ Pushing(p)
       /\ arrived => There(p) /\ ~disk[p].credential
       /\ library' = IF arrived THEN library \cup {Sent(p)} ELSE library
  /\ UNCHANGED <<own, disk, phase, landed, before, notes, unheard, made, writes>>

(* The transcript comes last.                                              *)
PushesTranscript ==
  /\ Step("pushing", "releasing") /\ queue = <<>>
  /\ pushFailed' \in {pushFailed, TRUE}
  /\ UNCHANGED <<own, disk, landed, before, queue, notes, unheard, library, made, writes>>

(* Mutant: the directory goes whatever became of the push.                 *)
ReleasesAlways ==
  /\ Step("releasing", "ended")
  /\ disk' = IF own THEN [p \in AllPaths |-> NoFile] ELSE disk
  /\ UNCHANGED <<own, landed, before, queue, notes, unheard, pushFailed, library, made, writes>>

(* keepWorkspace when a push failed, releaseWorkspace otherwise: only what *)
(* this machine made for the session is removed.                           *)
Releases ==
  /\ Step("releasing", "ended")
  /\ disk' = IF own /\ ~pushFailed /\ ~(Keeps /\ notes \cup unheard # {})
             THEN [p \in AllPaths |-> NoFile] ELSE disk
  /\ UNCHANGED <<own, landed, before, queue, notes, unheard, pushFailed, library, made, writes>>

Over == phase = "ended" /\ UNCHANGED vars

Next ==
  \/ Creates \/ Lands \/ PullFails \/ Snapshots
  \/ AppWrites \/ PersonWrites \/ PersonDeletes \/ AppEnds \/ Panics
  \/ Collects \/ Pushes \/ PushFails \/ PushesTranscript \/ Releases \/ Over

Spec == Init /\ [][Next]_vars

-----------------------------------------------------------------------------
(* Properties                                                              *)

Files == [v : Nat, big : BOOLEAN, credential : BOOLEAN]

(* The types of the variables.                                             *)
OutputsTypeOK ==
  /\ own \in BOOLEAN /\ pushFailed \in BOOLEAN
  /\ DOMAIN disk = AllPaths /\ \A p \in AllPaths : disk[p] \in Files
  /\ phase \in {"pulling", "running", "collecting", "pushing", "releasing", "ended"}
  /\ landed \in 0 .. Len(Landing) /\ writes \in 0 .. MaxWrites
  /\ notes \subseteq Output /\ unheard \subseteq Output /\ ToSet(queue) \subseteq Output
  /\ \A l \in library : l.path \in Output

(* pullInputs: an app starts with every input whole, in its own file.      *)
InputsAreWhole ==
  phase = "pulling" /\ phase' = "running" =>
    \A i \in DOMAIN Landing : disk'[Landing[i]] = Artifact(i)

(* chunks.go, workspace.go: of every file the app left in a directory of   *)
(* the session's own, the end finds that very version in the Library, or   *)
(* the file still on disk, or it was named as left out, in the stream or,  *)
(* against chunks.go:284-285, in a line that emitChunk dropped.            *)
OutputsAreTold ==
  phase = "ended" /\ own =>
    \A p \in Output : made[p] # 0 =>
      \/ \E l \in library : l.path = p /\ l.v = made[p]
      \/ disk[p].v = made[p]
      \/ p \in notes \cup unheard

(* The Library is given what came after the start of the app, never an     *)
(* input handed back, a file from before, or the session's credential; and *)
(* no two files under one name.                                            *)
ArtifactsAreOutputs ==
  /\ \A l \in library : l.v >= 10 /\ ~l.credential
  /\ \A l, m \in library : l.name = m.name => l.path = m.path

(* workspace.go:32-35 read to the letter: a directory whose outputs did    *)
(* not reach the Library is kept.  It holds with Keeps.                    *)
OnlyCopiesAreKept ==
  phase = "ended" /\ own =>
    \A p \in Output : made[p] # 0 =>
      (\E l \in library : l.path = p /\ l.v = made[p]) \/ disk[p].v = made[p]
=============================================================================
