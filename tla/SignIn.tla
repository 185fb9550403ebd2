------------------------------- MODULE SignIn -------------------------------
(* The cached sign-in of one cluster: what `memql login`, `access`,        *)
(* `logout` and `creds migrate-to-keyring` of a person and the bearer of   *)
(* the background worker do with the pair of tokens that the two stores    *)
(* keep (internal/auth/token.go, internal/config/credstore*.go,            *)
(* cmd/memql/creds.go).  The identity service replaces the refresh token   *)
(* at every refresh, so a pair that is not saved, or is kept twice, is a   *)
(* sign-in lost.  Nothing orders the processes; the file is written in     *)
(* place.                                                                  *)
EXTENDS Integers, FiniteSets

CONSTANTS
  Commands,     \* the commands of a person
  Workers,    \* the worker's own requests for a bearer
  Keyring,    \* BOOLEAN: the system has a keyring, which the commands prefer
  Echoes,     \* BOOLEAN: identity answers a refresh with the new refresh token
  MaxMints,   \* bound: refresh tokens identity hands out
  MaxMishaps   \* bound: deaths, failed writes, lost requests and answers, ended sessions

SignInAssumption ==
  /\ Commands \cap Workers = {} /\ Keyring \in BOOLEAN /\ Echoes \in BOOLEAN
  /\ MaxMints \in Nat \ {0} /\ MaxMishaps \in Nat

VARIABLES
  kept,    \* what each store holds
  live,    \* the refresh tokens identity takes
  mints,   \* the refresh tokens it has handed out
  runs,    \* what each process is doing
  why,     \* history: what has cost each store its sign-in since it last worked
  mishaps

signin_vars == <<kept, live, mints, runs, why, mishaps>>

Askers == Commands \cup Workers
Stores == {"file", "keyring"}
Causes == {"never", "out", "ended", "unheard", "unsaved", "died", "raced", "moved", "twin"}

(* A store's entry: the file may be cut off, or readable by others.        *)
Entry == [is: {"none", "torn", "whole"}, ref: 0..MaxMints, fresh: BOOLEAN, loose: BOOLEAN]
NoEntry == [is |-> "none", ref |-> 0, fresh |-> FALSE, loose |-> FALSE]
Whole(r) == [is |-> "whole", ref |-> r, fresh |-> TRUE, loose |-> FALSE]

AtRest == [at |-> "idle", ref |-> 0, got |-> 0]
Points == {"idle", "load", "refresh", "rejected", "prompt", "pair", "saving", "leave",
           "read", "check", "put", "delete"}
Run == [at: Points, ref: 0..MaxMints, got: 0..MaxMints]

(* The commands take the keyring where there is one; the worker never      *)
(* does, for it must not wait for the person to unlock it.                 *)
Backend(p) == IF Keyring /\ p \in Commands THEN "keyring" ELSE "file"

Busy(s, p) == \E q \in Askers \ {p} : runs[q].at # "idle" /\ Backend(q) = s
Unsaved(s) == \E q \in Askers : runs[q].at \in {"pair", "saving"} /\ Backend(q) = s
Blame(s, c) == [why EXCEPT ![s] = @ \cup {c}]

SignInTypeOK ==
  /\ kept \in [Stores -> Entry]
  /\ live \subseteq 1..MaxMints
  /\ mints \in 0..MaxMints
  /\ runs \in [Askers -> Run]
  /\ why \in [Stores -> SUBSET Causes]
  /\ mishaps \in 0..MaxMishaps

(* A file may be left from before there was a keyring, or from a command   *)
(* told to use it.                                                         *)
SignInInit ==
  /\ mints \in {0, 1} /\ live = 1..mints
  /\ kept = [s \in Stores |-> IF s = "file" /\ mints = 1 THEN Whole(1) ELSE NoEntry]
  /\ why = [s \in Stores |-> IF s = "file" /\ mints = 1 THEN {} ELSE {"never"}]
  /\ runs = [p \in Askers |-> AtRest]
  /\ mishaps = 0

Goes(p, at) == runs' = [runs EXCEPT ![p].at = at]
Leaves(p) == runs' = [runs EXCEPT ![p] = AtRest]
Mishap == mishaps < MaxMishaps /\ mishaps' = mishaps + 1

(* Who comes while another process holds a pair it has not saved may load  *)
(* one that identity no longer takes.                                      *)
Comes(p) ==
  /\ why' = IF Unsaved(Backend(p)) THEN Blame(Backend(p), "raced") ELSE why
  /\ UNCHANGED <<kept, live, mints, mishaps>>

Begins(p) ==
  /\ p \in Commands /\ runs[p].at = "idle"
  /\ \/ Goes(p, "load")
     \/ Goes(p, "leave")
     \/ Keyring /\ Goes(p, "read")
  /\ Comes(p)

(* The worker asks before each sweep of a watched folder.                  *)
WorkerAsks(p) ==
  /\ p \in Workers /\ runs[p].at = "idle"
  /\ Goes(p, "load")
  /\ Comes(p)

-----------------------------------------------------------------------------
(* The bearer                                                              *)

(* The load fails on a file that is cut off or that others may read.       *)
Loads(p) ==
  LET e == kept[Backend(p)]
      needed == IF e.ref # 0 THEN "refresh" ELSE "rejected"
  IN /\ runs[p].at = "load"
     /\ runs' = IF e.is = "torn" \/ e.loose \/ e.fresh THEN [runs EXCEPT ![p] = AtRest]
                ELSE [runs EXCEPT ![p].at = needed, ![p].ref = e.ref]
     /\ UNCHANGED <<kept, live, mints, why, mishaps>>

(* A rotation leaves the other holders of the old token without a sign-in. *)
Rotated(p, r) ==
  [s \in Stores |->
    why[s] \cup (IF s # Backend(p) /\ kept[s].ref = r THEN {"twin"} ELSE {})
           \cup (IF Busy(s, p) THEN {"raced"} ELSE {})]

(* Identity takes the token and answers with its successor, or with the    *)
(* access token alone.                                                     *)
Refreshes(p) ==
  /\ runs[p].at = "refresh" /\ runs[p].ref \in live /\ mints < MaxMints
  /\ mints' = mints + 1
  /\ live' = (live \ {runs[p].ref}) \cup {mints + 1}
  /\ why' = Rotated(p, runs[p].ref)
  /\ runs' = [runs EXCEPT ![p].at = "pair", ![p].got = IF Echoes THEN mints + 1 ELSE runs[p].ref]
  /\ UNCHANGED <<kept, mishaps>>

(* Mutant: any failure of a refresh is taken for a refusal. *)
RefreshRefusedByAny(p) ==
  /\ runs[p].at = "refresh"
  /\ Mishap
  /\ Goes(p, "rejected")
  /\ UNCHANGED <<kept, live, mints, why>>

(* The request never arrives, or identity fails: the pair stays for later. *)
RefreshFails(p) ==
  /\ runs[p].at = "refresh"
  /\ Mishap
  /\ Leaves(p)
  /\ UNCHANGED <<kept, live, mints, why>>

(* The answer is lost behind the rotation: to the process it is the same   *)
(* failure, but the pair it keeps is of no use any more.                   *)
AnswerLost(p) ==
  /\ runs[p].at = "refresh" /\ runs[p].ref \in live /\ mints < MaxMints
  /\ Mishap
  /\ mints' = mints + 1
  /\ live' = (live \ {runs[p].ref}) \cup {mints + 1}
  /\ why' = [Rotated(p, runs[p].ref) EXCEPT ![Backend(p)] = @ \cup {"unheard"}]
  /\ Leaves(p)
  /\ UNCHANGED kept

(* 401 or 403.                                                             *)
Refused(p) ==
  /\ runs[p].at = "refresh" /\ runs[p].ref \notin live
  /\ Goes(p, "rejected")
  /\ UNCHANGED <<kept, live, mints, why, mishaps>>

(* Mutant: the worker asks as the commands do. *)
PromptsAnyone(p) ==
  /\ runs[p].at = "rejected"
  /\ Goes(p, "prompt")
  /\ UNCHANGED <<kept, live, mints, why, mishaps>>

(* The last resort: the worker says that a person has to sign in.          *)
Prompts(p) ==
  /\ runs[p].at = "rejected"
  /\ IF p \in Commands THEN Goes(p, "prompt") ELSE Leaves(p)
  /\ UNCHANGED <<kept, live, mints, why, mishaps>>

LogsIn(p) ==
  /\ runs[p].at = "prompt"
  /\ \/ /\ mints < MaxMints
        /\ mints' = mints + 1 /\ live' = live \cup {mints + 1}
        /\ runs' = [runs EXCEPT ![p].at = "pair", ![p].got = mints + 1]
     \/ Leaves(p) /\ UNCHANGED <<live, mints>>
  /\ UNCHANGED <<kept, why, mishaps>>

(* The file is cut before it is written; the keyring replaces its entry.   *)
Cuts(p) ==
  /\ runs[p].at = "pair" /\ Backend(p) = "file"
  /\ kept' = [kept EXCEPT !["file"] = [@ EXCEPT !.is = "torn", !.ref = 0, !.fresh = FALSE]]
  /\ Goes(p, "saving")
  /\ UNCHANGED <<live, mints, why, mishaps>>

(* Mutant: the save keeps the access token only. *)
SavedWithoutRefresh(p) == [kept EXCEPT ![Backend(p)] = Whole(0)]

Saved(p) == [kept EXCEPT ![Backend(p)] = [Whole(runs[p].got) EXCEPT !.loose = kept[Backend(p)].loose]]

(* The pair is saved, and what had cost the store its sign-in is over.     *)
SavesPair(p) ==
  /\ runs[p].at = (IF Backend(p) = "file" THEN "saving" ELSE "pair")
  /\ kept' = Saved(p)
  /\ why' = [why EXCEPT ![Backend(p)] = (IF Busy(Backend(p), p) THEN {"raced"} ELSE {})
                                         \cup (IF runs[p].got \in live THEN {} ELSE @)
                                         \cup (IF Echoes THEN {} ELSE {"unheard"})]
  /\ Leaves(p)
  /\ UNCHANGED <<live, mints, mishaps>>

(* A failed save is logged at most; the token is handed out all the same.  *)
SaveFails(p) ==
  /\ runs[p].at \in {"pair", "saving"}
  /\ Mishap
  /\ why' = Blame(Backend(p), "unsaved")
  /\ Leaves(p)
  /\ UNCHANGED <<kept, live, mints>>

-----------------------------------------------------------------------------
(* The other commands, and what happens to all of them                     *)

(* Logout removes what the command's own store holds, and tells nobody.    *)
LogsOut(p) ==
  /\ runs[p].at = "leave"
  /\ kept' = [kept EXCEPT ![Backend(p)] = NoEntry]
  /\ why' = Blame(Backend(p), "out")
  /\ Leaves(p)
  /\ UNCHANGED <<live, mints, mishaps>>

(* The migration reads the file, passes over a cluster the keyring has,    *)
(* writes the keyring, and removes the file.                               *)
MigrationReads(p) ==
  /\ runs[p].at = "read"
  /\ IF kept["file"].is # "whole" \/ kept["file"].loose THEN Leaves(p)
     ELSE runs' = [runs EXCEPT ![p].at = "check", ![p].ref = kept["file"].ref]
  /\ UNCHANGED <<kept, live, mints, why, mishaps>>

MigrationChecks(p) ==
  /\ runs[p].at = "check"
  /\ IF kept["keyring"].is = "whole" THEN Leaves(p) ELSE Goes(p, "put")
  /\ UNCHANGED <<kept, live, mints, why, mishaps>>

(* What the keyring had lost is over; a token that has already been        *)
(* replaced is of no use there, and who reads it meanwhile may lose.       *)
Replaced(p) == [why EXCEPT !["keyring"] = (IF runs[p].ref \in live THEN {} ELSE {"twin"})
                                          \cup (IF Busy("keyring", p) THEN {"raced"} ELSE {})]

(* Mutant: the file is removed though the keyring did not take the token. *)
MigrationPutsBlindly(p) ==
  /\ runs[p].at = "put"
  /\ \/ /\ kept' = [kept EXCEPT !["keyring"] = Whole(runs[p].ref)]
        /\ why' = Replaced(p)
        /\ UNCHANGED mishaps
     \/ Mishap /\ UNCHANGED <<kept, why>>
  /\ Goes(p, "delete")
  /\ UNCHANGED <<live, mints>>

(* From here to the removal one token is in two places.                    *)
MigrationPuts(p) ==
  /\ runs[p].at = "put"
  /\ \/ /\ kept' = [kept EXCEPT !["keyring"] = Whole(runs[p].ref)]
        /\ why' = Replaced(p)
        /\ Goes(p, "delete") /\ UNCHANGED mishaps
     \/ Mishap /\ Leaves(p) /\ UNCHANGED <<kept, why>>
  /\ UNCHANGED <<live, mints>>

MigrationDeletes(p) ==
  /\ runs[p].at = "delete"
  /\ \/ /\ kept' = [kept EXCEPT !["file"] = NoEntry]
        /\ why' = Blame("file", "moved")
        /\ UNCHANGED mishaps
     \/ Mishap /\ UNCHANGED <<kept, why>>
  /\ Leaves(p)
  /\ UNCHANGED <<live, mints>>

(* A process dies: the pair it had not saved is lost, a file it was        *)
(* writing stays cut off.                                                  *)
Dies(p) ==
  /\ runs[p].at # "idle"
  /\ Mishap
  /\ why' = IF runs[p].at \in {"pair", "saving"} THEN Blame(Backend(p), "died") ELSE why
  /\ Leaves(p)
  /\ UNCHANGED <<kept, live, mints>>

Expires(s) ==
  /\ kept[s].fresh
  /\ kept' = [kept EXCEPT ![s].fresh = FALSE]
  /\ UNCHANGED <<live, mints, runs, why, mishaps>>

SessionEnds ==
  /\ live # {}
  /\ Mishap
  /\ \E r \in live : live' = live \ {r}
  /\ why' = [s \in Stores |-> why[s] \cup {"ended"}]
  /\ UNCHANGED <<kept, mints, runs>>

(* Another tool writes the file readable by others, or the person repairs it. *)
ModeChanges ==
  /\ kept["file"].is # "none"
  /\ IF kept["file"].loose THEN UNCHANGED mishaps ELSE Mishap
  /\ kept' = [kept EXCEPT !["file"].loose = ~@]
  /\ UNCHANGED <<live, mints, runs, why>>

(* At the bounds what is left to do may be out of reach.                   *)
AtTheBounds == (mints = MaxMints \/ mishaps = MaxMishaps) /\ UNCHANGED signin_vars

SignInNext ==
  \/ \E p \in Askers :
       \/ Begins(p) \/ WorkerAsks(p) \/ Loads(p) \/ Refreshes(p) \/ RefreshFails(p) \/ AnswerLost(p) \/ Refused(p)
       \/ Prompts(p) \/ LogsIn(p) \/ Cuts(p) \/ SavesPair(p) \/ SaveFails(p) \/ LogsOut(p)
       \/ MigrationReads(p) \/ MigrationChecks(p) \/ MigrationPuts(p) \/ MigrationDeletes(p) \/ Dies(p)
  \/ \E s \in Stores : Expires(s)
  \/ SessionEnds \/ ModeChanges \/ AtTheBounds

SignInSpec == SignInInit /\ [][SignInNext]_signin_vars

-----------------------------------------------------------------------------
(* Properties                                                              *)

(* Nobody is asked to sign in again, and no worker gives up its bearer,    *)
(* unless the store it reads never had a sign-in or something named has    *)
(* cost it that; and only a person's command ever asks.                    *)
PromptsAreEarned ==
  \A p \in Askers :
    /\ runs[p].at \in {"rejected", "prompt"} => why[Backend(p)] # {}
    /\ runs[p].at = "prompt" => p \in Commands

(* When the migration is about to remove the file, the keyring has the     *)
(* cluster's entry, unless the person logged out meanwhile; and the token  *)
(* in it is one that identity takes, or a command is about to save one,    *)
(* unless something named has cost the keyring that.  A worker that        *)
(* refreshes the file's pair between the migration's read and its removal  *)
(* is such a thing ("twin"): then the removal takes the only sign-in that  *)
(* still works.                                                            *)
CopiesAreKept ==
  LET entry == kept["keyring"]
  IN \A p \in Askers : runs[p].at = "delete" =>
       /\ entry.is = "whole" \/ "out" \in why["keyring"]
       /\ \/ entry.is = "whole" /\ entry.ref \in live
          \/ Unsaved("keyring")
          \/ why["keyring"] \ {"never"} # {}

SignInsAreKept == PromptsAreEarned /\ CopiesAreKept

-----------------------------------------------------------------------------
(* Why sign-ins are kept: the inductive invariant.                         *)

Unspoilt(s) == why[s] = {}

(* A store that nothing has cost its sign-in holds one that identity takes,*)
(* or the one process at work on it is about to save one.                  *)
SoundStores ==
  \A s \in Stores : Unspoilt(s) => Unsaved(s) \/ (kept[s].is = "whole" /\ kept[s].ref \in live)

(* Who works on such a store has of it what identity takes, and who holds  *)
(* a pair it has not saved is alone.                                       *)
SoundRuns ==
  \A p \in Askers : Unspoilt(Backend(p)) =>
    /\ runs[p].at \notin {"rejected", "prompt"}
    /\ runs[p].at = "refresh" => runs[p].ref \in live
    /\ runs[p].at \in {"pair", "saving"} => ~Busy(Backend(p), p) /\ (Echoes => runs[p].got \in live)

(* Only commands prompt and migrate, and only into a keyring there is.     *)
Places ==
  \A p \in Askers :
    /\ runs[p].at \in {"prompt", "read", "check", "put", "delete"} => p \in Commands
    /\ runs[p].at \in {"read", "check", "put", "delete"} => Keyring

(* A migration that came to its removal has put an entry into the keyring, *)
(* which only a logout takes away.                                         *)
Confirmed ==
  \A p \in Askers : runs[p].at = "delete" =>
    /\ kept["keyring"].is = "whole" \/ "out" \in why["keyring"]
    /\ "never" \notin why["keyring"]

SignInInv == SignInTypeOK /\ SoundStores /\ SoundRuns /\ Places /\ Confirmed
=============================================================================
