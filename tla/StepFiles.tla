----------------------------- MODULE StepFiles ------------------------------
(* What one step of a pipeline is asked, runs and returns                  *)
(* (internal/worker/tools/pipeline_step.go): the request's checks, the     *)
(* checkout by three commands of git, the step's command in its            *)
(* environment, and its artifacts: found in the checkout, packed, sent in  *)
(* pieces before the result.  The reservation, the workspace and the       *)
(* process groups are those of MachineCapacity and StepOutput: here a      *)
(* command of them is one step, and what has left its group may go on      *)
(* writing in the checkout.                                                *)
EXTENDS Integers, Sequences, FiniteSets, FiniteSetsExt

CONSTANTS
  Requests,    \* [agent, repository, names, scheme, clash, wants, declared]
  Policies,    \* [allow, repos, ceiling]
  Trees,       \* what a checkout may hold: name -> [kind, size, text]
  MaxFiles, MaxBytes, Wire,   \* the limits of the artifacts
  Piece,       \* bytes of a piece
  Default,     \* the timeout of a step that names none
  Ceiling,     \* the ceiling of a policy that names none
  MaxStray     \* bound: what a stray process changes

StepFilesAssumption ==
  /\ {MaxFiles, MaxBytes, Wire, Piece, Default, Ceiling} \subseteq Nat \ {0}
  /\ \A t \in Trees : \A n \in DOMAIN t : t[n].kind \in {"file", "link", "outside"} /\ t[n].size \in Nat

VARIABLES
  req, policy,  \* what is asked, what the owner allows
  at,           \* "check", "git", "command", "find", "pack", "send", "told"
  ctx,          \* "live", "late" (past the timeout) or "cancelled"
  limit,        \* the timeout it runs under
  git,          \* commands of git done
  tree,         \* what the checkout holds
  exit,         \* the command's status
  left,         \* declared patterns not looked at yet
  found,        \* the inventory: name -> size
  missing,      \* patterns that gave nothing
  archive,      \* name -> text, what is packed so far
  big,          \* left out for their size
  sent,         \* bytes sent
  steady,       \* history: nothing changed in the checkout since the command
  base,         \* history: the checkout as the command left it
  answer,       \* what the caller is told
  strays

step_files_vars ==
  <<req, policy, at, ctx, limit, git, tree, exit, left, found, missing, archive, big, sent, steady, base, answer, strays>>

NoTree == [n \in {} |-> 0]
NoAnswer == [code |-> "-", exit |-> 0, bytes |-> 0, missing |-> {}, big |-> FALSE]

StepFilesTypeOK ==
  /\ req \in Requests /\ policy \in Policies
  /\ at \in {"check", "git", "command", "find", "pack", "send", "told"}
  /\ ctx \in {"live", "late", "cancelled"} /\ limit \in 0..Max({Default, Ceiling} \cup {p.ceiling : p \in Policies})
  /\ git \in 0..3 /\ tree \in Trees \cup {NoTree} /\ exit \in 0..1
  /\ DOMAIN archive \subseteq DOMAIN found /\ sent \in 0..Wire /\ {big, steady} \subseteq BOOLEAN
  /\ left \in 0..Len(req.declared) /\ missing \subseteq 1..Len(req.declared) /\ strays \in 0..MaxStray

Init ==
  /\ req \in Requests /\ policy \in Policies
  /\ at = "check" /\ ctx = "live" /\ limit = 0 /\ git = 0 /\ tree = NoTree /\ exit = 0
  /\ left = Len(req.declared) /\ found = NoTree /\ missing = {} /\ archive = NoTree /\ big = FALSE /\ sent = 0
  /\ steady = TRUE /\ base = NoTree /\ answer = NoAnswer /\ strays = 0

-----------------------------------------------------------------------------
(* The request                                                             *)

(* What the owner's policy runs steps of.                                  *)
Runs(p, repository) == p.allow /\ (p.repos = {} \/ repository \in p.repos)

(* What is cloned is the repository named, over https without credentials, *)
(* and no variable is given twice.                                         *)
WellFormed(r) == r.scheme = "https" /\ r.names = r.repository /\ r.repository # "-" /\ ~r.clash

(* Mutant: the listed name is enough, whatever is cloned. *)
RefusalOfName(r, p) ==
  CASE r.agent \/ ~Runs(p, r.repository) -> "denied_by_policy"
    [] r.scheme # "https" \/ r.clash -> "bad_request"
    [] OTHER -> "none"
(* Only the pipeline runner asks, for a repository its owner lists.        *)
Refusal(r, p) ==
  CASE r.agent \/ ~Runs(p, r.repository) -> "denied_by_policy"
    [] ~WellFormed(r) -> "bad_request"
    [] OTHER -> "none"

(* Mutant: a step that names no timeout is not held to the ceiling. *)
TimeoutUnheld(wanted, ceiling) ==
  IF wanted <= 0 THEN Default ELSE Min({wanted, IF ceiling <= 0 THEN Ceiling ELSE ceiling})
Timeout(wanted, ceiling) ==
  Min({IF wanted <= 0 THEN Default ELSE wanted, IF ceiling <= 0 THEN Ceiling ELSE ceiling})

Files == <<tree, found, missing, archive, big, sent, steady, base, left>>
Tell(code) == at' = "told" /\ answer' = [NoAnswer EXCEPT !.code = code]

Checks ==
  /\ at = "check"
  /\ \/ Refusal(req, policy) # "none" /\ Tell(Refusal(req, policy)) /\ UNCHANGED limit
     \/ /\ Refusal(req, policy) = "none" /\ at' = "git"
        /\ limit' = Timeout(req.wants, policy.ceiling) /\ UNCHANGED answer
  /\ UNCHANGED <<req, policy, ctx, git, exit, strays, Files>>
(* git is not there, or only the stub that asks to be installed.           *)
GitUnusable ==
  /\ at = "check" /\ Refusal(req, policy) = "none"
  /\ Tell("pipeline_clone_failed")
  /\ UNCHANGED <<req, policy, ctx, limit, git, exit, strays, Files>>

-----------------------------------------------------------------------------
(* The commands                                                            *)

Late == ctx # "live"
Stopped == Tell(IF ctx = "late" THEN "timeout" ELSE "cancelled")

(* init, fetch of exactly the commit, checkout: each ends by itself, or is *)
(* stopped with the step.                                                  *)
GitDone ==
  /\ at = "git" /\ ~Late
  /\ git' = git + 1
  /\ IF git = 2 THEN at' = "command" /\ tree' \in Trees ELSE UNCHANGED <<at, tree>>
  /\ UNCHANGED <<req, policy, ctx, limit, exit, left, found, missing, archive, big, sent, steady, base, answer, strays>>
GitFails == at = "git" /\ ~Late /\ Tell("pipeline_clone_failed") /\ UNCHANGED <<req, policy, ctx, limit, git, exit, strays, Files>>
CommandFails == at = "command" /\ ~Late /\ Tell("exec_failed") /\ UNCHANGED <<req, policy, ctx, limit, git, exit, strays, Files>>

(* The command leaves what it made in the checkout.                        *)
CommandDone ==
  /\ at = "command" /\ ~Late
  /\ \E t \in Trees, e \in 0..1 : tree' = t /\ base' = t /\ exit' = e
  /\ steady' = TRUE /\ at' = "find"
  /\ UNCHANGED <<req, policy, ctx, limit, git, left, found, missing, archive, big, sent, answer, strays>>

(* Past the timeout, or cancelled: by the cluster, by the loss of its      *)
(* stream, by the end of the worker.                                       *)
Stops ==
  /\ Late /\ Stopped
  /\ \/ at \in {"git", "command"}
     \/ at = "find" /\ left > 0
     \/ at = "pack" /\ DOMAIN archive # DOMAIN found
     \/ at = "send" /\ ~big /\ DOMAIN archive # {}
  /\ UNCHANGED <<req, policy, ctx, limit, git, exit, strays, Files>>
ContextEnds(how) ==
  /\ at \notin {"check", "told"} /\ ctx = "live" /\ ctx' = how
  /\ UNCHANGED <<req, policy, at, limit, git, exit, answer, strays, Files>>

-----------------------------------------------------------------------------
(* The artifacts                                                           *)

(* A stray process of the step's, in the checkout.                         *)
StrayWrites ==
  /\ at \in {"find", "pack"} /\ strays < MaxStray /\ strays' = strays + 1
  /\ \E t \in Trees \ {tree} : tree' = t
  /\ steady' = FALSE
  /\ UNCHANGED <<req, policy, at, ctx, limit, git, exit, left, found, missing, archive, big, sent, base, answer>>

(* Regular files in the checkout, every link of their path followed.       *)
Inside(t, names) == {n \in names \cap DOMAIN t : t[n].kind = "file"}

SumOf(f) == FoldSet(LAMBDA n, s : s + f[n], 0, DOMAIN f)
(* One pattern is walked: each of its files is listed once, whichever      *)
(* patterns it is met by, up to the limits.                                *)
Next1 == Len(req.declared) - left + 1
Gathered ==
  LET new == Inside(tree, req.declared[Next1])
  IN [n \in DOMAIN found \cup new |-> IF n \in DOMAIN found THEN found[n] ELSE tree[n].size]
TooMuch(f) == Cardinality(DOMAIN f) > MaxFiles \/ SumOf(f) > MaxBytes
(* Mutant: a pattern whose files another has listed already is missing. *)
FindsNew ==
  /\ at = "find" /\ left > 0 /\ ~TooMuch(Gathered)
  /\ Late => Inside(tree, req.declared[Next1]) = {}
  /\ found' = Gathered /\ left' = left - 1
  /\ missing' = IF DOMAIN Gathered = DOMAIN found THEN missing \cup {Next1} ELSE missing
  /\ UNCHANGED <<req, policy, at, ctx, limit, git, tree, exit, archive, big, sent, steady, base, answer, strays>>
Finds ==
  /\ at = "find" /\ left > 0 /\ ~TooMuch(Gathered)
  /\ Late => Inside(tree, req.declared[Next1]) = {}
  /\ found' = Gathered /\ left' = left - 1
  /\ missing' = IF Inside(tree, req.declared[Next1]) = {} THEN missing \cup {Next1} ELSE missing
  /\ UNCHANGED <<req, policy, at, ctx, limit, git, tree, exit, archive, big, sent, steady, base, answer, strays>>
FindsTooMuch ==
  /\ at = "find" /\ left > 0 /\ ~Late /\ TooMuch(Gathered)
  /\ big' = TRUE /\ at' = "send"
  /\ UNCHANGED <<req, policy, ctx, limit, git, tree, exit, left, found, missing, archive, sent, steady, base, answer, strays>>
AllFound ==
  /\ at = "find" /\ left = 0
  /\ at' = IF DOMAIN found = {} THEN "send" ELSE "pack"
  /\ UNCHANGED <<req, policy, ctx, limit, git, tree, exit, left, found, missing, archive, big, sent, steady, base, answer, strays>>

(* Each file is opened once more; one that is gone, is no file any more or *)
(* has another size fails the artifacts.                                   *)
ArchiveBytes == FoldSet(LAMBDA n, s : s + found[n] + 1, 0, DOMAIN archive)
Unpacked == DOMAIN found \ DOMAIN archive
(* Mutant: one that changed is packed as it is now. *)
AsFoundAny(n) == n \in DOMAIN tree /\ tree[n].kind = "file"
AsFound(n) == n \in DOMAIN tree /\ tree[n].kind = "file" /\ tree[n].size = found[n]
Packs(n) ==
  /\ at = "pack" /\ ~Late /\ n \in Unpacked /\ AsFound(n)
  /\ IF ArchiveBytes + found[n] + 1 > Wire
     THEN big' = TRUE /\ at' = "send" /\ UNCHANGED archive
     ELSE /\ archive' = [m \in DOMAIN archive \cup {n} |-> IF m = n THEN <<tree[n].size, tree[n].text>> ELSE archive[m]]
          /\ UNCHANGED <<big, at>>
  /\ UNCHANGED <<req, policy, ctx, limit, git, tree, exit, left, found, missing, sent, steady, base, answer, strays>>
PackFails(n) ==
  /\ at = "pack" /\ ~Late /\ n \in Unpacked /\ ~AsFound(n) /\ Tell("artifact_failed")
  /\ UNCHANGED <<req, policy, ctx, limit, git, exit, strays, Files>>
PackedAll ==
  /\ at = "pack" /\ Unpacked = {} /\ at' = "send"
  /\ UNCHANGED <<req, policy, ctx, limit, git, exit, answer, strays, Files>>

ToSend == IF big THEN 0 ELSE ArchiveBytes
(* The archive goes in pieces; what is too big does not go at all.         *)
Sends ==
  /\ at = "send" /\ ~Late /\ sent < ToSend
  /\ sent' = Min({sent + Piece, ToSend})
  /\ UNCHANGED <<req, policy, at, ctx, limit, git, tree, exit, left, found, missing, archive, big, steady, base, answer, strays>>
SendFails ==
  /\ at = "send" /\ sent < ToSend /\ Tell("artifact_failed")
  /\ UNCHANGED <<req, policy, ctx, limit, git, exit, strays, Files>>
(* Mutant: the result goes with the first piece. *)
AnswersEarly ==
  /\ at = "send" /\ (sent = ToSend \/ sent > 0) /\ at' = "told"
  /\ answer' = [code |-> "ok", exit |-> exit, bytes |-> ToSend, missing |-> missing, big |-> big]
  /\ UNCHANGED <<req, policy, ctx, limit, git, exit, strays, Files>>
Answers ==
  /\ at = "send" /\ sent = ToSend /\ at' = "told"
  /\ answer' = [code |-> "ok", exit |-> exit, bytes |-> ToSend, missing |-> missing, big |-> big]
  /\ UNCHANGED <<req, policy, ctx, limit, git, exit, strays, Files>>

Over == at = "told" /\ UNCHANGED step_files_vars

Next ==
  \/ Checks \/ GitUnusable \/ GitDone \/ GitFails \/ CommandFails \/ CommandDone \/ Stops
  \/ \E how \in {"late", "cancelled"} : ContextEnds(how)
  \/ StrayWrites \/ Finds \/ FindsTooMuch \/ AllFound
  \/ \E n \in Unpacked : Packs(n) \/ PackFails(n)
  \/ PackedAll \/ Sends \/ SendFails \/ Answers \/ Over

Spec == Init /\ [][Next]_step_files_vars

-----------------------------------------------------------------------------
(* What a step returns is what it was asked for and what it made.  Nothing *)
(* ran for an agent, for a repository its owner does not list or under     *)
(* another's name, or for longer than the owner's ceiling.  A result comes *)
(* after every byte of the archive it tells of, and the archive then holds *)
(* each file that the declared paths led to, once, with the size it was    *)
(* found with; a path is reported missing exactly if no file was found     *)
(* under it.  If nothing disturbed the checkout that is exactly what the   *)
(* command left, and what is over the limits is left out whole, with the   *)
(* command's own status kept.  A step that was stopped says by what.       *)
(* (tools/pipeline_step.go, docs/pipelines.md 166-188)                     *)
Listed(k) == Inside(base, req.declared[k])
Wanted == UNION {Listed(k) : k \in 1..Len(req.declared)}
StepReturnsItsFiles ==
  /\ git > 0 => /\ ~req.agent /\ policy.allow /\ (policy.repos = {} \/ req.names \in policy.repos)
                /\ limit > 0 /\ limit <= IF policy.ceiling > 0 THEN policy.ceiling ELSE Ceiling
  /\ answer.code = "ok" =>
       /\ answer.exit = exit /\ sent = answer.bytes /\ git = 3 /\ base # NoTree
       /\ answer.big => answer.bytes = 0
       /\ ~answer.big =>
            /\ DOMAIN archive = DOMAIN found
            /\ \A n \in DOMAIN archive : archive[n][1] = found[n]
            /\ steady => /\ DOMAIN archive = Wanted
                         /\ \A n \in Wanted : base[n].kind = "file" /\ archive[n] = <<base[n].size, base[n].text>>
                         /\ answer.missing = {k \in 1..Len(req.declared) : Listed(k) = {}}
       /\ (steady /\ answer.big) => \/ Cardinality(Wanted) > MaxFiles
                                    \/ FoldSet(LAMBDA n, s : s + base[n].size, 0, Wanted) > MaxBytes
                                    \/ FoldSet(LAMBDA n, s : s + base[n].size + 1, 0, Wanted) > Wire
  /\ answer.code = "timeout" => ctx = "late"
  /\ answer.code = "cancelled" => ctx = "cancelled"
=============================================================================
