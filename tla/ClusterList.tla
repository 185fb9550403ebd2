---------------------------- MODULE ClusterList ----------------------------
(* The commands that keep and use the list of clusters (cmd/memql/main.go, *)
(* internal/access/cmd.go, internal/config/clusters.go): `cluster add` and *)
(* `remove`, `login` and `access`, beside the desktop extension, which     *)
(* edits the same file under the same lock.  One edit is one step; the     *)
(* discovery before it, and the sign-in and the cached token behind it,    *)
(* are steps of their own.  A cluster stands for its identity service.     *)
EXTENDS Integers, FiniteSets

CONSTANTS
  Shells,     \* commands of the person
  Names,      \* the names entries may have
  Clusters,   \* what an entry may lead to
  Local,      \* the name that is always there
  Nobody,     \* no cluster, no name
  MaxEdits,   \* bound: commands and edits that change the list
  MaxFaults   \* bound: steps that fail

ClusterListAssumption ==
  /\ Local \in Names /\ IsFiniteSet(Names) /\ Nobody \notin Names \cup Clusters
  /\ MaxEdits \in Nat /\ MaxFaults \in Nat

VARIABLES
  entries,   \* clusters.yaml: name -> the cluster its entry leads to
  selected,  \* selected_cluster
  tokens,    \* the cached token of each name: of the cluster that gave it
  cmds,      \* what each command is doing
  spent,     \* edits and faults so far
  excused    \* history: names whose token outlived its entry for a reason

list_vars == <<entries, selected, tokens, cmds, spent, excused>>

Idle == [op |-> "none", at |-> "idle", name |-> Nobody, to |-> Nobody, asked |-> Nobody]
Cmd == [op: {"none", "add", "login", "access", "remove"},
        at: {"idle", "register", "sign", "save", "ask", "strike", "forget"},
        name: Names \cup {Nobody}, to: Clusters \cup {Nobody}, asked: Names \cup {Nobody}]

ClusterListTypeOK ==
  /\ entries \in [Names -> Clusters \cup {Nobody}]
  /\ selected \in Names \cup {Nobody}
  /\ tokens \in [Names -> Clusters \cup {Nobody}]
  /\ cmds \in [Shells -> Cmd]
  /\ spent \in [edits: 0..MaxEdits, faults: 0..MaxFaults]
  /\ excused \subseteq Names

Registered == {n \in Names : entries[n] # Nobody}

Init ==
  /\ entries = [n \in Names |-> Nobody]
  /\ selected = Nobody
  /\ tokens = [n \in Names |-> Nobody]
  /\ cmds = [s \in Shells |-> Idle]
  /\ spent = [edits |-> 0, faults |-> 0]
  /\ excused = {}

Does(s, at) == cmds' = [cmds EXCEPT ![s].at = at]
Ends(s) == cmds' = [cmds EXCEPT ![s] = Idle]
Edit == spent.edits < MaxEdits /\ spent' = [spent EXCEPT !.edits = @ + 1]
Fault == spent.faults < MaxFaults /\ spent' = [spent EXCEPT !.faults = @ + 1]

-----------------------------------------------------------------------------
(* Which cluster a command is about                                        *)

(* The entry of a name; "local" has one though the file has none.          *)
Found(n) == n = Local \/ n \in Registered

(* Mutant: several clusters and none selected: any will do. *)
ResolvesAny(n) ==
  IF n # Nobody THEN {m \in {n} : Found(m)}
  ELSE IF selected # Nobody /\ Found(selected) THEN {selected}
  ELSE Registered

(* No name: the selected cluster, or the only one; a selection that is no  *)
(* longer registered matters only where there is a choice.                 *)
Resolves(n) ==
  IF n # Nobody THEN {m \in {n} : Found(m)}
  ELSE IF selected # Nobody /\ Found(selected) THEN {selected}
  ELSE {m \in Registered : Cardinality(Registered) = 1}

AccessBegins(s) ==
  /\ cmds[s].at = "idle"
  /\ \E n \in Names \cup {Nobody} : \E m \in Resolves(n) :
       cmds' = [cmds EXCEPT ![s] = [op |-> "access", at |-> "sign", name |-> m, to |-> entries[m], asked |-> n]]
  /\ UNCHANGED <<entries, selected, tokens, spent, excused>>

LoginBegins(s) ==
  /\ cmds[s].at = "idle"
  /\ \E n \in Registered :
       cmds' = [cmds EXCEPT ![s] = [op |-> "login", at |-> "sign", name |-> n, to |-> entries[n], asked |-> n]]
  /\ UNCHANGED <<entries, selected, tokens, spent, excused>>

-----------------------------------------------------------------------------
(* Adding and removing                                                     *)

(* A domain leads to what its discovery document says, or, where there is  *)
(* none, to the addresses composed from it.                                *)
Discovered == Clusters

(* The name comes from the document or the domain, or from the person; the *)
(* reserved one is refused.                                                *)
Targets == (Names \ {Local}) \X Discovered

AddBegins(s) ==
  /\ cmds[s].at = "idle"
  /\ \E t \in Targets :
       cmds' = [cmds EXCEPT ![s] = [op |-> "add", at |-> "register", name |-> t[1], to |-> t[2], asked |-> t[1]]]
  /\ UNCHANGED <<entries, selected, tokens, spent, excused>>

(* Mutant: the name was looked at before the edit. *)
RegistersBlindly(s) ==
  /\ cmds[s].at = "register"
  /\ Edit
  /\ entries' = [entries EXCEPT ![cmds[s].name] = cmds[s].to]
  /\ \/ Does(s, "sign")
     \/ Ends(s)
  /\ UNCHANGED <<selected, tokens, excused>>

(* Whether the name is taken is looked at inside the edit.                 *)
Registers(s) ==
  /\ cmds[s].at = "register"
  /\ LET n == cmds[s].name IN
     IF n \in Registered
     THEN Ends(s) /\ UNCHANGED <<entries, spent>>
     ELSE /\ Edit
          /\ entries' = [entries EXCEPT ![n] = cmds[s].to]
          /\ \/ Does(s, "sign")
             \/ Ends(s)
  /\ UNCHANGED <<selected, tokens, excused>>

RemoveBegins(s) ==
  /\ cmds[s].at = "idle"
  /\ \E n \in Names \ {Local} :
       cmds' = [cmds EXCEPT ![s] = [Idle EXCEPT !.op = "remove", !.at = "strike", !.name = n]]
  /\ UNCHANGED <<entries, selected, tokens, spent, excused>>

(* The entry goes, and the selection with it.                              *)
Strikes(s) ==
  /\ cmds[s].at = "strike"
  /\ LET n == cmds[s].name IN
     IF n \notin Registered
     THEN Ends(s) /\ UNCHANGED <<entries, selected, spent>>
     ELSE /\ Edit
          /\ entries' = [entries EXCEPT ![n] = Nobody]
          /\ selected' = IF selected = n THEN Nobody ELSE selected
          /\ Does(s, "forget")
  /\ UNCHANGED <<tokens, excused>>

(* Mutant: the entry goes, its token stays. *)
ForgetsNothing(s) ==
  /\ cmds[s].at = "forget"
  /\ Ends(s)
  /\ UNCHANGED <<entries, selected, tokens, spent, excused>>

(* The cached token goes after it; a failure is not told.  A command that  *)
(* is signing in to the entry that went may write it again.                *)
Forgets(s) ==
  /\ cmds[s].at = "forget"
  /\ LET n == cmds[s].name
         signing == \E q \in Shells \ {s} : cmds[q].at \in {"sign", "save", "register"} /\ cmds[q].name = n
     IN \/ /\ tokens' = [tokens EXCEPT ![n] = Nobody]
           /\ excused' = IF signing THEN excused \cup {n} ELSE excused \ {n}
           /\ UNCHANGED spent
        \/ Fault /\ excused' = excused \cup {n} /\ UNCHANGED tokens
  /\ Ends(s)
  /\ UNCHANGED <<entries, selected>>

-----------------------------------------------------------------------------
(* Signing in and asking                                                   *)

(* A cached token serves; the entry's own identity gives another.          *)
SignsIn(s) ==
  /\ cmds[s].at = "sign"
  /\ \/ /\ tokens[cmds[s].name] # Nobody
        /\ cmds' = [cmds EXCEPT ![s].at = IF cmds[s].op = "access" THEN "ask" ELSE "idle",
                                ![s].to = tokens[cmds[s].name]]
     \/ cmds[s].to # Nobody /\ Does(s, "save")
     \/ Ends(s)
  /\ UNCHANGED <<entries, selected, tokens, spent, excused>>

Saves(s) ==
  /\ cmds[s].at = "save"
  /\ tokens' = [tokens EXCEPT ![cmds[s].name] = cmds[s].to]
  /\ excused' = IF entries[cmds[s].name] # cmds[s].to THEN excused \cup {cmds[s].name} ELSE excused
  /\ IF cmds[s].op = "access" THEN Does(s, "ask") ELSE Ends(s)
  /\ UNCHANGED <<entries, selected, spent>>

(* The cluster answers, refuses, or says nothing until the ceiling, which  *)
(* began behind the sign-in.                                               *)
Asks(s) ==
  /\ cmds[s].at = "ask"
  /\ Ends(s)
  /\ UNCHANGED <<entries, selected, tokens, spent, excused>>

(* The list cannot be read or locked, or the process dies.                 *)
Fails(s) ==
  /\ cmds[s].at # "idle"
  /\ Fault
  /\ excused' = IF cmds[s].at = "forget" THEN excused \cup {cmds[s].name} ELSE excused
  /\ Ends(s)
  /\ UNCHANGED <<entries, selected, tokens>>

(* The extension adds the local cluster's entry, selects, or removes one   *)
(* whose token it knows nothing of.                                        *)
ExtensionEdits ==
  /\ Edit
  /\ \/ \E n \in Names \cup {Nobody} : selected' = n /\ UNCHANGED <<entries, excused>>
     \/ /\ entries[Local] = Nobody
        /\ \E c \in Clusters : entries' = [entries EXCEPT ![Local] = c]
        /\ UNCHANGED <<selected, excused>>
     \/ \E n \in Registered :
          /\ entries' = [entries EXCEPT ![n] = Nobody]
          /\ excused' = excused \cup {n}
          /\ UNCHANGED selected
  /\ UNCHANGED <<tokens, cmds>>

(* At the bound on edits what is left to do may be out of reach.           *)
Over == spent.edits = MaxEdits /\ UNCHANGED list_vars

Next ==
  \/ \E s \in Shells :
       \/ AccessBegins(s) \/ LoginBegins(s) \/ AddBegins(s) \/ Registers(s) \/ RemoveBegins(s)
       \/ Strikes(s) \/ Forgets(s) \/ SignsIn(s) \/ Saves(s) \/ Asks(s) \/ Fails(s)
  \/ ExtensionEdits \/ Over

Spec == Init /\ [][Next]_list_vars

-----------------------------------------------------------------------------
(* Properties                                                              *)

(* A report nobody named a cluster for is about the selected one or the    *)
(* only one, as the list stood when the command read it.                   *)
GuessesNothing ==
  \A s \in Shells :
    cmds[s].at = "idle" /\ cmds'[s].op = "access" /\ cmds'[s].asked = Nobody
      => IF Found(selected) THEN cmds'[s].name = selected ELSE Registered = {cmds'[s].name}
NeverGuesses == [][GuessesNothing]_list_vars

(* Whatever runs beside it, no command replaces the entry of a name.       *)
KeepsEntries == \A n \in Names : entries[n] # Nobody => entries'[n] \in {entries[n], Nobody}
EntriesAreNotReplaced == [][KeepsEntries]_list_vars

(* So a command neither guesses what it is about nor overwrites anything.  *)
CommandsGuessNothing == NeverGuesses /\ EntriesAreNotReplaced

(* A token is kept under the name of a cluster that gave it: an entry that *)
(* is made anew does not find that of the one it had the name from, unless *)
(* its removal failed or crossed a sign-in.                                *)
TokensAreOfTheirCluster ==
  \A n \in Registered : tokens[n] \in {Nobody, entries[n]} \/ n \in excused
     \/ \E s \in Shells : cmds[s].at = "forget" /\ cmds[s].name = n
=============================================================================
