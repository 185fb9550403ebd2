---------------------------- MODULE CommandsProofs ----------------------------
(***************************************************************************)
(* What ClusterList guarantees for any number of shells, names and         *)
(* clusters, whatever edits, extensions and failures come between two      *)
(* steps of a command: which cluster a command asks, which entries it      *)
(* touches, and whose tokens are kept.  And what SignIn guarantees for any *)
(* number of commands and workers on the two stores of one cluster: that a *)
(* sign-in is lost only to something named.  And what Fleet guarantees for *)
(* any homes, decisions and failures: that a pause stands.  And what       *)
(* ExecCall does for any output and any changes: that a caller is told     *)
(* what became of its command.                                             *)
(***************************************************************************)
EXTENDS ClusterList, SignIn, Fleet, ExecCall, FiniteSetTheorems, TLAPS

-----------------------------------------------------------------------------
(* ClusterList                                                             *)

(* A token that is not of the cluster its name leads to is on its way out, *)
(* or is excused: so it is also while the name leads nowhere.              *)
StaleTokensAreKnown ==
  \A n \in Names :
    tokens[n] \in {Nobody, entries[n]} \/ n \in excused
      \/ \E s \in Shells : cmds[s].at = "forget" /\ cmds[s].name = n

(* A command at work is about a name.                                      *)
BusyAreNamed == \A s \in Shells : cmds[s].at # "idle" => cmds[s].name \in Names

ListInv == ClusterListTypeOK /\ BusyAreNamed /\ StaleTokensAreKnown

(* An empty list, nothing cached.                                          *)
LEMMA InitInv == ClusterListAssumption /\ Init => ListInv
<1> SUFFICES ASSUME ClusterListAssumption, Init PROVE ListInv
  OBVIOUS
<1>1. Idle \in Cmd
  BY DEF Idle, Cmd
<1>2. ClusterListTypeOK
  BY <1>1, Z3 DEF Init, ClusterListTypeOK, ClusterListAssumption
<1>3. StaleTokensAreKnown
  BY DEF Init, StaleTokensAreKnown
<1>4. BusyAreNamed
  BY DEF Init, BusyAreNamed, Idle
<1>5. QED
  BY <1>2, <1>3, <1>4 DEF ListInv

(* Every step keeps the types.                                             *)
LEMMA NextType ==
  ASSUME ClusterListAssumption, ClusterListTypeOK, BusyAreNamed, [Next]_list_vars
  PROVE  ClusterListTypeOK'
<1> USE DEF ClusterListTypeOK, ClusterListAssumption
<1>0. Idle \in Cmd
  BY DEF Idle, Cmd
<1>1. ASSUME NEW s \in Shells, AccessBegins(s) PROVE ClusterListTypeOK'
  <2>0. PICK n \in Names \cup {Nobody} : \E m \in Resolves(n) :
          cmds' = [cmds EXCEPT ![s] = [op |-> "access", at |-> "sign", name |-> m, to |-> entries[m], asked |-> n]]
    BY <1>1 DEF AccessBegins
  <2>1. PICK m \in Resolves(n) :
          cmds' = [cmds EXCEPT ![s] = [op |-> "access", at |-> "sign", name |-> m, to |-> entries[m], asked |-> n]]
    BY <2>0
  <2>2. m \in Names
    BY <2>1 DEF Resolves, Found, Registered
  <2>3. [op |-> "access", at |-> "sign", name |-> m, to |-> entries[m], asked |-> n] \in Cmd
    BY <2>1, <2>2 DEF Cmd
  <2>4. cmds' \in [Shells -> Cmd]
    BY <2>1, <2>3
  <2>5. QED
    BY <1>1, <2>4 DEF AccessBegins
<1>2. ASSUME NEW s \in Shells, LoginBegins(s) PROVE ClusterListTypeOK'
  <2>1. PICK n \in Registered :
          cmds' = [cmds EXCEPT ![s] = [op |-> "login", at |-> "sign", name |-> n, to |-> entries[n], asked |-> n]]
    BY <1>2 DEF LoginBegins
  <2>2. [op |-> "login", at |-> "sign", name |-> n, to |-> entries[n], asked |-> n] \in Cmd
    BY <2>1 DEF Cmd, Registered
  <2>3. cmds' \in [Shells -> Cmd]
    BY <2>1, <2>2
  <2>4. QED
    BY <1>2, <2>3 DEF LoginBegins
<1>3. ASSUME NEW s \in Shells, AddBegins(s) PROVE ClusterListTypeOK'
  <2>1. PICK t \in Targets :
          cmds' = [cmds EXCEPT ![s] = [op |-> "add", at |-> "register", name |-> t[1], to |-> t[2], asked |-> t[1]]]
    BY <1>3 DEF AddBegins
  <2>2. [op |-> "add", at |-> "register", name |-> t[1], to |-> t[2], asked |-> t[1]] \in Cmd
    BY <2>1 DEF Cmd, Targets, Discovered
  <2>3. cmds' \in [Shells -> Cmd]
    BY <2>1, <2>2
  <2>4. QED
    BY <1>3, <2>3 DEF AddBegins
<1>4. ASSUME NEW s \in Shells, Registers(s) PROVE ClusterListTypeOK'
  <2>1. cmds[s] \in Cmd /\ cmds[s].name \in Names \cup {Nobody} /\ cmds[s].to \in Clusters \cup {Nobody}
    BY DEF Cmd
  <2>2. [cmds[s] EXCEPT !.at = "sign"] \in Cmd
    BY <2>1 DEF Cmd
  <2>3. cmds' \in [Shells -> Cmd]
    BY <1>0, <1>4, <2>2 DEF Registers, Does, Ends
  <2>4. entries' \in [Names -> Clusters \cup {Nobody}]
    BY <1>4, <2>1 DEF Registers
  <2>5. spent' \in [edits: 0..MaxEdits, faults: 0..MaxFaults]
    BY <1>4 DEF Registers, Edit
  <2>6. QED
    BY <1>4, <2>3, <2>4, <2>5 DEF Registers
<1>5. ASSUME NEW s \in Shells, RemoveBegins(s) PROVE ClusterListTypeOK'
  <2>1. PICK n \in Names \ {Local} :
          cmds' = [cmds EXCEPT ![s] = [Idle EXCEPT !.op = "remove", !.at = "strike", !.name = n]]
    BY <1>5 DEF RemoveBegins
  <2>2. [Idle EXCEPT !.op = "remove", !.at = "strike", !.name = n] \in Cmd
    BY <2>1 DEF Cmd, Idle
  <2>3. cmds' \in [Shells -> Cmd]
    BY <2>1, <2>2
  <2>4. QED
    BY <1>5, <2>3 DEF RemoveBegins
<1>6. ASSUME NEW s \in Shells, Strikes(s) PROVE ClusterListTypeOK'
  <2>1. [cmds[s] EXCEPT !.at = "forget"] \in Cmd
    BY DEF Cmd
  <2>2. cmds' \in [Shells -> Cmd]
    BY <1>0, <1>6, <2>1 DEF Strikes, Does, Ends
  <2>3. entries' \in [Names -> Clusters \cup {Nobody}] /\ selected' \in Names \cup {Nobody}
    BY <1>6 DEF Strikes
  <2>4. spent' \in [edits: 0..MaxEdits, faults: 0..MaxFaults]
    BY <1>6 DEF Strikes, Edit
  <2>5. QED
    BY <1>6, <2>2, <2>3, <2>4 DEF Strikes
<1>7. ASSUME NEW s \in Shells, Forgets(s) PROVE ClusterListTypeOK'
  <2>1. cmds' \in [Shells -> Cmd]
    BY <1>0, <1>7 DEF Forgets, Ends
  <2>2. cmds[s].name \in Names
    BY <1>7 DEF Forgets, BusyAreNamed
  <2>3. tokens' \in [Names -> Clusters \cup {Nobody}] /\ excused' \subseteq Names
    BY <1>7, <2>2 DEF Forgets
  <2>5. spent' \in [edits: 0..MaxEdits, faults: 0..MaxFaults]
    BY <1>7 DEF Forgets, Fault
  <2>6. QED
    BY <1>7, <2>1, <2>3, <2>5 DEF Forgets
<1>8. ASSUME NEW s \in Shells, SignsIn(s) PROVE ClusterListTypeOK'
  <2>1. cmds[s] \in Cmd /\ cmds[s].name \in Names
    BY <1>8 DEF SignsIn, BusyAreNamed
  <2>2. CASE /\ tokens[cmds[s].name] # Nobody
             /\ cmds' = [cmds EXCEPT ![s].at = IF cmds[s].op = "access" THEN "ask" ELSE "idle",
                                     ![s].to = tokens[cmds[s].name]]
    <3>1. tokens[cmds[s].name] \in Clusters
      BY <2>1, <2>2
    <3>2. cmds' \in [Shells -> Cmd]
      BY <2>1, <2>2 DEF Cmd
    <3>3. QED
      BY <1>8, <3>2 DEF SignsIn
  <2>3. CASE Does(s, "save") \/ Ends(s)
    <3>1. [cmds[s] EXCEPT !.at = "save"] \in Cmd
      BY DEF Cmd
    <3>2. cmds' \in [Shells -> Cmd]
      BY <1>0, <2>3, <3>1 DEF Does, Ends
    <3>3. QED
      BY <1>8, <3>2 DEF SignsIn
  <2>4. QED
    BY <1>8, <2>2, <2>3 DEF SignsIn
<1>9. ASSUME NEW s \in Shells, Saves(s) PROVE ClusterListTypeOK'
  <2>1. cmds[s].to \in Clusters \cup {Nobody} /\ cmds[s].name \in Names
    BY <1>9 DEF Cmd, Saves, BusyAreNamed
  <2>2. [cmds[s] EXCEPT !.at = "ask"] \in Cmd
    BY DEF Cmd
  <2>3. cmds' \in [Shells -> Cmd]
    BY <1>0, <1>9, <2>2 DEF Saves, Does, Ends
  <2>4. tokens' \in [Names -> Clusters \cup {Nobody}]
    BY <1>9, <2>1 DEF Saves
  <2>5. excused' \subseteq Names
    BY <1>9, <2>1 DEF Saves
  <2>6. QED
    BY <1>9, <2>3, <2>4, <2>5 DEF Saves
<1>10. ASSUME NEW s \in Shells, Asks(s) PROVE ClusterListTypeOK'
  BY <1>0, <1>10 DEF Asks, Ends
<1>11. ASSUME NEW s \in Shells, Fails(s) PROVE ClusterListTypeOK'
  <2>1. cmds' \in [Shells -> Cmd] /\ spent' \in [edits: 0..MaxEdits, faults: 0..MaxFaults]
    BY <1>0, <1>11 DEF Fails, Ends, Fault
  <2>2. excused' \subseteq Names
    BY <1>11 DEF Fails, BusyAreNamed
  <2>3. QED
    BY <1>11, <2>1, <2>2 DEF Fails
<1>12. CASE ExtensionEdits
  <2>1. spent' \in [edits: 0..MaxEdits, faults: 0..MaxFaults]
    BY <1>12 DEF ExtensionEdits, Edit
  <2>2. QED
    BY <1>12, <2>1 DEF ExtensionEdits, Registered
<1>13. CASE Over \/ UNCHANGED list_vars
  BY <1>13 DEF Over, list_vars
<1>14. QED
  BY <1>1, <1>2, <1>3, <1>4, <1>5, <1>6, <1>7, <1>8, <1>9, <1>10, <1>11, <1>12, <1>13 DEF Next

(* Every step keeps a command's name.                                      *)
LEMMA NextBusy ==
  ASSUME ClusterListAssumption, ClusterListTypeOK, BusyAreNamed, [Next]_list_vars
  PROVE  BusyAreNamed'
<1> SUFFICES ASSUME NEW q \in Shells, cmds'[q].at # "idle" PROVE cmds'[q].name \in Names
  BY DEF BusyAreNamed
<1>0. cmds \in [Shells -> Cmd] /\ (cmds[q].at # "idle" => cmds[q].name \in Names) /\ Idle.at = "idle"
  BY DEF ClusterListTypeOK, BusyAreNamed, Idle
<1>1. ASSUME NEW s \in Shells, AccessBegins(s) PROVE cmds'[q].name \in Names
  BY <1>0, <1>1 DEF AccessBegins, Resolves, Found, Registered, ClusterListAssumption
<1>2. ASSUME NEW s \in Shells, LoginBegins(s) PROVE cmds'[q].name \in Names
  BY <1>0, <1>2 DEF LoginBegins, Registered
<1>3. ASSUME NEW s \in Shells, AddBegins(s) PROVE cmds'[q].name \in Names
  BY <1>0, <1>3 DEF AddBegins, Targets
<1>4. ASSUME NEW s \in Shells, RemoveBegins(s) PROVE cmds'[q].name \in Names
  BY <1>0, <1>4 DEF RemoveBegins, Idle
<1>5. ASSUME NEW s \in Shells, Registers(s) \/ Strikes(s) \/ Forgets(s) PROVE cmds'[q].name \in Names
  <2>1. cmds[s].name \in Names
    BY <1>5 DEF Registers, Strikes, Forgets, BusyAreNamed
  <2>2. CASE cmds' = [cmds EXCEPT ![s] = Idle]
    BY <1>0, <2>2
  <2>3. ASSUME NEW place, cmds' = [cmds EXCEPT ![s].at = place] PROVE cmds'[q].name \in Names
    BY <1>0, <2>1, <2>3 DEF Cmd
  <2>4. QED
    BY <1>5, <2>2, <2>3 DEF Registers, Strikes, Forgets, Does, Ends
<1>6. ASSUME NEW s \in Shells, SignsIn(s) \/ Saves(s) PROVE cmds'[q].name \in Names
  <2>1. cmds[s].name \in Names
    BY <1>6 DEF SignsIn, Saves, BusyAreNamed
  <2>2. CASE cmds' = [cmds EXCEPT ![s] = Idle]
    BY <1>0, <2>2
  <2>3. ASSUME NEW place, cmds' = [cmds EXCEPT ![s].at = place] PROVE cmds'[q].name \in Names
    BY <1>0, <2>1, <2>3 DEF Cmd
  <2>4. ASSUME NEW place, NEW to, cmds' = [cmds EXCEPT ![s].at = place, ![s].to = to]
        PROVE  cmds'[q].name \in Names
    BY <1>0, <2>1, <2>4 DEF Cmd
  <2>5. QED
    BY <1>6, <2>2, <2>3, <2>4 DEF SignsIn, Saves, Does, Ends
<1>7. ASSUME NEW s \in Shells, Asks(s) \/ Fails(s) PROVE cmds'[q].name \in Names
  BY <1>0, <1>7 DEF Asks, Fails, Ends
<1>8. CASE ExtensionEdits \/ Over \/ UNCHANGED list_vars
  BY <1>0, <1>8 DEF ExtensionEdits, Over, list_vars
<1>9. QED
  BY <1>1, <1>2, <1>3, <1>4, <1>5, <1>6, <1>7, <1>8 DEF Next

(* Whoever leaves "forget" has dealt with the token: what another command  *)
(* does leaves every "forget" where it is.                                 *)
LEMMA ForgettingStays ==
  ASSUME ClusterListTypeOK, NEW n, NEW s \in Shells,
         cmds[s].at # "forget", \E c : cmds' = [cmds EXCEPT ![s] = c],
         \E q \in Shells : cmds[q].at = "forget" /\ cmds[q].name = n
  PROVE  \E q \in Shells : cmds'[q].at = "forget" /\ cmds'[q].name = n
<1>1. PICK q \in Shells : cmds[q].at = "forget" /\ cmds[q].name = n
  OBVIOUS
<1>2. q # s
  BY <1>1
<1>3. cmds'[q] = cmds[q]
  BY <1>2 DEF ClusterListTypeOK
<1>4. QED
  BY <1>1, <1>3

(* No step leaves a stale token unknown.                                   *)
LEMMA NextStale ==
  ASSUME ClusterListAssumption, ListInv, [Next]_list_vars
  PROVE  StaleTokensAreKnown'
<1> USE DEF ListInv
<1> DEFINE Stale(n) == tokens[n] \notin {Nobody, entries[n]}
           Forgetting(n) == \E q \in Shells : cmds[q].at = "forget" /\ cmds[q].name = n
<1> SUFFICES ASSUME NEW n \in Names, Stale(n)', n \notin excused' PROVE Forgetting(n)'
  BY DEF StaleTokensAreKnown
<1>0. Stale(n) /\ n \notin excused => Forgetting(n)
  BY DEF StaleTokensAreKnown
<1>1. ASSUME UNCHANGED <<tokens, entries, excused>>,
             NEW s \in Shells, cmds[s].at # "forget", \E c : cmds' = [cmds EXCEPT ![s] = c]
      PROVE  Forgetting(n)'
  <2>1. Forgetting(n)
    BY <1>0, <1>1
  <2>2. QED
    BY <1>1, <2>1, ForgettingStays
<1>2. ASSUME NEW s \in Shells, AccessBegins(s) \/ LoginBegins(s) PROVE Forgetting(n)'
  BY <1>1, <1>2 DEF AccessBegins, LoginBegins
<1>3. ASSUME NEW s \in Shells, AddBegins(s) \/ RemoveBegins(s) PROVE Forgetting(n)'
  BY <1>1, <1>3 DEF AddBegins, RemoveBegins
<1>4. ASSUME NEW s \in Shells, Asks(s) \/ SignsIn(s) PROVE Forgetting(n)'
  BY <1>1, <1>4 DEF Asks, SignsIn, Ends, Does
<1>5. ASSUME NEW s \in Shells, Registers(s) PROVE Forgetting(n)'
  <2>1. CASE cmds[s].name \in Registered
    BY <1>1, <1>5, <2>1 DEF Registers, Ends
  <2>2. CASE cmds[s].name \notin Registered
    <3>1. entries[cmds[s].name] = Nobody
      BY <1>5, <2>2 DEF Registered, Registers, BusyAreNamed
    <3>2. Stale(n)
      BY <1>5, <2>2, <3>1 DEF Registers, ClusterListTypeOK
    <3>3. Forgetting(n)
      BY <1>0, <1>5, <3>2 DEF Registers
    <3>4. QED
      BY <1>5, <2>2, <3>3, ForgettingStays DEF Registers, Does, Ends
  <2>3. QED
    BY <2>1, <2>2
<1>6. ASSUME NEW s \in Shells, Strikes(s) PROVE Forgetting(n)'
  <2>1. CASE cmds[s].name \notin Registered
    BY <1>1, <1>6, <2>1 DEF Strikes, Ends
  <2>2. CASE cmds[s].name \in Registered /\ n = cmds[s].name
    <3>1. cmds' = [cmds EXCEPT ![s].at = "forget"]
      BY <1>6, <2>2 DEF Strikes, Does
    <3>2. cmds'[s].at = "forget" /\ cmds'[s].name = n
      BY <2>2, <3>1 DEF ClusterListTypeOK, Cmd
    <3>3. QED
      BY <3>2
  <2>3. CASE cmds[s].name \in Registered /\ n # cmds[s].name
    <3>1. Stale(n)
      BY <1>6, <2>3 DEF Strikes, ClusterListTypeOK
    <3>2. Forgetting(n)
      BY <1>0, <1>6, <3>1 DEF Strikes
    <3>3. QED
      BY <1>6, <2>3, <3>2, ForgettingStays DEF Strikes, Does
  <2>4. QED
    BY <2>1, <2>2, <2>3
<1>7. ASSUME NEW s \in Shells, Forgets(s) PROVE Forgetting(n)'
  <2>1. n # cmds[s].name
    BY <1>7 DEF Forgets, ClusterListTypeOK
  <2>2. Stale(n)
    BY <1>7, <2>1 DEF Forgets, ClusterListTypeOK
  <2>3. Forgetting(n)
    BY <1>0, <1>7, <2>1, <2>2 DEF Forgets
  <2>4. PICK q \in Shells : cmds[q].at = "forget" /\ cmds[q].name = n
    BY <2>3
  <2>5. cmds'[q] = cmds[q]
    BY <1>7, <2>1, <2>4 DEF Forgets, Ends, ClusterListTypeOK
  <2>6. QED
    BY <2>4, <2>5
<1>8. ASSUME NEW s \in Shells, Saves(s) PROVE Forgetting(n)'
  <2>1. n # cmds[s].name
    BY <1>8 DEF Saves, ClusterListTypeOK
  <2>2. Stale(n) /\ n \notin excused
    BY <1>8, <2>1 DEF Saves, ClusterListTypeOK
  <2>3. \E c : cmds' = [cmds EXCEPT ![s] = c]
    BY <1>8 DEF Saves, Does, Ends
  <2>4. cmds[s].at # "forget" /\ Forgetting(n)
    BY <1>0, <1>8, <2>2 DEF Saves
  <2>5. QED
    BY <2>3, <2>4, ForgettingStays
<1>9. ASSUME NEW s \in Shells, Fails(s) PROVE Forgetting(n)'
  <2>1. Stale(n) /\ n \notin excused
    BY <1>9 DEF Fails
  <2>2. PICK q \in Shells : cmds[q].at = "forget" /\ cmds[q].name = n
    BY <1>0, <2>1
  <2>3. q # s
    BY <1>9, <2>2 DEF Fails
  <2>4. cmds'[q] = cmds[q]
    BY <1>9, <2>3 DEF Fails, Ends, ClusterListTypeOK
  <2>5. QED
    BY <2>2, <2>4
<1>10. CASE ExtensionEdits
  <2>1. Stale(n) /\ n \notin excused
    BY <1>10 DEF ExtensionEdits, ClusterListTypeOK, Registered
  <2>2. QED
    BY <1>0, <1>10, <2>1 DEF ExtensionEdits
<1>11. CASE Over \/ UNCHANGED list_vars
  BY <1>0, <1>11 DEF Over, list_vars
<1>12. QED
  BY <1>2, <1>3, <1>4, <1>5, <1>6, <1>7, <1>8, <1>9, <1>10, <1>11 DEF Next

(* Only its own step moves a command: what is at rest asks for nothing.    *)
RestAsksNothing == \A s \in Shells : cmds[s].at = "idle" => cmds[s].op # "access"

(* No step leaves a command at rest that asks for something.               *)
LEMMA NextRest ==
  ASSUME ClusterListTypeOK, RestAsksNothing, [Next]_list_vars
  PROVE  RestAsksNothing'
<1> SUFFICES ASSUME NEW q \in Shells, cmds'[q].at = "idle" PROVE cmds'[q].op # "access"
  BY DEF RestAsksNothing
<1>0. /\ cmds \in [Shells -> Cmd] /\ Idle.op = "none"
      /\ cmds[q].at = "idle" => cmds[q].op # "access"
  BY DEF ClusterListTypeOK, RestAsksNothing, Idle
<1>1. ASSUME NEW s \in Shells, NEW c, c.at # "idle", cmds' = [cmds EXCEPT ![s] = c]
      PROVE  cmds'[q].op # "access"
  BY <1>0, <1>1
<1>2. ASSUME NEW s \in Shells, Ends(s) PROVE cmds'[q].op # "access"
  BY <1>0, <1>2 DEF Ends
<1>3. ASSUME NEW s \in Shells, NEW place \in {"sign", "forget", "save", "ask"}, Does(s, place)
      PROVE  cmds'[q].op # "access"
  BY <1>0, <1>3 DEF Does, Cmd
<1>4. ASSUME NEW s \in Shells, AccessBegins(s) \/ LoginBegins(s) \/ AddBegins(s)
      PROVE  cmds'[q].op # "access"
  BY <1>1, <1>4 DEF AccessBegins, LoginBegins, AddBegins
<1>5. ASSUME NEW s \in Shells, RemoveBegins(s) PROVE cmds'[q].op # "access"
  BY <1>0, <1>5 DEF RemoveBegins, Idle
<1>6. ASSUME NEW s \in Shells, Registers(s) \/ Strikes(s) \/ Forgets(s) \/ Saves(s) \/ Asks(s) \/ Fails(s)
      PROVE  cmds'[q].op # "access"
  BY <1>2, <1>3, <1>6 DEF Registers, Strikes, Forgets, Saves, Asks, Fails
<1>7. ASSUME NEW s \in Shells, SignsIn(s) PROVE cmds'[q].op # "access"
  <2>1. ASSUME NEW to, cmds' = [cmds EXCEPT ![s].at = IF cmds[s].op = "access" THEN "ask" ELSE "idle", ![s].to = to]
        PROVE  cmds'[q].op # "access"
    BY <1>0, <2>1 DEF Cmd
  <2>2. QED
    BY <1>2, <1>3, <1>7, <2>1 DEF SignsIn
<1>8. CASE ExtensionEdits \/ Over \/ UNCHANGED list_vars
  BY <1>0, <1>8 DEF ExtensionEdits, Over, list_vars
<1>9. QED
  BY <1>4, <1>5, <1>6, <1>7, <1>8 DEF Next

(* A report nobody named a cluster for is resolved from the selection, or  *)
(* from the one entry there is.                                            *)
LEMMA ResolvesNothingElse ==
  ASSUME ClusterListAssumption, NEW m \in Resolves(Nobody)
  PROVE  IF Found(selected) THEN m = selected ELSE Registered = {m}
<1>1. CASE selected # Nobody /\ Found(selected)
  BY <1>1 DEF Resolves
<1>2. CASE ~(selected # Nobody /\ Found(selected))
  <2>1. m \in Registered /\ Cardinality(Registered) = 1
    BY <1>2 DEF Resolves
  <2>2. IsFiniteSet(Registered)
    BY FS_Subset DEF Registered, ClusterListAssumption
  <2>3. Registered = {m}
    BY <2>1, <2>2, FS_Singleton
  <2>4. ~Found(selected)
    BY <1>2 DEF Found, Registered, ClusterListAssumption
  <2>5. QED
    BY <2>3, <2>4
<1>3. QED
  BY <1>1, <1>2

(* A report without a cluster's name is of the selected one, or of the     *)
(* only one, in every single step.                                         *)
LEMMA StepGuessesNothing ==
  ASSUME ClusterListAssumption, ClusterListTypeOK, RestAsksNothing, [Next]_list_vars
  PROVE  GuessesNothing
<1> SUFFICES ASSUME NEW q \in Shells, cmds[q].at = "idle", cmds'[q].op = "access", cmds'[q].asked = Nobody
             PROVE  IF Found(selected) THEN cmds'[q].name = selected ELSE Registered = {cmds'[q].name}
  BY DEF GuessesNothing
<1>0. cmds \in [Shells -> Cmd] /\ cmds[q].op # "access"
  BY DEF ClusterListTypeOK, RestAsksNothing
<1>1. ASSUME NEW s \in Shells, AccessBegins(s)
      PROVE  IF Found(selected) THEN cmds'[q].name = selected ELSE Registered = {cmds'[q].name}
  <2>1. PICK n \in Names \cup {Nobody} : \E m \in Resolves(n) :
          cmds' = [cmds EXCEPT ![s] = [op |-> "access", at |-> "sign", name |-> m, to |-> entries[m], asked |-> n]]
    BY <1>1 DEF AccessBegins
  <2>2. PICK m \in Resolves(n) :
          cmds' = [cmds EXCEPT ![s] = [op |-> "access", at |-> "sign", name |-> m, to |-> entries[m], asked |-> n]]
    BY <2>1
  <2>3. q = s
    BY <1>0, <2>2
  <2>4. cmds'[q].name = m /\ n = Nobody
    BY <1>0, <2>2, <2>3
  <2>5. QED
    BY <2>4, ResolvesNothingElse
<1>2. ASSUME NEW s \in Shells, LoginBegins(s) \/ AddBegins(s) \/ RemoveBegins(s) PROVE FALSE
  <2>1. ASSUME NEW c, c.op # "access", cmds' = [cmds EXCEPT ![s] = c] PROVE FALSE
    BY <1>0, <2>1
  <2>2. CASE LoginBegins(s)
    BY <2>1, <2>2 DEF LoginBegins
  <2>3. CASE AddBegins(s)
    BY <2>1, <2>3 DEF AddBegins
  <2>4. CASE RemoveBegins(s)
    BY <2>1, <2>4 DEF RemoveBegins, Idle
  <2>5. QED
    BY <1>2, <2>2, <2>3, <2>4
<1>3. ASSUME NEW s \in Shells,
             \/ Registers(s) \/ Strikes(s) \/ Forgets(s) \/ SignsIn(s) \/ Saves(s) \/ Asks(s) \/ Fails(s)
      PROVE  FALSE
  <2>1. cmds[s].at # "idle"
    BY <1>3 DEF Registers, Strikes, Forgets, SignsIn, Saves, Asks, Fails
  <2>2. \E c : cmds' = [cmds EXCEPT ![s] = c]
    BY <1>3 DEF Registers, Strikes, Forgets, SignsIn, Saves, Asks, Fails, Does, Ends
  <2>3. cmds'[q] = cmds[q]
    BY <1>0, <2>1, <2>2
  <2>4. QED
    BY <1>0, <2>3
<1>4. CASE ExtensionEdits \/ Over \/ UNCHANGED list_vars
  BY <1>0, <1>4 DEF ExtensionEdits, Over, list_vars
<1>5. QED
  BY <1>1, <1>2, <1>3, <1>4 DEF Next

(* An entry is written only where none is.                                 *)
LEMMA StepKeepsEntries ==
  ASSUME ClusterListTypeOK, [Next]_list_vars
  PROVE  KeepsEntries
<1> SUFFICES ASSUME NEW n \in Names, entries[n] # Nobody PROVE entries'[n] \in {entries[n], Nobody}
  BY DEF KeepsEntries
<1>1. ASSUME NEW s \in Shells, Registers(s) \/ Strikes(s) PROVE entries'[n] \in {entries[n], Nobody}
  BY <1>1 DEF Registers, Strikes, Registered, ClusterListTypeOK
<1>2. CASE ExtensionEdits
  BY <1>2 DEF ExtensionEdits, ClusterListTypeOK
<1>3. CASE UNCHANGED entries
  BY <1>3
<1>4. QED
  BY <1>1, <1>2, <1>3 DEF Next, Over, list_vars, AccessBegins, LoginBegins, AddBegins, RemoveBegins,
     Forgets, SignsIn, Saves, Asks, Fails

(* The list, the tokens and the commands have their types, and a command   *)
(* at work has a name.                                                     *)
THEOREM TypeCorrect == ASSUME ClusterListAssumption PROVE Spec => [](ClusterListTypeOK /\ BusyAreNamed)
<1>1. Init => ClusterListTypeOK /\ BusyAreNamed
  BY InitInv DEF ListInv
<1>2. ClusterListTypeOK /\ BusyAreNamed /\ [Next]_list_vars => (ClusterListTypeOK /\ BusyAreNamed)'
  BY NextType, NextBusy
<1>3. QED
  BY <1>1, <1>2, PTL DEF Spec

(* The token kept under the name of an entry is of that entry's cluster:   *)
(* a stale one is there only where its removal failed or crossed a sign-in.*)
THEOREM StaleTokensAreDealtWith == ASSUME ClusterListAssumption PROVE Spec => []TokensAreOfTheirCluster
<1>1. Init => StaleTokensAreKnown
  BY InitInv DEF ListInv
<1>2. ClusterListTypeOK /\ BusyAreNamed /\ StaleTokensAreKnown /\ [Next]_list_vars => StaleTokensAreKnown'
  BY NextStale DEF ListInv
<1>3. StaleTokensAreKnown => TokensAreOfTheirCluster
  BY DEF StaleTokensAreKnown, TokensAreOfTheirCluster, Registered
<1>4. QED
  BY <1>1, <1>2, <1>3, TypeCorrect, PTL DEF Spec

(* A report without a name is of the selected cluster or of the only one,  *)
(* and no command replaces the entry of a name.                            *)
THEOREM ReportsGuessNothing == ASSUME ClusterListAssumption PROVE Spec => CommandsGuessNothing
<1>1. Init => RestAsksNothing
  BY DEF Init, RestAsksNothing, Idle
<1>2. ClusterListTypeOK /\ RestAsksNothing /\ [Next]_list_vars => RestAsksNothing'
  BY NextRest
<1>3. ClusterListTypeOK /\ RestAsksNothing /\ [Next]_list_vars => GuessesNothing /\ KeepsEntries
  BY StepGuessesNothing, StepKeepsEntries
<1>4. QED
  BY <1>1, <1>2, <1>3, TypeCorrect, PTL DEF Spec, CommandsGuessNothing, NeverGuesses, EntriesAreNotReplaced

-----------------------------------------------------------------------------
(* SignIn                                                                  *)

(* A store is the file or the keyring.                                     *)
LEMMA BackendIsStore == \A p : Backend(p) \in Stores
BY DEF Backend, Stores

(* Nobody is at work, and what the file holds identity takes.              *)
LEMMA SignInInitInv ==
  ASSUME SignInAssumption, SignInInit
  PROVE  SignInInv
<1>1. \A p \in Askers : runs[p].at = "idle"
  BY DEF SignInInit, AtRest
<1>2. SignInTypeOK
  <2>1. mints \in 0..MaxMints /\ live \subseteq 1..MaxMints /\ mishaps \in 0..MaxMishaps
    BY DEF SignInInit, SignInAssumption
  <2>2. Whole(1) \in Entry /\ NoEntry \in Entry /\ AtRest \in Run
    BY DEF SignInAssumption, Entry, Whole, NoEntry, Run, AtRest, Points
  <2>3. kept \in [Stores -> Entry] /\ runs \in [Askers -> Run] /\ why \in [Stores -> SUBSET Causes]
    BY <2>2 DEF SignInInit, Causes
  <2> QED BY <2>1, <2>3 DEF SignInTypeOK
<1>3. SoundStores
  BY DEF SignInInit, SoundStores, Unspoilt, Whole, Stores
<1> QED
  BY <1>1, <1>2, <1>3 DEF SignInInv, SoundRuns, Places, Confirmed

(* A run whose fields are changed stays a run.                             *)
LEMMA RunTypes ==
  ASSUME SignInAssumption, SignInTypeOK, NEW p \in Askers
  PROVE  /\ runs[p].at \in Points /\ runs[p].ref \in 0..MaxMints /\ runs[p].got \in 0..MaxMints
         /\ [runs EXCEPT ![p] = AtRest] \in [Askers -> Run]
         /\ \A place \in Points : [runs EXCEPT ![p].at = place] \in [Askers -> Run]
         /\ \A place \in Points, n \in 0..MaxMints :
              /\ [runs EXCEPT ![p].at = place, ![p].ref = n] \in [Askers -> Run]
              /\ [runs EXCEPT ![p].at = place, ![p].got = n] \in [Askers -> Run]
<1>1. runs \in [Askers -> Run] /\ runs[p] \in Run
  BY DEF SignInTypeOK
<1>2. AtRest \in Run
  BY DEF AtRest, Run, SignInAssumption, Points
<1>3. ASSUME NEW place \in Points, NEW n \in 0..MaxMints
      PROVE  /\ [runs[p] EXCEPT !.at = place] \in Run
             /\ [[runs[p] EXCEPT !.at = place] EXCEPT !.ref = n] \in Run
             /\ [[runs[p] EXCEPT !.at = place] EXCEPT !.got = n] \in Run
  BY <1>1 DEF Run
<1>4. ASSUME NEW place \in Points
      PROVE  [runs EXCEPT ![p].at = place] \in [Askers -> Run]
  <2>1. 0 \in 0..MaxMints
    BY DEF SignInAssumption
  <2>2. [runs EXCEPT ![p].at = place] = [runs EXCEPT ![p] = [runs[p] EXCEPT !.at = place]]
    OBVIOUS
  <2> QED BY <1>1, <1>3, <2>1, <2>2
<1>5. ASSUME NEW place \in Points, NEW n \in 0..MaxMints
      PROVE  /\ [runs EXCEPT ![p].at = place, ![p].ref = n] \in [Askers -> Run]
             /\ [runs EXCEPT ![p].at = place, ![p].got = n] \in [Askers -> Run]
  <2>1. /\ [runs EXCEPT ![p].at = place, ![p].ref = n]
              = [runs EXCEPT ![p] = [[runs[p] EXCEPT !.at = place] EXCEPT !.ref = n]]
        /\ [runs EXCEPT ![p].at = place, ![p].got = n]
              = [runs EXCEPT ![p] = [[runs[p] EXCEPT !.at = place] EXCEPT !.got = n]]
    BY <1>1
  <2> QED BY <1>1, <1>3, <2>1
<1>6. runs[p].at \in Points /\ runs[p].ref \in 0..MaxMints /\ runs[p].got \in 0..MaxMints
  BY <1>1 DEF Run
<1> QED BY <1>1, <1>2, <1>4, <1>5, <1>6

(* Every step keeps the types.                                             *)
LEMMA SignInTypes ==
  ASSUME SignInAssumption, SignInTypeOK, [SignInNext]_signin_vars
  PROVE  SignInTypeOK'
<1> USE BackendIsStore DEF SignInAssumption
<1>0. /\ \A place \in {"idle", "load", "refresh", "rejected", "prompt", "pair", "saving", "leave",
                     "read", "check", "put", "delete"} : place \in Points
      /\ \A c \in {"never", "out", "ended", "unheard", "unsaved", "died", "raced", "moved", "twin"} :
           c \in Causes
      /\ "file" \in Stores /\ "keyring" \in Stores
  BY DEF Points, Causes, Stores
<1>1. \A s \in Stores : why[s] \subseteq Causes /\ kept[s] \in Entry
  BY DEF SignInTypeOK
<1>2. ASSUME NEW s \in Stores, NEW c \in Causes
      PROVE  Blame(s, c) \in [Stores -> SUBSET Causes]
  BY DEF Blame, SignInTypeOK
<1>3. ASSUME NEW p \in Askers, NEW r
      PROVE  Rotated(p, r) \in [Stores -> SUBSET Causes]
  BY <1>1 DEF Rotated, Causes
<1>4. ASSUME NEW p \in Askers, Begins(p) \/ WorkerAsks(p)
      PROVE  SignInTypeOK'
  <2>1. runs' \in [Askers -> Run]
    BY <1>4, RunTypes, <1>0 DEF Begins, WorkerAsks, Goes
  <2>2. why' \in [Stores -> SUBSET Causes]
    BY <1>2, <1>4 DEF Begins, WorkerAsks, Comes, SignInTypeOK, Causes
  <2> QED BY <1>4, <2>1, <2>2 DEF Begins, WorkerAsks, Comes, SignInTypeOK
<1>5. ASSUME NEW p \in Askers, Loads(p)
      PROVE  SignInTypeOK'
  <2>1. kept[Backend(p)].ref \in 0..MaxMints
    BY <1>1 DEF Entry
  <2>2. runs' \in [Askers -> Run]
    BY <1>5, <2>1, RunTypes, <1>0 DEF Loads
  <2> QED BY <1>5, <2>2 DEF Loads, SignInTypeOK
<1>6. ASSUME NEW p \in Askers, Refreshes(p) \/ AnswerLost(p)
      PROVE  SignInTypeOK'
  <2>1. mints + 1 \in 1..MaxMints /\ runs[p].ref \in 0..MaxMints
    <3>1. runs[p].ref \in 0..MaxMints
      BY RunTypes
    <3> QED BY <1>6, <3>1 DEF Refreshes, AnswerLost, SignInTypeOK
  <2>2. runs' \in [Askers -> Run]
    BY <1>6, <2>1, RunTypes, <1>0 DEF Refreshes, AnswerLost, Leaves
  <2>3. why' \in [Stores -> SUBSET Causes]
    <3>1. Rotated(p, runs[p].ref) \in [Stores -> SUBSET Causes] /\ "unheard" \in Causes
      BY <1>3 DEF Causes
    <3> QED BY <1>6, <3>1 DEF Refreshes, AnswerLost
  <2>4. mishaps' \in 0..MaxMishaps
    BY <1>6 DEF Refreshes, AnswerLost, Mishap, SignInTypeOK
  <2> QED BY <1>6, <2>1, <2>2, <2>3, <2>4 DEF Refreshes, AnswerLost, SignInTypeOK
<1>7. ASSUME NEW p \in Askers, RefreshFails(p) \/ Refused(p) \/ Prompts(p)
      PROVE  SignInTypeOK'
  <2>1. runs' \in [Askers -> Run]
    BY <1>7, RunTypes, <1>0 DEF RefreshFails, Refused, Prompts, Goes, Leaves
  <2>2. mishaps' \in 0..MaxMishaps
    BY <1>7 DEF RefreshFails, Refused, Prompts, Mishap, SignInTypeOK
  <2> QED BY <1>7, <2>1, <2>2 DEF RefreshFails, Refused, Prompts, SignInTypeOK
<1>8. ASSUME NEW p \in Askers, LogsIn(p)
      PROVE  SignInTypeOK'
  <2>1. runs' \in [Askers -> Run]
    BY <1>8, RunTypes, <1>0 DEF LogsIn, Leaves
  <2> QED BY <1>8, <2>1 DEF LogsIn, SignInTypeOK
<1>9. ASSUME NEW p \in Askers, Cuts(p) \/ SavesPair(p) \/ SaveFails(p) \/ LogsOut(p)
      PROVE  SignInTypeOK'
  <2>1. runs' \in [Askers -> Run] /\ runs[p].got \in 0..MaxMints
    BY <1>9, RunTypes, <1>0 DEF Cuts, SavesPair, SaveFails, LogsOut, Goes, Leaves
  <2>2. kept' \in [Stores -> Entry]
    <3>1. NoEntry \in Entry
      BY DEF NoEntry, Entry, SignInTypeOK
    <3>2. [Whole(runs[p].got) EXCEPT !.loose = kept[Backend(p)].loose] \in Entry
      BY <1>1, <2>1 DEF Whole, Entry
    <3>3. [kept["file"] EXCEPT !.is = "torn", !.ref = 0, !.fresh = FALSE] \in Entry
      <4>1. kept["file"] \in Entry /\ 0 \in 0..MaxMints
        BY <1>0, <1>1
      <4> QED BY <4>1 DEF Entry
    <3> QED
      BY <1>9, <3>1, <3>2, <3>3 DEF Cuts, SavesPair, SaveFails, LogsOut, Saved, SignInTypeOK
  <2>3. why' \in [Stores -> SUBSET Causes]
    <3>1. /\ {"raced"} \in SUBSET Causes /\ {"unheard"} \in SUBSET Causes
          /\ "unsaved" \in Causes /\ "out" \in Causes
      BY DEF Causes
    <3>2. CASE SavesPair(p)
      BY <1>1, <3>1, <3>2 DEF SavesPair, SignInTypeOK
    <3>3. CASE Cuts(p) \/ SaveFails(p) \/ LogsOut(p)
      BY <1>2, <3>1, <3>3 DEF Cuts, SaveFails, LogsOut, SignInTypeOK
    <3> QED BY <1>9, <3>2, <3>3
  <2>4. mishaps' \in 0..MaxMishaps
    BY <1>9 DEF Cuts, SavesPair, SaveFails, LogsOut, Mishap, SignInTypeOK
  <2> QED BY <1>9, <2>1, <2>2, <2>3, <2>4 DEF Cuts, SavesPair, SaveFails, LogsOut, SignInTypeOK
<1>10. ASSUME NEW p \in Askers, MigrationReads(p) \/ MigrationChecks(p)
       PROVE  SignInTypeOK'
  <2>1. kept["file"].ref \in 0..MaxMints
    BY <1>1 DEF Entry, Stores
  <2>2. runs' \in [Askers -> Run]
    BY <1>10, <2>1, RunTypes, <1>0 DEF MigrationReads, MigrationChecks, Goes, Leaves
  <2> QED BY <1>10, <2>2 DEF MigrationReads, MigrationChecks, SignInTypeOK
<1>11. ASSUME NEW p \in Askers, MigrationPuts(p) \/ MigrationDeletes(p) \/ Dies(p)
       PROVE  SignInTypeOK'
  <2>1. runs' \in [Askers -> Run] /\ runs[p].ref \in 0..MaxMints
    BY <1>11, RunTypes, <1>0 DEF MigrationPuts, MigrationDeletes, Dies, Goes, Leaves
  <2>2. NoEntry \in Entry /\ Whole(runs[p].ref) \in Entry
    BY <2>1 DEF NoEntry, Whole, Entry
  <2>3. Replaced(p) \in [Stores -> SUBSET Causes]
    BY DEF Replaced, SignInTypeOK, Causes, Stores
  <2>4. "moved" \in Causes /\ "died" \in Causes /\ "file" \in Stores
    BY DEF Causes, Stores
  <2>5. Blame("file", "moved") \in [Stores -> SUBSET Causes]
        /\ Blame(Backend(p), "died") \in [Stores -> SUBSET Causes]
    BY <1>2, <2>4
  <2>6. mishaps' \in 0..MaxMishaps /\ live' = live /\ mints' = mints
    BY <1>11 DEF MigrationPuts, MigrationDeletes, Dies, Mishap, SignInTypeOK
  <2>7. kept' \in [Stores -> Entry]
    BY <1>11, <2>2 DEF MigrationPuts, MigrationDeletes, Dies, SignInTypeOK
  <2>8. why' \in [Stores -> SUBSET Causes]
    BY <1>11, <2>3, <2>5 DEF MigrationPuts, MigrationDeletes, Dies, SignInTypeOK
  <2> QED BY <2>1, <2>6, <2>7, <2>8 DEF SignInTypeOK
<1>12. ASSUME NEW s \in Stores, Expires(s)
       PROVE  SignInTypeOK'
  BY <1>1, <1>12 DEF Expires, SignInTypeOK, Entry
<1>13. CASE SessionEnds
  BY <1>1, <1>13 DEF SessionEnds, Mishap, SignInTypeOK, Causes
<1>14. CASE ModeChanges
  <2>1. [kept["file"] EXCEPT !.loose = ~kept["file"].loose] \in Entry
    <3>1. kept["file"] \in Entry
      BY <1>0, <1>1
    <3> QED BY <3>1 DEF Entry
  <2>2. mishaps' \in 0..MaxMishaps
    BY <1>14 DEF ModeChanges, Mishap, SignInTypeOK
  <2> QED BY <1>14, <2>1, <2>2 DEF ModeChanges, SignInTypeOK
<1>15. CASE AtTheBounds \/ UNCHANGED signin_vars
  BY <1>15 DEF AtTheBounds, signin_vars, SignInTypeOK
<1> QED
  BY <1>4, <1>5, <1>6, <1>7, <1>8, <1>9, <1>10, <1>11, <1>12, <1>13, <1>14, <1>15 DEF SignInNext

(* A store that has had a sign-in has had one for good.                    *)
LEMMA NeverIsPast ==
  ASSUME SignInAssumption, SignInTypeOK, [SignInNext]_signin_vars
  PROVE  \A s \in Stores : "never" \in why'[s] => "never" \in why[s]
<1>0. why \in [Stores -> SUBSET Causes] /\ "file" \in Stores /\ "keyring" \in Stores
  BY DEF SignInTypeOK, Stores
<1>1. ASSUME NEW t, NEW c, c # "never", why' = Blame(t, c)
      PROVE  \A s \in Stores : "never" \in why'[s] => "never" \in why[s]
  BY <1>0, <1>1 DEF Blame
<1>2. ASSUME NEW p \in Askers, NEW r
      PROVE  \A s \in Stores : "never" \in Rotated(p, r)[s] => "never" \in why[s]
  BY <1>0 DEF Rotated
<1>3. ASSUME NEW p \in Askers, Begins(p) \/ WorkerAsks(p)
      PROVE  \A s \in Stores : "never" \in why'[s] => "never" \in why[s]
  <2>1. why' = Blame(Backend(p), "raced") \/ why' = why
    BY <1>3 DEF Begins, WorkerAsks, Comes
  <2> QED BY <1>1, <2>1
<1>4. ASSUME NEW p \in Askers, Refreshes(p)
      PROVE  \A s \in Stores : "never" \in why'[s] => "never" \in why[s]
  <2>1. why' = Rotated(p, runs[p].ref)
    BY <1>4 DEF Refreshes
  <2> QED BY <1>2, <2>1
<1>5. ASSUME NEW p \in Askers, AnswerLost(p)
      PROVE  \A s \in Stores : "never" \in why'[s] => "never" \in why[s]
  <2> DEFINE rotated == Rotated(p, runs[p].ref)
  <2>1. why' = [rotated EXCEPT ![Backend(p)] = @ \cup {"unheard"}] /\ DOMAIN rotated = Stores
    BY <1>5 DEF AnswerLost, Rotated
  <2>2. \A s \in Stores : "never" \in rotated[s] => "never" \in why[s]
    BY <1>2
  <2> HIDE DEF rotated
  <2> QED BY <2>1, <2>2
<1>6. ASSUME NEW p \in Askers, SavesPair(p)
      PROVE  \A s \in Stores : "never" \in why'[s] => "never" \in why[s]
  BY <1>0, <1>6 DEF SavesPair
<1>7. ASSUME NEW p \in Askers, SaveFails(p) \/ LogsOut(p) \/ MigrationDeletes(p) \/ Dies(p)
      PROVE  \A s \in Stores : "never" \in why'[s] => "never" \in why[s]
  <2>1. why' = why \/ \E t, c : c # "never" /\ why' = Blame(t, c)
    BY <1>7 DEF SaveFails, LogsOut, MigrationDeletes, Dies
  <2> QED BY <1>1, <2>1
<1>8. ASSUME NEW p \in Askers, MigrationPuts(p)
      PROVE  \A s \in Stores : "never" \in why'[s] => "never" \in why[s]
  BY <1>0, <1>8 DEF MigrationPuts, Replaced
<1>9. CASE SessionEnds
  BY <1>0, <1>9 DEF SessionEnds
<1>10. ASSUME UNCHANGED why
       PROVE  \A s \in Stores : "never" \in why'[s] => "never" \in why[s]
  BY <1>10
<1>11. ASSUME NEW p \in Askers,
              \/ Loads(p) \/ RefreshFails(p) \/ Refused(p) \/ Prompts(p) \/ LogsIn(p) \/ Cuts(p)
              \/ MigrationReads(p) \/ MigrationChecks(p)
       PROVE  UNCHANGED why
  BY <1>11 DEF Loads, RefreshFails, Refused, Prompts, LogsIn, Cuts, MigrationReads, MigrationChecks
<1>12. ASSUME NEW s \in Stores, Expires(s)
       PROVE  UNCHANGED why
  BY <1>12 DEF Expires
<1>13. ModeChanges \/ AtTheBounds \/ UNCHANGED signin_vars => UNCHANGED why
  BY DEF ModeChanges, AtTheBounds, signin_vars
<1> QED
  BY <1>3, <1>4, <1>5, <1>6, <1>7, <1>8, <1>9, <1>10, <1>11, <1>12, <1>13 DEF SignInNext

-----------------------------------------------------------------------------
(* Each step keeps the invariant                                           *)

(* While nothing new spoils a store, what it holds stays as it was, but    *)
(* for the one that is at work on it.                                      *)
LEMMA SignInKeeps ==
  ASSUME SignInAssumption, SignInInv, [SignInNext]_signin_vars
  PROVE  (SoundStores /\ SoundRuns /\ Places /\ Confirmed)'
<1> USE DEF SignInInv
<1>0. /\ runs \in [Askers -> Run] /\ kept \in [Stores -> Entry] /\ why \in [Stores -> SUBSET Causes]
      /\ live \subseteq 1..MaxMints /\ mints \in 0..MaxMints
      /\ "file" \in Stores /\ "keyring" \in Stores
  BY DEF SignInTypeOK, Stores
<1>n. "never" \in why'["keyring"] => "never" \in why["keyring"]
  BY <1>0, NeverIsPast
<1> DEFINE Alone(p) == \A q \in Askers : q # p => runs'[q] = runs[q]
           Worse == \A s \in Stores : why[s] \subseteq why'[s]
           Steady == kept' = kept /\ live' = live
<1>1. ASSUME NEW p \in Askers, Begins(p) \/ WorkerAsks(p)
      PROVE  (SoundStores /\ SoundRuns /\ Places /\ Confirmed)'
  <2>1. /\ runs[p].at = "idle" /\ runs'[p].at \in {"load", "leave", "read"}
        /\ runs'[p].at = "read" => Keyring /\ p \in Commands
        /\ Unsaved(Backend(p)) => ~Unspoilt(Backend(p))'
        /\ Alone(p) /\ Worse /\ Steady
    <3>1. runs[p].at = "idle" /\ Alone(p)
      BY <1>1, <1>0 DEF Begins, WorkerAsks, Goes
    <3>2. /\ runs'[p].at \in {"load", "leave", "read"}
          /\ runs'[p].at = "read" => Keyring /\ p \in Commands
      BY <1>1, <1>0 DEF Begins, WorkerAsks, Goes, Run
    <3>3. Steady /\ why' = (IF Unsaved(Backend(p)) THEN Blame(Backend(p), "raced") ELSE why)
      BY <1>1 DEF Begins, WorkerAsks, Comes
    <3>4. Worse
      BY <1>0, <3>3, BackendIsStore DEF Blame
    <3>5. Unsaved(Backend(p)) => ~Unspoilt(Backend(p))'
      BY <1>0, <3>3, BackendIsStore DEF Blame, Unspoilt
    <3> QED BY <3>1, <3>2, <3>3, <3>4, <3>5
  <2>2. SoundStores'
    BY <1>0, <2>1, BackendIsStore DEF SoundStores, SoundRuns, Unspoilt, Unsaved, Busy
  <2>3. SoundRuns'
    BY <1>0, <2>1, BackendIsStore DEF SoundStores, SoundRuns, Unspoilt, Unsaved, Busy
  <2>4. Places'
    BY <1>0, <2>1 DEF Places
  <2>5. Confirmed'
    BY <1>0, <1>n, <2>1, BackendIsStore DEF Confirmed, Places, Stores
  <2> QED BY <2>2, <2>3, <2>4, <2>5
<1>2. ASSUME NEW p \in Askers, Loads(p)
      PROVE  (SoundStores /\ SoundRuns /\ Places /\ Confirmed)'
  <2>1. /\ runs[p].at = "load" /\ Alone(p) /\ Steady /\ why' = why
        /\ \/ runs'[p].at = "idle"
           \/ /\ ~(kept[Backend(p)].is = "torn")
              /\ runs'[p].at = (IF kept[Backend(p)].ref # 0 THEN "refresh" ELSE "rejected")
              /\ runs'[p].ref = kept[Backend(p)].ref
    BY <1>2, <1>0, BackendIsStore DEF Loads, AtRest
  <2>2. SoundStores'
    BY <1>0, <2>1, BackendIsStore DEF SoundStores, SoundRuns, Unspoilt, Unsaved, Busy
  <2>3. SoundRuns'
    BY <1>0, <2>1, BackendIsStore DEF SoundStores, SoundRuns, Unspoilt, Unsaved, Busy
  <2>4. Places'
    BY <1>0, <2>1 DEF Places
  <2>5. Confirmed'
    BY <1>0, <1>n, <2>1, BackendIsStore DEF Confirmed, Places, Stores
  <2> QED BY <2>2, <2>3, <2>4, <2>5
<1>3. ASSUME NEW p \in Askers, Refreshes(p)
      PROVE  (SoundStores /\ SoundRuns /\ Places /\ Confirmed)'
  <2>1. /\ runs[p].at = "refresh" /\ runs'[p].at = "pair" /\ Alone(p) /\ Worse /\ kept' = kept
        /\ live' = (live \ {runs[p].ref}) \cup {mints + 1}
        /\ Echoes => runs'[p].got \in live'
        /\ \A s \in Stores : Busy(s, p) => ~Unspoilt(s)'
        /\ \A s \in Stores : s # Backend(p) /\ kept[s].ref = runs[p].ref => ~Unspoilt(s)'
    BY <1>3, <1>0, BackendIsStore DEF Refreshes, Rotated, Unspoilt
  <2>2. SoundStores'
    BY <1>0, <2>1, BackendIsStore DEF SoundStores, SoundRuns, Unspoilt, Unsaved, Busy
  <2>3. SoundRuns'
    BY <1>0, <2>1, BackendIsStore DEF SoundStores, SoundRuns, Unspoilt, Unsaved, Busy
  <2>4. Places'
    BY <1>0, <2>1 DEF Places
  <2>5. Confirmed'
    BY <1>0, <1>n, <2>1, BackendIsStore DEF Confirmed, Places, Stores
  <2> QED BY <2>2, <2>3, <2>4, <2>5
<1>4. ASSUME NEW p \in Askers, AnswerLost(p)
      PROVE  (SoundStores /\ SoundRuns /\ Places /\ Confirmed)'
  <2>1. /\ runs[p].at = "refresh" /\ runs'[p].at = "idle" /\ Alone(p) /\ Worse /\ kept' = kept
        /\ live' = (live \ {runs[p].ref}) \cup {mints + 1}
        /\ ~Unspoilt(Backend(p))'
        /\ \A s \in Stores : Busy(s, p) => ~Unspoilt(s)'
        /\ \A s \in Stores : s # Backend(p) /\ kept[s].ref = runs[p].ref => ~Unspoilt(s)'
    BY <1>4, <1>0, BackendIsStore DEF AnswerLost, Rotated, Leaves, AtRest, Unspoilt
  <2>2. SoundStores'
    BY <1>0, <2>1, BackendIsStore DEF SoundStores, SoundRuns, Unspoilt, Unsaved, Busy
  <2>3. SoundRuns'
    BY <1>0, <2>1, BackendIsStore DEF SoundStores, SoundRuns, Unspoilt, Unsaved, Busy
  <2>4. Places'
    BY <1>0, <2>1 DEF Places
  <2>5. Confirmed'
    BY <1>0, <1>n, <2>1, BackendIsStore DEF Confirmed, Places, Stores
  <2> QED BY <2>2, <2>3, <2>4, <2>5
<1>5. ASSUME NEW p \in Askers, RefreshFails(p) \/ Refused(p) \/ Prompts(p)
      PROVE  (SoundStores /\ SoundRuns /\ Places /\ Confirmed)'
  <2>1. /\ Alone(p) /\ Steady /\ why' = why
        /\ runs'[p].at \in {"idle", "rejected", "prompt"}
        /\ runs[p].at \in {"refresh", "rejected"}
        /\ runs'[p].at = "rejected" => runs[p].at = "refresh" /\ runs[p].ref \notin live
        /\ runs'[p].at = "prompt" => runs[p].at = "rejected" /\ p \in Commands
    BY <1>5, <1>0, BackendIsStore DEF RefreshFails, Refused, Prompts, Goes, Leaves, AtRest, Run
  <2>2. SoundStores'
    BY <1>0, <2>1, BackendIsStore DEF SoundStores, SoundRuns, Unspoilt, Unsaved, Busy
  <2>3. SoundRuns'
    BY <1>0, <2>1, BackendIsStore DEF SoundStores, SoundRuns, Unspoilt, Unsaved, Busy
  <2>4. Places'
    BY <1>0, <2>1 DEF Places
  <2>5. Confirmed'
    BY <1>0, <1>n, <2>1, BackendIsStore DEF Confirmed, Places, Stores
  <2> QED BY <2>2, <2>3, <2>4, <2>5
<1>6. ASSUME NEW p \in Askers, LogsIn(p)
      PROVE  (SoundStores /\ SoundRuns /\ Places /\ Confirmed)'
  <2>1. /\ Alone(p) /\ kept' = kept /\ live \subseteq live' /\ why' = why
        /\ runs[p].at = "prompt" /\ runs'[p].at \in {"idle", "pair"}
    BY <1>6, <1>0, BackendIsStore DEF LogsIn, Leaves, AtRest, Run
  <2>2. SoundStores'
    BY <1>0, <2>1, BackendIsStore DEF SoundStores, SoundRuns, Unspoilt, Unsaved, Busy
  <2>3. SoundRuns'
    BY <1>0, <2>1, BackendIsStore DEF SoundStores, SoundRuns, Unspoilt, Unsaved, Busy
  <2>4. Places'
    BY <1>0, <2>1 DEF Places
  <2>5. Confirmed'
    BY <1>0, <1>n, <2>1, BackendIsStore DEF Confirmed, Places, Stores
  <2> QED BY <2>2, <2>3, <2>4, <2>5
<1>7. ASSUME NEW p \in Askers, Cuts(p)
      PROVE  (SoundStores /\ SoundRuns /\ Places /\ Confirmed)'
  <2>1. /\ Alone(p) /\ live' = live /\ why' = why
        /\ runs[p].at = "pair" /\ runs'[p].at = "saving" /\ runs'[p].got = runs[p].got
        /\ Backend(p) = "file" /\ kept'["keyring"] = kept["keyring"]
    BY <1>7, <1>0, BackendIsStore DEF Cuts, Goes
  <2>2. SoundStores'
    BY <1>0, <2>1, BackendIsStore DEF SoundStores, SoundRuns, Unspoilt, Unsaved, Busy, Stores
  <2>3. SoundRuns'
    BY <1>0, <2>1, BackendIsStore DEF SoundStores, SoundRuns, Unspoilt, Unsaved, Busy, Stores
  <2>4. Places'
    BY <1>0, <2>1 DEF Places
  <2>5. Confirmed'
    BY <1>0, <1>n, <2>1, BackendIsStore DEF Confirmed, Places, Stores
  <2> QED BY <2>2, <2>3, <2>4, <2>5
<1>8. ASSUME NEW p \in Askers, SavesPair(p)
      PROVE  (SoundStores /\ SoundRuns /\ Places /\ Confirmed)'
  <2>1. /\ Alone(p) /\ live' = live
        /\ runs[p].at \in {"pair", "saving"} /\ runs'[p].at = "idle"
        /\ kept'[Backend(p)].is = "whole" /\ kept'[Backend(p)].ref = runs[p].got
        /\ \A s \in Stores : s # Backend(p) => kept'[s] = kept[s] /\ why'[s] = why[s]
        /\ Busy(Backend(p), p) => ~Unspoilt(Backend(p))'
        /\ runs[p].got \notin live /\ ~Unspoilt(Backend(p)) => ~Unspoilt(Backend(p))'
        /\ ~Echoes => ~Unspoilt(Backend(p))'
    BY <1>8, <1>0, BackendIsStore DEF SavesPair, Saved, Whole, Leaves, AtRest, Unspoilt
  <2>2. SoundStores'
    BY <1>0, <2>1, BackendIsStore DEF SoundStores, SoundRuns, Unspoilt, Unsaved, Busy
  <2>3. SoundRuns'
    BY <1>0, <2>1, BackendIsStore DEF SoundStores, SoundRuns, Unspoilt, Unsaved, Busy
  <2>4. Places'
    BY <1>0, <2>1 DEF Places
  <2>5. Confirmed'
    BY <1>0, <1>n, <2>1, BackendIsStore DEF Confirmed, Places, Stores
  <2> QED BY <2>2, <2>3, <2>4, <2>5
<1>9. ASSUME NEW p \in Askers, SaveFails(p) \/ LogsOut(p)
      PROVE  (SoundStores /\ SoundRuns /\ Places /\ Confirmed)'
  <2>1. /\ Alone(p) /\ live' = live /\ Worse /\ ~Unspoilt(Backend(p))'
        /\ runs'[p].at = "idle"
        /\ \A s \in Stores : s # Backend(p) => kept'[s] = kept[s]
        /\ kept' = kept \/ "out" \in why'[Backend(p)]
    BY <1>9, <1>0, BackendIsStore DEF SaveFails, LogsOut, NoEntry, Blame, Leaves, AtRest, Unspoilt
  <2>2. SoundStores'
    BY <1>0, <2>1, BackendIsStore DEF SoundStores, SoundRuns, Unspoilt, Unsaved, Busy
  <2>3. SoundRuns'
    BY <1>0, <2>1, BackendIsStore DEF SoundStores, SoundRuns, Unspoilt, Unsaved, Busy
  <2>4. Places'
    BY <1>0, <2>1 DEF Places
  <2>5. Confirmed'
    BY <1>0, <1>n, <2>1, BackendIsStore DEF Confirmed, Places, Stores
  <2> QED BY <2>2, <2>3, <2>4, <2>5
<1>10. ASSUME NEW p \in Askers, MigrationReads(p) \/ MigrationChecks(p)
       PROVE  (SoundStores /\ SoundRuns /\ Places /\ Confirmed)'
  <2>1. /\ Alone(p) /\ Steady /\ why' = why
        /\ runs[p].at \in {"read", "check"} /\ runs'[p].at \in {"idle", "check", "put"}
    BY <1>10, <1>0, BackendIsStore DEF MigrationReads, MigrationChecks, Goes, Leaves, AtRest, Run
  <2>2. SoundStores'
    BY <1>0, <2>1, BackendIsStore DEF SoundStores, SoundRuns, Unspoilt, Unsaved, Busy
  <2>3. SoundRuns'
    BY <1>0, <2>1, BackendIsStore DEF SoundStores, SoundRuns, Unspoilt, Unsaved, Busy
  <2>4. Places'
    BY <1>0, <2>1 DEF Places
  <2>5. Confirmed'
    BY <1>0, <1>n, <2>1, BackendIsStore DEF Confirmed, Places, Stores
  <2> QED BY <2>2, <2>3, <2>4, <2>5
<1>11. ASSUME NEW p \in Askers, MigrationPuts(p)
       PROVE  (SoundStores /\ SoundRuns /\ Places /\ Confirmed)'
  <2>1. /\ Alone(p) /\ live' = live /\ runs[p].at = "put"
        /\ \/ runs'[p].at = "idle" /\ kept' = kept /\ why' = why
           \/ /\ runs'[p].at = "delete" /\ why'["file"] = why["file"] /\ kept'["file"] = kept["file"]
              /\ kept'["keyring"].is = "whole" /\ kept'["keyring"].ref = runs[p].ref
              /\ Busy("keyring", p) => ~Unspoilt("keyring")'
              /\ runs[p].ref \notin live => ~Unspoilt("keyring")'
              /\ "never" \notin why'["keyring"]
    <3>1. CASE kept' = [kept EXCEPT !["keyring"] = Whole(runs[p].ref)]
               /\ why' = Replaced(p) /\ Goes(p, "delete")
      BY <1>0, <1>11, <3>1 DEF MigrationPuts, Replaced, Whole, Goes, Run, Unspoilt
    <3>2. CASE Leaves(p) /\ UNCHANGED <<kept, why>>
      BY <1>0, <1>11, <3>2 DEF MigrationPuts, Leaves, AtRest
    <3> QED BY <1>11, <3>1, <3>2 DEF MigrationPuts
  <2>2. SoundStores'
    BY <1>0, <2>1, BackendIsStore DEF SoundStores, SoundRuns, Unspoilt, Unsaved, Busy, Stores
  <2>3. SoundRuns'
    BY <1>0, <2>1, BackendIsStore DEF SoundStores, SoundRuns, Unspoilt, Unsaved, Busy, Stores
  <2>4. Places'
    BY <1>0, <2>1 DEF Places
  <2>5. Confirmed'
    BY <1>0, <1>n, <2>1, BackendIsStore DEF Confirmed, Places, Stores
  <2> QED BY <2>2, <2>3, <2>4, <2>5
<1>12. ASSUME NEW p \in Askers, MigrationDeletes(p) \/ Dies(p)
       PROVE  (SoundStores /\ SoundRuns /\ Places /\ Confirmed)'
  <2>1. /\ Alone(p) /\ live' = live /\ Worse /\ runs'[p].at = "idle" /\ runs[p].at # "idle"
        /\ kept'["keyring"] = kept["keyring"]
        /\ kept' = kept \/ ~Unspoilt("file")'
        /\ runs[p].at \in {"pair", "saving"} => ~Unspoilt(Backend(p))'
    BY <1>12, <1>0, BackendIsStore DEF MigrationDeletes, Dies, NoEntry, Blame, Leaves, AtRest, Unspoilt
  <2>2. SoundStores'
    BY <1>0, <2>1, BackendIsStore DEF SoundStores, SoundRuns, Unspoilt, Unsaved, Busy, Stores
  <2>3. SoundRuns'
    BY <1>0, <2>1, BackendIsStore DEF SoundStores, SoundRuns, Unspoilt, Unsaved, Busy, Stores
  <2>4. Places'
    BY <1>0, <2>1 DEF Places
  <2>5. Confirmed'
    BY <1>0, <1>n, <2>1, BackendIsStore DEF Confirmed, Places, Stores
  <2> QED BY <2>2, <2>3, <2>4, <2>5
<1>13. ASSUME NEW s \in Stores, Expires(s)
       PROVE  (SoundStores /\ SoundRuns /\ Places /\ Confirmed)'
  <2>1. /\ live' = live /\ runs' = runs /\ why' = why
        /\ \A t \in Stores : kept'[t].is = kept[t].is /\ kept'[t].ref = kept[t].ref
    BY <1>0, <1>13 DEF Expires, Entry
  <2> QED
    BY <1>0, <1>n, <2>1, BackendIsStore
       DEF SoundStores, SoundRuns, Places, Confirmed, Unspoilt, Unsaved, Busy
<1>14. CASE SessionEnds
  <2>1. kept' = kept /\ runs' = runs /\ \A s \in Stores : ~Unspoilt(s)' /\ why[s] \subseteq why'[s]
    BY <1>14 DEF SessionEnds, Unspoilt
  <2> QED
    BY <1>0, <1>n, <2>1, BackendIsStore DEF SoundStores, SoundRuns, Places, Confirmed
<1>15. CASE ModeChanges
  <2>1. /\ live' = live /\ runs' = runs /\ why' = why
        /\ \A s \in Stores : kept'[s].is = kept[s].is /\ kept'[s].ref = kept[s].ref
    BY <1>0, <1>15 DEF ModeChanges, Entry
  <2> QED
    BY <1>0, <1>n, <2>1, BackendIsStore
       DEF SoundStores, SoundRuns, Places, Confirmed, Unspoilt, Unsaved, Busy
<1>16. CASE AtTheBounds \/ UNCHANGED signin_vars
  BY <1>16, <1>n
     DEF AtTheBounds, signin_vars, SoundStores, SoundRuns, Places, Confirmed, Unspoilt, Unsaved, Busy
<1> QED
  BY <1>1, <1>2, <1>3, <1>4, <1>5, <1>6, <1>7, <1>8, <1>9, <1>10, <1>11, <1>12, <1>13, <1>14,
     <1>15, <1>16 DEF SignInNext

(* What the commands and the worker do with a cluster's stores, and what   *)
(* the stores hold, has its type (credstore*.go, token.go).                *)
THEOREM SignInTypeCorrect == ASSUME SignInAssumption PROVE SignInSpec => []SignInTypeOK
<1>1. SignInInit => SignInTypeOK
  BY SignInInitInv DEF SignInInv
<1>2. SignInTypeOK /\ [SignInNext]_signin_vars => SignInTypeOK'
  BY SignInTypes
<1> QED BY <1>1, <1>2, PTL DEF SignInSpec

(* Nobody is asked to sign in again, and no worker gives up its bearer,    *)
(* unless something named has cost the store it reads the sign-in; and     *)
(* what the migration leaves in the keyring when it removes the file is    *)
(* the cluster's entry, with a token identity takes, unless a logout or    *)
(* something else that is named, as a worker's refresh in between, has     *)
(* cost it that: however many commands and workers share the stores, with  *)
(* a keyring or without (ensureValidTokenMode,                             *)
(* handleCredsMigrateToKeyring).                                           *)
THEOREM NoSignInIsLostForNothing == ASSUME SignInAssumption PROVE SignInSpec => []SignInsAreKept
<1>1. SignInInit => SignInInv
  BY SignInInitInv
<1>2. SignInInv /\ [SignInNext]_signin_vars => SignInInv'
  BY SignInTypes, SignInKeeps DEF SignInInv
<1>3. SignInInv => SignInsAreKept
  <2> SUFFICES ASSUME SignInInv PROVE PromptsAreEarned /\ CopiesAreKept
    BY DEF SignInsAreKept
  <2>1. PromptsAreEarned
    BY DEF SignInInv, PromptsAreEarned, SoundRuns, Places, Unspoilt
  <2>2. \A p \in Askers : runs[p].at = "delete" =>
          /\ kept["keyring"].is = "whole" \/ "out" \in why["keyring"]
          /\ "never" \notin why["keyring"]
    BY DEF SignInInv, Confirmed
  <2>3. \/ Unsaved("keyring")
        \/ kept["keyring"].is = "whole" /\ kept["keyring"].ref \in live
        \/ why["keyring"] # {}
    <3>1. "keyring" \in Stores
      BY DEF Stores
    <3> QED BY <3>1 DEF SignInInv, SoundStores, Unspoilt
  <2>4. "never" \notin why["keyring"] /\ why["keyring"] # {} => why["keyring"] \ {"never"} # {}
    OBVIOUS
  <2>5. CopiesAreKept
    BY <2>2, <2>3, <2>4 DEF CopiesAreKept
  <2> QED BY <2>1, <2>5
<1> QED BY <1>1, <1>2, <1>3, PTL DEF SignInSpec

-----------------------------------------------------------------------------
(* Fleet                                                                   *)

(* Why a pause holds.  A request of the socket and a command are not at    *)
(* work together, each writes back what it read, and so the file says of   *)
(* every home what the worker last told of it; a worker that is down has   *)
(* no request and no run.                                                  *)
OneAtATime ==
  /\ ctl = NoCtl \/ cli = NoCli
  /\ ctl # NoCtl => ctl.home \in Paired /\ ctl.seen = file
  /\ cli.at = "idle" <=> cli = NoCli
  /\ cli # NoCli => cli.home \in Paired
  /\ cli.at \in {"read", "cut"} => cli.seen = file
FileRemembers == \A h \in Paired : told[h] # "none" => file[h] = told[h]
DownIsOver == ~up => ctl = NoCtl /\ \A h \in Paired : ctx[h] = "none"
FleetInv == OneAtATime /\ FileRemembers /\ DownIsOver /\ PausesSurvive /\ PausedHomesAreSilent

LEMMA NobodyAtWork == NoCtl \in Controls /\ NoCli \in Clis
  BY DEF NoCtl, NoCli, Controls, Clis, Registries

LEMMA AllOneWay ==
  /\ [h \in Paired |-> TRUE] \in [Paired -> BOOLEAN] /\ [h \in Paired |-> FALSE] \in [Paired -> BOOLEAN]
  /\ \A f \in Registries : [h \in Paired |-> f[h] = "on"] \in [Paired -> BOOLEAN]
  OBVIOUS

LEMMA InitFleet == ASSUME FleetAssumption PROVE FleetInit => FleetTypeOK /\ FleetInv
<1> SUFFICES ASSUME FleetInit PROVE FleetTypeOK /\ FleetInv
  OBVIOUS
<1> USE DEF FleetInit
<1>1. FleetTypeOK
  <2>1. torn \in BOOLEAN /\ up \in BOOLEAN
    BY Zenon
  <2>2. file \in Registries /\ mirror \in Paired \cup {NoHome}
    BY DEF Registries
  <2>3. /\ wake \in [Paired -> 0..1] /\ ctx \in [Paired -> {"none", "live", "cancelled"}]
        /\ sup \in [Paired -> {"look", "dozing", "asleep", "build", "run", "ended", "failed", "retry", "absent"}]
        /\ told \in [Paired -> {"none", "on", "off"}]
    OBVIOUS
  <2>4. enabled \in [Paired -> BOOLEAN] /\ runner \in [Paired -> BOOLEAN]
    BY AllOneWay, Zenon
  <2>5. ctl \in Controls /\ cli \in Clis
    BY NobodyAtWork, Zenon
  <2>6. QED
    BY <2>1, <2>2, <2>3, <2>4, <2>5 DEF FleetTypeOK
<1>2. OneAtATime /\ FileRemembers /\ DownIsOver
  BY DEF OneAtATime, FileRemembers, DownIsOver, NoCli
<1>3. PausesSurvive /\ PausedHomesAreSilent
  BY DEF PausesSurvive, PausedHomesAreSilent
<1>4. QED
  BY <1>1, <1>2, <1>3 DEF FleetInv

(* A step of a supervisor writes neither file, and cancels or ends runs,   *)
(* but starts one of an enabled home only.                                 *)
LEMMA SupervisorsKeep ==
  ASSUME FleetTypeOK, FleetInv,
         UNCHANGED <<file, torn, up, enabled, ctl, cli, told>>,
         ctx' \in [Paired -> {"none", "live", "cancelled"}], up,
         \A h \in Paired : ctx'[h] = "live" => ctx[h] = "live" \/ enabled[h],
         \A h \in Paired : sup'[h] = "absent" <=> sup[h] = "absent"
  PROVE  FleetInv'
<1> USE DEF FleetInv
<1>1. OneAtATime' /\ FileRemembers' /\ DownIsOver'
  BY DEF OneAtATime, FileRemembers, DownIsOver, NoCtl, NoCli
<1>2. PausesSurvive' /\ PausedHomesAreSilent'
  BY DEF PausesSurvive, PausedHomesAreSilent
<1>3. QED
  BY <1>1, <1>2

LEMMA NextFleet ==
  ASSUME FleetAssumption, ~Overlap, FleetTypeOK, FleetInv, [FleetNext]_fleet_vars
  PROVE  FleetTypeOK' /\ FleetInv'
<1> USE DEF file_vars, home_vars, FleetAssumption
<1>1. ASSUME NEW h \in Paired,
             \/ ReadsSwitch(h) \/ Sleeps(h) \/ Wakes(h) \/ Builds(h) \/ Returns(h) \/ Settles(h)
             \/ Retries(h)
      PROVE  FleetTypeOK' /\ FleetInv'
  <2> USE DEF FleetTypeOK
  <2>1. /\ UNCHANGED <<file, torn, mirror, up, enabled, ctl, cli, told>> /\ up
        /\ ctx' \in [Paired -> {"none", "live", "cancelled"}]
        /\ \A k \in Paired : ctx'[k] = "live" => ctx[k] = "live" \/ enabled[k]
        /\ \A k \in Paired : sup'[k] = "absent" <=> sup[k] = "absent"
        /\ wake' \in [Paired -> 0..1] /\ runner' \in [Paired -> BOOLEAN]
        /\ sup' \in [Paired -> {"look", "dozing", "asleep", "build", "run", "ended", "failed", "retry", "absent"}]
    <3>1. CASE ReadsSwitch(h)
      BY <3>1 DEF ReadsSwitch, MuFree
    <3>2. CASE Sleeps(h)
      BY <3>2 DEF Sleeps
    <3>3. CASE Wakes(h)
      BY <3>3 DEF Wakes
    <3>4. CASE Builds(h)
      <4>1. up /\ sup[h] = "build" /\ ctx' = ctx
        BY <3>4 DEF Builds, MuFree
      <4>2. \E s \in {"run", "failed", "ended"} : sup' = [sup EXCEPT ![h] = s]
        BY <3>4 DEF Builds
      <4>3. runner' = runner \/ runner' = [runner EXCEPT ![h] = TRUE]
        BY <3>4 DEF Builds
      <4>4. UNCHANGED <<file, torn, mirror, enabled, wake, ctl, cli, told, up>>
        BY <3>4 DEF Builds
      <4>5. QED
        BY <4>1, <4>2, <4>3, <4>4
    <3>5. CASE Returns(h)
      BY <3>5 DEF Returns
    <3>6. CASE Settles(h)
      BY <3>6 DEF Settles, MuFree
    <3>7. CASE Retries(h)
      BY <3>7 DEF Retries
    <3>8. QED
      BY <1>1, <3>1, <3>2, <3>3, <3>4, <3>5, <3>6, <3>7
  <2>2. FleetTypeOK'
    BY <2>1
  <2>3. QED
    BY <2>1, <2>2, SupervisorsKeep
<1>2. ASSUME NEW h \in Paired, NEW want \in {"on", "off"}, SetHomeEnabled(h, want)
      PROVE  FleetTypeOK' /\ FleetInv'
  <2>1. /\ ctl' = [home |-> h, want |-> want, seen |-> file] /\ cli = NoCli /\ ctl' # NoCtl
        /\ UNCHANGED <<file, torn, mirror, up, enabled, wake, ctx, runner, sup, cli, told>> /\ up
    BY <1>2 DEF SetHomeEnabled, MuFree, NoCtl
  <2>2. FleetTypeOK'
    BY <2>1 DEF FleetTypeOK, Controls, Clis, Registries
  <2>3. OneAtATime'
    BY <2>1 DEF FleetInv, OneAtATime, NoCli
  <2>4. FileRemembers' /\ DownIsOver' /\ PausesSurvive' /\ PausedHomesAreSilent'
    BY <2>1 DEF FleetInv, FileRemembers, DownIsOver, PausesSurvive, PausedHomesAreSilent
  <2>5. QED
    BY <2>2, <2>3, <2>4 DEF FleetInv
<1>3. CASE SavesSwitch
  <2>1. /\ ctl # NoCtl /\ ctl' = NoCtl /\ cli = NoCli /\ ctl.home \in Paired /\ ctl.seen = file
        /\ up /\ UNCHANGED <<mirror, up, runner, sup>>
    BY <1>3 DEF SavesSwitch, FleetInv, OneAtATime, DownIsOver
  <2>2. cli' = NoCli
    BY <1>3, <2>1 DEF SavesSwitch, NoCli
  <2>3. CASE UNCHANGED <<file, torn, enabled, ctx, wake, told>>
    <3>1. FleetTypeOK'
      BY <2>1, <2>2, <2>3, NobodyAtWork DEF FleetTypeOK
    <3>2. OneAtATime'
      BY <2>1, <2>2, <2>3 DEF FleetInv, OneAtATime, NoCli
    <3>3. FileRemembers' /\ DownIsOver' /\ PausesSurvive' /\ PausedHomesAreSilent'
      BY <2>1, <2>3 DEF FleetInv, FileRemembers, DownIsOver, PausesSurvive, PausedHomesAreSilent
    <3>4. QED
      BY <3>1, <3>2, <3>3 DEF FleetInv
  <2>4. CASE /\ file' = [ctl.seen EXCEPT ![ctl.home] = ctl.want] /\ torn' = FALSE
             /\ Switches(ctl.home, ctl.want)
    <3> DEFINE h == ctl.home
    <3>1. ctl.want \in {"on", "off"} /\ h \in Paired
      BY <2>1 DEF FleetTypeOK, Controls
    <3>2. /\ file' = [file EXCEPT ![h] = ctl.want] /\ told' = [told EXCEPT ![h] = ctl.want]
          /\ enabled' = [enabled EXCEPT ![h] = ctl.want = "on"] /\ wake' = [wake EXCEPT ![h] = 1]
          /\ ctx' = [ctx EXCEPT ![h] = IF ctl.want = "off" /\ @ = "live" THEN "cancelled" ELSE @]
      BY <2>1, <2>4 DEF Switches
    <3>3. FleetTypeOK'
      <4>1. (ctl.want = "on") \in BOOLEAN
        OBVIOUS
      <4>2. enabled' \in [Paired -> BOOLEAN]
        BY <3>1, <3>2, <4>1 DEF FleetTypeOK
      <4>3. ctx' \in [Paired -> {"none", "live", "cancelled"}] /\ wake' \in [Paired -> 0..1]
        BY <3>1, <3>2 DEF FleetTypeOK
      <4>4. file' \in Registries /\ told' \in [Paired -> {"none", "on", "off"}]
        BY <3>1, <3>2 DEF FleetTypeOK, Registries
      <4>5. QED
        BY <2>1, <2>2, <2>4, <4>2, <4>3, <4>4, NobodyAtWork DEF FleetTypeOK
    <3>4. OneAtATime'
      BY <2>1, <2>2 DEF FleetInv, OneAtATime, NoCli
    <3>5. FileRemembers' /\ DownIsOver'
      BY <2>1, <3>1, <3>2 DEF FleetInv, FileRemembers, DownIsOver, FleetTypeOK, Registries
    <3>6. PausesSurvive' /\ PausedHomesAreSilent'
      BY <2>1, <3>1, <3>2 DEF FleetInv, PausesSurvive, PausedHomesAreSilent, FleetTypeOK
    <3>7. QED
      BY <3>3, <3>4, <3>5, <3>6 DEF FleetInv
  <2>5. QED
    BY <1>3, <2>3, <2>4 DEF SavesSwitch
<1>4. ASSUME NEW h \in Paired, NEW op \in {"pair", "unpair", "disable"}, Command(op, h)
      PROVE  FleetTypeOK' /\ FleetInv'
  <2>1. /\ cli' = [op |-> op, home |-> h, seen |-> file, at |-> "read", lost |-> FALSE]
        /\ ctl = NoCtl /\ cli' # NoCli /\ cli'.at = "read"
        /\ UNCHANGED <<file, torn, mirror, up, enabled, wake, ctx, runner, sup, ctl, told>>
    BY <1>4 DEF Command, NoCli
  <2>2. FleetTypeOK'
    BY <2>1 DEF FleetTypeOK, Controls, Clis, Registries
  <2>3. OneAtATime'
    BY <2>1 DEF FleetInv, OneAtATime, NoCtl
  <2>4. FileRemembers' /\ DownIsOver' /\ PausesSurvive' /\ PausedHomesAreSilent'
    BY <2>1 DEF FleetInv, FileRemembers, DownIsOver, PausesSurvive, PausedHomesAreSilent, NoCtl
  <2>5. QED
    BY <2>2, <2>3, <2>4 DEF FleetInv
<1>5. CASE Truncates
  <2>1. /\ cli.at = "read" /\ cli' = [cli EXCEPT !.at = "cut"] /\ ctl = NoCtl /\ torn' = TRUE
        /\ UNCHANGED <<file, mirror, up, enabled, wake, ctx, runner, sup, ctl, told>>
        /\ cli.home \in Paired /\ cli.seen = file
    BY <1>5 DEF Truncates, FleetInv, OneAtATime, NoCli
  <2>2. cli'.at = "cut" /\ cli'.home = cli.home /\ cli'.seen = file /\ cli' # NoCli
    BY <2>1 DEF FleetTypeOK, Clis, NoCli
  <2>3. FleetTypeOK'
    <3>1. cli' \in Clis
      BY <2>1 DEF FleetTypeOK, Clis
    <3>2. torn' \in BOOLEAN
      BY <2>1, Zenon
    <3>3. QED
      BY <2>1, <3>1, <3>2 DEF FleetTypeOK
  <2>4. OneAtATime'
    BY <2>1, <2>2 DEF FleetInv, OneAtATime, NoCtl
  <2>5. FileRemembers' /\ DownIsOver' /\ PausesSurvive' /\ PausedHomesAreSilent'
    BY <2>1 DEF FleetInv, FileRemembers, DownIsOver, PausesSurvive, PausedHomesAreSilent, NoCtl
  <2>6. QED
    BY <2>3, <2>4, <2>5 DEF FleetInv
<1>6. CASE WritesRegistry
  <2> DEFINE h == cli.home
  <2>1. /\ cli.at = "cut" /\ cli' = [cli EXCEPT !.at = "mirror"] /\ ctl = NoCtl /\ h \in Paired
        /\ told' = [told EXCEPT ![h] = "none"]
        /\ file' = file \/ file' = [file EXCEPT ![h] = Outcome(cli.op)]
        /\ torn' = torn \/ torn' = FALSE
        /\ UNCHANGED <<mirror, up, enabled, wake, ctx, runner, sup, ctl>>
    BY <1>6 DEF WritesRegistry, FleetInv, OneAtATime, NoCli
  <2>2. Outcome(cli.op) \in {"on", "off", "gone"}
    BY DEF Outcome
  <2>3. cli'.at = "mirror" /\ cli'.home = h /\ cli' # NoCli
    BY <2>1 DEF FleetTypeOK, Clis, NoCli
  <2>4. FleetTypeOK'
    <3>1. file' \in Registries /\ told' \in [Paired -> {"none", "on", "off"}]
      BY <2>1, <2>2 DEF FleetTypeOK, Registries
    <3>2. cli' \in Clis
      BY <2>1 DEF FleetTypeOK, Clis
    <3>3. QED
      BY <2>1, <3>1, <3>2 DEF FleetTypeOK
  <2>5. OneAtATime'
    BY <2>1, <2>3 DEF OneAtATime, NoCtl
  <2>6. FileRemembers' /\ DownIsOver' /\ PausesSurvive' /\ PausedHomesAreSilent'
    BY <2>1 DEF FleetInv, FileRemembers, DownIsOver, PausesSurvive, PausedHomesAreSilent, NoCtl,
                FleetTypeOK, Registries
  <2>7. QED
    BY <2>4, <2>5, <2>6 DEF FleetInv
<1>7. CASE Mirrors \/ CommandDies
  <2>1. /\ cli' = NoCli /\ mirror' \in Paired \cup {NoHome}
        /\ UNCHANGED <<file, torn, up, enabled, wake, ctx, runner, sup, ctl, told>>
    <3>1. CASE Mirrors
      <4>1. cli.home \in Paired
        BY <3>1 DEF Mirrors, FleetInv, OneAtATime, NoCli
      <4>2. QED
        BY <3>1, <4>1 DEF Mirrors, Synced, On, FleetTypeOK
    <3>2. CASE CommandDies
      BY <3>2 DEF CommandDies, FleetTypeOK
    <3>3. QED
      BY <1>7, <3>1, <3>2
  <2>2. FleetTypeOK'
    BY <2>1, NobodyAtWork DEF FleetTypeOK
  <2>3. OneAtATime'
    BY <2>1 DEF FleetInv, OneAtATime, NoCtl, NoCli
  <2>4. FileRemembers' /\ DownIsOver' /\ PausesSurvive' /\ PausedHomesAreSilent'
    BY <2>1 DEF FleetInv, FileRemembers, DownIsOver, PausesSurvive, PausedHomesAreSilent, NoCtl
  <2>5. QED
    BY <2>2, <2>3, <2>4 DEF FleetInv
<1>8. CASE WorkerDies
  <2>1. /\ ~up' /\ ctl' = NoCtl /\ ctx' = [h \in Paired |-> "none"]
        /\ runner' = [h \in Paired |-> FALSE] /\ wake' = [h \in Paired |-> 0]
        /\ sup' = [h \in Paired |-> "absent"]
        /\ UNCHANGED <<file, torn, mirror, enabled, cli, told>>
    BY <1>8 DEF WorkerDies
  <2>2. up' = FALSE
    BY <1>8 DEF WorkerDies
  <2>3. FleetTypeOK'
    <3>1. /\ wake' \in [Paired -> 0..1] /\ ctx' \in [Paired -> {"none", "live", "cancelled"}]
          /\ sup' \in [Paired -> {"look", "dozing", "asleep", "build", "run", "ended", "failed", "retry", "absent"}]
      BY <2>1
    <3>2. runner' \in [Paired -> BOOLEAN]
      BY <2>1, AllOneWay, Zenon
    <3>3. up' \in BOOLEAN
      BY <2>2, Zenon
    <3>4. QED
      BY <2>1, <3>1, <3>2, <3>3, NobodyAtWork DEF FleetTypeOK
  <2>4. OneAtATime'
    BY <2>1 DEF FleetInv, OneAtATime, NoCli
  <2>5. FileRemembers' /\ DownIsOver' /\ PausesSurvive' /\ PausedHomesAreSilent'
    BY <2>1 DEF FleetInv, FileRemembers, DownIsOver, PausesSurvive, PausedHomesAreSilent, NoCtl
  <2>6. QED
    BY <2>3, <2>4, <2>5 DEF FleetInv
<1>9. CASE WorkerStarts
  <2>1. /\ ~up /\ up' = TRUE /\ enabled' = [h \in Paired |-> file[h] = "on"]
        /\ sup' = [h \in Paired |-> IF file[h] = "gone" THEN "absent" ELSE "look"]
        /\ mirror' \in Paired \cup {NoHome}
        /\ UNCHANGED <<file, torn, wake, ctx, runner, ctl, cli, told>>
    BY <1>9 DEF WorkerStarts, Synced, On, FleetTypeOK
  <2>2. FleetTypeOK'
    BY <2>1 DEF FleetTypeOK, Controls, Clis, Registries
  <2>3. OneAtATime'
    BY <2>1 DEF FleetInv, OneAtATime, NoCli, NoCtl
  <2>4. FileRemembers' /\ DownIsOver'
    BY <2>1 DEF FleetInv, FileRemembers, DownIsOver
  <2>5. PausesSurvive'
    <3>1. ASSUME NEW h \in Paired, told[h] # "none" PROVE enabled'[h] = (told[h] = "on")
      BY <2>1, <3>1 DEF FleetInv, FileRemembers
    <3>2. QED
      BY <2>1, <3>1 DEF PausesSurvive
  <2>6. PausedHomesAreSilent'
    BY <2>1 DEF FleetInv, DownIsOver, PausedHomesAreSilent
  <2>7. QED
    BY <2>2, <2>3, <2>4, <2>5, <2>6 DEF FleetInv
<1>10. CASE UNCHANGED fleet_vars
  BY <1>10 DEF fleet_vars, FleetTypeOK, FleetInv, OneAtATime, FileRemembers, DownIsOver,
               PausesSurvive, PausedHomesAreSilent, NoCtl, NoCli
<1>11. QED
  BY <1>1, <1>2, <1>3, <1>4, <1>5, <1>6, <1>7, <1>8, <1>9, <1>10 DEF FleetNext

(* Whatever fails, dies and restarts, in any order with the steps of the   *)
(* supervisors: a pause the control socket confirmed is what a restarted   *)
(* worker does, and a paused home has no live run; provided that no        *)
(* command rewrites workers.yaml at the same moment (Overlap), which the   *)
(* code does not prevent.                                                  *)
THEOREM PausesAlwaysHold == ASSUME FleetAssumption, ~Overlap PROVE FleetSpec => []PausesHold
<1>1. FleetInit => FleetTypeOK /\ FleetInv
  BY InitFleet
<1>2. FleetTypeOK /\ FleetInv /\ [FleetNext]_fleet_vars => FleetTypeOK' /\ FleetInv'
  BY NextFleet
<1>3. FleetTypeOK /\ FleetInv => PausesHold
  BY DEF PausesHold, FleetInv
<1>4. QED
  BY <1>1, <1>2, <1>3, PTL DEF FleetSpec

-----------------------------------------------------------------------------
(* ExecCall                                                                *)

Before == {"gate", "shell", "path", "open", "start"}

(* Nothing has run before the start; what the caller is told ends the call. *)
CallIsOrdered ==
  /\ answer = "-" <=> at # "told"
  /\ at \in Before => /\ procs = [p \in {"shell", "child", "stray"} |-> "none"]
                      /\ cwd = "-" /\ wrote = 0 /\ early = FALSE
  /\ at = "wait" => procs["shell"] # "none" /\ context \in {"live", "done"}
  /\ at = "drain" => procs["shell"] = "gone"

(* What is no longer watched has been killed or is over.                   *)
GroupIsWatched ==
  /\ at = "wait" /\ ~watching => ~Runs("shell") /\ ~Runs("child")
  /\ at = "drain" /\ context = "done" /\ Runs("child") => early

DirectoryIsHeld == lane = "scoped" /\ at \in {"shell", "start"} => held = "dir"

ExecInv == ExecCallTypeOK /\ CallIsOrdered /\ GroupIsWatched /\ DirectoryIsHeld /\ ExecToldTrue

(* A call that has only arrived.                                           *)
LEMMA ExecStarts ==
  ASSUME ExecCallAssumption, ExecInit
  PROVE  ExecInv
<1> USE DEF ExecCallAssumption, ExecInit
<1>1. ExecCallTypeOK
  <2>1. procs \in [{"shell", "child", "stray"} -> Procs]
    BY DEF Procs
  <2>2. wrote \in 0..MaxWrites /\ readout \in 0..wrote /\ touches \in 0..MaxTouches
    OBVIOUS
  <2> QED
    BY <2>1, <2>2 DEF ExecCallTypeOK
<1>2. CallIsOrdered /\ GroupIsWatched /\ DirectoryIsHeld /\ ExecToldTrue
  BY DEF CallIsOrdered, GroupIsWatched, DirectoryIsHeld, ExecToldTrue, Before
<1> QED
  BY <1>1, <1>2 DEF ExecInv

(* Nothing that the gates and the lists say starts or ends a process.       *)
LEMMA GatesKeep ==
  ASSUME ExecCallAssumption, ExecInv,
         Gate \/ Path \/ OpenDir \/ Shell \/ StartFails \/ Panics
  PROVE  ExecInv'
<1>0. ExecCallTypeOK /\ CallIsOrdered /\ GroupIsWatched /\ DirectoryIsHeld /\ ExecToldTrue
  BY DEF ExecInv
<1>1. /\ at \in Before /\ Same
      /\ answer = "-"
      /\ \/ at' \in Before /\ answer' = answer
         \/ /\ at' = "told"
            /\ answer' \in {"refused", "tool_panic", "exec_failed", "timeout"}
      /\ held' \in {"-", "dir"}
      /\ lane = "scoped" /\ at' \in {"shell", "start"} => held' = "dir"
  BY <1>0 DEF Gate, Path, OpenDir, Shell, StartFails, Panics, Go, Tell, Before,
              CallIsOrdered, DirectoryIsHeld, ExecCallTypeOK
<1>2. ExecCallTypeOK'
  BY <1>0, <1>1 DEF ExecCallTypeOK, Same, Before
<1>3. CallIsOrdered'
  BY <1>0, <1>1 DEF CallIsOrdered, Same, Before
<1>4. GroupIsWatched' /\ DirectoryIsHeld'
  BY <1>0, <1>1 DEF GroupIsWatched, DirectoryIsHeld, Same, Before, Runs
<1>5. procs' = [p \in {"shell", "child", "stray"} |-> "none"] /\ cwd' = "-"
  BY <1>0, <1>1 DEF CallIsOrdered, Same
<1>6. ExecToldTrue'
  BY <1>1, <1>5 DEF ExecToldTrue, Runs, Before
<1> QED
  BY <1>2, <1>3, <1>4, <1>6 DEF ExecInv

(* What the command does itself, and what is read of it.                    *)
LEMMA CommandKeeps ==
  ASSUME ExecCallAssumption, ExecInv,
         \/ Starts \/ Writes \/ Reads
         \/ \E p \in DOMAIN procs : Forks(p) \/ Exits(p)
  PROVE  ExecInv'
<1>0. ExecCallTypeOK /\ CallIsOrdered /\ GroupIsWatched /\ DirectoryIsHeld /\ ExecToldTrue
  BY DEF ExecInv
<1>1. CASE Starts
  <2>1. /\ procs' = [procs EXCEPT !["shell"] = "runs"]
        /\ procs = [p \in {"shell", "child", "stray"} |-> "none"]
    BY <1>0, <1>1 DEF Starts, CallIsOrdered, Before
  <2>2. /\ procs' \in [{"shell", "child", "stray"} -> Procs]
        /\ procs'["shell"] = "runs"
    BY <2>1 DEF Procs
  <2>3. lane = "scoped" => cwd' = "dir"
    BY <1>0, <1>1 DEF Starts, Cwd, DirectoryIsHeld
  <2>4. cwd' \in {"dir", "elsewhere"}
    BY <1>1 DEF Starts, Cwd
  <2>5. ExecCallTypeOK'
    BY <1>0, <1>1, <2>2, <2>4 DEF Starts, ExecCallTypeOK
  <2>6. CallIsOrdered'
    BY <1>0, <1>1, <2>2 DEF Starts, CallIsOrdered, Before
  <2>7. GroupIsWatched' /\ DirectoryIsHeld'
    BY <1>0, <1>1 DEF Starts, GroupIsWatched, DirectoryIsHeld
  <2>8. ExecToldTrue'
    BY <1>0, <1>1, <2>3 DEF Starts, ExecToldTrue, CallIsOrdered
  <2> QED
    BY <2>5, <2>6, <2>7, <2>8 DEF ExecInv
<1>2. CASE Writes \/ Reads
  <2>1. /\ UNCHANGED <<lane, at, context, owner, name, held, cwd, watching, early, answer, touches, procs>>
        /\ wrote' \in 0..MaxWrites /\ readout' \in 0..wrote'
        /\ Runs("shell") \/ at \in {"wait", "drain"}
        /\ Runs("shell") \/ wrote' = wrote
    BY <1>0, <1>2 DEF Writes, Reads, Still, ExecCallTypeOK, ExecCallAssumption
  <2>2. at \notin Before
    BY <1>0, <2>1 DEF CallIsOrdered, Before, Runs
  <2>3. answer \notin {"success", "refused", "tool_panic"}
    BY <1>0, <2>1 DEF ExecToldTrue, Runs, ExecCallTypeOK, CallIsOrdered
  <2>4. ExecCallTypeOK'
    BY <1>0, <2>1 DEF ExecCallTypeOK
  <2>5. CallIsOrdered' /\ GroupIsWatched' /\ DirectoryIsHeld'
    BY <1>0, <2>1, <2>2 DEF CallIsOrdered, GroupIsWatched, DirectoryIsHeld, Runs
  <2>6. ExecToldTrue'
    BY <1>0, <2>1, <2>3 DEF ExecToldTrue, Runs
  <2> QED
    BY <2>4, <2>5, <2>6 DEF ExecInv
<1>3. ASSUME NEW p \in DOMAIN procs, Forks(p)
      PROVE  ExecInv'
  <2>1. /\ UNCHANGED <<lane, at, context, owner, name, held, cwd, watching, early, answer, touches, wrote, readout>>
        /\ procs' = [procs EXCEPT ![p] = "runs"] /\ p # "shell"
        /\ procs["shell"] = "runs" /\ p \in {"shell", "child", "stray"}
        /\ procs \in [{"shell", "child", "stray"} -> Procs]
    BY <1>0, <1>3 DEF Forks, Still, Runs, ExecCallTypeOK
  <2>2. /\ procs' \in [{"shell", "child", "stray"} -> Procs]
        /\ procs'["shell"] = procs["shell"]
    BY <2>1 DEF Procs
  <2>3. /\ at \notin Before /\ at # "drain" /\ (at = "wait" => watching)
        /\ answer \notin {"success", "refused", "tool_panic", "timeout"}
    BY <1>0, <2>1 DEF CallIsOrdered, GroupIsWatched, ExecToldTrue, Before, Runs
  <2>4. ExecCallTypeOK'
    BY <1>0, <2>1, <2>2 DEF ExecCallTypeOK
  <2>5. CallIsOrdered' /\ GroupIsWatched' /\ DirectoryIsHeld'
    BY <1>0, <2>1, <2>2, <2>3 DEF CallIsOrdered, GroupIsWatched, DirectoryIsHeld, Runs
  <2>6. ExecToldTrue'
    BY <1>0, <2>1, <2>3 DEF ExecToldTrue
  <2> QED
    BY <2>4, <2>5, <2>6 DEF ExecInv
<1>4. ASSUME NEW p \in DOMAIN procs, Exits(p)
      PROVE  ExecInv'
  <2>1. /\ UNCHANGED <<lane, at, context, owner, name, held, cwd, watching, early, answer, touches, wrote, readout>>
        /\ procs' = [procs EXCEPT ![p] = "gone"] /\ procs[p] = "runs"
        /\ p \in {"shell", "child", "stray"}
        /\ procs \in [{"shell", "child", "stray"} -> Procs]
    BY <1>0, <1>4 DEF Exits, Still, Runs, ExecCallTypeOK
  <2>2. /\ procs' \in [{"shell", "child", "stray"} -> Procs]
        /\ \A q \in {"shell", "child", "stray"} :
             procs'[q] = procs[q] \/ procs'[q] = "gone"
    BY <2>1 DEF Procs
  <2>3. /\ at \notin Before
        /\ answer \notin {"refused", "tool_panic"}
    BY <1>0, <2>1 DEF CallIsOrdered, ExecToldTrue
  <2>4. ExecCallTypeOK'
    BY <1>0, <2>1, <2>2 DEF ExecCallTypeOK
  <2>5. CallIsOrdered' /\ GroupIsWatched' /\ DirectoryIsHeld'
    BY <1>0, <2>1, <2>2, <2>3 DEF CallIsOrdered, GroupIsWatched, DirectoryIsHeld, Runs
  <2>6. ExecToldTrue'
    BY <1>0, <2>1, <2>2, <2>3 DEF ExecToldTrue, Runs
  <2> QED
    BY <2>4, <2>5, <2>6 DEF ExecInv
<1> QED
  BY <1>1, <1>2, <1>3, <1>4

(* The context, the kill of the group, and the wait.                        *)
LEMMA WaitKeeps ==
  ASSUME ExecCallAssumption, ExecInv, ContextEnds \/ Kills \/ Reaped \/ Answers
  PROVE  ExecInv'
<1>0. ExecCallTypeOK /\ CallIsOrdered /\ GroupIsWatched /\ DirectoryIsHeld /\ ExecToldTrue
  BY DEF ExecInv
<1>1. CASE ContextEnds
  <2> USE <1>0, <1>1 DEF ContextEnds
  <2>1. answer = "-" /\ early' \in BOOLEAN
    BY DEF CallIsOrdered
  <2>2. ExecCallTypeOK'
    BY <2>1 DEF ExecCallTypeOK
  <2>3. CallIsOrdered' /\ DirectoryIsHeld'
    BY DEF CallIsOrdered, DirectoryIsHeld, Before
  <2>4. GroupIsWatched'
    BY DEF GroupIsWatched, Runs
  <2>5. ExecToldTrue'
    BY <2>1 DEF ExecToldTrue
  <2> QED
    BY <2>2, <2>3, <2>4, <2>5 DEF ExecInv
<1>2. CASE Kills
  <2>1. /\ UNCHANGED <<lane, at, context, owner, name, held, cwd, wrote, readout, early, answer, touches>>
        /\ at = "wait" /\ watching' = FALSE
        /\ procs' = [p \in DOMAIN procs |-> IF p # "stray" /\ procs[p] = "runs" THEN "gone" ELSE procs[p]]
        /\ procs \in [{"shell", "child", "stray"} -> Procs]
    BY <1>0, <1>2 DEF Kills, KillGroup, Runs, ExecCallTypeOK
  <2>2. /\ procs' \in [{"shell", "child", "stray"} -> Procs]
        /\ \A q \in {"shell", "child"} : procs'[q] # "runs"
        /\ procs'["shell"] = "none" => procs["shell"] = "none"
    BY <2>1 DEF Procs
  <2>3. answer = "-"
    BY <1>0, <2>1 DEF CallIsOrdered
  <2>4. ExecCallTypeOK'
    BY <1>0, <2>1, <2>2 DEF ExecCallTypeOK
  <2>5. CallIsOrdered' /\ GroupIsWatched' /\ DirectoryIsHeld'
    BY <1>0, <2>1, <2>2 DEF CallIsOrdered, GroupIsWatched, DirectoryIsHeld, Runs, Before
  <2>6. ExecToldTrue'
    BY <1>0, <2>1, <2>3 DEF ExecToldTrue
  <2> QED
    BY <2>4, <2>5, <2>6 DEF ExecInv
<1>3. CASE Reaped
  <2> USE <1>0, <1>3 DEF Reaped
  <2>1. answer = "-" /\ procs["shell"] = "gone"
    BY DEF CallIsOrdered, Runs, ExecCallTypeOK, Procs
  <2>2. ExecCallTypeOK'
    BY <2>1 DEF ExecCallTypeOK
  <2>3. CallIsOrdered' /\ DirectoryIsHeld'
    BY <2>1 DEF CallIsOrdered, DirectoryIsHeld, Before
  <2>4. GroupIsWatched'
    BY DEF GroupIsWatched, Runs
  <2>5. ExecToldTrue'
    BY <2>1 DEF ExecToldTrue
  <2> QED
    BY <2>2, <2>3, <2>4, <2>5 DEF ExecInv
<1>4. CASE Answers
  <2>1. /\ at = "drain" /\ at' = "told" /\ readout = wrote /\ UNCHANGED held /\ Same
        /\ answer' \in {"success", "timeout", "exec_failed"}
        /\ answer' = "timeout" <=> context = "done"
    BY <1>4 DEF Answers, Drained, Tell, Verdict
  <2>2. ExecCallTypeOK'
    BY <1>0, <2>1 DEF ExecCallTypeOK, Same
  <2>3. CallIsOrdered' /\ DirectoryIsHeld' /\ GroupIsWatched'
    BY <1>0, <2>1 DEF CallIsOrdered, DirectoryIsHeld, GroupIsWatched, Same, Before
  <2>4. procs["shell"] = "gone" /\ context \in {"live", "done"} /\ (context = "done" /\ Runs("child") => early)
    BY <1>0, <2>1 DEF CallIsOrdered, GroupIsWatched, ExecCallTypeOK
  <2>5. ExecToldTrue'
    BY <1>0, <2>1, <2>4 DEF ExecToldTrue, Same, Runs
  <2> QED
    BY <2>2, <2>3, <2>5 DEF ExecInv
<1> QED
  BY <1>1, <1>2, <1>3, <1>4

(* No step breaks it.                                                      *)
LEMMA ExecKeeps ==
  ASSUME ExecCallAssumption, ExecInv, [ExecNext]_exec_vars
  PROVE  ExecInv'
<1>0. ExecCallTypeOK /\ CallIsOrdered /\ GroupIsWatched /\ DirectoryIsHeld /\ ExecToldTrue
  BY DEF ExecInv
<1>1. CASE Renamed \/ \E o \in [window : BOOLEAN, listed : BOOLEAN] : OwnerChanges(o)
  <2>1. /\ UNCHANGED <<lane, at, context, held, procs, cwd, wrote, readout, watching, early, answer>>
        /\ owner' \in [window : BOOLEAN, listed : BOOLEAN] /\ name' \in {"dir", "link"}
        /\ touches' \in 0..MaxTouches
    BY <1>0, <1>1 DEF Renamed, OwnerChanges, Touched, ExecCallTypeOK, ExecCallAssumption
  <2> QED
    BY <1>0, <2>1 DEF ExecInv, ExecCallTypeOK, CallIsOrdered, GroupIsWatched, DirectoryIsHeld,
                      ExecToldTrue, Runs
<1>2. CASE UNCHANGED exec_vars
  BY <1>0, <1>2 DEF exec_vars, ExecInv, ExecCallTypeOK, CallIsOrdered, GroupIsWatched,
                    DirectoryIsHeld, ExecToldTrue, Runs
<1> QED
  BY <1>1, <1>2, GatesKeep, CommandKeeps, WaitKeeps DEF ExecNext, ExecOver

(* What the caller of a shell command is told of it is so: of its end, its *)
(* output and its directory, and of what a timeout has left running,       *)
(* however the command, the deadlines and the owner interleave.            *)
THEOREM ExecTellsTrue == ExecCallAssumption => (ExecSpec => []ExecToldTrue)
<1> SUFFICES ASSUME ExecCallAssumption PROVE ExecSpec => []ExecToldTrue
  OBVIOUS
<1>1. ExecInit => ExecInv
  BY ExecStarts
<1>2. ExecInv /\ [ExecNext]_exec_vars => ExecInv'
  BY ExecKeeps
<1>3. ExecInv => ExecToldTrue
  BY DEF ExecInv
<1> QED
  BY <1>1, <1>2, <1>3, PTL DEF ExecSpec
===============================================================================
