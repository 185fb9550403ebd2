----------------------------- MODULE RefusalHold -----------------------------
(***************************************************************************)
(* How soon the worker asks a home again: Runner.Run's wait after every    *)
(* attempt, and the hold a cluster that REFUSES this machine earns         *)
(* (refusal.go), across streams, restarts and re-pairings.                 *)
(*                                                                         *)
(* Time is counted in units.  A moment the code keeps (first) is kept as   *)
(* its age, which stops growing at the largest value it is compared with;  *)
(* the times a record is shown with (since, next) are left out.            *)
(***************************************************************************)
EXTENDS Integers, FiniteSetsExt

CONSTANTS Tokens,                  \* the tokens this home is paired with
          Kinds,                   \* refusalKind: what can be refused
          RefusalStreak,           \* refusalStreak
          RefusalGrace,            \* refusalGrace
          MinBackoff, MaxBackoff,  \* the reconnect backoff
          HoldMin, HoldMax         \* the hold

ASSUME WaitsAssumption ==
  /\ {RefusalStreak, RefusalGrace, MinBackoff, HoldMin} \subseteq Nat \ {0}
  /\ MaxBackoff \in Nat /\ HoldMax \in Nat
  /\ MinBackoff <= MaxBackoff /\ MaxBackoff <= HoldMin /\ HoldMin <= HoldMax

NoRecord == [none |-> TRUE]

VARIABLES cluster,   \* what the cluster answers the next attempt
          token,     \* cfg.Token
          phase,     \* where Run stands
          left,      \* what is left of the wait it is in
          backoff,   \* Run's backoff
          refused,   \* r.refused
          record,    \* refused.json
          failed,    \* history: the last write or removal of refused.json failed
          row,       \* history: the refusals in a row, and the age of the first
          owed       \* history: what the next stream lost unproven has to wait for: the
                     \* least backoff, doubled for each lost so since the last proven one

vars == <<cluster, token, phase, left, backoff, refused, record, failed, row, owed>>

Answers == {"accepts", "unreachable"} \cup Kinds
Records == {NoRecord} \cup [token : Tokens, kind : Kinds]
NoHold == [streak |-> 0, first |-> 0, held |-> FALSE, wait |-> 0]
NoRow == [n |-> 0, age |-> 0]

NextBackoff(current, max) == Min({2 * current, max})

(* sleepWithJitter waits the base and up to a quarter of it more.           *)
Sleeps(base) == left' \in base .. (base + base \div 4)

Init ==
  /\ cluster \in Answers
  /\ token \in Tokens
  /\ phase = "connecting"
  /\ left = 0
  /\ backoff = MinBackoff
  /\ refused = NoHold
  /\ record = NoRecord /\ failed = FALSE
  /\ row = NoRow
  /\ owed = MinBackoff

-----------------------------------------------------------------------------
(* refused.json is rewritten whole; a write that fails leaves what was.     *)
SaveRefusal(kind) ==
  \/ failed' = FALSE /\ record' = [token |-> token, kind |-> kind]
  \/ failed' = TRUE /\ UNCHANGED record

ClearRefusal ==
  \/ failed' = FALSE /\ record' = NoRecord
  \/ failed' = TRUE /\ UNCHANGED record

(* Whatever a held machine's attempt fails with, it waits the hold.         *)
Holds(standing) ==
  LET wait == NextBackoff(standing.wait, HoldMax)
  IN  /\ refused' = [standing EXCEPT !.wait = wait]
      /\ Sleeps(wait)
      /\ UNCHANGED <<backoff, record, failed>>

HoldStarts(standing, kind) ==
  /\ refused' = [standing EXCEPT !.held = TRUE, !.wait = HoldMin]
  /\ SaveRefusal(kind)
  /\ Sleeps(HoldMin)
  /\ UNCHANGED backoff

BacksOff(standing) ==
  /\ refused' = standing
  /\ Sleeps(backoff)
  /\ backoff' = NextBackoff(backoff, MaxBackoff)
  /\ UNCHANGED <<record, failed>>

Earned(standing) ==
  standing.streak >= RefusalStreak /\ standing.first >= RefusalGrace

(* The standing after one more "no".                                         *)
Refusal(standing) ==
  [standing EXCEPT !.streak = Min({@ + 1, RefusalStreak}),
                   !.first  = IF standing.streak = 0 THEN 0 ELSE @]

(* Mutant: an outage between two refusals counts as grace.                  *)
UnreachedCounts(standing) == standing

(* The standing after an attempt that never got an answer.                  *)
Unreached(standing) ==
  IF standing.held THEN standing ELSE [standing EXCEPT !.streak = 0, !.first = 0]

RefusedAttempt(kind) ==
  LET standing == Refusal(refused)
  IN  /\ IF standing.held THEN Holds(standing)
         ELSE IF Earned(standing) THEN HoldStarts(standing, kind)
         ELSE BacksOff(standing)
      /\ row' = IF refused.held THEN row
                ELSE [n   |-> Min({row.n + 1, RefusalStreak}),
                      age |-> IF row.n = 0 THEN 0 ELSE row.age]

UnreachedAttempt ==
  LET standing == Unreached(refused)
  IN  /\ IF standing.held THEN Holds(standing) ELSE BacksOff(standing)
      /\ row' = IF refused.held THEN row ELSE NoRow

(* afterConnectFailure: connect failed, one way or the other.               *)
ConnectFails ==
  /\ phase = "connecting"
  /\ \/ cluster = "unreachable" /\ UnreachedAttempt
     \/ cluster \in Kinds /\ RefusedAttempt(cluster)
  /\ phase' = "waiting"
  /\ UNCHANGED <<cluster, token, owed>>

(* Mutant: only a hold of this process clears the record.                   *)
ConnectsClearingItsOwn ==
  /\ phase = "connecting"
  /\ cluster = "accepts"
  /\ phase' = "up"
  /\ refused' = NoHold
  /\ IF refused.held THEN ClearRefusal ELSE UNCHANGED <<record, failed>>
  /\ row' = NoRow
  /\ UNCHANGED <<cluster, token, left, backoff, owed>>

(* afterConnect clears the standing and the record, a previous process's    *)
(* record too.                                                              *)
Connects ==
  /\ phase = "connecting"
  /\ cluster = "accepts"
  /\ phase' = "up"
  /\ refused' = NoHold
  /\ ClearRefusal
  /\ row' = NoRow
  /\ UNCHANGED <<cluster, token, left, backoff, owed>>

(* One heartbeat sent proves the stream.                                    *)
Beats ==
  /\ phase = "up"
  /\ phase' = "proven"
  /\ UNCHANGED <<cluster, token, left, backoff, refused, record, failed, row, owed>>

(* Mutant: an accepted handshake proves the stream.                         *)
StreamEndsForgetting ==
  /\ phase \in {"up", "proven"}
  /\ Sleeps(MinBackoff) /\ backoff' = NextBackoff(MinBackoff, MaxBackoff)
  /\ phase' = "waiting"
  /\ owed' = IF phase = "proven" THEN MinBackoff ELSE Min({2 * owed, MaxBackoff})
  /\ UNCHANGED <<cluster, token, refused, record, failed, row>>

StreamEnds ==
  /\ phase \in {"up", "proven"}
  /\ LET base == IF phase = "proven" THEN MinBackoff ELSE backoff
     IN  Sleeps(base) /\ backoff' = NextBackoff(base, MaxBackoff)
  /\ phase' = "waiting"
  /\ owed' = IF phase = "proven" THEN MinBackoff ELSE Min({2 * owed, MaxBackoff})
  /\ UNCHANGED <<cluster, token, refused, record, failed, row>>

(* Mutant: a hold is left only by hand.                                     *)
AsksAgainUnheld ==
  /\ phase = "waiting" /\ left = 0 /\ ~refused.held
  /\ phase' = "connecting"
  /\ UNCHANGED <<cluster, token, left, backoff, refused, record, failed, row, owed>>

AsksAgain ==
  /\ phase = "waiting" /\ left = 0
  /\ phase' = "connecting"
  /\ UNCHANGED <<cluster, token, left, backoff, refused, record, failed, row, owed>>

(* Close, an unpair, a crash: the process is gone and the record is not.    *)
Stops ==
  /\ phase # "stopped"
  /\ phase' = "stopped"
  /\ left' = 0
  /\ refused' = NoHold
  /\ row' = NoRow
  /\ owed' = MinBackoff
  /\ backoff' = MinBackoff
  /\ UNCHANGED <<cluster, token, record, failed>>

(* The worker starts again, re-paired or not.                               *)
Restarts ==
  /\ phase = "stopped"
  /\ phase' = "connecting"
  /\ token' \in Tokens
  /\ UNCHANGED <<cluster, left, backoff, refused, record, failed, row, owed>>

ClusterTurns ==
  /\ cluster' \in Answers \ {cluster}
  /\ UNCHANGED <<token, phase, left, backoff, refused, record, failed, row, owed>>

(* A unit passes.  A wait that is over is not outstayed.                    *)
Tick ==
  /\ phase = "waiting" => left > 0
  /\ left' = IF phase = "waiting" THEN left - 1 ELSE left
  /\ refused' = IF refused.streak = 0 \/ refused.held THEN refused
                ELSE [refused EXCEPT !.first = Min({@ + 1, RefusalGrace})]
  /\ row' = IF row.n = 0 \/ refused.held THEN row
            ELSE [row EXCEPT !.age = Min({@ + 1, RefusalGrace})]
  /\ UNCHANGED <<cluster, token, phase, backoff, record, failed, owed>>

Next ==
  \/ ConnectFails \/ Connects \/ Beats \/ StreamEnds \/ AsksAgain
  \/ Stops \/ Restarts \/ ClusterTurns \/ Tick

Spec == Init /\ [][Next]_vars

(* Time passes, an attempt is answered, a wait that is over is followed by  *)
(* an attempt, and a worker that stopped is started again.                  *)
FairSpec ==
  /\ Spec
  /\ WF_vars(Tick /\ phase = "waiting")
  /\ WF_vars(ConnectFails \/ Connects)
  /\ WF_vars(AsksAgain)
  /\ WF_vars(Restarts)

-----------------------------------------------------------------------------
(* Properties                                                              *)

Longest(base) == base + base \div 4

TypeOK ==
  /\ cluster \in Answers
  /\ token \in Tokens
  /\ phase \in {"connecting", "up", "proven", "waiting", "stopped"}
  /\ left \in 0..Longest(HoldMax)
  /\ backoff \in MinBackoff..MaxBackoff
  /\ refused \in [streak : 0..RefusalStreak, first : 0..RefusalGrace, held : BOOLEAN,
                  wait : {0} \cup HoldMin..HoldMax]
  /\ record \in Records /\ failed \in BOOLEAN
  /\ row \in [n : 0..RefusalStreak, age : 0..RefusalGrace]
  /\ owed \in MinBackoff..MaxBackoff

(* A hold starts only after the cluster has said no RefusalStreak times in *)
(* a row, with nothing else in between, over at least the grace: neither a *)
(* blip nor an outage with a refusal at each end of it parks the machine.  *)
HoldIsEarned ==
  [][~refused.held /\ refused'.held => row'.n = RefusalStreak /\ row'.age >= RefusalGrace]_vars

(* Streams that are accepted and lost before they prove themselves are     *)
(* asked for less and less often: n of them in a row, attempts that failed *)
(* between them or not, wait n - 1 doublings of the backoff, to its        *)
(* maximum.                                                                *)
FlappingBacksOff ==
  [][StreamEnds /\ phase = "up" => left' >= owed]_vars

(* Unless the disk failed, a machine the cluster accepted has no refusal   *)
(* on record, a previous process's included, and one that is held has one  *)
(* for the token it holds.                                                 *)
RecordIsCurrent ==
  ~failed =>
    /\ phase \in {"up", "proven"} => record = NoRecord
    /\ refused.held => record # NoRecord /\ record.token = token

(* So what the worker waits for is earned, and its record of it is true.   *)
WaitsAreEarned == HoldIsEarned /\ FlappingBacksOff /\ []RecordIsCurrent

(* A cluster that goes on accepting gets the machine back, whatever it     *)
(* said before: a hold is never a machine that stays away.                 *)
MachineComesBack ==
  <>[](cluster = "accepts" /\ phase # "stopped") => []<>(phase \in {"up", "proven"})

-----------------------------------------------------------------------------
(* Why waits are earned: the inductive invariant                           *)

(* Before a hold, what the worker counts of the refusals in a row is what  *)
(* they are.                                                               *)
CountIsTrue == ~refused.held => row.n = refused.streak /\ row.age = refused.first

(* A machine on a stream, or without a process, holds nothing.             *)
HoldsAreOfAttempts == phase \in {"up", "proven", "stopped"} => ~refused.held

(* The backoff is never behind what lost streams have earned.              *)
BackoffKeepsUp == owed <= backoff

RefusalInv == TypeOK /\ CountIsTrue /\ HoldsAreOfAttempts /\ BackoffKeepsUp /\ RecordIsCurrent
=============================================================================
