-------------------------- MODULE InteractiveLogin --------------------------
(* One sign-in of a person (internal/auth/device.go, oauth.go): the        *)
(* browser flow, whose answer comes to a port of this machine, and the     *)
(* device flow, which polls identity while the person approves the code    *)
(* somewhere else.  A unit of time is five seconds, the least interval     *)
(* between two polls.                                                      *)
EXTENDS Integers

CONSTANTS
  Intervals,  \* what identity may name as the interval between polls; 0: nothing
  Window,     \* how long a device code is good for
  Slack,      \* what the command waits beyond it
  Unnamed,    \* the interval after a slow_down that names none
  Late,       \* how long the command waits for the answer of one poll
  Patience,   \* how long the browser may take
  MaxLost,    \* bound: polls lost on the way
  MaxCalls    \* bound: requests to the port of the browser flow

LoginAssumption ==
  /\ Intervals \subseteq Nat /\ Intervals # {}
  /\ {Window, Unnamed, Patience} \subseteq Nat \ {0} /\ {Slack, Late, MaxLost, MaxCalls} \subseteq Nat

VARIABLES
  flow,    \* which flow, and where it stands
  now,
  device,  \* the device flow: the command's interval, its next poll, its deadline
  idp,     \* identity: what the person did with the code, and the floor it told
  polls,   \* history: the last poll, how many were lost, an answer nobody can use
  port     \* the browser flow: what came to the port, what the person was shown

login_vars == <<flow, now, device, idp, polls, port>>

(* Mutant: the command gives up when the code does. *)
EndBare == Window

End == Window + Slack
Horizon == End + 2 * Late + Patience
Larger(a, b) == IF a >= b THEN a ELSE b

Flows == {"browser", "exchange", "device", "wait", "ask", "in", "denied", "expired", "timeout", "failed"}
Ended == {"in", "denied", "expired", "timeout", "failed"}

LoginTypeOK ==
  /\ flow \in Flows
  /\ now \in 0..Horizon
  /\ device \in [interval: 0..Horizon, next: 0..2 * Horizon]
  /\ idp \in [code: {"none", "pending", "approved", "denied"}, since: 0..Horizon, floor: 0..Horizon]
  /\ polls \in [last: 0..Horizon, any: BOOLEAN, gap: BOOLEAN, lost: 0..MaxLost,
                broken: BOOLEAN]
  /\ port \in [first: {"none", "code", "error"}, page: {"none", "ok", "failed"}, calls: 0..MaxCalls]

(* A terminal without a display goes to the device flow at once.           *)
Init ==
  /\ flow \in {"browser", "device"}
  /\ now = 0
  /\ device = [interval |-> 0, next |-> 0]
  /\ idp = [code |-> "none", since |-> 0, floor |-> 0]
  /\ polls = [last |-> 0, any |-> FALSE, gap |-> TRUE, lost |-> 0, broken |-> FALSE]
  /\ port = [first |-> "none", page |-> "none", calls |-> 0]

-----------------------------------------------------------------------------
(* The browser flow                                                        *)

(* No browser opens: the same sign-in goes on as the device flow.          *)
NoBrowser ==
  /\ flow = "browser" /\ now = 0 /\ port.calls = 0
  /\ flow' = "device"
  /\ UNCHANGED <<now, device, idp, polls, port>>

(* Mutant: the state of the request is not compared. *)
CallbackOfAny ==
  /\ flow = "browser" /\ port.calls < MaxCalls
  /\ \E mine \in BOOLEAN, what \in {"code", "error"} :
       /\ port' = [port EXCEPT !.calls = @ + 1,
                               !.first = IF @ = "none" THEN what ELSE @,
                               !.page = IF ~mine THEN @ ELSE IF what = "code" THEN "ok" ELSE "failed"]
  /\ UNCHANGED <<flow, now, device, idp, polls>>

(* A request to the port: one with another state is turned away, the first *)
(* of the others is the answer, and each is shown a page of its own.       *)
Callback ==
  /\ flow = "browser" /\ port.calls < MaxCalls
  /\ \E mine \in BOOLEAN, what \in {"code", "error"} :
       /\ port' = [port EXCEPT !.calls = @ + 1,
                               !.first = IF mine /\ @ = "none" THEN what ELSE @,
                               !.page = IF ~mine THEN @ ELSE IF what = "code" THEN "ok" ELSE "failed"]
  /\ UNCHANGED <<flow, now, device, idp, polls>>

Answered ==
  /\ flow = "browser" /\ port.first # "none"
  /\ flow' = IF port.first = "code" THEN "exchange" ELSE "failed"
  /\ UNCHANGED <<now, device, idp, polls, port>>

(* The code is exchanged; the page has said that all is well before.       *)
Exchanged ==
  /\ flow = "exchange"
  /\ flow' \in {"in", "failed"}
  /\ UNCHANGED <<now, device, idp, polls, port>>

BrowserTimesOut ==
  /\ flow = "browser" /\ now >= Patience
  /\ flow' = "timeout"
  /\ UNCHANGED <<now, device, idp, polls, port>>

-----------------------------------------------------------------------------
(* The device flow                                                         *)

(* The code is asked for; an interval below the least is raised to it.     *)
CodeComes ==
  /\ flow = "device"
  /\ \/ \E i \in Intervals :
          /\ flow' = "wait"
          /\ device' = [interval |-> Larger(i, 1), next |-> now + Larger(i, 1)]
          /\ idp' = [code |-> "pending", since |-> now, floor |-> i]
     \/ flow' = "failed" /\ UNCHANGED <<device, idp>>
  /\ UNCHANGED <<now, polls, port>>

(* The deadline is looked at when the wait is over, before the poll.       *)
Polls ==
  /\ flow = "wait" /\ now >= device.next
  /\ IF now > idp.since + End
     THEN flow' = "timeout" /\ UNCHANGED polls
     ELSE /\ flow' = "ask"
          /\ polls' = [polls EXCEPT !.last = now, !.any = TRUE,
                                    !.gap = @ /\ (polls.any => now - polls.last >= Larger(idp.floor, 1))]
  /\ UNCHANGED <<now, device, idp, port>>

(* Mutant: a slow_down is waited out once, and forgotten. *)
SleepsOnce(raised) == [device EXCEPT !.next = now + Larger(device.interval, raised)]

Sleeps(raised) == [interval |-> Larger(device.interval, raised),
                   next |-> now + Larger(device.interval, raised)]

(* Not answered yet: poll again; slow_down raises the interval, never      *)
(* lowers it, to what identity names or to a value of the command's own.   *)
PollAgain ==
  /\ flow = "ask" /\ idp.code = "pending" /\ now <= idp.since + Window
  /\ \/ device' = Sleeps(0) /\ UNCHANGED idp
     \/ \E i \in Intervals :
          /\ device' = Sleeps(IF i = 0 THEN Unnamed ELSE i)
          /\ idp' = [idp EXCEPT !.floor = Larger(@, i)]
  /\ flow' = "wait"
  /\ UNCHANGED <<now, polls, port>>

(* Mutant: a poll that is lost ends the sign-in. *)
PollLostEnds ==
  /\ flow = "ask" /\ polls.lost < MaxLost
  /\ polls' = [polls EXCEPT !.lost = @ + 1]
  /\ flow' = "expired"
  /\ UNCHANGED <<now, device, idp, port>>

(* The poll or its answer is lost: the person may be in the middle of it.  *)
PollLost ==
  /\ flow = "ask" /\ polls.lost < MaxLost
  /\ polls' = [polls EXCEPT !.lost = @ + 1]
  /\ \E d \in 0..Late :
       /\ now' = now + d /\ now' <= Horizon
       /\ device' = [device EXCEPT !.next = now' + device.interval]
  /\ flow' = "wait"
  /\ UNCHANGED <<idp, port>>

(* An answer that is not identity's own, of a proxy or a server that       *)
(* fails, or one without a token, ends the sign-in whatever became of the  *)
(* code.                                                                   *)
PollFails ==
  /\ flow = "ask"
  /\ flow' = "failed"
  /\ polls' = [polls EXCEPT !.broken = TRUE]
  /\ UNCHANGED <<now, device, idp, port>>

(* An approved code is good once; the rest are ends.                       *)
PollEnds ==
  /\ flow = "ask"
  /\ flow' = CASE idp.code = "approved" -> "in"
               [] idp.code = "denied" -> "denied"
               [] idp.code = "pending" /\ now > idp.since + Window -> "expired"
               [] OTHER -> flow
  /\ flow' # flow
  /\ UNCHANGED <<now, device, idp, polls, port>>

(* The person answers while the code is good.                              *)
PersonAnswers ==
  /\ flow \in {"wait", "ask"} /\ idp.code = "pending" /\ now <= idp.since + Window
  /\ \E w \in {"approved", "denied"} : idp' = [idp EXCEPT !.code = w]
  /\ UNCHANGED <<flow, now, device, polls, port>>

(* The command waits for its timer and for nothing else.                   *)
Passes ==
  /\ \/ flow = "wait" /\ now < device.next
     \/ flow = "browser" /\ now < Patience
  /\ now < Horizon
  /\ now' = now + 1
  /\ UNCHANGED <<flow, device, idp, polls, port>>

Over == flow \in Ended /\ UNCHANGED login_vars

Next ==
  \/ NoBrowser \/ Callback \/ Answered \/ Exchanged \/ BrowserTimesOut
  \/ CodeComes \/ Polls \/ PollAgain \/ PollLost \/ PollFails \/ PollEnds
  \/ PersonAnswers \/ Passes \/ Over

Spec == Init /\ [][Next]_login_vars

-----------------------------------------------------------------------------
(* Properties                                                              *)

(* Two polls are never closer than the largest interval identity has named *)
(* to this sign-in, whatever order the answers named them in.              *)
FloorIsKept == polls.gap

(* Who approves the code in time is signed in: the slack behind the window *)
(* covers the poll that is due, unless polls were lost, the interval has   *)
(* grown beyond the slack, or an answer came that nobody can use, which    *)
(* alone ends the sign-in.                                                 *)
ApprovalIsHeard ==
  flow \in Ended /\ idp.code = "approved"
    => flow = "in" \/ polls.lost > 0 \/ device.interval > Slack \/ polls.broken

(* No sign-in is given up while its code is good and the person still      *)
(* thinks about it, but for such an answer.                                *)
NotGivenUpEarly ==
  flow \in Ended /\ idp.code = "pending" => now > idp.since + Window \/ polls.broken

(* A request that does not carry the state of this sign-in decides nothing: *)
(* the answer taken is one the person was shown a page for.                *)
OnlyMineDecides ==
  port.first # "none" => port.page # "none"
=============================================================================
