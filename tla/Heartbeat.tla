------------------------------- MODULE Heartbeat -------------------------------
(***************************************************************************)
(* What the engine knows of a machine, from Register to the beats:         *)
(* internal/worker/connect.go (handshake, buildRegister, buildHeartbeat,   *)
(* Close) and loop.go (connect, runStream, heartbeatLoop, answerPing).     *)
(*                                                                         *)
(* The runner opens a stream, registers with the inventories it took       *)
(* before the dial, and reads; the heartbeat loop beside it tells the      *)
(* engine what the machine has, on its ticks and when the installer's      *)
(* report has a new step.  Both write through one Send, which blocks when  *)
(* the cluster stops reading; Close waits for a Send in flight, for a      *)
(* while.                                                                  *)
(*                                                                         *)
(* An app and a piece of hardware are there or not; the installer's report *)
(* is the number of its steps, 0 when there is none.  Time passes when     *)
(* every goroutine of the stream waits for it, or in a Send.               *)
(***************************************************************************)
EXTENDS Integers

CONSTANTS
  Interval,   \* the beat interval
  Spacing,    \* setupBeatSpacing
  Grace,      \* closeGrace
  Refresh,    \* hardwareRefreshBeats
  MaxEvents   \* bound: changes of the machine, and what happens to its stream

HeartbeatAssumption ==
  /\ {Interval, Spacing, Grace, Refresh} \subseteq Nat \ {0}
  /\ MaxEvents \in Nat

VARIABLES
  truth,     \* what a look at the machine finds: [apps, hw, step]
  picture,   \* what the engine has stored of it
  reporter,  \* the installer's report: "quiet", "reported" (RequestBeat is still to come)
  run,       \* the runner: "top" of its loop, "taken", "dialed", "sent", "up",
             \* "pong" (in SendPong), "ending", "closing", "returned"
  taken,     \* the apps found before the dial and the hardware after it: [apps, hw]
  link,      \* the stream: "none", "up", "stalled" (the cluster does not read), "shut"
             \* (ended with a status), "gone", "closed", "cancelled"
  verdict,   \* what the runner made of the last attempt: "none", "accepted",
             \* "refused", "unreachable"
  beater,    \* the heartbeat loop: "off", "starting", "select", "measuring", "sending",
             \* "closing" (in Close, to register again)
  frame,     \* the beat being made
  tickIn, ticked,  \* the ticker
  sinceBeat, \* time since lastBeat, Spacing when there is none or it is long ago
  held,      \* the held beat's timer, NoTimer when there is none
  asked,     \* beatNow holds its one token
  beats,     \* ticks of this stream, modulo Refresh
  leaving,   \* Connection.closing: the loop has decided to register again
  sender,    \* who holds the send lock: "none", "beat", "pong"
  waited,    \* how long each Close has waited, NoTimer when none is in progress
  pinged,    \* bound: the cluster pings once
  stopped,   \* Runner.Close was called
  events,    \* bound: what happened so far
  sinceStep, burst   \* ghosts: time since the last beat for a step; those in a row within Spacing

machine_vars == <<truth, reporter>>
beat_vars == <<beater, frame, sinceBeat, held, beats, leaving, sinceStep, burst>>
time_vars == <<tickIn, ticked>>
vars == <<machine_vars, picture, run, taken, link, verdict, beat_vars, time_vars, asked,
          sender, waited, pinged, stopped, events>>

NoTimer == -1
Closers == {"loop", "run", "stop"}
Facts == [apps : BOOLEAN, hw : BOOLEAN, step : 0..MaxEvents]
Over == {"gone", "closed", "cancelled", "shut"}

HeartbeatTypeOK ==
  /\ truth \in Facts /\ picture \in Facts /\ reporter \in {"quiet", "reported"}
  /\ run \in {"top", "taken", "dialed", "sent", "up", "pong", "ending", "closing", "returned"}
  /\ taken \in [apps : BOOLEAN, hw : BOOLEAN]
  /\ {asked, leaving, pinged, stopped} \subseteq BOOLEAN
  /\ link \in {"none", "up", "stalled"} \cup Over
  /\ verdict \in {"none", "accepted", "refused", "unreachable"}
  /\ beater \in {"off", "starting", "select", "measuring", "sending", "closing"}
  /\ tickIn \in 1..Interval /\ ticked \in BOOLEAN
  /\ sinceBeat \in 0..Spacing /\ held \in NoTimer..Spacing /\ beats \in 0..(Refresh - 1)
  /\ sender \in {"none", "beat", "pong"} /\ waited \in [Closers -> NoTimer..Grace]
  /\ events \in 0..MaxEvents
  /\ sinceStep \in 0..Spacing /\ burst \in 0..2

(* A message says whether it has apps and hardware to tell; step is 0 when *)
(* it carries no report.                                                   *)
NoFrame == [apps |-> FALSE, present |-> FALSE, hw |-> <<>>, step |-> 0]
NoTaken == [apps |-> FALSE, hw |-> FALSE]

Init ==
  /\ truth = [apps |-> TRUE, hw |-> TRUE, step |-> 0] /\ picture = [apps |-> FALSE, hw |-> FALSE, step |-> 0]
  /\ reporter = "quiet" /\ run = "top" /\ taken = NoTaken
  /\ link = "none" /\ verdict = "none"
  /\ beater = "off" /\ frame = NoFrame /\ tickIn = Interval /\ ticked = FALSE
  /\ sinceBeat = Spacing /\ held = NoTimer /\ asked = FALSE /\ beats = 0 /\ leaving = FALSE
  /\ sender = "none" /\ waited = [w \in Closers |-> NoTimer] /\ pinged = FALSE /\ stopped = FALSE
  /\ events = 0 /\ sinceStep = Spacing /\ burst = 0

(* The engine stores what a message tells and leaves the rest alone.       *)
Hears(f) ==
  picture' = [apps |-> IF f.present THEN f.apps ELSE picture.apps,
              hw |-> IF f.hw # <<>> THEN f.hw[1] ELSE picture.hw,
              step |-> IF f.step # 0 THEN f.step ELSE picture.step]

(* Something happens to the machine or its stream.                         *)
Happens == events < MaxEvents /\ events' = events + 1

-----------------------------------------------------------------------------
(* Run: one attempt                                                        *)

(* connect takes the inventories, then dials.                              *)
TakesInventory ==
  /\ run = "top" /\ ~stopped
  /\ run' = "taken" /\ taken' = [taken EXCEPT !.apps = truth.apps] /\ verdict' = "none"
  /\ UNCHANGED <<machine_vars, picture, link, beat_vars, time_vars, asked, sender, waited, pinged,
                 stopped, events>>

Dials ==
  /\ run = "taken"
  /\ \/ run' = "dialed" /\ link' = "up" /\ UNCHANGED <<verdict, events>>
     \/ /\ Happens
        /\ run' = "top" /\ link' = "none" /\ verdict' = "unreachable"
  /\ UNCHANGED <<machine_vars, picture, taken, beat_vars, time_vars, asked, sender, waited, pinged,
                 stopped>>

(* What an end of the stream says: the cluster's status, or nothing.       *)
Learned == IF link = "shut" THEN "refused" ELSE "unreachable"

(* Mutant: the EOF of a Send is the answer.                                *)
RegisterSendsOnly ==
  /\ run = "dialed"
  /\ \/ run' = "sent" /\ UNCHANGED <<link, verdict>>
     \/ link \in Over /\ run' = "top" /\ link' = "none" /\ verdict' = "unreachable"
  /\ taken' = [taken EXCEPT !.hw = truth.hw]
  /\ UNCHANGED <<machine_vars, picture, beat_vars, time_vars, asked, sender, waited, pinged, stopped,
                 events>>

(* A Send on a stream that has ended may still succeed, or gives an EOF,   *)
(* and then Recv knows why.                                                *)
RegisterSends ==
  /\ run = "dialed"
  /\ \/ run' = "sent" /\ UNCHANGED <<link, verdict>>
     \/ link \in Over /\ run' = "top" /\ link' = "none" /\ verdict' = Learned
  /\ taken' = [taken EXCEPT !.hw = truth.hw]
  /\ UNCHANGED <<machine_vars, picture, beat_vars, time_vars, asked, sender, waited, pinged, stopped,
                 events>>

(* RegisterError, another message than an ack, or the end of the stream.   *)
RegisterFails ==
  /\ run = "sent"
  /\ \/ link \in Over /\ verdict' = Learned /\ UNCHANGED events
     \/ link = "up" /\ Happens
        /\ verdict' \in {"refused", "unreachable"}
  /\ run' = "top" /\ link' = "none"
  /\ UNCHANGED <<machine_vars, picture, taken, beat_vars, time_vars, asked, sender, waited, pinged,
                 stopped>>

(* buildRegister: no report of the installer.                              *)
Register == [NoFrame EXCEPT !.apps = taken.apps, !.present = TRUE, !.hw = <<taken.hw>>]

(* RegisterAck: the loops of the stream start.                             *)
Acked ==
  /\ run = "sent" /\ link = "up"
  /\ Hears(Register)
  /\ run' = "up" /\ verdict' = "accepted" /\ taken' = NoTaken
  /\ beater' = "starting"
  /\ UNCHANGED <<machine_vars, link, frame, sinceBeat, held, beats, leaving, sinceStep, burst,
                 time_vars, asked, sender, waited, pinged, stopped, events>>

(* The stream context is a child of the run's.                             *)
HandshakeCancelled ==
  /\ stopped /\ run \in {"taken", "dialed", "sent"}
  /\ run' = "top" /\ link' = "none"
  /\ UNCHANGED <<machine_vars, picture, taken, verdict, beat_vars, time_vars, asked, sender, waited,
                 pinged, stopped, events>>

RunReturns ==
  /\ run = "top" /\ stopped
  /\ run' = "returned"
  /\ UNCHANGED <<machine_vars, picture, taken, link, verdict, beat_vars, time_vars, asked, sender,
                 waited, pinged, stopped, events>>

-----------------------------------------------------------------------------
(* runStream                                                               *)

(* A Ping is answered on the receive goroutine.                            *)
Pings ==
  /\ run = "up" /\ link = "up" /\ ~pinged /\ pinged' = TRUE
  /\ run' = "pong"
  /\ UNCHANGED <<machine_vars, picture, taken, link, verdict, beat_vars, time_vars, asked, sender,
                 waited, stopped, events>>

(* Send takes the lock of the stream.                                      *)
PongSends ==
  /\ run = "pong" /\ sender = "none"
  /\ sender' = "pong"
  /\ UNCHANGED <<machine_vars, picture, run, taken, link, verdict, beat_vars, time_vars, asked, waited,
                 pinged, stopped, events>>

(* A Pong that is not sent is only logged.                                 *)
PongReturns ==
  /\ sender = "pong" /\ link # "stalled"
  /\ sender' = "none" /\ run' = "up"
  /\ UNCHANGED <<machine_vars, picture, taken, link, verdict, beat_vars, time_vars, asked, waited,
                 pinged, stopped, events>>

RecvFails ==
  /\ run = "up" /\ link \in Over
  /\ run' = "ending"
  /\ UNCHANGED <<machine_vars, picture, taken, link, verdict, beat_vars, time_vars, asked, sender,
                 waited, pinged, stopped, events>>

(* The heartbeat loop is joined; Run closes the connection.                *)
Joined ==
  /\ run = "ending" /\ beater = "off"
  /\ run' = "closing" /\ waited' = [waited EXCEPT !["run"] = 0] /\ leaving' = FALSE
  /\ UNCHANGED <<machine_vars, picture, taken, link, verdict, beater, frame, sinceBeat, held, beats,
                 sinceStep, burst, time_vars, asked, sender, pinged, stopped, events>>

-----------------------------------------------------------------------------
(* heartbeatLoop                                                           *)

(* A stream that opens while an install is under way beats at once.        *)
LoopStarts ==
  /\ beater = "starting"
  /\ beater' = "select" /\ asked' = (asked \/ truth.step # 0)
  /\ UNCHANGED <<machine_vars, picture, run, taken, link, verdict, frame, sinceBeat, held, beats,
                 leaving, sinceStep, burst, time_vars, sender, waited, pinged, stopped, events>>

(* Mutant: an inventory without an app is left out of the beat.            *)
BeatOfSome(hw) ==
  /\ beater' = "measuring"
  /\ frame' = [NoFrame EXCEPT !.apps = truth.apps, !.present = truth.apps, !.hw = hw]

(* send: the inventory first.                                              *)
Beat(hw) ==
  /\ beater' = "measuring"
  /\ frame' = [NoFrame EXCEPT !.apps = truth.apps, !.present = TRUE, !.hw = hw]

(* Mutant: no tick carries the hardware.                                   *)
TicksBare ==
  /\ beater = "select" /\ ticked
  /\ ticked' = FALSE /\ beats' = (beats + 1) % Refresh
  /\ Beat(<<>>)
  /\ UNCHANGED <<machine_vars, picture, run, taken, link, verdict, sinceBeat, held, leaving, sinceStep,
                 burst, tickIn, asked, sender, waited, pinged, stopped, events>>

(* Every Refresh-th tick scans the hardware.                               *)
Ticks ==
  /\ beater = "select" /\ ticked
  /\ ticked' = FALSE /\ beats' = (beats + 1) % Refresh
  /\ Beat(IF beats' = 0 THEN <<truth.hw>> ELSE <<>>)
  /\ UNCHANGED <<machine_vars, picture, run, taken, link, verdict, sinceBeat, held, leaving, sinceStep,
                 burst, tickIn, asked, sender, waited, pinged, stopped, events>>

(* A beat for a step, and what the ghosts make of its moment.              *)
BeatsForStep ==
  /\ Beat(<<>>)
  /\ sinceStep' = 0 /\ burst' = IF sinceStep < Spacing THEN burst + 1 ELSE 0

(* Mutant: a request too soon after a beat is dropped.                     *)
StepDropped ==
  /\ beater = "select" /\ asked
  /\ asked' = FALSE
  /\ IF sinceBeat < Spacing THEN UNCHANGED <<held, beater, frame, sinceStep, burst>>
     ELSE BeatsForStep /\ UNCHANGED held
  /\ UNCHANGED <<machine_vars, picture, run, taken, link, verdict, sinceBeat, beats, leaving, time_vars,
                 sender, waited, pinged, stopped, events>>

(* Mutant: a beat for every request.                                       *)
StepAtOnce ==
  /\ beater = "select" /\ asked
  /\ asked' = FALSE
  /\ BeatsForStep /\ UNCHANGED held
  /\ UNCHANGED <<machine_vars, picture, run, taken, link, verdict, sinceBeat, beats, leaving,
                 time_vars, sender, waited, pinged, stopped, events>>

(* A request: now, or held until Spacing after the last beat.              *)
StepAsked ==
  /\ beater = "select" /\ asked
  /\ asked' = FALSE
  /\ \/ /\ sinceBeat < Spacing
        /\ held' = IF held = NoTimer THEN Spacing - sinceBeat ELSE held
        /\ UNCHANGED <<beater, frame, sinceStep, burst>>
     \/ sinceBeat = Spacing /\ BeatsForStep /\ UNCHANGED held
  /\ UNCHANGED <<machine_vars, picture, run, taken, link, verdict, sinceBeat, beats, leaving, time_vars,
                 sender, waited, pinged, stopped, events>>

HeldFires ==
  /\ beater = "select" /\ held = 0
  /\ held' = NoTimer
  /\ BeatsForStep
  /\ UNCHANGED <<machine_vars, picture, run, taken, link, verdict, sinceBeat, beats, leaving, time_vars,
                 asked, sender, waited, pinged, stopped, events>>

(* The installer's report is read last.                                    *)
Measures ==
  /\ beater = "measuring"
  /\ beater' = "sending" /\ frame' = [frame EXCEPT !.step = truth.step]
  /\ UNCHANGED <<machine_vars, picture, run, taken, link, verdict, sinceBeat, held, beats, leaving,
                 sinceStep, burst, time_vars, asked, sender, waited, pinged, stopped, events>>

BeatSends ==
  /\ beater = "sending" /\ sender = "none"
  /\ sender' = "beat"
  /\ UNCHANGED <<machine_vars, picture, run, taken, link, verdict, beat_vars, time_vars, asked, waited,
                 pinged, stopped, events>>

BeatGoes ==
  /\ sender = "beat" /\ sender' = "none"
  /\ \/ link = "up" /\ Hears(frame)
     \/ link = "gone" /\ run # "ending" /\ UNCHANGED picture
  /\ beater' = "select" /\ frame' = NoFrame /\ sinceBeat' = 0
  /\ UNCHANGED <<machine_vars, run, taken, link, verdict, held, beats, leaving, sinceStep, burst,
                 time_vars, asked, waited, pinged, stopped, events>>

(* The loop is over, and what it kept with it.                             *)
LoopReturns ==
  /\ beater' = "off" /\ frame' = NoFrame /\ sinceBeat' = Spacing /\ held' = NoTimer /\ beats' = 0
  /\ tickIn' = Interval /\ ticked' = FALSE
  /\ sinceStep' = Spacing /\ burst' = 0

(* A Send that fails ends the loop.                                        *)
BeatFails ==
  /\ sender = "beat" /\ link \in Over
  /\ sender' = "none" /\ LoopReturns
  /\ UNCHANGED <<machine_vars, picture, run, taken, link, verdict, leaving, asked, waited, pinged,
                 stopped, events>>

(* maybeReadvertiseModels decides to register again, and closes.           *)
Readvertises ==
  /\ beater = "select" /\ ~leaving /\ Happens
  /\ leaving' = TRUE /\ beater' = "closing" /\ waited' = [waited EXCEPT !["loop"] = 0]
  /\ UNCHANGED <<machine_vars, picture, run, taken, link, verdict, frame, sinceBeat, held, beats,
                 sinceStep, burst, time_vars, asked, sender, pinged, stopped>>

LoopEnds ==
  /\ beater = "select" /\ (run = "ending" \/ stopped)
  /\ LoopReturns
  /\ UNCHANGED <<machine_vars, picture, run, taken, link, verdict, leaving, asked, sender, waited,
                 pinged, stopped, events>>

-----------------------------------------------------------------------------
(* Close                                                                   *)

(* Runner.Close: the run is told first, then the stream is closed.         *)
StopCalled ==
  /\ ~stopped /\ Happens
  /\ stopped' = TRUE
  /\ waited' = IF beater # "off" THEN [waited EXCEPT !["stop"] = 0] ELSE waited
  /\ UNCHANGED <<machine_vars, picture, run, taken, link, verdict, beat_vars, time_vars, asked, sender,
                 pinged>>

(* The context of the run ends, and that of its stream.                    *)
CtxEnds ==
  /\ stopped /\ link \in {"up", "stalled"}
  /\ link' = "cancelled"
  /\ UNCHANGED <<machine_vars, picture, run, taken, verdict, beat_vars, time_vars, asked, sender,
                 waited, pinged, stopped, events>>

(* The half-close takes the send lock; whoever closed goes on.             *)
Closes(w) ==
  /\ waited[w] # NoTimer /\ sender = "none"
  /\ waited' = [waited EXCEPT ![w] = NoTimer]
  /\ link' = IF w = "run" THEN "none" ELSE "closed"
  /\ run' = IF w = "run" THEN "top" ELSE run
  /\ beater' = IF w = "loop" THEN "select" ELSE beater
  /\ UNCHANGED <<machine_vars, picture, taken, verdict, frame, sinceBeat, held, beats, leaving,
                 sinceStep, burst, time_vars, asked, sender, pinged, stopped, events>>

(* Mutant: Close waits for a Send for as long as it takes.                 *)
GraceUnbounded(w) == FALSE /\ UNCHANGED vars

(* closeGrace is over: the context of the stream ends, and that Send.      *)
GraceEnds(w) ==
  /\ waited[w] = Grace /\ link \in {"up", "stalled"}
  /\ link' = "cancelled"
  /\ UNCHANGED <<machine_vars, picture, run, taken, verdict, beat_vars, time_vars, asked, sender,
                 waited, pinged, stopped, events>>

-----------------------------------------------------------------------------
(* The machine, the cluster, the network and time                          *)

MachineChanges ==
  /\ ~stopped /\ Happens
  /\ \E f \in {"apps", "hw"} : truth' = [truth EXCEPT ![f] = ~@]
  /\ UNCHANGED <<reporter, picture, run, taken, link, verdict, beat_vars, time_vars, asked, sender,
                 waited, pinged, stopped>>

(* The installer's report has a new step.                                  *)
StepReported ==
  /\ ~stopped /\ Happens /\ reporter = "quiet"
  /\ truth' = [truth EXCEPT !.step = @ + 1] /\ reporter' = "reported"
  /\ UNCHANGED <<picture, run, taken, link, verdict, beat_vars, time_vars, asked, sender, waited,
                 pinged, stopped>>

RequestBeat ==
  /\ reporter = "reported"
  /\ reporter' = "quiet" /\ asked' = TRUE
  /\ UNCHANGED <<truth, picture, run, taken, link, verdict, beat_vars, time_vars, sender, waited,
                 pinged, stopped, events>>

(* The cluster stops reading, or ends the stream; or the network goes.     *)
LinkChanges ==
  /\ link = "up" /\ Happens
  /\ link' \in {"gone", "shut"} \cup (IF run \in {"up", "pong"} THEN {"stalled"} ELSE {})
  /\ UNCHANGED <<machine_vars, picture, run, taken, verdict, beat_vars, time_vars, asked, sender,
                 waited, pinged, stopped>>

ReadsAgain ==
  /\ link = "stalled"
  /\ link' = "up"
  /\ UNCHANGED <<machine_vars, picture, run, taken, verdict, beat_vars, time_vars, asked, sender,
                 waited, pinged, stopped, events>>

(* No goroutine of the stream has a step to take but those that wait.      *)
Waits ==
  /\ \/ run = "up" /\ link \notin Over
     \/ run = "pong" /\ sender # "none"
     \/ run = "ending"
  /\ sender # "none" => link = "stalled"
  /\ \/ beater = "select" /\ ~ticked /\ ~asked /\ held # 0 /\ run # "ending" /\ ~stopped
     \/ beater \in {"sending", "closing"} /\ sender # "none"
  /\ \A w \in Closers : waited[w] # Grace

Passes ==
  /\ Waits
  /\ IF beater = "off" THEN UNCHANGED time_vars
     ELSE /\ tickIn' = IF tickIn = 1 THEN Interval ELSE tickIn - 1
          /\ ticked' = (ticked \/ tickIn = 1)
  /\ sinceBeat' = IF sinceBeat < Spacing THEN sinceBeat + 1 ELSE Spacing
  /\ sinceStep' = IF sinceStep < Spacing THEN sinceStep + 1 ELSE Spacing
  /\ held' = IF held > 0 THEN held - 1 ELSE held
  /\ waited' = [w \in Closers |-> IF waited[w] \in 0..(Grace - 1) THEN waited[w] + 1 ELSE waited[w]]
  /\ UNCHANGED <<machine_vars, picture, run, taken, link, verdict, beater, frame, beats, leaving, burst,
                 asked, sender, pinged, stopped, events>>

HeartbeatRests == run = "returned" /\ UNCHANGED vars

Runner ==
  \/ TakesInventory \/ Dials \/ RegisterSends \/ RegisterFails \/ Acked \/ HandshakeCancelled \/ RunReturns
  \/ PongSends \/ PongReturns \/ RecvFails \/ Joined
Closing == CtxEnds \/ \E w \in Closers : Closes(w) \/ GraceEnds(w)
Beating ==
  \/ LoopStarts \/ Ticks \/ StepAsked \/ HeldFires \/ LoopEnds
  \/ Measures \/ BeatSends \/ BeatGoes \/ BeatFails

Next ==
  \/ Runner \/ Closing \/ RequestBeat \/ Beating \/ Readvertises \/ StopCalled
  \/ Pings \/ MachineChanges \/ StepReported \/ LinkChanges \/ ReadsAgain \/ Passes
  \/ HeartbeatRests

(* The worker's goroutines run, and the cluster answers a Register.  Every *)
(* step but those of the heartbeat loop happens a bounded number of times, *)
(* so that fairness to their disjunction is fairness to each.              *)
Acts == Runner \/ Closing \/ RequestBeat
Fairness == WF_vars(Acts) /\ WF_vars(Beating) /\ WF_vars(Passes)

Spec == Init /\ [][Next]_vars /\ Fairness

-----------------------------------------------------------------------------
(* Properties                                                              *)

(* A step of the install the engine has not heard of is on its way while   *)
(* the stream carries beats: asked for, held, or in the beat being made    *)
(* (heartbeatLoop, RequestBeat).                                           *)
StepsAreOnTheirWay ==
  beater \notin {"off", "closing"} /\ ~leaving /\ link \in {"up", "stalled"} /\ picture.step # truth.step
    => \/ reporter = "reported" \/ asked \/ held # NoTimer
       \/ beater \in {"starting", "measuring"}
       \/ beater = "sending" /\ frame.step = truth.step

(* Of the beats sent for a step at most two are within Spacing of each     *)
(* other, however many steps are reported (setupBeatSpacing).              *)
StepsAreSpaced == burst <= 1

(* A cluster that ended the stream with a status is heard, whichever call  *)
(* of the handshake meets it (register).                                   *)
WhyIsHeard ==
  link = "shut" /\ run' = "top" /\ ~stopped /\ run \in {"dialed", "sent"} => verdict' = "refused"
RefusalIsHeard == [][WhyIsHeard]_vars

(* In the end the engine has what the machine has, while it reads.         *)
Known == run = "up" /\ link = "up" /\ ~stopped => picture = truth
PictureIsTrue == <>[]Known

(* A Close ends though the cluster has stopped reading, and Runner.Close   *)
(* ends the run.                                                           *)
Ending == waited["loop"] # NoTimer \/ stopped
Ended == waited["loop"] = NoTimer /\ (stopped => run = "returned")
CloseEnds == Ending ~> Ended
=============================================================================
