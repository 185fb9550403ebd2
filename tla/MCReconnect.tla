----------------------------- MODULE MCReconnect -----------------------------
(* What a worker and its cluster know of each other after the connection   *)
(* went, checked in one run: the hold after a refusal (RefusalHold) and    *)
(* the models a registration carries (Advertisement); and what the owner   *)
(* of the machine allows, from policy.yaml to the beats (MachinePolicy);   *)
(* and what the engine knows of the machine (Heartbeat).                   *)
(* A behaviour is of one of them, which Start chooses; RefusalHold stands  *)
(* still in those of the others, whose variables are Unused outside        *)
(* their own.                                                              *)
EXTENDS RefusalHold

CONSTANTS Unused,
          Commands, Homes, Models                                   \* MachinePolicy

VARIABLES subject,                                                  \* the part in play
          machine, cached, cacheAge, conn, registered, loop, refreshIn, sinceClose, pending, wake,
          asker, work, events, asks, bypasses, wanted, idleFor,     \* Advertisement
          file, said, standing, cmd, worker, live, signal, load, beat, edits, faults,  \* MachinePolicy
          truth, picture, reporter, run, taken, link, verdict, beater, frame, tickIn, ticked,
          sinceBeat, held, asked, beats, leaving, sender, waited, pinged, stopped, happened,
          sinceStep, burst                                          \* Heartbeat

Advert == INSTANCE Advertisement
            WITH Refresh <- 2, TTL <- 3, Floor <- 4, MaxEvents <- 4, MaxAsks <- 2

Policy == INSTANCE MachinePolicy WITH MaxEdits <- 1, MaxFaults <- 1, Overlap <- FALSE

Knows == INSTANCE Heartbeat
           WITH events <- happened, Interval <- 2, Spacing <- 1, Grace <- 1, Refresh <- 2, MaxEvents <- 2

ASSUME Units == Advert!UnitsAssumption /\ Policy!PolicyAssumption /\ Knows!HeartbeatAssumption

advert_vars == <<machine, cached, cacheAge, conn, registered, loop, refreshIn, sinceClose,
                 pending, wake, asker, work, events, asks, bypasses, wanted, idleFor>>
policy_vars == <<file, said, standing, cmd, worker, live, signal, load, beat, edits, faults>>
heartbeat_vars == <<truth, picture, reporter, run, taken, link, verdict, beater, frame, tickIn, ticked,
                    sinceBeat, held, asked, beats, leaving, sender, waited, pinged, stopped, happened,
                    sinceStep, burst>>
everything == <<subject, vars, advert_vars, policy_vars, heartbeat_vars>>

NoAdvert ==
  /\ machine = Unused /\ cached = Unused /\ cacheAge = Unused /\ conn = Unused
  /\ registered = Unused /\ loop = Unused /\ refreshIn = Unused /\ sinceClose = Unused
  /\ pending = Unused /\ wake = Unused /\ asker = Unused /\ work = Unused /\ events = Unused
  /\ asks = Unused /\ bypasses = Unused /\ wanted = Unused /\ idleFor = Unused

NoPolicy ==
  /\ file = Unused /\ said = Unused /\ standing = Unused /\ cmd = Unused /\ worker = Unused
  /\ live = Unused /\ signal = Unused /\ load = Unused /\ beat = Unused /\ edits = Unused
  /\ faults = Unused

NoHeartbeat ==
  /\ truth = Unused /\ picture = Unused /\ reporter = Unused /\ run = Unused /\ taken = Unused
  /\ link = Unused /\ verdict = Unused /\ beater = Unused /\ frame = Unused /\ tickIn = Unused
  /\ ticked = Unused /\ sinceBeat = Unused /\ held = Unused /\ asked = Unused /\ beats = Unused
  /\ leaving = Unused /\ sender = Unused /\ waited = Unused /\ pinged = Unused /\ stopped = Unused
  /\ happened = Unused /\ sinceStep = Unused /\ burst = Unused

Start ==
  /\ Init
  /\ \/ subject = "refusal" /\ NoAdvert /\ NoPolicy /\ NoHeartbeat
     \/ /\ subject \in {"advert", "policy", "heartbeat"}
        /\ cluster = "accepts" /\ token = CHOOSE t \in Tokens : TRUE
        /\ IF subject = "advert" THEN Advert!Init ELSE NoAdvert
        /\ IF subject = "policy" THEN Policy!Init ELSE NoPolicy
        /\ IF subject = "heartbeat" THEN Knows!Init ELSE NoHeartbeat

Step ==
  /\ UNCHANGED subject
  /\ \/ subject = "refusal" /\ Next /\ UNCHANGED <<advert_vars, policy_vars, heartbeat_vars>>
     \/ subject = "advert" /\ Advert!Next /\ UNCHANGED <<vars, policy_vars, heartbeat_vars>>
     \/ subject = "policy" /\ Policy!Next /\ UNCHANGED <<vars, advert_vars, heartbeat_vars>>
     \/ subject = "heartbeat" /\ Knows!Next /\ UNCHANGED <<vars, advert_vars, policy_vars>>

(* The fairness of the parts, each for the behaviours it is in play.       *)
Fairness ==
  /\ WF_vars(subject = "refusal" /\ Tick /\ phase = "waiting")
  /\ WF_vars(subject = "refusal" /\ (ConnectFails \/ Connects))
  /\ WF_vars(subject = "refusal" /\ AsksAgain)
  /\ WF_vars(subject = "refusal" /\ Restarts)
  /\ WF_advert_vars(subject = "advert" /\ Advert!Evaluation)
  /\ WF_advert_vars(subject = "advert" /\ Advert!Asking)
  /\ SF_advert_vars(subject = "advert" /\ Advert!StreamReturns)
  /\ WF_advert_vars(subject = "advert" /\ Advert!ConnectReads)
  /\ WF_advert_vars(subject = "advert" /\ Advert!Registers)
  /\ WF_advert_vars(subject = "advert" /\ Advert!WorkEnds)
  /\ WF_advert_vars(subject = "advert" /\ Advert!Pause)
  /\ WF_policy_vars(subject = "policy" /\ Policy!Starts)
  /\ WF_policy_vars(subject = "policy" /\ Policy!Notifies)
  /\ WF_policy_vars(subject = "policy" /\ Policy!Takes)
  /\ \A r \in {"handler", "pull"} :
       WF_policy_vars(subject = "policy" /\ (Policy!LoadReads(r) \/ Policy!LoadApplies(r)))
  /\ \A h \in Homes : WF_policy_vars(subject = "policy" /\ Policy!Beats(h))
  /\ WF_heartbeat_vars(subject = "heartbeat" /\ Knows!Acts)
  /\ WF_heartbeat_vars(subject = "heartbeat" /\ Knows!Beating)
  /\ WF_heartbeat_vars(subject = "heartbeat" /\ Knows!Passes)

Parts == Start /\ [][Step]_everything /\ Fairness

-----------------------------------------------------------------------------
(* Properties: those of the parts (RefusalHold has its own)                *)

(* Types of the parts.                                                     *)
PartsTypeOK ==
  /\ TypeOK
  /\ subject = "advert" => Advert!TypeOK
  /\ subject = "policy" => Policy!PolicyTypeOK
  /\ subject = "heartbeat" => Knows!HeartbeatTypeOK

(* Advertisement: what was asked for shows after one idle refresh, and one *)
(* request waives one floor; what the worker goes by is what one text of   *)
(* policy.yaml said (MachinePolicy); a step of an install the engine has   *)
(* not heard of is on its way, and beats for steps are spaced (Heartbeat); *)
(* and the types of the parts.                                             *)
RequestsShow ==
  /\ PartsTypeOK
  /\ subject = "advert" => Advert!RequestsShow /\ Advert!FloorIsPaidFor
  /\ subject = "policy" => Policy!OneFile
  /\ subject = "heartbeat" => Knows!StepsAreOnTheirWay /\ Knows!StepsAreSpaced

One == CHOOSE c \in Commands : TRUE

(* A cluster that goes on accepting gets the machine back (RefusalHold),   *)
(* and what it has is, in the end, what the machine offers (Advertisement, *)
(* Heartbeat) and its owner allows (MachinePolicy; the commands are        *)
(* interchangeable, and One stands for them).  A Close of the stream ends, *)
(* and Runner.Close the run, and a cluster that ends the stream of a       *)
(* handshake with a status is heard (Heartbeat).                           *)
WorkerComesBack ==
  /\ <>[](subject = "refusal" /\ cluster = "accepts" /\ phase # "stopped")
       => []<>(phase \in {"up", "proven"})
  /\ <>[](/\ subject = "advert" => conn = "up" /\ registered = machine
          /\ subject = "heartbeat" => Knows!Known)
  /\ (\/ subject = "policy" /\ Policy!Told(One)
      \/ subject = "heartbeat" /\ Knows!Ending)
       ~> (\/ subject = "policy" /\ (Policy!Told(One) /\ live.path => Policy!Heeded(One))
           \/ subject = "heartbeat" /\ Knows!Ended)
  /\ [][subject = "heartbeat" => Knows!WhyIsHeard]_everything
=============================================================================
