----------------------------- MODULE ModelPull -----------------------------
(***************************************************************************)
(* Model pulls asked for by the cluster (internal/worker/modelpull.go):    *)
(* each runs the runtime's pull, then the edit of policy.yaml, then the    *)
(* reload, then says its End and asks for a re-advertise, which closes the *)
(* very stream the End rides. The pulls of one machine share policy.yaml   *)
(* and the connection; the recommended models are asked for two at a time. *)
(*                                                                         *)
(* A pull is named by its model: a second start of a model that is being   *)
(* pulled is refused, one of a model that was pulled is a new pull.        *)
(***************************************************************************)
EXTENDS Naturals

CONSTANTS
    Models,
    MaxStarts,      \* starts the cluster sends
    MaxCancels,     \* cancels the cluster sends
    MaxFaults       \* failing steps and lost connections together

PullAssumption == MaxStarts \in Nat /\ MaxCancels \in Nat /\ MaxFaults \in Nat

VARIABLES
    pull,       \* pull[m]: how far it is, and what became of it
    runtime,    \* the models the runtime holds
    policy,     \* models.allow in policy.yaml
    live,       \* models.allow in the running worker
    conn,       \* the connection: up, lost (closed, not noticed), down
    shown,      \* the models of the last Register
    asked,      \* a re-advertise is wanted
    verdict,    \* maybeReadvertiseModels found the worker idle and goes to close
    late,       \* the pulls that started after it looked
    starts, cancels, faults

pull_vars == <<pull, runtime, policy, live, conn, shown, asked, verdict, late,
               starts, cancels, faults>>

NoPull == [st |-> "none", seen |-> {}, cut |-> FALSE, ok |-> FALSE, end |-> "none", old |-> FALSE]

PullInit ==
    /\ pull = [m \in Models |-> NoPull]
    /\ runtime = {} /\ policy = {} /\ live = {}
    /\ conn = "up" /\ shown = {}
    /\ asked = FALSE /\ verdict = FALSE /\ late = {}
    /\ starts = 0 /\ cancels = 0 /\ faults = 0

Fault == faults < MaxFaults /\ faults' = faults + 1
NoFault == faults' = faults

\* modelPuller.live, and what Runner.busy counts.
Live == {m \in Models : pull[m].st \in {"fetching", "fetched", "editing", "allowed", "ended"}}

Offered == live \cap runtime

-----------------------------------------------------------------------------
\* The receive goroutine enters the pull before anything slow happens.
Start(m) ==
    /\ conn = "up" /\ starts < MaxStarts
    /\ m \notin Live /\ pull[m].st # "released"
    /\ starts' = starts + 1
    /\ pull' = [pull EXCEPT ![m] = [NoPull EXCEPT !.st = "fetching"]]
    /\ late' = IF verdict THEN late \cup {m} ELSE late
    /\ UNCHANGED <<runtime, policy, live, conn, shown, asked, verdict, cancels, faults>>

\* A cancel of a pull that is not running is ignored.
Cancel(m) ==
    /\ conn = "up" /\ cancels < MaxCancels /\ m \in Live /\ ~pull[m].cut
    /\ cancels' = cancels + 1
    /\ pull' = [pull EXCEPT ![m].cut = TRUE]
    /\ UNCHANGED <<runtime, policy, live, conn, shown, asked, verdict, late, starts, faults>>

\* The End goes to the writer of the stream the pull was asked on.
EndOf(p, ok) ==
    [p EXCEPT !.st = "ended", !.ok = ok, !.end = IF p.old \/ conn # "up" THEN "lost" ELSE "queued"]

Fails(m) ==
    /\ pull' = [pull EXCEPT ![m] = EndOf(@, FALSE)]
    /\ UNCHANGED <<runtime, policy, live>>

\* A pull that takes any end of the stream for a success.
FetchesAnyEnd(m) ==
    /\ pull[m].st = "fetching"
    /\ pull' = [pull EXCEPT ![m].st = "fetched"]
    /\ \/ runtime' = runtime \cup {m} /\ NoFault
       \/ UNCHANGED runtime /\ Fault
    /\ UNCHANGED <<policy, live, conn, shown, asked, verdict, late, starts, cancels>>

\* inference.Pull: a cancelled context ends it, unless the last object of the
\* stream is already there.
Fetches(m) ==
    /\ pull[m].st = "fetching"
    /\ \/ /\ pull' = [pull EXCEPT ![m].st = "fetched"]
          /\ runtime' = runtime \cup {m}
          /\ NoFault
          /\ UNCHANGED <<policy, live>>
       \/ pull[m].cut /\ NoFault /\ Fails(m)
       \/ ~pull[m].cut /\ Fault /\ Fails(m)
    /\ UNCHANGED <<conn, shown, asked, verdict, late, starts, cancels>>

\* EditPolicy reads the file; nothing is locked until the rename.
Reads(m) ==
    /\ pull[m].st = "fetched"
    /\ \/ pull' = [pull EXCEPT ![m].st = "editing", ![m].seen = policy] /\ NoFault
          /\ UNCHANGED <<runtime, policy, live>>
       \/ Fault /\ Fails(m)
    /\ UNCHANGED <<conn, shown, asked, verdict, late, starts, cancels>>

\* MergeList and writePolicyAtomic: the text that was read, with this model
\* added; nothing is written when it is listed already.
Writes(m) ==
    /\ pull[m].st = "editing"
    /\ \/ /\ policy' = IF m \in pull[m].seen THEN policy ELSE pull[m].seen \cup {m}
          /\ pull' = [pull EXCEPT ![m].st = "allowed"]
          /\ NoFault
          /\ UNCHANGED <<runtime, live>>
       \/ Fault /\ Fails(m)
    /\ UNCHANGED <<conn, shown, asked, verdict, late, starts, cancels>>

\* A pull that leaves the reload to the next SIGHUP.
ReloadsLater(m) ==
    /\ pull[m].st = "allowed"
    /\ pull' = [pull EXCEPT ![m] = EndOf(@, TRUE)]
    /\ UNCHANGED <<runtime, policy, live, conn, shown, asked, verdict, late,
                   starts, cancels, faults>>

\* Policy.Reload merges models.allow into the running worker; then the End.
Reloads(m) ==
    /\ pull[m].st = "allowed"
    /\ \/ /\ live' = live \cup policy
          /\ pull' = [pull EXCEPT ![m] = EndOf(@, TRUE)]
          /\ NoFault
          /\ UNCHANGED <<runtime, policy>>
       \/ Fault /\ Fails(m)
    /\ UNCHANGED <<conn, shown, asked, verdict, late, starts, cancels>>

\* gRPC's writer puts the End on the wire.
Flushes(m) ==
    /\ conn = "up" /\ pull[m].end = "queued"
    /\ pull' = [pull EXCEPT ![m].end = "heard"]
    /\ UNCHANGED <<runtime, policy, live, conn, shown, asked, verdict, late,
                   starts, cancels, faults>>

\* A finished pull that lets the guard go with its End.
SettledAtOnce(m) == TRUE

\* The half second after an End that reports a success is longer than any flush;
\* a cancelled pull does not sit it out.
Settled(m) == pull[m].ok => pull[m].end # "queued" \/ pull[m].cut

Releases(m) ==
    /\ pull[m].st = "ended" /\ Settled(m)
    /\ pull' = [pull EXCEPT ![m].st = IF pull[m].ok THEN "released" ELSE "done"]
    /\ UNCHANGED <<runtime, policy, live, conn, shown, asked, verdict, late,
                   starts, cancels, faults>>

\* RequestImmediateReadvertise, by the goroutine that has left the live map.
Readvertises(m) ==
    /\ pull[m].st = "released"
    /\ pull' = [pull EXCEPT ![m].st = "done"]
    /\ asked' = TRUE
    /\ UNCHANGED <<runtime, policy, live, conn, shown, verdict, late, starts, cancels, faults>>

-----------------------------------------------------------------------------
\* A check that does not count pulls as work.
IdleButForPulls == TRUE

Idle == Live = {}

\* maybeReadvertiseModels, at a tick or when asked: the inventory is compared,
\* the busy guard read; the close comes after.
Looks ==
    /\ conn = "up" /\ ~verdict
    /\ asked \/ Offered # shown
    /\ asked' = (asked /\ (Offered = shown \/ ~Idle))
    /\ verdict' = (Offered # shown /\ Idle)
    /\ late' = {}
    /\ UNCHANGED <<pull, runtime, policy, live, conn, shown, starts, cancels, faults>>

\* A closed stream drops what its writer still held.
Dropped(p) == IF p.end = "queued" /\ ~p.old THEN [p EXCEPT !.end = "lost"] ELSE p

Closes ==
    /\ verdict /\ conn = "up"
    /\ conn' = "lost"
    /\ pull' = [m \in Models |-> Dropped(pull[m])]
    /\ verdict' = FALSE /\ late' = {}
    /\ UNCHANGED <<runtime, policy, live, shown, asked, starts, cancels, faults>>

Breaks ==
    /\ conn = "up" /\ Fault
    /\ conn' = "lost"
    /\ pull' = [m \in Models |-> Dropped(pull[m])]
    /\ verdict' = FALSE /\ late' = {}
    /\ UNCHANGED <<runtime, policy, live, shown, asked, starts, cancels>>

\* The receive loop notices, and stops every pull of the stream.
StopAll ==
    /\ conn = "lost"
    /\ conn' = "down"
    /\ pull' = [m \in Models |-> IF m \in Live THEN [pull[m] EXCEPT !.cut = TRUE, !.old = TRUE]
                                 ELSE [pull[m] EXCEPT !.old = TRUE]]
    /\ UNCHANGED <<runtime, policy, live, shown, asked, verdict, late, starts, cancels, faults>>

Registers ==
    /\ conn = "down"
    /\ conn' = "up"
    /\ shown' = Offered
    /\ UNCHANGED <<pull, runtime, policy, live, asked, verdict, late, starts, cancels, faults>>

Runs(m) == Fetches(m) \/ Reads(m) \/ Writes(m) \/ Reloads(m) \/ Flushes(m)
           \/ Releases(m) \/ Readvertises(m)

PullNext ==
    \/ \E m \in Models : Start(m) \/ Cancel(m) \/ Runs(m)
    \/ Looks \/ Closes \/ Breaks \/ StopAll \/ Registers

PullSpec == PullInit /\ [][PullNext]_pull_vars

\* The goroutine of a pull runs, the runtime ends a pull one way or the other,
\* the tick of the advertisement comes, and a lost stream is dialled again.
FairPullSpec ==
    /\ PullSpec
    /\ \A m \in Models : WF_pull_vars(Runs(m))
    /\ WF_pull_vars(Looks) /\ WF_pull_vars(Closes) /\ WF_pull_vars(StopAll) /\ WF_pull_vars(Registers)

-----------------------------------------------------------------------------
States == {"none", "fetching", "fetched", "editing", "allowed", "ended", "released", "done"}

Pulls == [st : States, seen : SUBSET Models, cut : BOOLEAN, ok : BOOLEAN,
          end : {"none", "queued", "heard", "lost"}, old : BOOLEAN]

PullTypeOK ==
    /\ pull \in [Models -> Pulls]
    /\ runtime \subseteq Models /\ policy \subseteq Models /\ live \subseteq Models
    /\ conn \in {"up", "lost", "down"} /\ shown \subseteq Models
    /\ asked \in BOOLEAN /\ verdict \in BOOLEAN /\ late \subseteq Models

\* "Pull, then allow": what this machine would advertise it can serve, and a
\* model is allowed nowhere before its bytes are here.
OfferedIsPulled == policy \cup live \subseteq runtime

\* A step that closes the stream only while no pull rides it.
ClosesIdle ==
    Closes => \A m \in Models \ late :
                 /\ m \notin Live
                 /\ (pull[m].ok /\ pull[m].end = "queued") => pull[m].cut

\* The reconnect that one pull earns cuts no sibling short and drops no End: a
\* close of this worker's own finds no pull at work and no success unsaid, but
\* for those that started after it looked and those the cluster gave up.
OwnCloseCutsNothing == [][ClosesIdle]_pull_vars

\* An edit of the allow list adds and never drops (allow.go: "ADDING MERGES,
\* NEVER REPLACES"). Two pulls that end together each write what they read.
AddingNeverDrops == [][policy \subseteq policy']_pull_vars

\* A pull that said it succeeded, and a model the cluster can see.
Pulled(m) == pull[m].st \in {"ended", "released", "done"} /\ pull[m].ok
Shown(m) == m \in shown \/ m \notin policy

\* A pull reported as done is advertised in the end, whatever connections were
\* lost meanwhile, unless another edit dropped the model from policy.yaml.
DonePullsAreShown == \A m \in Models : Pulled(m) ~> Shown(m)
=============================================================================
