------------------------------ MODULE ClaudeTurn ------------------------------
(* The turns of one Claude Code session: one process per turn, resumed by  *)
(* the session id its lines name.                                          *)
(* Source: src/internal/worker/harness/claudeheadless.go, claudeactions.go,*)
(* recording.go, with the process of appsession/launch.go and process.go.  *)
(*                                                                         *)
(* The app is Claude Code with the commands it runs: it prints lines in an *)
(* order of its own, may exit with any status, leave a command behind that *)
(* keeps the pipe open, and print calls of an earlier turn again.  A line  *)
(* is printed and read in one step; what a stop cuts off is not printed.   *)
(* Text, usage and the model a turn names are left out.                    *)
EXTENDS Naturals, Sequences, FiniteSets

CONSTANTS Calls,        \* the ids of the app's tool calls
          MaxTurns      \* bound: turns asked for

ClaudeAssumption == MaxTurns \in Nat \ {0} /\ IsFiniteSet(Calls)

VARIABLES
  spec,       \* what the session asks for: [mcp, schema]
  over,       \* the context of the session has ended
  closed,     \* h.closed
  ref,        \* h.ref: the session the next process resumes; 0 none
  stage,      \* of Turn: "idle", "launch", "pump", "wait"
  turn,       \* how many turns were begun
  proc,       \* the turn's process: [life, code, held, resumed, sid]
  read,       \* claudeTurn: [sid, result, refused]
  recording,  \* the session's: [pending, completed]
  actions,    \* what the sink was given, in order: [id, turn, incomplete, bare]
  outcome,    \* what the last Turn returned: [ok, ref, json]; proc and read are still its
  named,      \* the last session id a line that could be read has named
  seen        \* of each call: the turn that saw it first, and what of it was read then

vars == <<spec, over, closed, ref, stage, turn, proc, read, recording, actions, outcome, named, seen>>

NoProcess == [life |-> "none", code |-> 0, held |-> FALSE, resumed |-> 0, sid |-> 0]
NothingRead == [sid |-> 0, result |-> "none", refused |-> FALSE]
NoOutcome == [ok |-> FALSE, ref |-> 0, json |-> FALSE]
Unseen == [turn |-> 0, begun |-> FALSE, answered |-> FALSE]
Killed == 2         \* stands for the -1 of a process a signal ended

(* Start: nothing is forked.  The session may resume one of an earlier     *)
(* session, which is MaxTurns + 1 here.  It asks for both a schema and the *)
(* server, or for neither: the two decide different parts of the verdict.  *)
Init ==
  /\ \E b \in BOOLEAN : spec = [mcp |-> b, schema |-> b]
  /\ over = FALSE /\ closed = FALSE
  /\ ref \in {0, MaxTurns + 1} /\ named = ref
  /\ stage = "idle" /\ turn = 0 /\ proc = NoProcess /\ read = NothingRead
  /\ recording = [pending |-> <<>>, completed |-> {}]
  /\ actions = <<>> /\ outcome = NoOutcome
  /\ seen = [c \in Calls |-> Unseen]

-----------------------------------------------------------------------------
(* A turn begins                                                           *)

(* Turn: one that is asked for before the last one returned, or after      *)
(* Close, is refused and changes nothing.                                  *)
Begins ==
  /\ stage = "idle" /\ ~closed /\ turn < MaxTurns
  /\ stage' = "launch" /\ turn' = turn + 1 /\ read' = NothingRead /\ proc' = NoProcess /\ outcome' = NoOutcome
  /\ UNCHANGED <<spec, over, closed, ref, recording, actions, named, seen>>

Reply(ok, r, json) == [ok |-> ok, ref |-> r, json |-> json]

(* The launcher: a context that has ended starts nothing, and a fork may   *)
(* fail.                                                                   *)
Launches ==
  /\ stage = "launch"
  /\ \/ /\ stage' = "idle"
        /\ outcome' = Reply(FALSE, ref, FALSE)
        /\ UNCHANGED proc
     \/ /\ ~over /\ stage' = "pump"
        /\ \E sid \in {ref, turn} \ {0} :      \* the app goes on in the session, or names a new one
             proc' = [NoProcess EXCEPT !.life = "alive", !.resumed = ref, !.sid = sid]
        /\ UNCHANGED outcome
  /\ UNCHANGED <<spec, over, closed, ref, turn, read, recording, actions, named, seen>>

-----------------------------------------------------------------------------
(* Stopping and ending of the process                                      *)

(* terminate: a signal to the group, and the reaper that closes the pipes  *)
(* once the leader has gone; a descendant that held them is killed.        *)
Terminated(p) == IF p.life = "gone" THEN [p EXCEPT !.held = FALSE] ELSE [p EXCEPT !.life = "stopping"]

CtxEnds == ~over /\ over' = TRUE
           /\ UNCHANGED <<spec, closed, ref, stage, turn, proc, read, recording, actions, outcome, named, seen>>

(* Close only latches.  The session closes the harness on the goroutine    *)
(* that runs its turns.                                                    *)
Close == stage = "idle" /\ ~closed /\ closed' = TRUE
         /\ UNCHANGED <<spec, over, ref, stage, turn, proc, read, recording, actions, outcome, named, seen>>

(* Mutant: a leader that has exited is taken for a group that has gone.    *)
WatchesLeaders ==
  /\ over /\ stage \in {"pump", "wait"} /\ proc.life = "alive"
  /\ proc' = Terminated(proc)
  /\ UNCHANGED <<spec, over, closed, ref, stage, turn, read, recording, actions, outcome, named, seen>>

(* The goroutine of Turn that waits for the context.                       *)
Watches ==
  /\ over /\ stage \in {"pump", "wait"} /\ Terminated(proc) # proc
  /\ proc' = Terminated(proc)
  /\ UNCHANGED <<spec, over, closed, ref, stage, turn, read, recording, actions, outcome, named, seen>>

(* The app exits by itself, perhaps leaving a command with its pipe; or    *)
(* because of the signal, which it may take as a reason to exit with 0.    *)
Exits ==
  /\ \/ /\ proc.life = "alive"
        /\ \E code \in {0, 1}, held \in BOOLEAN :
             proc' = [proc EXCEPT !.life = "gone", !.code = code, !.held = held]
     \/ /\ proc.life = "stopping"
        /\ \E code \in {0, 1, Killed} : proc' = [proc EXCEPT !.life = "gone", !.code = code]
  /\ UNCHANGED <<spec, over, closed, ref, stage, turn, read, recording, actions, outcome, named, seen>>

-----------------------------------------------------------------------------
(* The lines of standard output                                            *)

Reads == stage = "pump" /\ proc.life # "none"

(* route: every line that parses names the session.                        *)
Names(r) == [r EXCEPT !.sid = proc.sid]

(* The init event; checkMCP stops the process when the session's server    *)
(* cannot serve the turn.                                                  *)
ReadsInit ==
  /\ Reads /\ read.sid = 0
  /\ \E refused \in BOOLEAN :
       LET fails == refused /\ spec.mcp
       IN /\ read' = [Names(read) EXCEPT !.refused = fails]
          /\ proc' = IF fails THEN Terminated(proc) ELSE proc
  /\ named' = proc.sid
  /\ UNCHANGED <<spec, over, closed, ref, stage, turn, recording, actions, outcome, seen>>

(* The result event: an answer, one the schema describes, or an error; the *)
(* last one a process prints counts.                                       *)
ReadsResult ==
  /\ Reads
  /\ \E res \in {"answer", "structured", "error"} : read' = [Names(read) EXCEPT !.result = res]
  /\ named' = proc.sid
  /\ UNCHANGED <<spec, over, closed, ref, stage, turn, proc, recording, actions, outcome, seen>>

(* A call is one of this turn, or the app prints one of an earlier turn    *)
(* again because it resumed the session.                                   *)
Prints(c) == seen[c].turn \in {0, turn} \/ proc.resumed # 0

Sees(c, what) ==
  seen' = IF seen[c].turn \in {0, turn}
          THEN [seen EXCEPT ![c] = [what EXCEPT !.turn = turn]] ELSE seen

Held(c) == \E i \in DOMAIN recording.pending : recording.pending[i] = c

(* Mutant: only a call that is held is not opened again.                   *)
OpensAgain(c) == IF Held(c) THEN recording ELSE [recording EXCEPT !.pending = Append(@, c)]

(* recording.begin: a call that is held or was emitted is not opened again.*)
Opened(c) ==
  IF c \in recording.completed \/ Held(c) THEN recording
  ELSE [recording EXCEPT !.pending = Append(@, c)]

(* A tool_use block.                                                       *)
ReadsCall(c) ==
  /\ Reads /\ Prints(c) /\ ~(seen[c].turn = turn /\ seen[c].answered)
  /\ recording' = Opened(c)
  /\ read' = Names(read) /\ named' = proc.sid
  /\ Sees(c, [seen[c] EXCEPT !.begun = TRUE])
  /\ UNCHANGED <<spec, over, closed, ref, stage, turn, proc, actions, outcome>>

(* recording.complete, and the action behind the line that reported it; a  *)
(* result whose call could not be read is an action of its own.            *)
ReadsAnswer(c) ==
  /\ Reads /\ Prints(c)
  /\ IF c \in recording.completed
     THEN UNCHANGED <<recording, actions>>
     ELSE /\ recording' = [pending |-> SelectSeq(recording.pending, LAMBDA x : x # c),
                           completed |-> recording.completed \cup {c}]
          /\ actions' = Append(actions, [id |-> c, turn |-> turn, incomplete |-> FALSE, bare |-> ~Held(c)])
  /\ read' = Names(read) /\ named' = proc.sid
  /\ Sees(c, [seen[c] EXCEPT !.answered = TRUE])
  /\ UNCHANGED <<spec, over, closed, ref, stage, turn, proc, outcome>>

-----------------------------------------------------------------------------
(* The end of the turn                                                     *)

(* recording.flush: what was begun and not answered is incomplete, in the  *)
(* order it was begun.                                                     *)
Flushed ==
  actions \o [i \in DOMAIN recording.pending |->
                [id |-> recording.pending[i], turn |-> turn, incomplete |-> TRUE, bare |-> FALSE]]

(* Both readers are at the end: the pipe is closed, by the exit of all who *)
(* held it, by the reaper, or by an app that closes it and lingers.        *)
PumpsJoin ==
  /\ stage = "pump" /\ ~proc.held
  /\ stage' = "wait"
  /\ actions' = Flushed
  /\ recording' = [pending |-> <<>>,
                   completed |-> recording.completed
                                 \cup {recording.pending[i] : i \in DOMAIN recording.pending}]
  /\ UNCHANGED <<spec, over, closed, ref, turn, proc, read, outcome, named, seen>>

(* Mutant: a turn without its result event keeps the old thread.           *)
RefOfResults == IF read.result = "none" THEN ref ELSE read.sid

(* The ref of the turn is the last its lines named, or the one it resumed; *)
(* rememberRef keeps it for the next turn.                                 *)
TurnRef == IF read.sid = 0 THEN ref ELSE read.sid

(* Mutant: the status of a process that was stopped is believed.           *)
BelievesTheStatus ==
  LET json == spec.schema /\ read.result = "structured"
      failed == proc.code # 0 \/ read.result = "error"
      lacks == read.result = "none" \/ (spec.schema /\ ~json)
  IN Reply(~failed /\ ~lacks, TurnRef, json)

(* Turn returns once the process is reaped.  A server that could not serve *)
(* the turn comes before its status, its status before its result; a       *)
(* failed turn keeps a structured answer, and without a result event       *)
(* nothing is known.                                                       *)
Verdict ==
  LET json == spec.schema /\ read.result = "structured"
      failed == proc.code # 0 \/ read.result = "error"
      lacks == read.result = "none" \/ (spec.schema /\ ~json)
  IN IF read.refused THEN Reply(FALSE, TurnRef, FALSE)
     ELSE IF failed THEN Reply(FALSE, TurnRef, json)
     ELSE Reply(~lacks, TurnRef, json)

Returns ==
  /\ stage = "wait" /\ proc.life = "gone"
  /\ stage' = "idle"
  /\ ref' = TurnRef
  /\ outcome' = Verdict
  /\ UNCHANGED <<spec, over, closed, turn, proc, read, recording, actions, named, seen>>

Lines == ReadsInit \/ ReadsResult \/ \E c \in Calls : ReadsCall(c) \/ ReadsAnswer(c)

(* The session is over: nothing more is asked.                             *)
Over == stage = "idle" /\ (closed \/ turn = MaxTurns) /\ UNCHANGED vars

Next ==
  Over \/ Begins \/ Launches \/ CtxEnds \/ Close \/ Watches \/ Exits \/ Lines \/ PumpsJoin \/ Returns

(* The goroutines of the worker run; a process that was told to stop is    *)
(* gone after the grace.                                                   *)
Stops == (proc.life = "stopping" /\ Exits) \/ Watches
Runs == Launches \/ (proc.life = "gone" /\ PumpsJoin) \/ Returns
Fairness == WF_vars(Stops) /\ WF_vars(Runs)

Spec == Init /\ [][Next]_vars /\ Fairness

-----------------------------------------------------------------------------
(* Properties                                                              *)

ClaudeTypeOK ==
  /\ spec \in [mcp : BOOLEAN, schema : BOOLEAN] /\ over \in BOOLEAN /\ closed \in BOOLEAN
  /\ ref \in 0 .. MaxTurns + 1 /\ named \in 0 .. MaxTurns + 1 /\ turn \in 0 .. MaxTurns
  /\ stage \in {"idle", "launch", "pump", "wait"}
  /\ proc.life \in {"none", "alive", "stopping", "gone"} /\ proc.code \in {0, 1, Killed}
  /\ read.result \in {"none", "answer", "structured", "error"}
  /\ recording.completed \subseteq Calls

(* While no turn runs, the next one will resume the session that the last  *)
(* line of any turn named: a turn that was stopped, failed or died before  *)
(* its result event loses nothing of the conversation.                     *)
ThreadIsKept == stage = "idle" => ref = named

(* A turn that reports success had the server it was promised, ended with  *)
(* status 0 and a result event of its own that is not an error, and has    *)
(* the structured answer that was asked for; every turn hands its thread   *)
(* on, and a failed one the answer it gave all the same.                   *)
SuccessIsEarned ==
  stage = "idle" =>
    /\ outcome.ok =>
         /\ ~read.refused /\ proc.code = 0
         /\ read.result \in IF spec.schema THEN {"structured"} ELSE {"answer", "structured"}
    /\ spec.schema /\ read.result = "structured" /\ ~read.refused => outcome.json
    /\ outcome.ref # 0 \/ read.sid = 0

(* No call is recorded twice, not even when a resumed app prints it again; *)
(* and once its turn has returned, every call of which a line was read is  *)
(* recorded: complete if its result was read in that turn, without its     *)
(* arguments only if its begin was not.                                    *)
CallsAreWhole ==
  /\ \A i, j \in DOMAIN actions : actions[i].id = actions[j].id => i = j
  /\ stage = "idle" =>
       \A c \in Calls : seen[c].turn # 0 =>
         \E i \in DOMAIN actions :
           /\ actions[i].id = c /\ actions[i].turn = seen[c].turn
           /\ actions[i].incomplete = ~seen[c].answered
           /\ actions[i].bare = ~seen[c].begun

(* A turn whose context has ended, or whose process has gone and left      *)
(* nobody on its pipe, returns.                                            *)
Owed == stage # "idle" /\ (over \/ (proc.life = "gone" /\ ~proc.held))
TurnsReturn == Owed ~> (stage = "idle")
=============================================================================
