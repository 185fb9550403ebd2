------------------------------ MODULE CodexTurn ------------------------------
(***************************************************************************)
(* The turns of one Codex session: codexAppServer and jsonrpcConn in       *)
(* internal/worker/harness/codexappserver.go, with the recording of        *)
(* recording.go.                                                           *)
(*                                                                         *)
(* The app-server writes lines to one pipe: answers to requests and        *)
(* notifications of the turn it runs, in no order between the two.  One    *)
(* reader goroutine handles the lines; Turn waits, on another, for the     *)
(* answer, the completion, the death of the process or its context.        *)
(***************************************************************************)
EXTENDS Integers, Sequences, SequencesExt, FiniteSets

CONSTANTS Actions,   \* ids of the calls the app makes, in the order it makes them
          MaxTurns,  \* bound: prompts of the session
          MaxTold,   \* bound: notifications of the session beside the completions
          MaxPipe,   \* bound: lines the reader is behind
          Replays    \* does a resumed thread replay its stored usage?

CodexAssumption ==
  /\ MaxTurns \in Nat \ {0} /\ MaxTold \in Nat /\ MaxPipe \in Nat \ {0}
  /\ Replays \in BOOLEAN

VARIABLES
  srv,      \* the app-server: request in hand, turn it runs, answers it owes
  pipe,     \* its stdout
  line,     \* the line the reader handles, its turn, the steps left
  dead,     \* stdout has ended
  go,       \* Turn: which prompt and where it is; its context
  state,    \* state[n]: codexTurnState of turn n
  cur,      \* codexAppServer.turn: 0 for nil
  sink,     \* jsonrpcConn.sink: the turn it belongs to, 0 for nil
  reply,    \* the answer in the channel of the pending call
  rec,      \* recording
  wire,     \* history: actions the sinks were given
  shown,    \* history: chunks the sinks were given
  said,     \* history: what the app-server wrote of each turn
  result    \* result[n]: what Turn returned

vars == <<srv, pipe, line, dead, go, state, cur, sink, reply, rec, wire, shown, said, result>>

Turns == 1..MaxTurns
Nothing == [kind |-> "none", of |-> 0, id |-> 0, call |-> 0, total |-> 0]
NoLine == [msg |-> Nothing, turn |-> 0, left |-> <<>>]
NewState == [known |-> FALSE, id |-> 0, said |-> FALSE, spent |-> 0, total |-> -1,
             completed |-> FALSE, done |-> FALSE]

Init ==
  /\ srv \in [alive : {TRUE}, names : BOOLEAN, asked : {"none"}, runs : {0}, owes : {0},
              open : {{}}, used : {{}}, total : {IF Replays THEN 1 ELSE 0}, spoke : {FALSE}]
  /\ pipe = <<>> /\ line = NoLine /\ dead = FALSE
  /\ go = [n |-> 1, at |-> "idle", thread |-> FALSE, ctx |-> "live"]
  /\ state = [n \in Turns |-> NewState]
  /\ cur = 0 /\ sink = 0 /\ reply = Nothing
  /\ rec = [seq |-> 0, pending |-> <<>>, completed |-> {}]
  /\ wire = <<>> /\ shown = {} /\ said = {}
  /\ result = [n \in Turns |-> "none"]

app == <<srv, pipe, said>>
reading == <<line, dead, shown>>
turning == <<go, cur, result>>

-----------------------------------------------------------------------------
(* The app-server                                                          *)

Writes(m) ==
  /\ srv.alive /\ Len(pipe) < MaxPipe
  /\ pipe' = Append(pipe, m)
  /\ UNCHANGED <<reading, turning, state, sink, reply, rec, wire>>

\* A notification of the running turn; a server may leave the turn's id out.
Tells(kind, call, total) ==
  LET m == [kind |-> kind, of |-> srv.runs, id |-> IF srv.names THEN srv.runs ELSE 0,
            call |-> call, total |-> total]
  IN /\ srv.runs # 0 /\ Writes(m) /\ said' = said \cup {m}
     /\ kind = "completed" \/ Cardinality({t \in said : t.kind # "completed"}) < MaxTold

\* thread/start, thread/resume or turn/start is taken up, or refused.
SrvAnswersThread ==
  /\ srv.asked = "thread"
  /\ \E kind \in {"opened", "refused"} : Writes([Nothing EXCEPT !.kind = kind])
  /\ srv' = [srv EXCEPT !.asked = "none"]
  /\ UNCHANGED said

SrvReplays ==
  /\ Replays /\ go.thread /\ srv.runs = 0 /\ srv.total = 1
  /\ Writes([Nothing EXCEPT !.kind = "usage", !.total = 1])
  /\ UNCHANGED <<srv, said>>

SrvTakesTurn ==
  /\ srv.asked = "turn" /\ srv.alive
  /\ srv' = [srv EXCEPT !.asked = "none", !.runs = go.n, !.owes = go.n, !.spoke = FALSE]
  /\ UNCHANGED <<pipe, said, reading, turning, state, sink, reply, rec, wire>>

SrvRefusesTurn ==
  /\ srv.asked = "turn" /\ Writes([Nothing EXCEPT !.kind = "refused"])
  /\ srv' = [srv EXCEPT !.asked = "none"]
  /\ UNCHANGED said

SrvAnswersTurn ==
  /\ srv.owes # 0
  /\ Writes([Nothing EXCEPT !.kind = "started", !.id = IF srv.names THEN srv.owes ELSE 0])
  /\ srv' = [srv EXCEPT !.owes = 0]
  /\ UNCHANGED said

SrvBegins(a) ==
  /\ a = Cardinality(srv.used) + 1
  /\ Tells("begin", a, 0)
  /\ srv' = [srv EXCEPT !.used = @ \cup {a}, !.open = @ \cup {a}]

\* The line that began a call may have been too long to be read.
SrvEnds(a) ==
  /\ a \in srv.open \/ a = Cardinality(srv.used) + 1
  /\ Tells("end", a, 0)
  /\ srv' = [srv EXCEPT !.used = @ \cup {a}, !.open = @ \ {a}]

SrvSpends ==
  /\ Tells("usage", 0, srv.total + 1)
  /\ srv' = [srv EXCEPT !.total = @ + 1]

SrvSpeaks ==
  /\ ~srv.spoke
  /\ Tells("answer", 0, 0)
  /\ srv' = [srv EXCEPT !.spoke = TRUE]

\* The turn is over: its calls in flight go with it.
SrvCompletes ==
  /\ Tells("completed", 0, 0)
  /\ srv' = [srv EXCEPT !.runs = 0, !.open = {}]

SrvDies ==
  /\ srv.alive
  /\ srv' = [srv EXCEPT !.alive = FALSE]
  /\ UNCHANGED <<pipe, said, reading, turning, state, sink, reply, rec, wire>>

-----------------------------------------------------------------------------
(* readStdout, route, deliver, handleNotification                          *)

Answers == {"opened", "refused", "started"}
Listening == go.at \in {"opening", "starting"}

\* An answer goes to the call that waits for it, or to nobody.
Delivers ==
  /\ line = NoLine /\ pipe # <<>> /\ Head(pipe).kind \in Answers
  /\ pipe' = Tail(pipe)
  /\ reply' = IF Listening THEN Head(pipe) ELSE reply
  /\ UNCHANGED <<srv, said, reading, turning, state, sink, rec, wire>>

\* The completion is shown before it is taken in, the words and the spend
\* after.
Steps(kind) == IF kind \in {"answer", "usage"} THEN <<"note", "emit">> ELSE <<"emit", "note">>

\* A notification is read, and with it which turn is in flight.
Reads ==
  /\ line = NoLine /\ pipe # <<>> /\ Head(pipe).kind \notin Answers
  /\ pipe' = Tail(pipe)
  /\ line' = [msg |-> Head(pipe), turn |-> cur, left |-> Steps(Head(pipe).kind)]
  /\ UNCHANGED <<srv, said, dead, shown, turning, state, sink, reply, rec, wire>>

Passes == line' = IF Len(line.left) = 1 THEN NoLine ELSE [line EXCEPT !.left = Tail(@)]
Next1(step) == line # NoLine /\ Head(line.left) = step

Emits ==
  /\ Next1("emit") /\ Passes
  /\ shown' = IF sink = 0 THEN shown ELSE shown \cup {<<sink, line.msg>>}
  /\ UNCHANGED <<app, dead, turning, state, sink, reply, rec, wire>>

\* An id unknown on either side matches.
Match(s, m) == s.id = 0 \/ m.id = 0 \/ m.id = s.id

\* settle: the completion and the turn's identity, in whichever order.
Settled(s) == [s EXCEPT !.done = @ \/ (s.completed /\ (s.known \/ s.id # 0))]

\* Mutant: every usage update is a new one.
NotedTwice(s, m) ==
  CASE ~Match(s, m) -> s
    [] m.kind = "answer" -> [s EXCEPT !.said = TRUE]
    [] m.kind = "usage" -> [s EXCEPT !.spent = @ + m.total, !.total = m.total]
    [] m.kind = "completed" -> Settled([s EXCEPT !.completed = TRUE])
    [] OTHER -> s

\* addMessage, addUsage, complete. One update is one unit; a total that did
\* not move adds nothing.
Noted(s, m) ==
  CASE ~Match(s, m) -> s
    [] m.kind = "answer" -> [s EXCEPT !.said = TRUE]
    [] m.kind = "usage" /\ m.total # s.total -> [s EXCEPT !.spent = @ + 1, !.total = m.total]
    [] m.kind = "completed" -> Settled([s EXCEPT !.completed = TRUE])
    [] OTHER -> s

Notes ==
  /\ Next1("note") /\ line.msg.kind \notin {"begin", "end"} /\ Passes
  /\ state' = IF line.turn = 0 THEN state
              ELSE [state EXCEPT ![line.turn] = Noted(@, line.msg)]
  /\ UNCHANGED <<app, dead, shown, turning, sink, reply, rec, wire>>

-----------------------------------------------------------------------------
(* recording: each operation holds its lock through the send               *)

Sent(a, seq, whole) == IF sink = 0 THEN <<>> ELSE <<[call |-> a, seq |-> seq, whole |-> whole]>>

\* begin drops a call it holds or has sent.
Records ==
  LET a == line.msg.call IN
    /\ Next1("note") /\ line.msg.kind = "begin" /\ Passes
    /\ rec' = IF a \in rec.completed \/ Contains(rec.pending, a) THEN rec
              ELSE [rec EXCEPT !.pending = Append(@, a)]
    /\ UNCHANGED <<app, dead, shown, turning, state, sink, reply, wire>>

\* completeAndEmit takes the call from the open ones and numbers it.
Finished(a) ==
  [rec EXCEPT !.seq = @ + 1, !.completed = @ \cup {a},
              !.pending = SelectSeq(@, LAMBDA b : b # a)]

Completes ==
  LET a == line.msg.call IN
    /\ Next1("note") /\ line.msg.kind = "end" /\ Passes
    /\ IF a \in rec.completed THEN UNCHANGED <<rec, wire>>
       ELSE /\ rec' = Finished(a)
            /\ wire' = wire \o Sent(a, rec.seq + 1, TRUE)
    /\ UNCHANGED <<app, dead, shown, turning, state, sink, reply>>

\* Mutant: the flushed calls are not remembered as sent.
FlushedForgotten == [rec EXCEPT !.seq = @ + Len(rec.pending), !.pending = <<>>]

\* flushAndEmit: what is open is numbered in the order it began.
Flushed ==
  [seq |-> rec.seq + Len(rec.pending), pending |-> <<>>,
   completed |-> rec.completed \cup ToSet(rec.pending)]

\* The end of stdout: what was written has been read.
Eof ==
  /\ ~srv.alive /\ pipe = <<>> /\ line = NoLine /\ ~dead
  /\ dead' = TRUE
  /\ UNCHANGED <<app, line, shown, turning, state, sink, reply, rec, wire>>

-----------------------------------------------------------------------------
(* Turn and ensureThread                                                   *)

Lands(at) == go' = [go EXCEPT !.at = at]

\* The session runs the next prompt; a turn that failed was the last one.
Begins ==
  /\ go.at = "idle"
  /\ sink' = go.n
  /\ Lands(IF go.thread THEN "enter" ELSE "open")
  /\ UNCHANGED <<app, reading, cur, result, state, reply, rec, wire>>

\* call: the request is written, and whoever waits is entered as pending.
Requests(what, from, to) ==
  /\ go.at = from
  /\ srv' = IF srv.alive THEN [srv EXCEPT !.asked = what] ELSE srv
  /\ reply' = Nothing
  /\ Lands(to)
  /\ UNCHANGED <<pipe, said, reading, cur, result, state, sink, rec, wire>>

Opens == Requests("thread", "open", "opening")
Starts == Requests("turn", "start", "starting")

Enters ==
  /\ go.at = "enter"
  /\ cur' = go.n
  /\ Lands("start")
  /\ UNCHANGED <<app, reading, result, state, sink, reply, rec, wire>>

HearsThread ==
  /\ go.at = "opening" /\ reply # Nothing
  /\ IF reply.kind = "opened"
     THEN go' = [go EXCEPT !.at = "enter", !.thread = TRUE] /\ UNCHANGED result
     ELSE Lands("unsink") /\ result' = [result EXCEPT ![go.n] = "failed"]
  /\ UNCHANGED <<app, reading, cur, state, sink, reply, rec, wire>>

\* Mutant: the id is set and nobody looks whether the turn is already over.
HearsTurnUnsettled ==
  /\ go.at = "starting" /\ reply # Nothing
  /\ IF reply.kind = "started"
     THEN /\ state' = [state EXCEPT ![go.n].id = reply.id, ![go.n].known = TRUE]
          /\ Lands("waiting") /\ UNCHANGED result
     ELSE Lands("flush") /\ result' = [result EXCEPT ![go.n] = "failed"] /\ UNCHANGED state
  /\ UNCHANGED <<app, reading, cur, sink, reply, rec, wire>>

\* setTurnID settles a completion that came first.
HearsTurn ==
  /\ go.at = "starting" /\ reply # Nothing
  /\ IF reply.kind = "started"
     THEN /\ state' = [state EXCEPT ![go.n] = Settled([@ EXCEPT !.id = reply.id, !.known = TRUE])]
          /\ Lands("waiting") /\ UNCHANGED result
     ELSE Lands("flush") /\ result' = [result EXCEPT ![go.n] = "failed"] /\ UNCHANGED state
  /\ UNCHANGED <<app, reading, cur, sink, reply, rec, wire>>

Finishes ==
  /\ go.at = "waiting" /\ state[go.n].done
  /\ result' = [result EXCEPT ![go.n] = "done"]
  /\ Lands("flush")
  /\ UNCHANGED <<app, reading, cur, state, sink, reply, rec, wire>>

\* The process is gone, or the context has ended, wherever Turn waits.
Fails ==
  /\ go.at \in {"opening", "starting", "waiting"}
  /\ \/ dead /\ result' = [result EXCEPT ![go.n] = "died"]
     \/ go.ctx = "ended" /\ result' = [result EXCEPT ![go.n] = "left"]
  /\ Lands(IF go.at = "opening" THEN "unsink" ELSE "flush")
  /\ UNCHANGED <<app, reading, cur, state, sink, reply, rec, wire>>

\* The deferred calls, last first: the recording, the turn, the sink.
Flushes ==
  /\ go.at = "flush"
  /\ rec' = Flushed
  /\ wire' = wire \o FlattenSeq([i \in 1..Len(rec.pending) |->
                                   Sent(rec.pending[i], rec.seq + i, FALSE)])
  /\ Lands("unset")
  /\ UNCHANGED <<app, reading, cur, result, state, sink, reply>>

Unsets ==
  /\ go.at = "unset"
  /\ cur' = 0
  /\ Lands("unsink")
  /\ UNCHANGED <<app, reading, result, state, sink, reply, rec, wire>>

\* A completion that says the turn failed is an error like the others.
Returns ==
  /\ go.at = "unsink"
  /\ sink' = 0
  /\ \/ result[go.n] = "done" /\ go.n < MaxTurns /\ go' = [go EXCEPT !.n = @ + 1, !.at = "idle"]
     \/ Lands("over")
  /\ UNCHANGED <<app, reading, cur, result, state, reply, rec, wire>>

CtxEnds ==
  /\ go.ctx = "live"
  /\ go' = [go EXCEPT !.ctx = "ended"]
  /\ UNCHANGED <<app, reading, cur, result, state, sink, reply, rec, wire>>

Reader == Delivers \/ Reads \/ Emits \/ Notes \/ Records \/ Completes \/ Eof
Turn == \/ Begins \/ Opens \/ Starts \/ Enters \/ HearsThread \/ HearsTurn \/ Finishes
        \/ Fails \/ Flushes \/ Unsets \/ Returns
Server == \/ SrvAnswersThread \/ SrvReplays \/ SrvTakesTurn \/ SrvRefusesTurn \/ SrvAnswersTurn
          \/ SrvSpends \/ SrvSpeaks \/ SrvCompletes \/ SrvDies
          \/ \E a \in Actions : SrvBegins(a) \/ SrvEnds(a)

\* A session that is over asks for nothing more.
Rests == go.at = "over" /\ UNCHANGED vars

Next == Reader \/ Turn \/ Server \/ CtxEnds \/ Rests

Spec == Init /\ [][Next]_vars

\* Goroutines run; an app-server that is alive answers what it took up.
FairSpec == Spec /\ WF_vars(Reader) /\ WF_vars(Turn) /\ WF_vars(SrvAnswersTurn)

-----------------------------------------------------------------------------
(* Properties                                                              *)

Kinds == {"none", "begin", "end", "usage", "answer", "completed"} \cup Answers
Messages == [kind : Kinds, of : 0..MaxTurns, id : 0..MaxTurns, call : Actions \cup {0},
             total : 0..MaxTold + 1]

CodexTypeOK ==
  /\ pipe \in Seq(Messages) /\ line.msg \in Messages /\ reply \in Messages
  /\ dead \in BOOLEAN /\ {cur, sink} \subseteq 0..MaxTurns
  /\ go.at \in {"idle", "open", "opening", "enter", "start", "starting", "waiting", "flush",
                "unset", "unsink", "over"}
  /\ state \in [Turns -> [known : BOOLEAN, id : 0..MaxTurns, said : BOOLEAN,
                          spent : 0..MaxTold + 1, total : -1..MaxTold + 1,
                          completed : BOOLEAN, done : BOOLEAN]]
  /\ result \in [Turns -> {"none", "failed", "done", "died", "left"}]

Of(n, kind) == {m \in said : m.of = n /\ m.kind = kind}

(* A turn that reports its completion reports itself and all of itself:    *)
(* everything the app wrote of it is in the transcript while the sink was  *)
(* its own, the answer and the spend are the ones of this turn, whatever   *)
(* order the answer to turn/start and the notifications came in.           *)
TurnTellsItself ==
  \A n \in Turns :
    /\ result[n] = "done" =>
         /\ Of(n, "completed") # {}
         /\ \A m \in said : m.of = n => <<n, m>> \in shown
         /\ state[n].said = (Of(n, "answer") # {})
         /\ state[n].spent = Cardinality(Of(n, "usage"))
    /\ \A m \in said : <<n, m>> \in shown => m.of = n

\* The calls the app made in turn n.
Made(n) == {m.call : m \in Of(n, "begin") \cup Of(n, "end")}

(* What the app did is recorded: of a turn that completed or died, every   *)
(* call is sent to its sink before the turn returns, finished or not; no   *)
(* call is sent twice, and the numbers go out in order without a gap.      *)
ActionsAreWhole ==
  /\ \A i \in 1..Len(wire) : wire[i].seq = i \/ \E n \in Turns : result[n] = "left"
  /\ \A i, j \in 1..Len(wire) : i < j => wire[i].seq < wire[j].seq /\ wire[i].call # wire[j].call
  /\ \A n \in Turns : /\ result[n] \in {"done", "died"}
                      /\ go.n # n \/ go.at \in {"unset", "unsink", "over"}
                      => Made(n) \subseteq {wire[i].call : i \in 1..Len(wire)}

(* A turn returns: however the answer and the completion cross, when the   *)
(* app has completed it, when the process is gone, when its context ends.  *)
Owed == go.at \in {"starting", "waiting"}
        /\ (go.ctx = "ended" \/ dead \/ Of(go.n, "completed") # {})
TurnsReturn == Owed ~> go.at \in {"idle", "over"}
=============================================================================
