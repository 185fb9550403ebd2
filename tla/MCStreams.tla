------------------------------- MODULE MCStreams -------------------------------
(* What comes over the stream of a cluster and has to end, checked in one  *)
(* run: the stream and the work on it (WorkerStream), one app session      *)
(* (AppSession), what it tells while it runs (SessionRecord: the emission  *)
(* and the digests apart), the turns of one Codex session (CodexTurn) and  *)
(* of one Claude Code session (ClaudeTurn), the ends of the model calls    *)
(* (ModelCalls).  A behaviour is of one of them, which Begin chooses;      *)
(* WorkerStream, AppSession and ModelCalls stand still in those of the     *)
(* others, and any other variable no part in play has is NoCall.           *)
EXTENDS WorkerStream, AppSession, ModelCalls

CONSTANTS Tool, Task, Call    \* one tool call, one task, one model call: they are interchangeable

VARIABLES subject,                                                  \* the part in play
          srv, pipe, line, dead, go, turns, cur, sink, reply, rec, wire, shown, said,
          result,                                                   \* CodexTurn
          at, holder, seq, streamed, capped, artifact, kept, heard, lost, faults,
          clock, file, digests, given, told,                        \* SessionRecord
          spec, over, closed, ref, stage, turn, proc, read, recording, actions, outcome, named,
          seen                                                      \* ClaudeTurn

Codex == INSTANCE CodexTurn WITH
  state <- turns, Actions <- {1, 2}, MaxTurns <- 2, MaxTold <- 2, MaxPipe <- 1, Replays <- FALSE

Claude == INSTANCE ClaudeTurn WITH Calls <- {1}, MaxTurns <- 2

(* Two goroutines emit three times; nothing changes the file.              *)
Emission == INSTANCE SessionRecord WITH
  wire <- kept, Emitters <- {"app", "stderr"}, Recorder <- "app", MaxBytes <- 3, Attempts <- 2, Settle <- 2,
  Slow <- FALSE, MaxItems <- 3, MaxFaults <- 2, MaxClock <- 0, MaxRenewals <- 0

(* Two actions name one file, which anything may write at any time.        *)
Digests == INSTANCE SessionRecord WITH
  wire <- kept, Emitters <- {"app"}, Recorder <- "app", MaxBytes <- 0, Attempts <- 2, Settle <- 2,
  Slow <- FALSE, MaxItems <- 2, MaxFaults <- 0, MaxClock <- 3, MaxRenewals <- 1

(* One ceiling of 1: the shortest queue that can form.                     *)
OneCeiling == {[m \in Models |-> 1]}

ASSUME Bounds == BoundsAssumption /\ Codex!CodexAssumption /\ Claude!ClaudeAssumption
                 /\ Emission!RecordAssumption /\ Digests!RecordAssumption
ASSUME Places == Tool \in Tools /\ Task \in Tasks /\ Call \in Calls

codex_vars == <<srv, pipe, line, dead, go, turns, cur, sink, reply, rec, wire, shown, said, result>>
record_vars == <<at, holder, seq, streamed, capped, artifact, kept, heard, lost, faults,
                 clock, file, digests, given, told>>
claude_vars == <<spec, over, closed, ref, stage, turn, proc, read, recording, actions, outcome, named, seen>>
everything == <<subject, stream_vars, session_vars, codex_vars, record_vars, claude_vars, vars>>

NoTurns ==
  /\ srv = NoCall /\ pipe = NoCall /\ line = NoCall /\ dead = NoCall /\ go = NoCall
  /\ turns = NoCall /\ cur = NoCall /\ sink = NoCall /\ reply = NoCall /\ rec = NoCall
  /\ wire = NoCall /\ shown = NoCall /\ said = NoCall /\ result = NoCall
NoRecord ==
  /\ at = NoCall /\ holder = NoCall /\ seq = NoCall /\ streamed = NoCall /\ capped = NoCall
  /\ artifact = NoCall /\ kept = NoCall /\ heard = NoCall /\ lost = NoCall /\ faults = NoCall
  /\ clock = NoCall /\ file = NoCall /\ digests = NoCall /\ given = NoCall /\ told = NoCall
NoClaude ==
  /\ spec = NoCall /\ over = NoCall /\ closed = NoCall /\ ref = NoCall /\ stage = NoCall
  /\ turn = NoCall /\ proc = NoCall /\ read = NoCall /\ recording = NoCall
  /\ actions = NoCall /\ outcome = NoCall /\ named = NoCall /\ seen = NoCall

Begin ==
  /\ StreamInit /\ SessionInit /\ Init
  /\ \/ subject = "stream" /\ NoTurns /\ NoRecord /\ NoClaude
     \/ subject = "session" /\ NoTurns /\ NoRecord /\ NoClaude
     \/ subject = "codex" /\ Codex!Init /\ NoRecord /\ NoClaude
     \/ subject = "emission" /\ Emission!Init /\ NoTurns /\ NoClaude
     \/ subject = "digests" /\ Digests!Init /\ NoTurns /\ NoClaude
     \/ subject = "calls" /\ NoTurns /\ NoRecord /\ NoClaude
     \/ subject = "claude" /\ Claude!Init /\ NoTurns /\ NoRecord

Step ==
  /\ UNCHANGED subject
  /\ \/ subject = "stream" /\ StreamNext /\ UNCHANGED <<session_vars, codex_vars, record_vars, claude_vars, vars>>
     \/ subject = "session" /\ SessionNext /\ UNCHANGED <<stream_vars, codex_vars, record_vars, claude_vars, vars>>
     \/ subject = "codex" /\ Codex!Next /\ UNCHANGED <<stream_vars, session_vars, record_vars, claude_vars, vars>>
     \/ subject = "emission" /\ Emission!Next /\ UNCHANGED <<stream_vars, session_vars, codex_vars, claude_vars, vars>>
     \/ subject = "digests" /\ Digests!Next /\ UNCHANGED <<stream_vars, session_vars, codex_vars, claude_vars, vars>>
     \/ subject = "calls" /\ Next /\ UNCHANGED <<stream_vars, session_vars, codex_vars, record_vars, claude_vars>>
     \/ subject = "claude" /\ Claude!Next /\ UNCHANGED <<stream_vars, session_vars, codex_vars, record_vars, vars>>

(* The fairness of the parts, each for the behaviours it is in play.       *)
PartsFairness ==
  /\ WF_stream_vars(subject = "stream" /\ Receiver) /\ WF_stream_vars(subject = "stream" /\ BeatStops)
  /\ \A w \in Work :
       /\ WF_stream_vars(subject = "stream" /\ Runs(w)) /\ WF_stream_vars(subject = "stream" /\ Reports(w))
       /\ WF_stream_vars(subject = "stream" /\ w \in stopped /\ Finishes(w))
  /\ WF_session_vars(subject = "session" /\ Own(1))
  /\ WF_session_vars(subject = "session" /\ sess[1].ctx # "live" /\ (TurnFails(1) \/ PersonLeaves(1)))
  /\ WF_session_vars(subject = "session" /\ (RenewsLibrary \/ RenewsFile))
  /\ WF_codex_vars(subject = "codex" /\ Codex!Reader)
  /\ WF_codex_vars(subject = "codex" /\ Codex!Turn)
  /\ WF_codex_vars(subject = "codex" /\ Codex!SrvAnswersTurn)
  /\ WF_claude_vars(subject = "claude" /\ Claude!Stops)
  /\ WF_claude_vars(subject = "claude" /\ Claude!Runs)
  /\ \A c \in Calls :
       /\ WF_vars(subject = "calls" /\ Resolution(c))
       /\ WF_vars(subject = "calls" /\ Admission(c))
       /\ SF_vars(subject = "calls" /\ WaitAborted(c))
       /\ WF_vars(subject = "calls" /\ CtxDeadline(c))
       /\ WF_vars(subject = "calls" /\ ctx[c] # "live" /\ RuntimeReturns(c))
       /\ WF_vars(subject = "calls" /\ Ending(c))

Parts == Begin /\ [][Step]_everything /\ PartsFairness

-----------------------------------------------------------------------------
(* Properties: those of the parts                                          *)

(* Types of the parts.                                                     *)
PartsTypeOK ==
  /\ StreamTypeOK
  /\ TypeOK
  /\ SessionTypeOK
  /\ subject = "codex" => Codex!CodexTypeOK
  /\ subject = "claude" => Claude!ClaudeTypeOK
  /\ subject = "emission" => Emission!RecordTypeOK
  /\ subject = "digests" => Digests!RecordTypeOK

(* CodexTurn: a completed turn reports itself, whole and without a line of *)
(* another turn.  ClaudeTurn: success is earned, and the thread of the     *)
(* conversation is never lost.  And the types of the parts.                *)
TurnTellsItself ==
  /\ PartsTypeOK
  /\ subject = "codex" => Codex!TurnTellsItself
  /\ subject = "claude" => Claude!SuccessIsEarned /\ Claude!ThreadIsKept

(* CodexTurn, ClaudeTurn: every call is recorded once, in order, before    *)
(* its turn returns.  SessionRecord: what the session emits reaches the    *)
(* engine in order and once, or every attempt failed, or it is narration   *)
(* past the limit; and a digest is of what the file holds, never of a      *)
(* credential.                                                             *)
ActionsAreWhole ==
  /\ subject = "codex" => Codex!ActionsAreWhole
  /\ subject = "claude" => Claude!CallsAreWhole
  /\ subject = "emission" => Emission!RecordIsWhole
  /\ subject = "digests" => Digests!DigestsAreTrue

(* Work ends: every model call that starts, a cancelled session, a turn    *)
(* whose app has completed it or gone, a tool call and a task whose stream *)
(* is lost; and a model call that is cancelled does not wait out its       *)
(* timeout in the queue.                                                   *)
WorkEnds ==
  /\ (\/ subject = "calls" /\ pc[Call] = "resolving"
      \/ subject = "session" /\ Listed(1) /\ sess[1].ctx = "cancelled"
      \/ subject = "codex" /\ Codex!Owed
      \/ subject = "claude" /\ Claude!Owed
      \/ subject = "stream" /\ Lost(Tool))
     ~> (\/ subject = "calls" /\ pc[Call] = "idle"
         \/ subject = "session" /\ ~Listed(1)
         \/ subject = "codex" /\ go.at \in {"idle", "over"}
         \/ subject = "claude" /\ stage = "idle"
         \/ subject = "stream" /\ state[Tool] = "idle")
  /\ (\/ subject = "calls" /\ pc[Call] \in Waiting /\ ctx[Call] = "canceled"
      \/ subject = "stream" /\ Lost(Task))
     ~> (\/ subject = "calls" /\ pc[Call] \notin Waiting
         \/ subject = "stream" /\ state[Task] = "idle")
=============================================================================
