---------------------------- MODULE RuntimeAnswer ----------------------------
(* One call on a local runtime: the request, what the runtime answers, and *)
(* the deltas and the End the cluster is given of it.                      *)
(* Source: src/internal/worker/modelcall/ollama.go, ollama_schema.go,      *)
(* openai.go, modalities.go, transcription.go, session.go (run,            *)
(* runModality, classify).                                                 *)
(*                                                                         *)
(* An answer is a number of pieces of text and the tool calls it makes,    *)
(* each with arguments of Fragments fragments.  The numbering of deltas and    *)
(* the watchdog are in DeltaStream, the wait for a slot in ModelCalls.     *)
EXTENDS Integers, FiniteSets

CONSTANTS
  MaxPieces,    \* bound: pieces of text of an answer
  ToolCalls,        \* the tool calls an answer may make
  Fragments,        \* fragments of a call's arguments
  Honest        \* the runtime lets no failure look like an end: no error and no broken
                \* frame inside a stream of events that still comes to its [DONE], no
                \* "stop" in the middle of a tool call, and no error in the body of an
                \* embedding or of speech answered with 200

AnswerAssumption ==
  MaxPieces \in Nat \ {0} /\ IsFiniteSet(ToolCalls) /\ Fragments \in Nat \ {0} /\ Honest \in BOOLEAN

Chats == {"chat", "vision"}                 \* they stream to the cluster
Whole == {"speak", "image", "embedding", "file"}    \* one body, no stream; "file" is
                                            \* a transcription by a dedicated server

VARIABLES
  api,        \* NewClient: the client of the runtime, "ollama" or "openai"
  want,       \* what the call asks for: its kind, a schema, tools
  request,    \* how far the request is
  asked,      \* how a schema was asked for: "format", "prompt", or "none"
  meant,      \* ghost: pieces the runtime has written
  calling,    \* ghost: of each call the fragments written
  ending,     \* ghost: the runtime has written all it meant to
  fits,       \* ghost: the answer validates against the schema
  thought,    \* readChat: some thinking came
  told,       \* pieces emitted to the cluster
  backheld,       \* pieces a callback keeps back
  heard,      \* of each call the fragments read
  why,        \* FinishReason of the result
  stopped,    \* call.reason: Cancel, the watchdog or the deadline came first
  result      \* the End; NoEnd before it

answer_vars == <<api, want, request, asked, meant, calling, ending, fits, thought, told, backheld,
                 heard, why, stopped, result>>
ghosts == <<meant, calling, ending, fits>>
NoEnd == [finish |-> "", calls |-> {}, texts |-> 0]

(* resolve admits a schema on a chat or a vision call only, the other      *)
(* modalities of a native runtime are images, and vision has no tools.     *)
Servable(a, w) ==
  /\ w.schema => w.kind \in Chats
  /\ w.tools => w.kind = "chat"
  /\ a = "ollama" => w.kind \in {"chat", "vision", "image", "embedding"}

Wants == [kind : Chats \cup Whole \cup {"transcribe"}, schema : BOOLEAN, tools : BOOLEAN]

AnswerInit ==
  /\ api \in {"ollama", "openai"}
  /\ want \in {w \in Wants : Servable(api, w)}
  /\ request = "asking" /\ asked = IF want.schema THEN "format" ELSE "none"
  /\ meant = 0 /\ calling = [c \in ToolCalls |-> 0] /\ ending = FALSE /\ fits \in BOOLEAN
  /\ thought = FALSE /\ told = 0 /\ backheld = 0 /\ heard = [c \in ToolCalls |-> 0]
  /\ why = "stop" /\ stopped = FALSE /\ result = NoEnd

-----------------------------------------------------------------------------
(* The End                                                                 *)

Complete(of) == {c \in ToolCalls : of[c] = Fragments}
Begun(of) == {c \in ToolCalls : of[c] > 0}

(* classify: what stopped the call wins over the error it caused.          *)
classified == IF stopped THEN "stopped" ELSE "error"

EndsWith(finish, calls, texts) ==
  /\ request' = "ended"
  /\ result' = [finish |-> finish, calls |-> calls, texts |-> texts]

(* Mutant: what was read of a call goes out with the error.                *)
FailsWithCalls == EndsWith(classified, Begun(heard), told)

(* The result of a client that failed: Ollama's holds the calls so far,    *)
(* the other's none.                                                       *)
Fails == EndsWith(classified, IF api = "ollama" THEN Begun(heard) ELSE {}, told)

-----------------------------------------------------------------------------
(* post                                                                    *)

Accepted ==
  /\ request = "asking"
  /\ request' = IF want.kind \in Whole THEN "body" ELSE "reading"
  /\ UNCHANGED <<api, want, asked, ghosts, thought, told, backheld, heard, why, stopped,
                 result>>

(* ollamaFormatUnsupported: the runner has no structured output.  Without  *)
(* tools the schema is put into the prompt, once.                          *)
Unsupported ==
  /\ request = "asking" /\ api = "ollama" /\ asked = "format"
  /\ IF want.tools THEN Fails /\ UNCHANGED asked
     ELSE asked' = "prompt" /\ UNCHANGED <<request, result>>
  /\ UNCHANGED <<api, want, ghosts, thought, told, backheld, heard, why, stopped>>

(* Any other refusal, or no connection; or a context that ended.           *)
Refused ==
  /\ request = "asking" /\ Fails
  /\ UNCHANGED <<api, want, asked, ghosts, thought, told, backheld, heard, why, stopped>>

-----------------------------------------------------------------------------
(* The stream, as it is written and read: readChat and chatRaw             *)

Reading == request = "reading"
Writing == Reading /\ ~ending

(* What the caller's emit does: a transcript and an answer to be checked   *)
(* against its schema are kept until they are whole.                       *)
Transcript == want.kind = "transcribe"
KeptBack == Transcript \/ asked = "prompt"

Text ==
  /\ Writing /\ meant < MaxPieces
  /\ meant' = meant + 1
  /\ IF KeptBack THEN backheld' = backheld + 1 /\ UNCHANGED told
     ELSE told' = told + 1 /\ UNCHANGED backheld
  /\ UNCHANGED <<api, want, request, asked, calling, ending, fits, thought, heard, why,
                 stopped, result>>

(* The stream to the cluster is gone.                                      *)
EmitFails ==
  /\ Writing /\ ~KeptBack /\ meant < MaxPieces /\ meant' = meant + 1 /\ Fails
  /\ UNCHANGED <<api, want, asked, calling, ending, fits, thought, told, backheld, heard,
                 why, stopped>>

Thinks ==
  /\ Writing /\ ~thought /\ thought' = TRUE
  /\ UNCHANGED <<api, want, request, asked, ghosts, told, backheld, heard, why, stopped,
                 result>>

(* Ollama writes a call in one frame; elsewhere its arguments come in      *)
(* fragments, several calls at once, and are put together by their index.  *)
CallsTool(c) ==
  /\ Writing /\ want.tools /\ calling[c] < Fragments
  /\ calling' = [calling EXCEPT ![c] = IF api = "ollama" THEN Fragments ELSE @ + 1]
  /\ heard' = [heard EXCEPT ![c] = IF api = "ollama" THEN Fragments ELSE @ + 1]
  /\ UNCHANGED <<api, want, request, asked, meant, ending, fits, thought, told, backheld,
                 why, stopped, result>>

(* A frame that is no JSON.  Ollama's ends the call; another's is skipped, *)
(* and the text that was in it.                                            *)
Garbled ==
  /\ Writing /\ meant < MaxPieces /\ meant' = meant + 1
  /\ IF api = "ollama" THEN Fails ELSE ~Honest /\ UNCHANGED <<request, result>>
  /\ UNCHANGED <<api, want, asked, calling, ending, fits, thought, told, backheld, heard,
                 why, stopped>>

(* An error inside the stream, after its 200.  In a stream of events it    *)
(* has no choices and is read as nothing.                                  *)
ReportsError ==
  /\ Writing /\ UNCHANGED <<meant, calling, fits>>
  /\ IF api = "ollama" THEN Fails /\ UNCHANGED ending
     ELSE ~Honest /\ ending' = TRUE /\ UNCHANGED <<request, result>>
  /\ UNCHANGED <<api, want, asked, thought, told, backheld, heard, why, stopped>>

(* Mutant: the end of the stream is the end of the answer.                 *)
CutOffCleanly ==
  /\ Reading /\ EndsWith(why, Begun(heard), told)
  /\ UNCHANGED <<api, want, asked, ghosts, thought, told, backheld, heard, why, stopped>>

(* The runtime is killed, or the context ends: no terminator.              *)
CutOff ==
  /\ Reading /\ Fails
  /\ UNCHANGED <<api, want, asked, ghosts, thought, told, backheld, heard, why, stopped>>

(* The runtime has said all it will, and why it stopped.  An answer that   *)
(* the output bound cut short is whole for the client, though the bound    *)
(* may have come in the middle of a call; Ollama writes none in parts.     *)
Finishes ==
  /\ Writing /\ ending' = TRUE /\ why' \in {"stop", "length"}
  /\ \/ \A c \in ToolCalls : calling[c] \in {0, Fragments}
     \/ api = "openai" /\ (why' = "length" \/ ~Honest)
  /\ UNCHANGED <<api, want, request, asked, meant, calling, fits, thought, told,
                 backheld, heard, stopped, result>>

Answered == told + backheld > 0 \/ Begun(heard) # {}

(* Mutant: the value is passed on as it came.                              *)
DoneUnchecked ==
  /\ Reading /\ ending
  /\ told' = told + backheld /\ backheld' = 0 /\ EndsWith(why, Begun(heard), told')
  /\ UNCHANGED <<api, want, asked, ghosts, thought, heard, why, stopped>>

(* The done frame, or [DONE].  Structured output that is all thinking is   *)
(* an error of a native runtime; what was kept back is told if it may be:  *)
(* schemaAnswer passes one value that validates.  The calls are attached   *)
(* as far as they were written.                                            *)
Done ==
  /\ Reading /\ ending
  /\ IF \/ api = "ollama" /\ want.schema /\ ~Answered /\ thought
        \/ asked = "prompt" /\ ~(fits /\ backheld > 0)
     THEN Fails /\ UNCHANGED <<told, backheld>>
     ELSE /\ told' = told + backheld /\ backheld' = 0
          /\ EndsWith(why, Begun(heard), told')
  /\ UNCHANGED <<api, want, asked, ghosts, thought, heard, why, stopped>>

-----------------------------------------------------------------------------
(* Answers of one body: speech, images, embeddings                         *)

Words(body) == IF want.kind = "file" /\ body = "whole" THEN 1 ELSE 0

(* An embedding's body is read for its vectors only, speech for its bytes. *)
Unseen(body) == \/ want.kind = "embedding" /\ body \in {"error", "empty"}
                \/ want.kind = "speak" /\ body \in {"error", "unreadable"}

(* Mutant: a 200 is a success.                                             *)
TakesBody(body) ==
  /\ request = "body" /\ ending' = (body = "whole")
  /\ meant' = Words(body) /\ told' = meant' /\ EndsWith("stop", {}, told')
  /\ UNCHANGED <<api, want, asked, calling, fits, thought, backheld, heard, why, stopped>>

(* A 200 may carry an error, nothing, or something unreadable or too much. *)
ReadsBody(body) ==
  /\ request = "body" /\ ending' = (body = "whole")
  /\ meant' = Words(body) /\ told' = meant'
  /\ Unseen(body) => ~Honest
  /\ IF body = "whole" \/ Unseen(body) THEN EndsWith("stop", {}, told') ELSE Fails
  /\ UNCHANGED <<api, want, asked, calling, fits, thought, backheld, heard, why, stopped>>

(* Cancel, the watchdog, the deadline; the client hears of it from the     *)
(* context, at its next read, unless the answer is whole before.           *)
Stops ==
  /\ request # "ended" /\ ~stopped /\ stopped' = TRUE
  /\ UNCHANGED <<api, want, request, asked, ghosts, thought, told, backheld, heard, why,
                 result>>

Bodies == {"whole", "error", "empty", "unreadable"}
Over == request = "ended" /\ UNCHANGED answer_vars

AnswerNext ==
  \/ Accepted \/ Unsupported \/ Refused
  \/ Text \/ EmitFails \/ Thinks \/ Garbled \/ ReportsError \/ CutOff \/ Finishes \/ Done
  \/ \E c \in ToolCalls : CallsTool(c)
  \/ \E body \in Bodies : ReadsBody(body)
  \/ Stops \/ Over

AnswerSpec == AnswerInit /\ [][AnswerNext]_answer_vars

-----------------------------------------------------------------------------
(* Properties                                                              *)

(* The types of the variables.                                             *)
AnswerTypeOK ==
  /\ api \in {"ollama", "openai"} /\ want \in Wants
  /\ request \in {"asking", "reading", "body", "ended"} /\ asked \in {"format", "prompt", "none"}
  /\ meant \in 0 .. MaxPieces /\ told \in 0 .. MaxPieces /\ backheld \in 0 .. MaxPieces
  /\ calling \in [ToolCalls -> 0 .. Fragments] /\ heard \in [ToolCalls -> 0 .. Fragments]
  /\ why \in {"stop", "length"}
  /\ result = NoEnd <=> request # "ended"

Succeeded == result.finish \in {"stop", "length"}

(* readChat, chatRaw and the modalities: an End that reports no error is   *)
(* of an answer the runtime finished, with every piece of its text told    *)
(* and every call it made.                                                 *)
SuccessIsWhole ==
  Succeeded => ending /\ result.texts = meant /\ result.calls = Begun(calling)

(* toolCallAccumulator: no End carries a call whose arguments were not     *)
(* finished, but one that says the output bound cut the answer short: the  *)
(* half-written call goes out with it, though the comment of chatRaw       *)
(* (openai.go:225-231) would have no caller dispatch it.                   *)
NoHalfCall == result.finish # "length" => result.calls \subseteq Complete(calling)

(* ollama_schema.go: of an answer no runner held to its schema nothing is  *)
(* told before the whole of it validates.                                  *)
CheckedBeforeTold == asked = "prompt" /\ told > 0 => ending /\ fits /\ told = meant

(* What the cluster is told of an answer is what the runtime answered: an  *)
(* End without an error is of an answer it finished, with all its text and *)
(* all its tool calls; no End carries half a call unless it says that the  *)
(* answer was cut short; and nothing is told of an answer that must be     *)
(* checked first (readChat, chatRaw, runModality).                         *)
AnswerIsWhole == AnswerTypeOK /\ SuccessIsWhole /\ NoHalfCall /\ CheckedBeforeTold
=============================================================================
