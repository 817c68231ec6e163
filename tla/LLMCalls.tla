------------------------------ MODULE LLMCalls ------------------------------
(***************************************************************************)
(* One LLM call of an agent run: the request is built from the history,    *)
(* converted to the wire form of the provider (LLMRequests), sent, and the *)
(* answer, whole or as a stream of chunks put together by the provider's   *)
(* stream adapter, becomes AG-UI events and an LLMResult (base/runtime.go  *)
(* ExecuteLLM, ExecuteLLMStream).                                          *)
(*                                                                         *)
(* Text is a sequence of tokens, the k-th token of an answer being k.  The *)
(* vendor's side (which chunks come, in which order, and how they end) is  *)
(* external and nondeterministic.  Every stream sends increments; those of *)
(* Gemini are read by a goroutine and handed over through a bounded        *)
(* channel, and its adapter takes each for the whole text so far.          *)
(***************************************************************************)
EXTENDS LLMRequests

CONSTANTS
  Clients,      \* subset of {"openai", "ollama", "deepseek", "anthropic", "gemini", "plain"}
  Histories,    \* the message histories a call may start from
  Names,        \* tool names an answer may carry, "" included
  VendorErrors, \* the errors a vendor may answer with
  MaxChunks,    \* bound: chunks of one streamed answer
  ChanCap       \* capacity of the Gemini adapter's channel (4 in the code)

ASSUME LLMCallsAssumption == /\ Clients \subseteq {"openai", "ollama", "deepseek", "anthropic", "gemini", "plain"}
                             /\ Histories \subseteq Seq(Message) /\ KnownTools \subseteq Names
                             /\ MaxChunks \in Nat /\ ChanCap \in Nat \ {0}

VARIABLES
  pc,       \* "idle", "sent", "streaming", "returned"
  req,      \* the client called, the history given and the wire request
  said,     \* what the vendor has said so far (its own truth)
  adapter,  \* state of the stream adapter
  ch,       \* Gemini's channel: chunks, and whether it is closed
  msg,      \* open/closed flags of the text message and the reasoning phase
  events,   \* the AG-UI events emitted by the call
  counts,   \* llm_call_started / _failed / _completed and tool_call_unknown
  result    \* what the call returned

llmVars == <<pc, req, said, adapter, ch, msg, events, counts, result>>

NoResult == [none |-> TRUE]
\* Token counts as a vendor reports them; Unreported when it said nothing.
Unreported == [prompt |-> 0, completion |-> 0, total |-> 0]
NoUsage == [none |-> TRUE]
Silent == [text |-> <<>>, calls |-> <<>>, usage |-> Unreported, choices |-> FALSE, chunks |-> 0]
Ev(t) == [t |-> t, d |-> <<>>]
Content(t, d) == [t |-> t, d |-> d]

-----------------------------------------------------------------------------
(* The vendor (external): what the next chunk may be.  Chunks are           *)
(* increments; when usage was asked for it comes in a last chunk without    *)
(* choices.                                                                 *)

Chunk(text, think, calls) ==
  [text |-> text, think |-> think, calls |-> calls, usage |-> Unreported, choices |-> TRUE, err |-> FALSE]

Increments ==
  {Chunk(<<Len(said.text) + 1>>, FALSE, <<>>), Chunk(<<>>, TRUE, <<>>)}
  \cup {Chunk(<<>>, FALSE, <<n>>) : n \in Names}
  \cup (IF req.client \in {"ollama", "deepseek"} THEN {Chunk(<<Len(said.text) + 1>>, TRUE, <<>>)} ELSE {})

\* Anthropic and Gemini report usage unasked, Anthropic without a total.
Reported(client) == [prompt |-> 1, completion |-> 1, total |-> IF client = "anthropic" THEN 0 ELSE 2]
UsageChunk(client) == [Chunk(<<>>, FALSE, <<>>) EXCEPT !.usage = Reported(client), !.choices = FALSE]
ErrorChunk == [Chunk(<<>>, FALSE, <<>>) EXCEPT !.err = TRUE, !.choices = FALSE]

\* The vendor libraries' accumulators add an increment to the message so far.
Accumulate(a, c) == [text |-> a.text \o c.text, calls |-> a.calls \o c.calls,
                     usage |-> IF c.usage # Unreported THEN c.usage ELSE a.usage,
                     choices |-> a.choices \/ c.choices, chunks |-> a.chunks + 1]

-----------------------------------------------------------------------------
(* The providers' adapters: what a chunk gives the caller, and the result.  *)

Delta(content, thinking) == [content |-> content, thinking |-> thinking]
Named(calls) == SelectSeq(calls, LAMBDA n : n # "")

openAIStreamCurrent(c) == Delta(IF c.choices THEN c.text ELSE <<>>, FALSE)
ollamaStreamCurrent(c) == Delta(IF c.choices THEN c.text ELSE <<>>, c.choices /\ c.think)
deepSeekStreamCurrent(c) == Delta(IF c.choices THEN c.text ELSE <<>>, c.choices /\ c.think)
anthropicStreamCurrent(c) == Delta(c.text, c.think)

\* Usage of which every count is zero is no usage.
openAICompletionUsageToLLM(u) == IF u = Unreported THEN NoUsage ELSE u
ollamaUsageToLLM(u) == openAICompletionUsageToLLM(u)
deepSeekUsageToLLM(u) == openAICompletionUsageToLLM(u)
geminiUsageMetadataToLLM(u) == IF u = Unreported THEN NoUsage ELSE u
anthropicUsageToLLM(u) ==
  IF u.prompt = 0 /\ u.completion = 0 THEN NoUsage ELSE [u EXCEPT !.total = u.prompt + u.completion]

openAIResponseToLLM(a) == [content |-> a.text, calls |-> Named(a.calls), usage |-> openAICompletionUsageToLLM(a.usage)]
ollamaResponseToLLM(a) == [content |-> a.text, calls |-> Named(a.calls), usage |-> ollamaUsageToLLM(a.usage)]
deepSeekResponseToLLM(a) == [content |-> a.text, calls |-> Named(a.calls), usage |-> deepSeekUsageToLLM(a.usage)]

\* Anthropic keeps a tool call without a name.
extractContentAndToolCalls(a) == [content |-> a.text, calls |-> a.calls]
anthropicResponse(a) == [content |-> extractContentAndToolCalls(a).content,
                         calls |-> extractContentAndToolCalls(a).calls,
                         usage |-> anthropicUsageToLLM(a.usage)]

geminiToolCallsToInterface(calls) == Named(calls)
geminiResponse(a) == [content |-> a.text, calls |-> geminiToolCallsToInterface(a.calls),
                      usage |-> geminiUsageMetadataToLLM(a.usage)]

\* The chat-completion adapters have no result until a chunk had a choice.
openAIStreamResult(a) == IF a.choices THEN openAIResponseToLLM(a) ELSE NoResult
ollamaStreamResult(a) == IF a.choices THEN ollamaResponseToLLM(a) ELSE NoResult
deepSeekStreamResult(a) == IF a.choices THEN deepSeekResponseToLLM(a) ELSE NoResult
anthropicStreamResult(a) == anthropicResponse(a)

\* Gemini's Next: the chunk is the result so far, the delta what it is longer than
\* the last one; an error chunk has no response and leaves both as they were.
geminiStreamNext(a, c) ==
  IF c.err THEN [a EXCEPT !.err = TRUE]
  ELSE LET prev == IF a.result = NoResult THEN 0 ELSE Len(a.result.content)
       IN [result |-> geminiResponse(c), err |-> FALSE, delta |-> SubSeq(c.text, prev + 1, Len(c.text))]
geminiStreamCurrent(a) == Delta(IF a.result = NoResult THEN <<>> ELSE a.delta, FALSE)

Current(client, c) ==
  CASE client = "openai" -> openAIStreamCurrent(c)
    [] client = "ollama" -> ollamaStreamCurrent(c)
    [] client = "deepseek" -> deepSeekStreamCurrent(c)
    [] client = "anthropic" -> anthropicStreamCurrent(c)

StreamResult(client, a) ==
  CASE client = "openai" -> openAIStreamResult(a)
    [] client = "ollama" -> ollamaStreamResult(a)
    [] client = "deepseek" -> deepSeekStreamResult(a)
    [] client = "anthropic" -> anthropicStreamResult(a)
    [] client = "gemini" -> a.result

\* Generate: the vendor's answer a in one piece.  The chat-completion clients
\* index its first choice without asking whether there is one.
Panics(client, a) == client \in {"openai", "ollama", "deepseek"} /\ ~a.choices
Generated(client, a) ==
  CASE client = "openai" -> openAIResponseToLLM(a)
    [] client = "ollama" -> ollamaResponseToLLM(a)
    [] client = "deepseek" -> deepSeekResponseToLLM(a)
    [] client = "anthropic" -> anthropicResponse(a)
    [] client = "gemini" -> geminiResponse(a)
    [] OTHER -> [content |-> a.text, calls |-> a.calls, usage |-> a.usage]

-----------------------------------------------------------------------------
(* ExecuteLLM and ExecuteLLMStream.                                         *)

LLMInit ==
  /\ pc = "idle" /\ req = [client |-> "plain", stream |-> FALSE, history |-> <<>>, wire |-> <<>>, cached |-> 0,
                           built |-> NoResult, params |-> NoResult]
  /\ said = Silent /\ adapter = Silent
  /\ ch = [q |-> <<>>, closed |-> FALSE]
  /\ msg = [text |-> FALSE, reasoning |-> FALSE]
  /\ events = <<>>
  /\ counts = [started |-> 0, failed |-> 0, completed |-> 0, unknown |-> 0]
  /\ result = NoResult

IsStreamSupported(client) == client # "plain"
asksUsage(client) == client \in {"openai", "ollama", "deepseek"}

Return(status, r) == pc' = "returned" /\ result' = [status |-> status, r |-> r]

\* A before-hook's error ends the call before anything is counted or emitted.
runBeforeLLMRequest ==
  /\ pc = "idle"
  /\ Return("error", NoResult)
  /\ UNCHANGED <<req, said, adapter, ch, msg, events, counts>>

\* The request leaves for the vendor.
Send(client, stream, h, memory, rag, skip, setting) ==
  LET r == BuildLLMRequest(h, memory, rag, skip, setting)
      w == Wire(client, r)
  IN /\ pc = "idle" /\ pc' = "sent"
     /\ req' = [client |-> client, stream |-> stream, history |-> r.messages, wire |-> w,
                built |-> [tools |-> r.tools, format |-> r.format], params |-> WireParams(client, r, setting.caching),
                cached |-> IF client = "anthropic" /\ setting.caching THEN markStableMessageForCaching(w) ELSE 0]
     /\ counts' = [counts EXCEPT !.started = @ + 1]
     /\ UNCHANGED <<said, adapter, ch, msg, events, result>>

Forget == req' = [req EXCEPT !.history = <<>>, !.wire = <<>>, !.cached = 0, !.built = NoResult, !.params = NoResult]
Failed == counts' = [counts EXCEPT !.failed = @ + 1]

\* The vendor refuses the request, or answers with an error.
VendorRefuses ==
  /\ pc = "sent" /\ (~req.stream \/ ~IsStreamSupported(req.client))
  /\ \E e \in VendorErrors : Return("error", wrapLLM(req.client, e))
  /\ Failed /\ Forget
  /\ UNCHANGED <<said, adapter, ch, msg, events>>

\* Calls of tools the run does not have stay in the result, marked.
llmResponseToResult(resp) ==
  [content |-> resp.content, usage |-> resp.usage,
   calls |-> [i \in DOMAIN resp.calls |-> [name |-> resp.calls[i], unknown |-> resp.calls[i] \notin KnownTools]]]

Unknowns(r) == Len(SelectSeq(r.calls, LAMBDA c : c.unknown))
NoteUnknownTool(r) == counts' = [counts EXCEPT !.completed = @ + 1, !.unknown = @ + Unknowns(r)]

\* An after-hook may replace the text of the response.
Rewritten == <<0>>
runAfterLLMResponse(resp) == {resp, [resp EXCEPT !.content = Rewritten]}

openTextMsg == IF msg.text THEN <<>> ELSE <<Ev("TEXT_START")>>
closeTextMsg == IF msg.text THEN <<Ev("TEXT_END")>> ELSE <<>>

\* Mutant: the whole text is emitted though its deltas have been.
FinalizeRepeats(r) == openTextMsg \o <<Content("TEXT_CONTENT", r.content), Ev("TEXT_END")>>

\* If no text chunk came, one assistant message is emitted all the same.
finalizeAssistantText(r) ==
  IF msg.text THEN closeTextMsg
  ELSE openTextMsg \o <<Content("TEXT_CONTENT", r.content), Ev("TEXT_END")>>

\* The vendor's whole answer to Generate.
Answer(t, cs, u) == [text |-> t, calls |-> cs, usage |-> u, choices |-> TRUE, chunks |-> 0]
Answers ==
  {Answer(t, cs, u) :
     t \in {<<>>, <<1>>}, cs \in {<<>>} \cup {<<n>> : n \in Names}, u \in {Unreported, Reported(req.client)}}
  \cup {Silent}

\* ExecuteLLM, from the answer on.  An after-hook's error is not counted here.
ExecuteLLM ==
  /\ pc = "sent" /\ ~req.stream
  /\ \E a \in Answers :
       /\ said' = a
       /\ IF Panics(req.client, a)
          THEN Return("panic", NoResult) /\ UNCHANGED <<events, counts>>
          ELSE \/ Return("error", NoResult) /\ UNCHANGED <<events, counts>>
               \/ \E resp \in runAfterLLMResponse(Generated(req.client, a)) :
                    LET r == llmResponseToResult(resp)
                    IN /\ Return("ok", r) /\ NoteUnknownTool(r)
                       /\ events' = <<Ev("TEXT_START"), Content("TEXT_CONTENT", r.content), Ev("TEXT_END")>>
  /\ Forget /\ UNCHANGED <<adapter, ch, msg>>

\* ExecuteLLMStream with a client that cannot stream: Generate, then the events.
StreamFallback ==
  /\ pc = "sent" /\ req.stream /\ ~IsStreamSupported(req.client)
  /\ \E a \in Answers :
       /\ said' = a
       /\ IF Panics(req.client, a)
          THEN Return("panic", NoResult) /\ UNCHANGED <<events, counts>>
          ELSE \/ Return("error", NoResult) /\ Failed /\ UNCHANGED events
               \/ \E resp \in runAfterLLMResponse(Generated(req.client, a)) :
                    LET r == llmResponseToResult(resp)
                    IN /\ Return("ok", r) /\ NoteUnknownTool(r)
                       /\ events' = finalizeAssistantText(r)
  /\ Forget /\ UNCHANGED <<adapter, ch, msg>>

\* The stream is open; nothing of it has been read.
GenerateStream ==
  /\ pc = "sent" /\ req.stream /\ IsStreamSupported(req.client)
  /\ pc' = "streaming" /\ Forget
  /\ adapter' = IF req.client = "gemini" THEN [result |-> NoResult, err |-> FALSE, delta |-> <<>>]
                ELSE Silent
  /\ UNCHANGED <<said, ch, msg, events, counts, result>>

flushReasoning == IF msg.reasoning THEN <<Ev("REASONING_MESSAGE_END"), Ev("REASONING_END")>> ELSE <<>>
openReasoning(open) == IF open THEN <<>> ELSE <<Ev("REASONING_START"), Ev("REASONING_MESSAGE_START")>>

\* The text part of a chunk: reasoning is closed before the text goes on.
emitText(d) == flushReasoning \o openTextMsg \o <<Content("TEXT_CONTENT", d)>>

\* One turn of the loop over the chunks.
DrainChunk(delta) ==
  LET txt == delta.content # <<>>
      stillOpen == msg.reasoning /\ ~txt
  IN /\ events' = events \o (IF txt THEN emitText(delta.content) ELSE <<>>)
                        \o (IF delta.thinking THEN openReasoning(stillOpen) \o <<Ev("REASONING_CONTENT")>> ELSE <<>>)
     /\ msg' = [text |-> msg.text \/ txt, reasoning |-> stillOpen \/ delta.thinking]

\* Whether the vendor may still send content.
MoreToSay == said.chunks < MaxChunks /\ said.usage = Unreported

\* Usage comes last, once, unasked from Anthropic and Gemini.
ReportsUsage == asksUsage(req.client) \/ req.client \in {"anthropic", "gemini"}
LastChunk == IF ReportsUsage /\ said.usage = Unreported THEN {UsageChunk(req.client)} ELSE {}

\* A stream that does not break off ends after the usage the vendor reports.
CompleteAnswer == ReportsUsage => said.usage # Unreported

\* A chunk of an SSE stream: read, accumulated and turned into events.
ReadChunk ==
  /\ pc = "streaming" /\ req.client # "gemini"
  /\ \E c \in (IF MoreToSay THEN Increments ELSE {}) \cup LastChunk :
       /\ said' = Accumulate(said, c) /\ adapter' = Accumulate(adapter, c)
       /\ DrainChunk(Current(req.client, c))
  /\ UNCHANGED <<pc, req, ch, counts, result>>

\* Gemini's goroutine: the vendor's chunks go into the channel while there is room.
GeminiFeed ==
  /\ pc = "streaming" /\ req.client = "gemini" /\ ~ch.closed /\ Len(ch.q) < ChanCap
  /\ \/ \E c \in (IF MoreToSay THEN Increments ELSE {}) \cup LastChunk :
          /\ said' = Accumulate(said, c)
          /\ ch' = [ch EXCEPT !.q = Append(@, c)]
     \/ ch' = [q |-> Append(ch.q, ErrorChunk), closed |-> TRUE] /\ UNCHANGED said
     \/ CompleteAnswer /\ ch' = [ch EXCEPT !.closed = TRUE] /\ UNCHANGED said
  /\ UNCHANGED <<pc, req, adapter, msg, events, counts, result>>

GeminiRead ==
  /\ pc = "streaming" /\ req.client = "gemini" /\ ch.q # <<>>
  /\ ch' = [ch EXCEPT !.q = Tail(@)]
  /\ adapter' = geminiStreamNext(adapter, Head(ch.q))
  /\ DrainChunk(geminiStreamCurrent(adapter'))
  /\ UNCHANGED <<pc, req, said, counts, result>>

\* After the last chunk: reasoning is closed, then the error, the missing
\* result or the after-hook's error ends the call, or the result does.
Ended(err) ==
  /\ pc' = "returned" /\ msg' = [text |-> FALSE, reasoning |-> FALSE]
  /\ LET resp == StreamResult(req.client, adapter)
     IN \/ /\ err
           /\ \E e \in VendorErrors : Return("error", wrapLLM(req.client, e))
           /\ Failed /\ events' = events \o flushReasoning
        \/ /\ ~err /\ resp = NoResult
           /\ Return("error", NoResult) /\ Failed /\ events' = events \o flushReasoning
        \/ /\ ~err /\ resp # NoResult
           /\ \/ Return("error", NoResult) /\ Failed /\ events' = events \o flushReasoning
              \/ \E h \in runAfterLLMResponse(resp) :
                   LET r == llmResponseToResult(h)
                   IN /\ Return("ok", r) /\ NoteUnknownTool(r)
                      /\ events' = events \o flushReasoning \o finalizeAssistantText(r)
  /\ UNCHANGED <<req, said, adapter, ch>>

StreamEnds ==
  /\ pc = "streaming"
  /\ IF req.client = "gemini" THEN ch.closed /\ ch.q = <<>> /\ Ended(adapter.err)
     ELSE \E err \in BOOLEAN : (err \/ CompleteAnswer) /\ Ended(err)

LLMDone == pc = "returned" /\ UNCHANGED llmVars

LLMNext ==
  \/ runBeforeLLMRequest
  \/ \E c \in Clients, s \in BOOLEAN, h \in Histories, memory, rag, skip \in BOOLEAN, setting \in Settings :
       Send(c, s, h, memory, rag, skip, setting)
  \/ VendorRefuses \/ ExecuteLLM \/ StreamFallback \/ GenerateStream
  \/ ReadChunk \/ GeminiFeed \/ GeminiRead \/ StreamEnds
  \/ LLMDone

LLMSpec == LLMInit /\ [][LLMNext]_llmVars

-----------------------------------------------------------------------------
(* Properties.                                                              *)

\* The state of the AG-UI message grammar after an event.
Grammar(st, e) ==
  CASE e.t = "TEXT_START" -> [st EXCEPT !.ok = @ /\ ~st.text /\ ~st.reasoning, !.text = TRUE]
    [] e.t = "TEXT_CONTENT" -> [st EXCEPT !.ok = @ /\ st.text /\ ~st.reasoning]
    [] e.t = "TEXT_END" -> [st EXCEPT !.ok = @ /\ st.text /\ ~st.reasoning, !.text = FALSE]
    [] e.t = "REASONING_START" -> [st EXCEPT !.ok = @ /\ ~st.reasoning, !.reasoning = TRUE]
    [] e.t = "REASONING_END" -> [st EXCEPT !.ok = @ /\ st.reasoning, !.reasoning = FALSE]
    [] OTHER -> [st EXCEPT !.ok = @ /\ st.reasoning]
Unopened == [ok |-> TRUE, text |-> FALSE, reasoning |-> FALSE]
Parse(es) ==
  LET after[i \in 0..Len(es)] == IF i = 0 THEN Unopened ELSE Grammar(after[i - 1], es[i])
  IN after[Len(es)]
Parsed == Parse(events)

TextOf(e) == IF e.t = "TEXT_CONTENT" THEN e.d ELSE <<>>
Deltas(es) == FlattenSeq([i \in 1..Len(es) |-> TextOf(es[i])])
Streamed == Deltas(events)

\* What the consumer of the stream was shown is what the run goes on with.  The
\* events of a call follow the AG-UI grammar whatever the vendor sends and
\* however the call ends: content only inside its open message, no text while
\* a reasoning phase is open, reasoning closed on every return, and a call that
\* succeeds has closed its text message (ExecuteLLMStream's flush and finalize).
\* On success the streamed deltas add up to the result's text, whichever adapter
\* put the answer together, and to what the vendor said, unless a hook rewrote it
\* or the answer is a stream of Gemini's.
StreamedByGemini == req.stream /\ req.client = "gemini"
DeliveredIsResult ==
  /\ Parsed.ok
  /\ pc = "returned" => ~Parsed.reasoning
  /\ pc = "returned" /\ result.status = "ok" =>
       /\ ~Parsed.text
       /\ result.r.content # Rewritten /\ ~StreamedByGemini =>
            Streamed = result.r.content /\ Streamed = said.text

\* pkg/interfaces/llm.go:47: GetResult returns the accumulated content of the
\* stream, for Gemini too (geminiStreamAdapter.Next and GetResult).
GeminiAccumulates ==
  pc = "returned" /\ result.status = "ok" /\ StreamedByGemini /\ result.r.content # Rewritten =>
    result.r.content = said.text

\* The atoms of a history that a provider is to see, in order, and those of the
\* turns it is sent.
MessageAtoms(m) ==
  CASE m.role = "tool" -> <<<<"result", m.id>>>>
    [] m.role = "assistant" -> CallBlocks(m)
    [] OTHER -> <<>>
Atoms(ms) == FlattenSeq([i \in DOMAIN ms |-> MessageAtoms(ms[i])])
WithoutText(b) == IF b[1] = "text" THEN <<>> ELSE <<b>>
BlockAtoms(bs) == FlattenSeq([k \in DOMAIN bs |-> WithoutText(bs[k])])
WireAtoms(turns) == FlattenSeq([i \in DOMAIN turns |-> BlockAtoms(turns[i].blocks)])

BeginsResults(t) == t.blocks[1][1] = "result"
ResultsTogether(turns) == \A i \in 1..(Len(turns) - 1) : ~(BeginsResults(turns[i]) /\ BeginsResults(turns[i + 1]))

\* The request reaches the vendor as the agent means it.  The conversion keeps
\* the tool exchange: every call and every result of the history is on the wire
\* once and in order (Gemini's calls without their id), and where the vendor
\* wants the results of one turn together (Anthropic, Gemini) no two result
\* turns are neighbours.  The tools offered are those of the run, a schema is
\* asked for at least as JSON, and thinking is asked for by a budget or a level,
\* never both (Gemini refuses both), Anthropic's budget being the minimum or more.
ExchangeKept ==
  pc = "sent" /\ req.client # "plain" =>
    /\ WireAtoms(req.wire) = IF req.client = "gemini" THEN AnonymousCalls(Atoms(req.history)) ELSE Atoms(req.history)
    /\ req.client \in {"anthropic", "gemini"} => ResultsTogether(req.wire)
    /\ Offered(req.client, req.params) = req.built.tools
    /\ req.built.format = "schema" => req.params.format \in {"json_object", "json_schema"}
    /\ req.params.thinking.budget = 0 \/ req.params.thinking.level = Unset
    /\ req.client = "anthropic" => req.params.thinking.budget \notin 1..(MinThinking - 1)
=============================================================================
