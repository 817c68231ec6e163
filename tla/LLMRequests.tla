---------------------------- MODULE LLMRequests ----------------------------
(***************************************************************************)
(* What an LLM call sends and how a refusal comes back: the request of the *)
(* base runtime (base/runtime.go BuildLLMRequest), its wire form for each  *)
(* provider (pkg/llm/<provider>/client.go), messages and parameters, and   *)
(* the classification of vendor errors (pkg/llm/error.go).  Operators      *)
(* only; LLMCalls uses them in its actions.                                *)
(***************************************************************************)
EXTENDS Naturals, Sequences, SequencesExt

CONSTANTS
  KnownTools,   \* the tools of the run
  Settings      \* the agents' settings: [max, reasoning, format, caching]

-----------------------------------------------------------------------------
(* Requests.  A message is [role, text, volatile, calls, id]: text says     *)
(* whether it has any, volatile that this is only timestamps and ids,       *)
(* calls are the tool calls of an assistant turn, id the call a tool        *)
(* message answers.                                                         *)

Roles == {"system", "user", "assistant", "tool", "reasoning"}
Message == [role : Roles, text : BOOLEAN, volatile : BOOLEAN, calls : Seq(Nat), id : Nat]
UserMessage == [role |-> "user", text |-> TRUE, volatile |-> FALSE, calls |-> <<>>, id |-> 0]

\* Volatile content is stripped from what the model sees, not from the store.
sanitizeMessages(ms) == [i \in DOMAIN ms |-> [ms[i] EXCEPT !.text = @ /\ ~ms[i].volatile]]

\* What the agent's sampling sets; unset fields leave the provider's default.
ApplyLLMSampling(s) == [max |-> s.max, reasoning |-> s.reasoning]

\* Memory and retriever context go in front of the history as user messages.
BuildLLMRequest(h, memory, rag, skipTools, setting) ==
  [format |-> setting.format,
   tools |-> IF skipTools THEN {} ELSE KnownTools,
   sampling |-> ApplyLLMSampling(setting),
   messages |-> (IF memory THEN <<UserMessage>> ELSE <<>>) \o
                (IF rag THEN <<UserMessage>> ELSE <<>>) \o sanitizeMessages(h)]

Turn(role, blocks) == [role |-> role, blocks |-> blocks]
CallBlocks(m) == [i \in DOMAIN m.calls |-> <<"call", m.calls[i]>>]

\* The chat-completion form: one message for each message of the history.
ChatMessage(m) ==
  CASE m.role = "user" -> <<Turn("user", <<<<"text">>>>)>>
    [] m.role = "assistant" -> <<Turn("assistant", <<<<"text">>>> \o CallBlocks(m))>>
    [] m.role = "tool" -> <<Turn("tool", <<<<"result", m.id>>>>)>>
    [] OTHER -> <<>>

messagesToOpenAI(r) ==
  <<Turn("developer", <<<<"text">>>>)>> \o FlattenSeq([i \in DOMAIN r.messages |-> ChatMessage(r.messages[i])])

messagesToOllama(r) ==
  <<Turn("system", <<<<"text">>>>)>> \o FlattenSeq([i \in DOMAIN r.messages |-> ChatMessage(r.messages[i])])

messagesToDeepSeek(r) ==
  <<Turn("system", <<<<"text">>>>)>> \o FlattenSeq([i \in DOMAIN r.messages |-> ChatMessage(r.messages[i])])

EmptyRequest == <<Turn("user", <<<<"text">>>>)>>

\* An assistant turn without text and calls has no blocks and is left out.
AssistantBlocks(m) == (IF m.text THEN <<<<"text">>>> ELSE <<>>) \o CallBlocks(m)

\* The results at positions i..j of one run of tool messages, as blocks.
RunEnd(ms, i) == CHOOSE j \in i..Len(ms) : /\ \A k \in i..j : ms[k].role = "tool"
                                           /\ j = Len(ms) \/ ms[j + 1].role # "tool"
ResultBlocks(ms, i) == [k \in 1..(RunEnd(ms, i) - i + 1) |-> <<"result", ms[i + k - 1].id>>]
StartsRun(ms, i) == ms[i].role = "tool" /\ (i = 1 \/ ms[i - 1].role # "tool")

\* Mutant: every tool message becomes a user turn of its own.
EachResultATurn(ms) ==
  FlattenSeq([i \in DOMAIN ms |->
    CASE ms[i].role = "user" -> <<Turn("user", <<<<"text">>>>)>>
      [] ms[i].role = "assistant" /\ AssistantBlocks(ms[i]) # <<>> -> <<Turn("assistant", AssistantBlocks(ms[i]))>>
      [] ms[i].role = "tool" -> <<Turn("user", <<<<"result", ms[i].id>>>>)>>
      [] OTHER -> <<>>])

\* A run of tool messages becomes one user turn.
convertToAnthropicMessages(ms) ==
  IF ms = <<>> THEN EmptyRequest
  ELSE FlattenSeq([i \in DOMAIN ms |->
    CASE ms[i].role = "user" -> <<Turn("user", <<<<"text">>>>)>>
      [] ms[i].role = "assistant" /\ AssistantBlocks(ms[i]) # <<>> -> <<Turn("assistant", AssistantBlocks(ms[i]))>>
      [] StartsRun(ms, i) -> <<Turn("user", ResultBlocks(ms, i))>>
      [] OTHER -> <<>>])

\* Gemini's function calls carry the name and the arguments, not the call id;
\* the responses carry the id.
AnonymousCalls(bs) == [k \in DOMAIN bs |-> IF bs[k][1] = "call" THEN <<"call">> ELSE bs[k]]
messagesToGemini(ms) ==
  IF ms = <<>> THEN EmptyRequest
  ELSE FlattenSeq([i \in DOMAIN ms |->
    CASE ms[i].role = "user" -> <<Turn("user", <<<<"text">>>>)>>
      [] ms[i].role = "assistant" /\ AssistantBlocks(ms[i]) # <<>> ->
           <<Turn("model", AnonymousCalls(AssistantBlocks(ms[i])))>>
      [] StartsRun(ms, i) -> <<Turn("user", ResultBlocks(ms, i))>>
      [] OTHER -> <<>>])

\* Anthropic marks the last block of the last turn but one for its prompt cache.
markStableMessageForCaching(turns) == IF Len(turns) < 2 THEN 0 ELSE Len(turns) - 1

Wire(client, r) ==
  CASE client = "openai" -> messagesToOpenAI(r)
    [] client = "ollama" -> messagesToOllama(r)
    [] client = "deepseek" -> messagesToDeepSeek(r)
    [] client = "anthropic" -> convertToAnthropicMessages(r.messages)
    [] client = "gemini" -> messagesToGemini(r.messages)
    [] OTHER -> r.messages

-----------------------------------------------------------------------------
(* Parameters.  A format is "none", "text", "json" or "schema" (JSON with a *)
(* schema); reasoning is NoReasoning or [enabled, budget, effort].  A field *)
(* that is not sent is Unset, a number that is not sent 0.                  *)

Unset == "unset"
NoReasoning == [none |-> TRUE]
DefaultMaxTokens == 1024
MinThinking == 1024

Params(tools, max, format, thinking) == [tools |-> tools, max |-> max, format |-> format, thinking |-> thinking]
Budget(n) == [budget |-> n, level |-> Unset]
Level(l) == [budget |-> 0, level |-> l]
NoThinking == Level(Unset)

\* The chat-completion providers leave the vendor's limit when none is set.
ChatMax(r) == r.sampling.max
ExplicitMax(r) == IF r.sampling.max > 0 THEN r.sampling.max ELSE DefaultMaxTokens

responseFormatToOpenAI(f) ==
  CASE f = "text" -> "text" [] f = "json" -> "json_object" [] f = "schema" -> "json_schema" [] OTHER -> Unset

\* Ollama and DeepSeek have plain JSON only; the schema is dropped.
responseFormatToOllama(f) == CASE f = "text" -> "text" [] f \in {"json", "schema"} -> "json_object" [] OTHER -> Unset
responseFormatToDeepSeek(f) == CASE f = "text" -> "text" [] f \in {"json", "schema"} -> "json_object" [] OTHER -> Unset

\* Anthropic and Gemini have JSON with a schema only; without one nothing is sent.
responseFormatToAnthropic(f) == IF f = "schema" THEN "json_schema" ELSE Unset
applyResponseFormat(f) == IF f = "schema" THEN "json_schema" ELSE Unset

openAIReasoningEffort(r) == IF r = NoReasoning THEN NoThinking ELSE Level(IF r.effort = "" THEN Unset ELSE r.effort)

\* A budget is raised to the vendor's minimum.
anthropicThinkingBudget(r) ==
  IF r = NoReasoning THEN NoThinking
  ELSE IF r.budget > 0 THEN Budget(IF r.budget < MinThinking THEN MinThinking ELSE r.budget)
  ELSE IF r.enabled THEN Budget(MinThinking) ELSE NoThinking

geminiThinkingLevelFromEffort(e) == IF e \in {"minimal", "low", "medium", "high"} THEN e ELSE Unset

\* Thinking that is on without budget or level has neither, but shows thoughts.
geminiThinkingConfig(r) ==
  IF r = NoReasoning THEN NoThinking
  ELSE IF r.budget > 0 THEN Budget(r.budget) ELSE Level(geminiThinkingLevelFromEffort(r.effort))

\* Gemini: all declarations in one tool.
toolsToGemini(ts) == IF ts = {} THEN {} ELSE {[declares |-> ts]}
\* Anthropic: the last tool carries the cache mark of the list.
toolsToAnthropic(ts, caching) == [names |-> ts, marked |-> caching /\ ts # {}]

openAIParams(r) == Params(r.tools, ChatMax(r), responseFormatToOpenAI(r.format), openAIReasoningEffort(r.sampling.reasoning))
ollamaParams(r) == Params(r.tools, ChatMax(r), responseFormatToOllama(r.format), NoThinking)
deepSeekParams(r) == Params(r.tools, ChatMax(r), responseFormatToDeepSeek(r.format), NoThinking)
buildMessageParams(r, caching) ==
  Params(toolsToAnthropic(r.tools, caching), ExplicitMax(r), responseFormatToAnthropic(r.format),
         anthropicThinkingBudget(r.sampling.reasoning))
buildConfig(r) ==
  Params(toolsToGemini(r.tools), ExplicitMax(r), applyResponseFormat(r.format), geminiThinkingConfig(r.sampling.reasoning))

WireParams(client, r, caching) ==
  CASE client = "openai" -> openAIParams(r)
    [] client = "ollama" -> ollamaParams(r)
    [] client = "deepseek" -> deepSeekParams(r)
    [] client = "anthropic" -> buildMessageParams(r, caching)
    [] client = "gemini" -> buildConfig(r)
    [] OTHER -> Params(r.tools, r.sampling.max, r.format, r.sampling.reasoning)

\* The tools a wire request offers.
Offered(client, p) ==
  CASE client = "anthropic" -> p.tools.names
    [] client = "gemini" -> UNION {t.declares : t \in p.tools}
    [] OTHER -> p.tools

-----------------------------------------------------------------------------
(* Errors.  A vendor's error is [api, status, says, after]: whether it is   *)
(* the library's API error, its status (0 without one), what its text is    *)
(* about ("rate", "context" or "other") and its Retry-After header.         *)

\* The first that fits: rate limit, context, any other HTTP failure.
classifyReason(status, says) ==
  IF status = 429 \/ says = "rate" THEN "rate_limit"
  ELSE IF says = "context" THEN "context_exceeded"
  ELSE IF status >= 400 THEN "provider" ELSE "unknown"

\* Seconds or a date; what is in the past or not understood is no wait.
parseRetryAfter(h) == IF h.form \in {"seconds", "date"} /\ h.secs > 0 THEN h.secs ELSE 0

Classify(status, after, says) == [reason |-> classifyReason(status, says), wait |-> after]

chatWrapLLM(e) == IF e.api THEN Classify(e.status, parseRetryAfter(e.after), e.says) ELSE Classify(0, 0, e.says)

\* The type of an Anthropic error names a rate limit; that the prompt was too
\* long is in its message, which is not looked at.
anthropicWrapLLM(e) ==
  IF e.api THEN Classify(e.status, parseRetryAfter(e.after), IF e.says = "rate" THEN "rate" ELSE "other")
  ELSE Classify(0, 0, e.says)

geminiWrapLLM(e) == IF e.api THEN Classify(e.status, 0, e.says) ELSE Classify(0, 0, e.says)

\* A custom client's error is not wrapped.
wrapLLM(client, e) ==
  CASE client \in {"openai", "ollama", "deepseek"} -> chatWrapLLM(e)
    [] client = "anthropic" -> anthropicWrapLLM(e)
    [] client = "gemini" -> geminiWrapLLM(e)
    [] OTHER -> [reason |-> "unknown", wait |-> 0]
=============================================================================
