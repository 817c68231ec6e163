-------------------------- MODULE MCBaseOperations --------------------------
EXTENDS BaseOperations
\* LLM calls.
User == [role |-> "user", text |-> TRUE, volatile |-> FALSE, calls |-> <<>>, id |-> 0]
Says(cs) == [role |-> "assistant", text |-> cs = <<>>, volatile |-> FALSE, calls |-> cs, id |-> 0]
Mute == [role |-> "assistant", text |-> TRUE, volatile |-> TRUE, calls |-> <<>>, id |-> 0]
Result(i) == [role |-> "tool", text |-> TRUE, volatile |-> FALSE, calls |-> <<>>, id |-> i]
MCHistories == {<<>>, <<User>>, <<User, Says(<<1>>), Result(1)>>, <<User, Says(<<1, 2>>), Result(1), Result(2), Says(<<>>), User>>,
                <<User, Says(<<1, 2>>), Result(1), Result(2), Says(<<3>>), Result(3)>>,
                <<Result(2), Says(<<>>), User, Mute, User>>}
Setting(max, reasoning, format, caching) == [max |-> max, reasoning |-> reasoning, format |-> format, caching |-> caching]
Thinks(enabled, budget, effort) == [enabled |-> enabled, budget |-> budget, effort |-> effort]
MCSettings == {Setting(0, NoReasoning, "none", TRUE), Setting(64, Thinks(TRUE, 0, ""), "json", FALSE),
               Setting(0, Thinks(FALSE, 512, "high"), "schema", FALSE), Setting(0, Thinks(FALSE, 0, "xhigh"), "text", TRUE)}
VendorError(api, status, says, form, secs) ==
  [api |-> api, status |-> status, says |-> says, after |-> [form |-> form, secs |-> secs]]
MCVendorErrors == {VendorError(TRUE, 429, "other", "seconds", 5), VendorError(TRUE, 400, "context", "none", 0),
                   VendorError(TRUE, 503, "other", "date", 0), VendorError(FALSE, 0, "other", "none", 0)}
\* Memory.
Alice == "tenant_id" :> "t" @@ "user_id" :> "a" @@ "agent_id" :> "main"
MCContexts == {Alice}
MCTopic == "a1" :> "a" @@ "b1" :> "b"
MCReplies == {<<[text |-> "a1", kind |-> "note"], [text |-> "", kind |-> ""], [text |-> "a1", kind |-> "preference"]>>}
MCTalks == {<<Says(<<>>)>>, <<Result(1)>>}
MCFilters == {{}, {"note"}}
MCTTL == "note" :> 1 @@ "preference" :> 0
MCHookIDs == [s \in Scopes |-> IF s = ScopeMetadata(Resolve(Alice)) THEN {4} ELSE {}]
WorkerSymmetry == Permutations(Workers)
\* Tools.
MCRetrievers == <<"docs", "web", "wiki">>
MCStoreOf == "docs" :> "pgvector" @@ "web" :> "weaviate" @@ "wiki" :> "custom"
MCKind == "pay" :> "native" @@ "peer" :> "a2a" @@ "kb" :> "retriever" @@ "srv" :> "mcp"
MCTurns == <<<<[name |-> "pay", id |-> 1], [name |-> "peer", id |-> 2]>>, <<[name |-> "pay", id |-> 1], [name |-> "kb", id |-> 2]>>,
             <<[name |-> "srv", id |-> 1]>>>>
=============================================================================
