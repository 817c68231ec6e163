----------------------------- MODULE AgentMemory -----------------------------
(***************************************************************************)
(* Long-term memory: the base runtime's recall and store operations        *)
(* (base/runtime.go, base/memory.go) with their hooks, the memory policy   *)
(* (pkg/memory/config.go) and the back ends: pgvector, Weaviate and the    *)
(* in-memory one of internal/testing.                                      *)
(*                                                                         *)
(* Several runs, or the tool calls of one parallel batch, use one table at *)
(* the same time: looking for a near duplicate and writing are separate    *)
(* requests to the back end.  A scope is the set of its non-empty fields   *)
(* (ScopeMetadata), a text is near another when both have one topic (their *)
(* score reaches the threshold), time is a counter.                        *)
(***************************************************************************)
EXTENDS Naturals, Sequences, FiniteSets

CONSTANTS
  Backends,   \* subset of {"pgvector", "weaviate", "inmem"}
  Workers,    \* concurrent users of the store
  Contexts,   \* the request contexts of top-level runs: functions from keys to values
  ExtraKeys,  \* the tag keys of ScopeConfig
  SubAgents,  \* ids of the agents a run may delegate to
  Topic,      \* function from texts to topics; DOMAIN Topic is the set of texts
  Kinds,      \* the memory kinds in use
  Talks,      \* message sequences a run may end with: [role, text: whether it has any]
  Replies,    \* what the extraction's model may answer: sequences of [text, kind]
  Filters,    \* the sets of kinds a before-load hook may set; {} is all kinds
  TTL,        \* function from kinds to a number of ticks; 0 means no expiry
  Allowed,    \* AllowedKinds of the store policy; {} allows all
  HookIDs,    \* function from scopes to the ids a before-store hook may set
  MaxIds,     \* bound: entries in the table
  MaxClock,   \* bound: ticks
  MaxOps,     \* bound: operations started
  Limit       \* recall limit

-----------------------------------------------------------------------------
(* Scopes.                                                                  *)

DefaultKeys == {"tenant_id", "user_id", "agent_id"}

\* ScopeConfig.Resolve: the three default fields and the tags that have a value.
Resolve(ctx) ==
  [tenant |-> ctx["tenant_id"], user |-> ctx["user_id"], agent |-> ctx["agent_id"],
   tags |-> {<<k, ctx[k]>> : k \in {x \in ExtraKeys : ctx[x] # ""}}]

\* The fields that are set; a default field wins over a tag of its name.
ScopeMetadata(s) ==
  {p \in {<<"tenant_id", s.tenant>>, <<"user_id", s.user>>, <<"agent_id", s.agent>>} : p[2] # ""}
    \cup {p \in s.tags : p[1] \notin DefaultKeys}

\* Mutant: the delegate keeps the parent's agent id.
SubScopeOfParent(parent, id) ==
  [parent EXCEPT !.tags = @ \cup {<<"parent_agent_id", parent.agent>>}]

\* The scope of a delegated run: its own agent id, the parent's as a tag.
SubAgentScope(parent, id) ==
  [tenant |-> parent.tenant, user |-> parent.user, agent |-> id,
   tags |-> IF parent.agent = "" THEN parent.tags
            ELSE {p \in parent.tags : p[1] # "parent_agent_id"} \cup {<<"parent_agent_id", parent.agent>>}]

\* The scopes of top-level runs and of their delegates.
Resolved == {Resolve(x) : x \in Contexts}
Scopes == {ScopeMetadata(s) : s \in Resolved \cup {SubAgentScope(p, id) : p \in Resolved, id \in SubAgents}}

Texts == DOMAIN Topic
Ids == 1..MaxIds
Never == 0
NoEntry == [none |-> TRUE]
NoID == 0

ASSUME MemoryAssumption ==
  /\ Backends \subseteq {"pgvector", "weaviate", "inmem"}
  /\ TTL \in [Kinds -> Nat] /\ Allowed \subseteq Kinds
  /\ "note" \in Kinds \* the kind of a record without one
  /\ HookIDs \in [Scopes -> SUBSET Ids] /\ Limit \in Nat \ {0}

VARIABLES
  backend,
  clock,
  table,     \* Ids -> entry
  op,        \* Workers -> the operation in progress
  acked,     \* history: [scope, id] of stores that succeeded and were not cleared or replaced by their own scope
  overlapped,\* history: scopes in which two stores were in progress at once
  started    \* operations started

memoryVars == <<backend, clock, table, op, acked, overlapped, started>>

Idle == [kind |-> "idle"]
Present(id) == table[id] # NoEntry

-----------------------------------------------------------------------------
(* Policy (pkg/memory/config.go).                                           *)

\* "" is a record without a kind, "none" a rejected one.
ResolveKind(k) ==
  LET r == IF k = "" THEN "note" ELSE k
  IN IF Allowed = {} \/ r \in Allowed THEN r ELSE "none"

ExpiresAt(k) == IF TTL[k] = 0 THEN Never ELSE clock + TTL[k]
Expired(e) == e.expires # Never /\ e.expires <= clock

-----------------------------------------------------------------------------
(* Back ends: the sets of ids a Load may return.  Ties are broken freely.   *)

\* Every field of the scope has its value in the entry; no field, no filter.
buildScopeArgs(scope, e) == scope \subseteq e.scope
scopeWhere(scope, e) == scope \subseteq e.scope
scopeMatches(scope, e) == scope \subseteq e.scope
InScope(scope, e) ==
  CASE backend = "pgvector" -> buildScopeArgs(scope, e)
    [] backend = "weaviate" -> scopeWhere(scope, e)
    [] backend = "inmem" -> scopeMatches(scope, e)
OfKind(kinds, e) == kinds = {} \/ e.kind \in kinds
Score(q, e) == IF e.text = q THEN 2 ELSE IF Topic[e.text] = Topic[q] THEN 1 ELSE 0

\* The first limit ids of cand, where Better orders them.
Top(cand, limit, Better(_, _)) ==
  {S \in SUBSET cand : /\ Cardinality(S) = IF Cardinality(cand) < limit THEN Cardinality(cand) ELSE limit
                       /\ \A i \in S, j \in cand \ S : ~Better(j, i)}
Newer(i, j) == table[i].updated > table[j].updated

\* pgvector: the WHERE clause has the scope, the kinds, the expiry and, for a
\* query, the score; "" is no query.
pgvectorLoad(scope, query, kinds, limit) ==
  LET cand == {i \in Ids : /\ Present(i) /\ InScope(scope, table[i]) /\ OfKind(kinds, table[i])
                           /\ ~Expired(table[i])
                           /\ query # "" => Score(query, table[i]) > 0}
      Closer(i, j) == Score(query, table[i]) > Score(query, table[j])
  IN IF query = "" THEN Top(cand, limit, Newer) ELSE Top(cand, limit, Closer)

\* Weaviate: the server applies scope, kinds, certainty, order and limit; what
\* has expired is dropped from the answer afterwards.
weaviateLoad(scope, query, kinds, limit) ==
  LET cand == {i \in Ids : /\ Present(i) /\ InScope(scope, table[i]) /\ OfKind(kinds, table[i])
                           /\ query # "" => Score(query, table[i]) > 0}
  IN {{i \in S : ~Expired(table[i])} : S \in Top(cand, limit, Newer)}

\* In memory: under the lock, the live entries that contain the query, newest first.
inmemLoad(scope, query, kinds, limit) ==
  Top({i \in Ids : /\ Present(i) /\ ~Expired(table[i]) /\ InScope(scope, table[i]) /\ OfKind(kinds, table[i])
                   /\ query # "" => table[i].text = query}, limit, Newer)

Load(scope, query, kinds, limit) ==
  CASE backend = "pgvector" -> pgvectorLoad(scope, query, kinds, limit)
    [] backend = "weaviate" -> weaviateLoad(scope, query, kinds, limit)
    [] backend = "inmem" -> inmemLoad(scope, query, kinds, limit)

\* pgvector: INSERT ... ON CONFLICT (id) DO UPDATE sets every column.
pgvectorStore(id, scope, rec) ==
  [text |-> rec.text, kind |-> rec.kind, scope |-> scope, updated |-> clock, by |-> scope,
   expires |-> ExpiresAt(rec.kind)]

\* Weaviate: only the properties that are set; an update merges them into the
\* object, so fields absent from the new record keep their old values.
buildProperties(id, scope, rec) ==
  LET keys == {p[1] : p \in scope}
      kept == IF Present(id) THEN {p \in table[id].scope : p[1] \notin keys} ELSE {}
  IN [text |-> rec.text, kind |-> rec.kind, scope |-> scope \cup kept, updated |-> clock, by |-> scope,
      expires |-> IF ExpiresAt(rec.kind) = Never /\ Present(id) THEN table[id].expires ELSE ExpiresAt(rec.kind)]

\* In memory: the entry is replaced.
inmemStore(id, scope, rec) ==
  [text |-> rec.text, kind |-> rec.kind, scope |-> scope, updated |-> clock, by |-> scope,
   expires |-> ExpiresAt(rec.kind)]

Written(id, scope, rec) ==
  CASE backend = "pgvector" -> pgvectorStore(id, scope, rec)
    [] backend = "weaviate" -> buildProperties(id, scope, rec)
    [] backend = "inmem" -> inmemStore(id, scope, rec)

-----------------------------------------------------------------------------
(* Stores (base/memory.go).                                                 *)

MemoryInit ==
  /\ backend \in Backends /\ clock = 1
  /\ table = [i \in Ids |-> NoEntry]
  /\ op = [w \in Workers |-> Idle]
  /\ acked = {} /\ overlapped = {} /\ started = 0

Tick == clock < MaxClock /\ clock' = clock + 1 /\ UNCHANGED <<backend, table, op, acked, overlapped, started>>

Storing(w) == op[w].kind = "store"
Fail(w) == op' = [op EXCEPT ![w] = Idle]

Begin(w, o) ==
  /\ op[w] = Idle /\ started < MaxOps
  /\ op' = [op EXCEPT ![w] = o] /\ started' = started + 1
  /\ UNCHANGED <<backend, clock, table, acked>>

StoreOp(scope, recs) == [kind |-> "store", step |-> "next", scope |-> scope, recs |-> recs]
BeginStore(w, scope, recs) ==
  /\ Begin(w, StoreOp(scope, recs))
  /\ overlapped' = overlapped \cup (IF \E v \in Workers : Storing(v) /\ op[v].scope = scope THEN {scope} ELSE {})

\* The arguments of save_memory: a text that is not blank, and a kind or none.
parseSaveMemoryToolArgs(args) == IF args.text = "" THEN <<>> ELSE <<[text |-> args.text, kind |-> args.kind]>>

\* The save_memory tool stores one record; arguments that do not parse fail.
executeSaveMemoryTool(w) ==
  \E scope \in Scopes, t \in Texts \cup {""}, k \in Kinds \cup {""} :
    LET recs == parseSaveMemoryToolArgs([text |-> t, kind |-> k])
    IN recs # <<>> /\ BeginStore(w, scope, recs)

\* What the extraction's model is shown: the user's and the assistant's messages
\* with a text, the last one from the user.
messagesForMemoryExtraction(msgs) ==
  LET out == SelectSeq(msgs, LAMBDA x : x.role \in {"user", "assistant"} /\ x.text)
  IN IF out # <<>> /\ out[Len(out)].role = "assistant" THEN Append(out, [role |-> "user", text |-> TRUE]) ELSE out

\* The records of the reply, without those that have no text.
parseMemoryExtractResponse(reply) == SelectSeq(reply, LAMBDA r : r.text # "")

\* Without messages the model is not asked.  Its error, or a reply that does not
\* parse, ends the operation with nothing stored.
extractMemoriesWithLLM(msgs, reply) ==
  IF messagesForMemoryExtraction(msgs) = <<>> THEN <<>> ELSE parseMemoryExtractResponse(reply)

\* The store at the end of a run: the records of the extraction, if any.
ExecuteMemoryStore(w) ==
  \E scope \in Scopes, msgs \in Talks, reply \in Replies :
    LET recs == extractMemoriesWithLLM(msgs, reply)
    IN recs # <<>> /\ BeginStore(w, scope, recs)

\* The before-store hooks: they may fail, set the id, or blank the text; the
\* scope is not theirs to change.
RunBeforeMemoryStore(scope) == {[id |-> i, blank |-> FALSE] : i \in HookIDs[scope] \cup {NoID}}
                                 \cup {[id |-> NoID, blank |-> TRUE]}

\* The batch goes on with the records after the first.
NextRecord(w) ==
  op' = [op EXCEPT ![w] = IF Len(@.recs) = 1 THEN Idle ELSE StoreOp(@.scope, Tail(@.recs))]

\* The first record of those left: hooks, then the kind.  A blank text is
\* skipped.  A hook's error, or a kind that is not allowed, ends the batch;
\* what was stored before stays.
storeRecord(w) ==
  LET o == op[w] rec == Head(op[w].recs) kind == ResolveKind(Head(op[w].recs).kind)
  IN /\ Storing(w) /\ o.step = "next" /\ o.recs # <<>>
     /\ \/ Fail(w)
        \/ \E h \in RunBeforeMemoryStore(o.scope) :
             IF h.blank THEN NextRecord(w)
             ELSE /\ kind # "none"
                  /\ op' = [op EXCEPT ![w] = [kind |-> "store", scope |-> o.scope, recs |-> o.recs, id |-> h.id,
                                              step |-> IF h.id = NoID THEN "dedup" ELSE "write",
                                              rec |-> [text |-> rec.text, kind |-> kind]]]
     /\ UNCHANGED <<backend, clock, table, acked, overlapped, started>>

\* Mutant: the near duplicate is looked for in every scope.
DedupAnywhere(o) == Load({}, o.rec.text, {}, 1)

\* The nearest entry of the scope is the one to overwrite.
dedupLookup(o) == Load(o.scope, o.rec.text, {}, 1)

dedupStoreOptions(w) ==
  LET o == op[w]
  IN /\ Storing(w) /\ o.step = "dedup"
     /\ \/ Fail(w)
        \/ \E S \in dedupLookup(o) :
             op' = [op EXCEPT ![w] = [o EXCEPT !.step = "write", !.id = IF S = {} THEN NoID ELSE CHOOSE i \in S : TRUE]]
     /\ UNCHANGED <<backend, clock, table, acked, overlapped, started>>

\* A new id: no entry has it, and no store in progress is about to use it.
HookGiven == UNION {HookIDs[s] : s \in Scopes}
Fresh == {i \in Ids \ HookGiven : /\ ~Present(i)
                                  /\ \A w \in Workers : Storing(w) /\ op[w].step = "write" => op[w].id # i}
NewID == IF Fresh = {} THEN {} ELSE {CHOOSE i \in Fresh : TRUE}

\* The after-store hooks: an error ends the batch although the record is stored.
RunAfterMemoryStore(w) == Fail(w) \/ NextRecord(w)

Store(w) ==
  LET o == op[w]
  IN /\ Storing(w) /\ o.step = "write"
     /\ \/ Fail(w) /\ UNCHANGED <<table, acked>>
        \/ \E id \in IF o.id = NoID THEN NewID ELSE {o.id} :
             /\ table' = [table EXCEPT ![id] = Written(id, o.scope, o.rec)]
             /\ acked' = acked \cup {[scope |-> o.scope, id |-> id]}
             /\ RunAfterMemoryStore(w)
     /\ UNCHANGED <<backend, clock, overlapped, started>>

\* Clear removes every entry of the scope; a scope without fields is refused.
Clear(scope) ==
  /\ scope # {} /\ started < MaxOps /\ started' = started + 1
  /\ table' = [i \in Ids |-> IF Present(i) /\ InScope(scope, table[i]) THEN NoEntry ELSE table[i]]
  /\ acked' = {a \in acked : ~(Present(a.id) /\ InScope(scope, table[a.id]))}
  /\ UNCHANGED <<backend, clock, op, overlapped>>

-----------------------------------------------------------------------------
(* Recall (base/runtime.go ExecuteMemoryRecall).                            *)

\* The before-load hooks may change the query and the kinds.
BeginRecall(w) ==
  /\ \E scope \in Scopes, q \in Texts \cup {""}, kinds \in Filters :
       Begin(w, [kind |-> "recall", step |-> "load", scope |-> scope, query |-> q, kinds |-> kinds, found |-> {}])
  /\ UNCHANGED overlapped

\* What goes into the prompt: the entries' texts and who wrote them.
FormatMemoryEntries(S) == {[text |-> table[i].text, by |-> table[i].by] : i \in S}

\* The first load has the hooks' query and kinds.
loadOptionsFromCall(o) == Load(o.scope, o.query, o.kinds, Limit)

\* The load for the query; nothing found for a query means a second load.
RecallLoad(w) ==
  LET o == op[w]
  IN /\ o.kind = "recall" /\ o.step = "load"
     /\ \/ Fail(w)
        \/ \E S \in loadOptionsFromCall(o) :
             op' = [op EXCEPT ![w] = [o EXCEPT !.step = IF S = {} /\ o.query # "" THEN "recency" ELSE "prompt",
                                               !.found = FormatMemoryEntries(S)]]
     /\ UNCHANGED <<backend, clock, table, acked, overlapped, started>>

\* The second load lists by time with the configured kinds (none), not the hook's.
RecencyLoadOptions(o) == Load(o.scope, "", {}, Limit)
RecallRecency(w) ==
  LET o == op[w]
  IN /\ o.kind = "recall" /\ o.step = "recency"
     /\ \/ Fail(w)
        \/ \E S \in RecencyLoadOptions(o) :
             op' = [op EXCEPT ![w] = [o EXCEPT !.step = "prompt", !.found = FormatMemoryEntries(S)]]
     /\ UNCHANGED <<backend, clock, table, acked, overlapped, started>>

\* The after-load hooks ran and the context is handed to the run.
RecallDone(w) ==
  /\ op[w].kind = "recall" /\ op[w].step = "prompt" /\ Fail(w)
  /\ UNCHANGED <<backend, clock, table, acked, overlapped, started>>

MemoryNext ==
  \/ Tick
  \/ \E s \in Scopes : Clear(s)
  \/ \E w \in Workers : \/ executeSaveMemoryTool(w) \/ ExecuteMemoryStore(w)
                        \/ storeRecord(w) \/ dedupStoreOptions(w) \/ Store(w)
                        \/ BeginRecall(w) \/ RecallLoad(w) \/ RecallRecency(w) \/ RecallDone(w)

MemorySpec == MemoryInit /\ [][MemoryNext]_memoryVars

-----------------------------------------------------------------------------
(* Properties.                                                              *)

\* Every run's context carries the default fields and the tags, and the agents
\* a run delegates to have ids of their own: then no scope contains another.
Identified ==
  /\ \A x \in Contexts, k \in DefaultKeys \cup ExtraKeys : x[k] # ""
  /\ \A id \in SubAgents : id # "" /\ \A x \in Contexts : x["agent_id"] # id

\* A memory whose store succeeded stays recallable in its scope until that
\* scope clears it: no store of another scope takes it away, however the
\* look-up and the write of concurrent stores interleave (dedupStoreOptions
\* looks only into the writer's scope).  The fields must be resolved; a store
\* in a wider scope may overwrite an entry of a narrower one.
OwnMemoriesKept ==
  Identified => \A a \in acked : Present(a.id) /\ InScope(a.scope, table[a.id])

\* What a recall puts into the prompt was written in the recall's own scope,
\* through the semantic load as through the recency fallback: not by another
\* user, nor by the agent this one delegates to or was delegated by.
PromptIsolated ==
  Identified => \A w \in Workers : op[w].kind = "recall" =>
                    \A f \in op[w].found : f.by = op[w].scope

=============================================================================
