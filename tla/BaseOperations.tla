--------------------------- MODULE BaseOperations ---------------------------
(***************************************************************************)
(* The operations base.Runtime offers to every runtime: LLM calls          *)
(* (LLMCalls), long-term memory (AgentMemory), tools and retrievers        *)
(* (ToolCalls), and the Redis conversation store (RedisConversation).      *)
(* They share the configuration and no state, so one behaviour exercises   *)
(* one of them, chosen at the start.                                       *)
(***************************************************************************)
EXTENDS LLMCalls, AgentMemory, ToolCalls, RedisConversation

VARIABLE part   \* the operations this behaviour exercises

vars == <<part, llmVars, memoryVars, callVars, historyVars>>

Init ==
  /\ part \in {"llm", "memory", "tools", "history"}
  /\ LLMInit /\ MemoryInit /\ ToolInit /\ HistoryInit
  /\ part # "memory" => backend = CHOOSE b \in Backends : TRUE

Next ==
  \/ part = "llm" /\ LLMNext /\ UNCHANGED <<part, memoryVars, callVars, historyVars>>
  \/ part = "memory" /\ MemoryNext /\ UNCHANGED <<part, llmVars, callVars, historyVars>>
  \/ part = "tools" /\ ToolNext /\ UNCHANGED <<part, llmVars, memoryVars, historyVars>>
  \/ part = "history" /\ HistoryNext /\ UNCHANGED <<part, llmVars, memoryVars, callVars>>

Spec == Init /\ [][Next]_vars
=============================================================================
