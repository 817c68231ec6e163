------------------------- MODULE MCTemporalWorkflow -------------------------
(* One run of two rounds, a third one when the hook extends it, split over  *)
(* up to two executions. A behaviour is about one of two things, and what   *)
(* the other would multiply it by is left out: about the budget, where a    *)
(* report is of two tokens or none and the windows are odd, so that they    *)
(* are overrun; or about the conversation, where attempts to save die and   *)
(* nothing is reported or answered by the fallback model.                   *)
EXTENDS TemporalWorkflow

TwoTokens == [total |-> 2, prompt |-> 1, completion |-> 1]
MCUsages == {NoUsage, TwoTokens}
MCOffers == {0, 1}

VARIABLE question   \* what this behaviour is about

AboutBudget == question = "budget" /\ died' = 0
AboutConversation ==
    /\ question = "conversation"
    /\ llmUsage' = NoUsage /\ \A i \in 1..MaxCalls : result'[i].usage = NoUsage
    /\ client' # "fallback"

ChainInit == Init /\ question \in {"budget", "conversation"}
ChainNext == Next /\ (AboutBudget \/ AboutConversation) /\ UNCHANGED question
ChainSpec == ChainInit /\ [][ChainNext]_<<vars, question>> /\ Fairness
=============================================================================
