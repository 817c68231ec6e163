---------------------------- MODULE MCRunBudget ----------------------------
(* Instance of RunBudget: usages of one and two tokens against small        *)
(* windows, so that breaches of the root, of one sub-agent and of both at   *)
(* once all happen, and approvals run out.                                  *)
EXTENDS RunBudget

MCUsages == {[total |-> 1, prompt |-> 1, completion |-> 0],
             [total |-> 2, prompt |-> 1, completion |-> 1]}
=============================================================================
