---------------------------- MODULE MCAgentLoop ----------------------------
(* Instances of AgentLoop: sessions of two runs with short loops; the hook  *)
(* grants nothing, one more round, or more than the cap.                    *)
EXTENDS AgentLoop
CONSTANTS r1, r2

Offers == {0, 1, 5}
=============================================================================
