----------------------------- MODULE MCRestate ------------------------------
(* A run on Restate from inside and from outside, one of them in a          *)
(* behaviour. The loop: one round, a second one when the hook extends it,   *)
(* and the final call; every report has two tokens and the window three, so *)
(* that windows are overrun. The handles: the one of the process that sends *)
(* the run, and one that a process which lost it asks for.                  *)
EXTENDS RestateLoop, RestateRuns

MCTwoTokens == {[total |-> 2, prompt |-> 1, completion |-> 1]}
MCHolders == {"a", "b"}

VARIABLE part   \* the side of the run this behaviour exercises

RestateInit ==
    /\ LoopInit /\ Init /\ part \in {"loop", "handles"}
    /\ part = "loop" => mode = "run"

RestateNext ==
    \/ part = "loop" /\ LoopNext /\ UNCHANGED <<part, vars>>
    \/ part = "handles" /\ Next /\ UNCHANGED <<part, loopVars>>

RestateSpec ==
    /\ RestateInit /\ [][RestateNext]_<<part, loopVars, vars>>
    /\ Fairness
=============================================================================
