--------------------------- MODULE MCLocalServices --------------------------
(* Two services of the local runtime that share no state, so one behaviour  *)
(* exercises one of them. The bus: two publishers, one of them cancelable,  *)
(* and two subscribers on one channel, with one-slot buffers so that every  *)
(* send can block. Approvals: a tool call and a budget pause of a streamed  *)
(* run and a tool call of a run on another runtime that goes to a handler,  *)
(* all waiting at once; or a sub-agent's tool call on the stream of its     *)
(* root. Two answers.                                                       *)
EXTENDS EventBus, ToolApproval, TLC
CONSTANTS p1, p2, s1, s2, c1, q1, b1, q3, a1, a2, root, sub_runtime

OneChannelPub == [p \in Publishers |-> c1]
OneChannelSub == [s \in Subscribers |-> c1]
TwoAndOne == (p1 :> 2) @@ (p2 :> 1)
HandledAtSub == [c \in Requests |-> IF c = q3 THEN sub_runtime ELSE root]
StreamedAtSub == [c \in Requests |-> IF c = q1 THEN sub_runtime ELSE root]

VARIABLE part   \* the service this behaviour exercises

ServicesInit == BusInit /\ ApprovalInit /\ part \in {"bus", "approval"}

ServicesNext ==
    \/ part = "bus" /\ BusNext /\ UNCHANGED <<part, approvalVars>>
    \/ part = "approval" /\ ApprovalNext /\ UNCHANGED <<part, busVars>>

ServicesSpec ==
    /\ ServicesInit /\ [][ServicesNext]_<<part, busVars, approvalVars>>
    /\ BusFairness /\ ApprovalFairness
=============================================================================
