---------------------------- MODULE RunContract -----------------------------
(***************************************************************************)
(* What every runtime promises the holders of a run's handles              *)
(* (internal/runtime/runtime.go: RunHandle, StreamHandle). A run is begun  *)
(* once and ends once, in one way. A handle is given out for a run that    *)
(* was begun; it reports at most once, and then either how the run ended   *)
(* or that its own context ended. It never reports the end of a run that   *)
(* is still open, and two handles never report different ends.             *)
(***************************************************************************)
CONSTANT Holders

VARIABLES
    run,       \* how the run stands
    report,    \* report[h]: what the handle of h says about it
    ended      \* holders whose own context has ended

vars == <<run, report, ended>>

Ends == {"completed", "failed", "cancelled"}

Init == run = "none" /\ report = [h \in Holders |-> "none"] /\ ended = {}

Begin(h) ==
    /\ run = "none" /\ run' = "open"
    /\ report' = [report EXCEPT ![h] = "waiting"]
    /\ UNCHANGED ended

(* The caller who began the run was told an error: nobody has a handle.     *)
BeginUnseen == run = "none" /\ run' = "open" /\ UNCHANGED <<report, ended>>

Attach(h) ==
    /\ run # "none" /\ report[h] = "none"
    /\ report' = [report EXCEPT ![h] = "waiting"]
    /\ UNCHANGED <<run, ended>>

Close ==
    /\ run = "open" /\ run' \in Ends
    /\ UNCHANGED <<report, ended>>

(* Done closes, with the end of the run.                                    *)
Deliver(h) ==
    /\ run \in Ends /\ report[h] = "waiting"
    /\ report' = [report EXCEPT ![h] = run]
    /\ UNCHANGED <<run, ended>>

(* A context ends: Cancel, a timeout, the caller's context.                 *)
EndContexts ==
    /\ ended \subseteq ended' /\ ended' \subseteq Holders
    /\ UNCHANGED <<run, report>>

(* Done closes because the context of this handle ended first.              *)
GiveUp(h) ==
    /\ report[h] = "waiting" /\ h \in ended
    /\ report' = [report EXCEPT ![h] = "stopped"]
    /\ UNCHANGED <<run, ended>>

(* The process of the handles is gone.                                      *)
Lose ==
    /\ report' = [h \in Holders |-> IF report[h] = "none" THEN "none" ELSE "lost"]
    /\ ended' \subseteq Holders /\ UNCHANGED run

Next ==
    \/ BeginUnseen \/ Close \/ EndContexts \/ Lose
    \/ \E h \in Holders : Begin(h) \/ Attach(h) \/ Deliver(h) \/ GiveUp(h)

Spec == Init /\ [][Next]_vars
=============================================================================
