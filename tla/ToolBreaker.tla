---------------------------- MODULE ToolBreaker ----------------------------
(***************************************************************************)
(* The per-tool circuit breaker of internal/runtime/base/                  *)
(* circuit_breaker.go. The state of one tool is a value, the methods are   *)
(* operators on it; the runtimes hold one state per tool name, ask         *)
(* IsTripped before a call and record the results of a batch in call       *)
(* order. Arguments are known by their hash; 0 is the hash of arguments    *)
(* that cannot be encoded.                                                 *)
(***************************************************************************)
EXTENDS Integers, Sequences

CONSTANTS
    MaxConsecutiveSameArgs,  \* failures with the same arguments that trip; 0 = off
    PatternWindowSize,       \* window of the A-B-A-B detector; below 4 = off
    ResetAfter               \* time a trip lasts; 0 = the rest of the run

ASSUME BreakerAssumption ==
    /\ MaxConsecutiveSameArgs \in Nat
    /\ PatternWindowSize \in Nat
    /\ ResetAfter \in Nat

NewToolState ==
    [lastHash |-> 0, consecutive |-> 0, window |-> <<>>, tripped |-> FALSE, at |-> 0]

enabled == MaxConsecutiveSameArgs > 0 \/ PatternWindowSize >= 4

isAlternating(w) ==
    /\ Len(w) >= 4 /\ Len(w) % 2 = 0
    /\ w[1] # 0 /\ w[2] # 0 /\ w[1] # w[2]
    /\ \A i \in 1..Len(w) : w[i] = IF i % 2 = 1 THEN w[1] ELSE w[2]

shouldTrip(st) ==
    \/ MaxConsecutiveSameArgs > 0 /\ st.consecutive >= MaxConsecutiveSameArgs
    \/ /\ PatternWindowSize >= 4 /\ Len(st.window) >= PatternWindowSize
       /\ isAlternating(st.window)

(* A trip that is older than ResetAfter is over, and the whole state of the *)
(* tool with it: AfterReset is what IsTripped leaves behind.                *)
Expired(st, now) == st.tripped /\ ResetAfter > 0 /\ now - st.at >= ResetAfter
IsTripped(st, now) == enabled /\ st.tripped /\ ~Expired(st, now)
AfterReset(st, now) == IF enabled /\ Expired(st, now) THEN NewToolState ELSE st

LastWindow(w) ==
    IF Len(w) > PatternWindowSize THEN SubSeq(w, Len(w) - PatternWindowSize + 1, Len(w)) ELSE w

CountFailure(st, h) ==
    [st EXCEPT !.lastHash = h,
               !.consecutive = IF h # 0 /\ h = st.lastHash THEN @ + 1 ELSE 1,
               !.window = IF h # 0 /\ PatternWindowSize >= 4 THEN LastWindow(Append(@, h)) ELSE @]

RecordFailure(st, h, now) ==
    LET counted == CountFailure(st, h)
    IN  IF ~enabled \/ st.tripped THEN st
        ELSE IF shouldTrip(counted) THEN [counted EXCEPT !.tripped = TRUE, !.at = now]
        ELSE counted

RecordSuccess(st) == IF enabled /\ ~st.tripped THEN NewToolState ELSE st

ApplyToolCircuitResult(st, counts, h, failed, now) ==
    IF ~counts THEN st
    ELSE IF failed THEN RecordFailure(st, h, now)
    ELSE RecordSuccess(st)
=============================================================================
