------------------------ MODULE LocalServices_proofs ------------------------
(***************************************************************************)
(* Proofs about the services a local run is made of, each for every size.  *)
(*                                                                         *)
(* RunBudget: the budget of a run and its sub-agents is enforced, for every*)
(* budget configuration that NewAgent accepts, every number of sub-agents  *)
(* and every retry policy. IInv is the inductive invariant.                *)
(*                                                                         *)
(* EventBus: for any number of publishers, subscribers and channels and any*)
(* buffer capacity, no Publish sends on a closed channel, and every        *)
(* subscriber sees the events of a publisher in order, once and without a  *)
(* gap.                                                                    *)
(*                                                                         *)
(* ToolApproval: for every number of requests, runtimes and answers.       *)
(* TokenInv is inductive; for requests that are answered one way it gives  *)
(* that one answer per token succeeds and that nobody is stuck.            *)
(***************************************************************************)
EXTENDS RunBudget, EventBus, ToolApproval, SequenceTheorems, FiniteSetTheorems, TLAPS
-----------------------------------------------------------------------------
(* The budget of a run. *)

USE DEF Terminal, Running, RootStates

(* A window of an enforced limit is not empty. *)
LEMMA WindowPositive ==
    /\ tokenWindow \in Nat /\ costWindow \in Nat
    /\ MaxTokens > 0 => tokenWindow > 0
    /\ MaxCost > 0 => costWindow > 0
BY BudgetConfigAssumption DEF tokenWindow, costWindow

LEMMA MaxApprovalPositive == effectiveMaxApproval \in Nat \ {0}
BY BudgetConfigAssumption DEF effectiveMaxApproval, defaultMaxApprovals

(* An approval opens a new period: right after it nothing is breached. *)
LEMMA AdvanceClears ==
    ASSUME NEW t \in Tracker
    PROVE  /\ AdvanceWatermark(t) \in Tracker
           /\ ~checkLimits(AdvanceWatermark(t))
           /\ AdvanceWatermark(t).tokens = t.tokens
           /\ AdvanceWatermark(t).wmTokens = t.tokens
           /\ AdvanceWatermark(t).approvals = t.approvals + 1
<1> DEFINE w == AdvanceWatermark(t)
<1>1. /\ w.tokens = t.tokens /\ w.cost = t.cost
      /\ w.wmTokens = t.tokens /\ w.wmCost = t.cost
      /\ w.approvals = t.approvals + 1
  BY DEF Tracker, AdvanceWatermark
<1>2. t.tokens \in Nat /\ t.cost \in Nat /\ t.approvals \in Nat
  BY DEF Tracker
<1>5. w \in Tracker
  <2>1. t.approvals + 1 \in Nat
    BY <1>2
  <2>. QED
    BY <2>1, <1>2 DEF Tracker, AdvanceWatermark
<1>3. ~TokensExceeded(w)
  BY <1>1, <1>2, WindowPositive DEF TokensExceeded
<1>4. ~CostExceeded(w)
  BY <1>1, <1>2, WindowPositive DEF CostExceeded
<1>. QED
  BY <1>1, <1>3, <1>4, <1>5 DEF checkLimits

LEMMA AddType ==
    ASSUME NEW t \in Tracker, NEW u \in Usages
    PROVE  /\ Add(t, u) \in Tracker
           /\ Add(t, u).tokens = t.tokens + u.total
           /\ Add(t, u).wmTokens = t.wmTokens
           /\ Add(t, u).approvals = t.approvals
           /\ u.total \in Nat /\ u.total <= MaxCallTokens
<1>1. u \in LLMUsage /\ u.total <= MaxCallTokens
  BY RunTreeAssumption
<1>2. u.prompt * PromptRate \in Nat /\ u.completion * CompletionRate \in Nat
  BY <1>1, BudgetConfigAssumption DEF LLMUsage
<1>3. CostOf(u) \in Nat
  BY <1>2 DEF CostOf
<1>4. t.tokens + u.total \in Nat /\ t.cost + CostOf(u) \in Nat
  BY <1>1, <1>3 DEF Tracker, LLMUsage
<1>5. Add(t, u) \in Tracker
  BY <1>4 DEF Add, Tracker
<1>. QED
  BY <1>1, <1>5 DEF Add, Tracker, LLMUsage

(* A tracker within its limits has not used up its token window. *)
LEMMA WithinWindow ==
    ASSUME NEW t \in Tracker, ~checkLimits(t), MaxTokens > 0
    PROVE  t.tokens < t.wmTokens + tokenWindow
BY WindowPositive DEF checkLimits, TokensExceeded, Tracker

(* Counting the attempts that were told to stop. *)
LEMMA OverCardinality ==
    ASSUME NEW S \in SUBSET AttemptIds
    PROVE  /\ IsFiniteSet(S)
           /\ Cardinality(S) \in Nat
           /\ Cardinality(AttemptIds) \in Nat
           /\ Cardinality(S) <= Cardinality(AttemptIds)
           /\ \A x \in AttemptIds \ S : Cardinality(S \cup {x}) = Cardinality(S) + 1
<1>1. IsFiniteSet(AttemptIds)
  <2>1. IsFiniteSet(1..SubAgentAttempts)
    BY FS_Interval, RunTreeAssumption
  <2>. QED
    BY <2>1, FS_Product, RunTreeAssumption DEF AttemptIds
<1>2. IsFiniteSet(S) /\ Cardinality(S) <= Cardinality(AttemptIds)
  BY <1>1, FS_Subset
<1>3. Cardinality(S) \in Nat /\ Cardinality(AttemptIds) \in Nat
  BY <1>1, <1>2, FS_CardinalityType
<1>4. \A x \in AttemptIds \ S : Cardinality(S \cup {x}) = Cardinality(S) + 1
  BY <1>2, FS_AddElement
<1>. QED
  BY <1>2, <1>3, <1>4

(* The two facts of multiplication the bounds need. *)
LEMMA MulSucc ==
    ASSUME NEW n \in Nat, NEW u \in Nat
    PROVE  n * u \in Nat /\ (n + 1) * u = n * u + u
OBVIOUS

LEMMA MulMono ==
    ASSUME NEW m \in Nat, NEW n \in Nat, NEW u \in Nat, m <= n
    PROVE  m * u <= n * u
<1>1. PICK d \in Nat : n = m + d
  <2>. WITNESS n - m \in Nat
  <2>. QED OBVIOUS
<1>2. n * u = m * u + d * u
  BY <1>1
<1>3. m * u \in Nat /\ d * u \in Nat
  OBVIOUS
<1>. QED
  BY <1>2, <1>3

(* What applyBudgetExceeded does to the root's control state. *)
LEMMA ApplyOutcome ==
    ASSUME NEW t, NEW next, applyBudgetExceeded(t, next)
    PROVE  /\ root' \in {"await", "approvalUnavailable", "budgetExceeded"}
           /\ root' = "await" => ~ApprovalsExhausted(t)
           /\ resume' = next \/ resume' = resume
BY DEF applyBudgetExceeded

(* One LLM call of the root keeps the budget part of the invariant. *)
LEMMA RootCall ==
    ASSUME IInv, NEW u \in Usages, NEW next \in Running \cup {"completed"},
           root \in {"llm", "llmFinal"},
           checkBudget(u, next), UNCHANGED <<iter, childVars, ctxDone>>
    PROVE  IInv'
<1> USE AddType DEF IInv, childVars
<1> DEFINE t == Add(tracker, u)
<1>1. tracker \in Tracker /\ tracker' = t /\ t \in Tracker
  BY DEF checkBudget, TypeOK
<1>2. /\ \/ checkLimits(t) /\ root' \in {"await", "approvalUnavailable", "budgetExceeded"}
         \/ ~checkLimits(t) /\ root' = next
      /\ root' = "await" => ~ApprovalsExhausted(t)
      /\ resume' = next \/ resume' = resume
  BY ApplyOutcome DEF checkBudget
<1>3. TypeOK'
  BY <1>1, <1>2 DEF TypeOK
<1>4. NoProgressOverBudget' /\ StoppedOnlyWhenOver' /\ AwaitHasApprovalsLeft'
  BY <1>1, <1>2 DEF NoProgressOverBudget, StoppedOnlyWhenOver, AwaitHasApprovalsLeft
<1>5. ApprovalsBounded' /\ WatermarkBounded'
  BY <1>1 DEF ApprovalsBounded, WatermarkBounded
<1>6. ChildrenOnlyInBatch' /\ OverAttemptsEnded' /\ BatchOvershoot'
  BY <1>2 DEF ChildrenOnlyInBatch, OverAttemptsEnded, BatchOvershoot
<1>7. OvershootBounded'
  <2> SUFFICES ASSUME MaxTokens > 0
               PROVE  t.tokens < t.wmTokens + tokenWindow
                                   + (Cardinality(over) + 1) * MaxCallTokens
    BY <1>1 DEF OvershootBounded
  <2>1. tracker.tokens < tracker.wmTokens + tokenWindow
    BY WithinWindow, <1>1 DEF NoProgressOverBudget
  <2>2. Cardinality(over) \in Nat
    BY OverCardinality DEF TypeOK
  <2>3. /\ Cardinality(over) * MaxCallTokens \in Nat
        /\ (Cardinality(over) + 1) * MaxCallTokens
              = Cardinality(over) * MaxCallTokens + MaxCallTokens
    BY <2>2, MulSucc, RunTreeAssumption
  <2>. QED
    BY <1>1, <2>1, <2>3, WindowPositive, RunTreeAssumption DEF Tracker
<1>. QED
  BY <1>3, <1>4, <1>5, <1>6, <1>7

(* Every initial state satisfies the invariant. *)
LEMMA InitIInv == Init => IInv
<1> SUFFICES ASSUME Init PROVE IInv
  OBVIOUS
<1>1. tracker \in Tracker /\ tracker.tokens = 0 /\ tracker.wmTokens = 0
      /\ tracker.cost = 0 /\ tracker.wmCost = 0 /\ tracker.approvals = 0
  BY DEF Init, NewBudgetTracker, Tracker
<1>2. TypeOK
  <2>1. 1 \in 1..SubAgentAttempts
    BY RunTreeAssumption
  <2>2. attempt \in [Children -> 1..SubAgentAttempts]
    BY <2>1 DEF Init
  <2>. QED
    BY <1>1, <2>2 DEF Init, TypeOK
<1>3. ~checkLimits(tracker)
  BY <1>1, WindowPositive DEF checkLimits, TokensExceeded, CostExceeded
<1>4. Cardinality(over) = 0
  BY FS_EmptySet DEF Init
<1>5. OvershootBounded
  BY <1>1, <1>4, WindowPositive, RunTreeAssumption DEF OvershootBounded
<1>6. PeriodTokens \in Nat
  <2>1. Cardinality(AttemptIds) + 1 \in Nat
    BY OverCardinality
  <2>. QED
    BY <2>1, MulSucc, WindowPositive, RunTreeAssumption DEF PeriodTokens
<1>7. WatermarkBounded
  BY <1>1, <1>6 DEF WatermarkBounded
<1>. QED
  BY <1>1, <1>2, <1>3, <1>5, <1>7, MaxApprovalPositive
  DEF IInv, Init, NoProgressOverBudget, StoppedOnlyWhenOver, ApprovalsBounded,
      AwaitHasApprovalsLeft, ChildrenOnlyInBatch, OverAttemptsEnded, BatchOvershoot

(* The bound of OvershootBounded, from the one that holds during a batch. *)
LEMMA BatchWithinOvershoot ==
    ASSUME NEW x \in Nat, NEW w \in Nat, NEW S \in SUBSET AttemptIds,
           x < w + tokenWindow + Cardinality(S) * MaxCallTokens
    PROVE  x < w + tokenWindow + (Cardinality(S) + 1) * MaxCallTokens
<1>1. Cardinality(S) \in Nat
  BY OverCardinality
<1>2. /\ Cardinality(S) * MaxCallTokens \in Nat
      /\ (Cardinality(S) + 1) * MaxCallTokens
            = Cardinality(S) * MaxCallTokens + MaxCallTokens
  BY <1>1, MulSucc, RunTreeAssumption
<1>. QED
  BY <1>2, WindowPositive, RunTreeAssumption

(* Starting a tool batch. *)
LEMMA StartToolsIInv == IInv /\ StartTools => IInv'
<1> SUFFICES ASSUME IInv, StartTools PROVE IInv'
  OBVIOUS
<1> USE DEF IInv, StartTools
<1>1. TypeOK'
  <2>1. 1 \in 1..SubAgentAttempts
    BY RunTreeAssumption
  <2>2. /\ attempt' \in [Children -> 1..SubAgentAttempts]
        /\ child' \in [Children -> {"idle", "running", "returned"}]
        /\ calls' \in [Children -> Nat]
    BY <2>1
  <2>. QED
    BY <2>2 DEF TypeOK
<1>2. Cardinality(over') = 0
  BY FS_EmptySet
<1>3. MaxTokens > 0 => tracker.tokens < tracker.wmTokens + tokenWindow
  BY WithinWindow DEF TypeOK, NoProgressOverBudget
<1>4. BatchOvershoot' /\ OvershootBounded'
  BY <1>2, <1>3, WindowPositive, RunTreeAssumption
  DEF BatchOvershoot, OvershootBounded, TypeOK, Tracker
<1>5. NoProgressOverBudget' /\ StoppedOnlyWhenOver' /\ AwaitHasApprovalsLeft'
  BY DEF NoProgressOverBudget, StoppedOnlyWhenOver, AwaitHasApprovalsLeft
<1>6. ApprovalsBounded' /\ WatermarkBounded' /\ ChildrenOnlyInBatch' /\ OverAttemptsEnded'
  BY DEF ApprovalsBounded, WatermarkBounded, ChildrenOnlyInBatch, OverAttemptsEnded
<1>. QED
  BY <1>1, <1>4, <1>5, <1>6

(* What a failed sub-agent attempt changes. *)
LEMMA FailAttemptFacts ==
    ASSUME TypeOK, NEW c \in Children, child[c] = "running", FailAttempt(c)
    PROVE  /\ attempt' \in [Children -> 1..SubAgentAttempts]
           /\ child' \in [Children -> {"idle", "running", "returned"}]
           /\ calls' \in [Children -> Nat]
           /\ \A d \in Children \ {c} : attempt'[d] = attempt[d] /\ child'[d] = child[d]
           /\ attempt[c] < attempt'[c] \/ child'[c] = "returned"
           /\ attempt[c] <= attempt'[c]
<1>1. CASE /\ attempt[c] < SubAgentAttempts
           /\ attempt' = [attempt EXCEPT ![c] = @ + 1]
           /\ calls' = [calls EXCEPT ![c] = 0]
           /\ UNCHANGED child
  BY <1>1, RunTreeAssumption DEF TypeOK
<1>2. CASE /\ child' = [child EXCEPT ![c] = "returned"]
           /\ UNCHANGED <<attempt, calls>>
  BY <1>2 DEF TypeOK
<1>. QED
  BY <1>1, <1>2 DEF FailAttempt

(* An LLM call of a sub-agent: the only step that spends during a batch. *)
LEMMA ChildLLMIInv ==
    ASSUME IInv, NEW c \in Children, ChildLLM(c)
    PROVE  IInv'
<1> USE DEF IInv
<1>1. /\ child[c] = "running" /\ root = "toolsWait" /\ tracker \in Tracker
      /\ UNCHANGED <<root, resume, iter, ctxDone>>
  BY DEF ChildLLM, ChildrenOnlyInBatch, TypeOK
<1>2. PICK u \in Usages :
        /\ tracker' = Add(tracker, u)
        /\ IF checkLimits(Add(tracker, u))
           THEN /\ over' = over \cup {<<c, attempt[c]>>}
                /\ FailAttempt(c)
           ELSE ChildContinues(c)
  BY DEF ChildLLM
<1>3. /\ tracker' \in Tracker
      /\ tracker'.tokens = tracker.tokens + u.total
      /\ tracker'.wmTokens = tracker.wmTokens
      /\ tracker'.approvals = tracker.approvals
      /\ u.total \in Nat /\ u.total <= MaxCallTokens
  BY <1>1, <1>2, AddType
<1>4. /\ child' \in [Children -> {"idle", "running", "returned"}]
      /\ calls' \in [Children -> Nat]
      /\ attempt' \in [Children -> 1..SubAgentAttempts]
      /\ \A d \in Children \ {c} : attempt'[d] = attempt[d] /\ child'[d] = child[d]
      /\ attempt[c] <= attempt'[c]
  <2>1. CASE checkLimits(Add(tracker, u))
    BY <1>1, <1>2, <2>1, FailAttemptFacts
  <2>2. CASE ~checkLimits(Add(tracker, u))
    BY <1>2, <2>2 DEF TypeOK, ChildContinues
  <2>. QED
    BY <2>1, <2>2
<1>5. <<c, attempt[c]>> \in AttemptIds \ over
  BY <1>1 DEF TypeOK, AttemptIds, OverAttemptsEnded
<1>6. over' \in SUBSET AttemptIds
  BY <1>2, <1>5 DEF TypeOK, ChildContinues
<1>7. TypeOK'
  BY <1>1, <1>3, <1>4, <1>6 DEF TypeOK
<1>8. NoProgressOverBudget' /\ StoppedOnlyWhenOver' /\ AwaitHasApprovalsLeft'
  BY <1>1 DEF NoProgressOverBudget, StoppedOnlyWhenOver, AwaitHasApprovalsLeft
<1>9. ApprovalsBounded' /\ WatermarkBounded' /\ ChildrenOnlyInBatch'
  BY <1>1, <1>3, <1>4 DEF ApprovalsBounded, WatermarkBounded, ChildrenOnlyInBatch
<1>10. OverAttemptsEnded'
  <2>1. CASE checkLimits(Add(tracker, u))
    <3> SUFFICES ASSUME NEW d \in Children, NEW k \in 1..SubAgentAttempts,
                        <<d, k>> \in over'
                 PROVE  k < attempt'[d] \/ child'[d] = "returned"
      BY DEF OverAttemptsEnded
    <3>1. /\ attempt[c] < attempt'[c] \/ child'[c] = "returned"
          /\ attempt[c] <= attempt'[c]
      BY <1>1, <1>2, <2>1, FailAttemptFacts
    <3>2. CASE <<d, k>> \in over
      <4>1. k < attempt[d] \/ child[d] = "returned"
        BY <3>2 DEF OverAttemptsEnded
      <4>2. attempt[d] \in Nat /\ attempt'[d] \in Nat
        BY <1>4 DEF TypeOK
      <4>. QED
        BY <1>1, <1>4, <4>1, <4>2
    <3>3. CASE <<d, k>> = <<c, attempt[c]>>
      BY <3>1, <3>3
    <3>. QED
      BY <1>2, <2>1, <3>2, <3>3
  <2>2. CASE ~checkLimits(Add(tracker, u))
    BY <1>2, <2>2 DEF OverAttemptsEnded, TypeOK, ChildContinues
  <2>. QED
    BY <2>1, <2>2
<1>11. ASSUME MaxTokens > 0
       PROVE  tracker'.tokens < tracker'.wmTokens + tokenWindow
                                  + Cardinality(over') * MaxCallTokens
  <2>1. Cardinality(over) \in Nat /\ Cardinality(over') \in Nat
    BY OverCardinality, <1>6 DEF TypeOK
  <2>2. /\ Cardinality(over) * MaxCallTokens \in Nat
        /\ Cardinality(over') * MaxCallTokens \in Nat
        /\ (Cardinality(over) + 1) * MaxCallTokens
              = Cardinality(over) * MaxCallTokens + MaxCallTokens
    BY <2>1, MulSucc, RunTreeAssumption
  <2>3. tracker.tokens < tracker.wmTokens + tokenWindow
                            + Cardinality(over) * MaxCallTokens
    BY <1>1, <1>11 DEF BatchOvershoot
  <2>4. CASE checkLimits(Add(tracker, u))
    <3>1. Cardinality(over') = Cardinality(over) + 1
      BY <1>2, <1>5, <2>4, OverCardinality DEF TypeOK
    <3>. QED
      BY <1>1, <1>3, <2>2, <2>3, <3>1, WindowPositive, RunTreeAssumption DEF Tracker
  <2>5. CASE ~checkLimits(Add(tracker, u))
    <3>1. tracker'.tokens < tracker'.wmTokens + tokenWindow
      BY <1>2, <1>3, <1>11, <2>5, WithinWindow
    <3>. QED
      BY <1>3, <2>2, <3>1, WindowPositive DEF Tracker
  <2>. QED
    BY <2>4, <2>5
<1>12. BatchOvershoot' /\ OvershootBounded'
  BY <1>3, <1>6, <1>11, BatchWithinOvershoot DEF BatchOvershoot, OvershootBounded, Tracker
<1>. QED
  BY <1>7, <1>8, <1>9, <1>10, <1>12

(* A sub-agent attempt that fails for another reason spends nothing. *)
LEMMA ChildErrorIInv ==
    ASSUME IInv, NEW c \in Children, ChildError(c)
    PROVE  IInv'
<1> USE DEF IInv, ChildError
<1>1. /\ attempt' \in [Children -> 1..SubAgentAttempts]
      /\ child' \in [Children -> {"idle", "running", "returned"}]
      /\ calls' \in [Children -> Nat]
      /\ \A d \in Children \ {c} : attempt'[d] = attempt[d] /\ child'[d] = child[d]
      /\ attempt[c] <= attempt'[c]
  BY FailAttemptFacts
<1>2. TypeOK'
  BY <1>1 DEF TypeOK
<1>3. root = "toolsWait"
  BY DEF ChildrenOnlyInBatch
<1>4. NoProgressOverBudget' /\ StoppedOnlyWhenOver' /\ AwaitHasApprovalsLeft'
      /\ ApprovalsBounded' /\ WatermarkBounded' /\ BatchOvershoot' /\ OvershootBounded'
  BY DEF NoProgressOverBudget, StoppedOnlyWhenOver, AwaitHasApprovalsLeft,
         ApprovalsBounded, WatermarkBounded, BatchOvershoot, OvershootBounded
<1>5. ChildrenOnlyInBatch'
  BY <1>3 DEF ChildrenOnlyInBatch
<1>6. OverAttemptsEnded'
  <2> SUFFICES ASSUME NEW d \in Children, NEW k \in 1..SubAgentAttempts,
                      <<d, k>> \in over
               PROVE  k < attempt'[d] \/ child'[d] = "returned"
    BY DEF OverAttemptsEnded
  <2>1. k < attempt[d] \/ child[d] = "returned"
    BY DEF OverAttemptsEnded
  <2>2. attempt[d] \in Nat /\ attempt'[d] \in Nat
    BY <1>1 DEF TypeOK
  <2>. QED
    BY <1>1, <2>1, <2>2
<1>. QED
  BY <1>2, <1>4, <1>5, <1>6

(* A sub-agent's call without usage spends nothing either. *)
LEMMA ChildUnmeteredIInv ==
    ASSUME IInv, NEW c \in Children, ChildUnmetered(c)
    PROVE  IInv'
<1> USE DEF IInv, ChildUnmetered, ChildContinues
<1>1. TypeOK'
  BY DEF TypeOK
<1>2. root = "toolsWait"
  BY DEF ChildrenOnlyInBatch
<1>3. NoProgressOverBudget' /\ StoppedOnlyWhenOver' /\ AwaitHasApprovalsLeft'
      /\ ApprovalsBounded' /\ WatermarkBounded' /\ BatchOvershoot' /\ OvershootBounded'
  BY DEF NoProgressOverBudget, StoppedOnlyWhenOver, AwaitHasApprovalsLeft,
         ApprovalsBounded, WatermarkBounded, BatchOvershoot, OvershootBounded
<1>4. ChildrenOnlyInBatch' /\ OverAttemptsEnded'
  BY <1>2 DEF ChildrenOnlyInBatch, OverAttemptsEnded, TypeOK
<1>. QED
  BY <1>1, <1>3, <1>4

(* The LLM calls of the root. *)
LEMMA RootCallsIInv == IInv /\ (RootLLM \/ RootFinalLLM) => IInv'
<1>1. ASSUME IInv, RootLLM PROVE IInv'
  <2>1. PICK u \in Usages, b \in BOOLEAN : checkBudget(u, AfterLLM(b))
    BY <1>1 DEF RootLLM
  <2>2. AfterLLM(b) \in Running \cup {"completed"}
    BY DEF AfterLLM
  <2>. QED
    BY <1>1, <2>1, <2>2, RootCall DEF RootLLM
<1>2. ASSUME IInv, RootFinalLLM PROVE IInv'
  BY <1>2, RootCall DEF RootFinalLLM
<1>. QED
  BY <1>1, <1>2

(* Steps that only move the root leave the accounts as they are. *)
LEMMA RootMovesIInv ==
    ASSUME IInv, RootUnmetered \/ RootLLMError \/ BudgetDenied \/ AwaitInterrupted
    PROVE  IInv'
<1>1. /\ UNCHANGED <<tracker, resume, iter, childVars, ctxDone>>
      /\ root \in {"llm", "llmFinal", "await"}
      /\ root' \in {"failed", "budgetExceeded", "completed", "llmFinal", "tools"}
      /\ root' = "budgetExceeded" <=> root = "await"
  BY DEF RootUnmetered, AfterLLM, RootLLMError, BudgetDenied, AwaitInterrupted
<1>. QED
  BY <1>1 DEF IInv, childVars, TypeOK, NoProgressOverBudget, StoppedOnlyWhenOver,
              AwaitHasApprovalsLeft, ApprovalsBounded, WatermarkBounded,
              ChildrenOnlyInBatch, OverAttemptsEnded, BatchOvershoot, OvershootBounded

(* The batch is back: the root enforces what its sub-agents spent. *)
LEMMA ToolsReturnedIInv == IInv /\ ToolsReturned => IInv'
<1> SUFFICES ASSUME IInv, ToolsReturned PROVE IInv'
  OBVIOUS
<1> USE DEF IInv, ToolsReturned, childVars
<1>1. /\ \/ checkLimits(tracker) /\ root' \in {"await", "approvalUnavailable", "budgetExceeded"}
         \/ ~checkLimits(tracker) /\ root' = "llm"
      /\ root' = "await" => ~ApprovalsExhausted(tracker)
      /\ resume' = "llm" \/ resume' = resume
  BY ApplyOutcome
<1>2. TypeOK'
  BY <1>1 DEF TypeOK
<1>3. NoProgressOverBudget' /\ StoppedOnlyWhenOver' /\ AwaitHasApprovalsLeft'
  BY <1>1 DEF NoProgressOverBudget, StoppedOnlyWhenOver, AwaitHasApprovalsLeft
<1>4. ApprovalsBounded' /\ WatermarkBounded' /\ OvershootBounded' /\ OverAttemptsEnded'
  BY DEF ApprovalsBounded, WatermarkBounded, OvershootBounded, OverAttemptsEnded
<1>5. ChildrenOnlyInBatch' /\ BatchOvershoot'
  BY <1>1 DEF ChildrenOnlyInBatch, BatchOvershoot
<1>. QED
  BY <1>2, <1>3, <1>4, <1>5

LEMMA PeriodType == PeriodTokens \in Nat
<1>1. Cardinality(AttemptIds) + 1 \in Nat
  BY OverCardinality
<1>. QED
  BY <1>1, MulSucc, WindowPositive, RunTreeAssumption DEF PeriodTokens

(* What has been spent since the last approval is less than one period. *)
LEMMA SpentSinceApproval ==
    ASSUME IInv, MaxTokens > 0
    PROVE  tracker.tokens < tracker.wmTokens + PeriodTokens
<1> DEFINE n == Cardinality(over)
           m == Cardinality(AttemptIds)
<1>1. n \in Nat /\ m \in Nat /\ n + 1 \in Nat /\ m + 1 \in Nat /\ n + 1 <= m + 1
  BY OverCardinality DEF IInv, TypeOK
<1>2. (n + 1) * MaxCallTokens <= (m + 1) * MaxCallTokens
  BY <1>1, MulMono, RunTreeAssumption
<1>3. (n + 1) * MaxCallTokens \in Nat /\ (m + 1) * MaxCallTokens \in Nat
  BY <1>1, MulSucc, RunTreeAssumption
<1>4. tracker.tokens < tracker.wmTokens + tokenWindow + (n + 1) * MaxCallTokens
  BY DEF IInv, OvershootBounded
<1>5. tracker.tokens \in Nat /\ tracker.wmTokens \in Nat
  BY DEF IInv, TypeOK, Tracker
<1>. QED
  BY <1>2, <1>3, <1>4, <1>5, WindowPositive DEF PeriodTokens

(* An approval opens a new period and counts as one. *)
LEMMA BudgetApprovedIInv == IInv /\ BudgetApproved => IInv'
<1> SUFFICES ASSUME IInv, BudgetApproved PROVE IInv'
  OBVIOUS
<1> USE DEF IInv, BudgetApproved, childVars
<1>1. /\ tracker \in Tracker /\ tracker' \in Tracker
      /\ ~checkLimits(tracker')
      /\ tracker'.tokens = tracker.tokens
      /\ tracker'.wmTokens = tracker.tokens
      /\ tracker'.approvals = tracker.approvals + 1
  BY AdvanceClears DEF TypeOK
<1>2. root' \in Running \cup {"completed"}
  BY DEF TypeOK
<1>3. TypeOK'
  BY <1>1, <1>2 DEF TypeOK
<1>4. NoProgressOverBudget' /\ StoppedOnlyWhenOver' /\ AwaitHasApprovalsLeft'
  BY <1>1, <1>2 DEF NoProgressOverBudget, StoppedOnlyWhenOver, AwaitHasApprovalsLeft
<1>5. ApprovalsBounded'
  BY <1>1, MaxApprovalPositive
  DEF ApprovalsBounded, AwaitHasApprovalsLeft, ApprovalsExhausted, Tracker
<1>6. ChildrenOnlyInBatch' /\ OverAttemptsEnded' /\ BatchOvershoot'
  BY <1>2 DEF ChildrenOnlyInBatch, OverAttemptsEnded, BatchOvershoot
<1>7. OvershootBounded'
  <2>1. Cardinality(over) + 1 \in Nat
    BY OverCardinality DEF TypeOK
  <2>2. (Cardinality(over) + 1) * MaxCallTokens \in Nat
    BY <2>1, MulSucc, RunTreeAssumption
  <2>. QED
    BY <1>1, <2>2, WindowPositive DEF OvershootBounded, Tracker
<1>8. WatermarkBounded'
  <2> SUFFICES ASSUME MaxTokens > 0
               PROVE  tracker.tokens <= (tracker.approvals + 1) * PeriodTokens
    BY <1>1 DEF WatermarkBounded
  <2>1. tracker.approvals \in Nat /\ tracker.tokens \in Nat /\ tracker.wmTokens \in Nat
    BY <1>1 DEF Tracker
  <2>2. /\ tracker.approvals * PeriodTokens \in Nat
        /\ (tracker.approvals + 1) * PeriodTokens
              = tracker.approvals * PeriodTokens + PeriodTokens
    BY <2>1, MulSucc, PeriodType
  <2>3. tracker.tokens < tracker.wmTokens + PeriodTokens
    BY SpentSinceApproval
  <2>. QED
    BY <2>1, <2>2, <2>3, PeriodType DEF WatermarkBounded
<1>. QED
  BY <1>3, <1>4, <1>5, <1>6, <1>7, <1>8

(* Cancellation, and steps that change nothing. *)
LEMMA FrameIInv ==
    ASSUME IInv, ContextDone \/ Finished \/ UNCHANGED vars
    PROVE  IInv'
<1>1. UNCHANGED <<tracker, root, resume, iter, childVars>> /\ ctxDone' \in BOOLEAN
  BY DEF ContextDone, Finished, vars, childVars, IInv, TypeOK
<1>. QED
  BY <1>1 DEF IInv, childVars, TypeOK, NoProgressOverBudget, StoppedOnlyWhenOver,
              AwaitHasApprovalsLeft, ApprovalsBounded, WatermarkBounded,
              ChildrenOnlyInBatch, OverAttemptsEnded, BatchOvershoot, OvershootBounded

(* Every step of the run tree keeps the invariant. *)
LEMMA NextIInv == IInv /\ [Next]_vars => IInv'
BY RootCallsIInv, RootMovesIInv, StartToolsIInv, ToolsReturnedIInv, ChildLLMIInv,
   ChildUnmeteredIInv, ChildErrorIInv, BudgetApprovedIInv, FrameIInv
DEF Next, Step

(* The strengthened invariant holds in every reachable state. *)
THEOREM Inductive == Spec => []IInv
BY InitIInv, NextIInv, PTL DEF Spec

(* Types: every variable keeps its type, whatever usage is reported. *)
THEOREM TypeCorrect == Spec => []TypeOK
<1>1. IInv => TypeOK
  BY DEF IInv
<1>. QED
  BY <1>1, Inductive, PTL

(* The root loop of agent_loop.go never goes on while the tree is over its  *)
(* budget.                                                                  *)
THEOREM BudgetEnforced == Spec => []NoProgressOverBudget
<1>1. IInv => NoProgressOverBudget
  BY DEF IInv
<1>. QED
  BY <1>1, Inductive, PTL

(* A run is interrupted for its budget only when it is over budget. *)
THEOREM NoSpuriousStop == Spec => []StoppedOnlyWhenOver
<1>1. IInv => StoppedOnlyWhenOver
  BY DEF IInv
<1>. QED
  BY <1>1, Inductive, PTL

(* AdvanceWatermark is never applied more often than MaxApprovals allows. *)
THEOREM ApprovalLimit == Spec => []ApprovalsBounded
<1>1. IInv => ApprovalsBounded
  BY DEF IInv
<1>. QED
  BY <1>1, Inductive, PTL

(* Concurrent sub-agents exceed the open window by at most one call each    *)
(* attempt, and the root by one.                                            *)
THEOREM OvershootLimit == Spec => []OvershootBounded
<1>1. IInv => OvershootBounded
  BY DEF IInv
<1>. QED
  BY <1>1, Inductive, PTL

(* The tokens a whole run tree spends are bounded by its approvals. *)
THEOREM SpendLimit == Spec => []RunSpendBounded
<1>1. IInv => RunSpendBounded
  <2> SUFFICES ASSUME IInv, MaxTokens > 0
               PROVE  tracker.tokens < (tracker.approvals + 1) * PeriodTokens
    BY DEF RunSpendBounded
  <2>1. tracker.approvals \in Nat /\ tracker.tokens \in Nat /\ tracker.wmTokens \in Nat
    BY DEF Tracker, IInv, TypeOK
  <2>2. /\ tracker.approvals * PeriodTokens \in Nat
        /\ (tracker.approvals + 1) * PeriodTokens
              = tracker.approvals * PeriodTokens + PeriodTokens
    BY <2>1, MulSucc, PeriodType
  <2>3. tracker.tokens < tracker.wmTokens + PeriodTokens
    BY SpentSinceApproval
  <2>. QED
    BY <2>1, <2>2, <2>3, PeriodType DEF WatermarkBounded, IInv
<1>. QED
  BY <1>1, Inductive, PTL

-----------------------------------------------------------------------------
(* The event bus. *)

USE DEF lockVars, pubVars, subVars, dataVars

(* What the lock operations do to the readers. *)
LEMMA LockOps ==
    ASSUME LockTypes, NEW p \in Publishers, NEW w \in Writers
    PROVE  /\ RLock(p) => /\ rw.readers \subseteq rw'.readers
                          /\ rw' \in RWMutex
           /\ RUnlock(p) => /\ rw'.readers = rw.readers \ {p}
                            /\ rw' \in RWMutex
           /\ LockAnnounce(w) => /\ rw'.readers = rw.readers
                                 /\ rw' \in RWMutex
           /\ Unlock => rw' \in RWMutex
<1> USE DEF LockTypes, RWMutex
<1>1. RLock(p) => /\ rw.readers \subseteq rw'.readers
                  /\ rw' \in RWMutex
  <2> SUFFICES ASSUME RLock(p)
               PROVE  rw.readers \subseteq rw'.readers /\ rw' \in RWMutex
    OBVIOUS
  <2>1. CASE rw' = [rw EXCEPT !.readers = @ \cup {p}]
    BY <2>1
  <2>2. CASE rw' = [rw EXCEPT !.waiting = @ \cup {p}]
    BY <2>2
  <2>. QED
    BY <2>1, <2>2 DEF RLock
<1>2. RUnlock(p) => /\ rw'.readers = rw.readers \ {p}
                    /\ rw' \in RWMutex
  BY ZenonT(60) DEF RUnlock
<1>3. LockAnnounce(w) => /\ rw'.readers = rw.readers
                         /\ rw' \in RWMutex
  BY DEF LockAnnounce
<1>4. Unlock => rw' \in RWMutex
  BY DEF Unlock
<1>. QED
  BY <1>1, <1>2, <1>3, <1>4

LEMMA InitLockInv == BusInit => LockInv
<1> SUFFICES ASSUME BusInit PROVE LockInv
  OBVIOUS
<1>1. rw \in RWMutex
  BY DEF BusInit, RWMutex
<1>2. chan \in [Subscribers -> [buf : Seq(Message), closed : BOOLEAN]]
  BY DEF BusInit
<1>. QED
  BY <1>1, <1>2 DEF BusInit, LockInv, LockTypes, NoSendOnClosed, SendHoldsRLock,
                    TargetsSubscribed, ListedOpen, FreshOpen

(* Steps of a Publish that keep or release its own read lock. *)
LEMMA PublishKeeps ==
    ASSUME LockInv, NEW p \in Publishers,
           PublishCall(p) \/ PublishLocked(p) \/ PublishCancelled(p) \/ PublishReturn(p)
    PROVE  LockInv'
<1> USE BusAssumption DEF LockInv
<1>1. /\ UNCHANGED <<subs, chan, sub>>
      /\ seq' \in [Publishers -> Nat]
      /\ ListedOpen' /\ FreshOpen'
  <2>1. UNCHANGED <<subs, chan, sub>> /\ seq' \in {seq, [seq EXCEPT ![p] = @ + 1]}
    BY DEF PublishCall, PublishLocked, PublishCancelled, PublishReturn
  <2>2. seq' \in [Publishers -> Nat]
    BY <2>1 DEF LockTypes
  <2>. QED
    BY <2>1, <2>2 DEF ListedOpen, FreshOpen
<1>2. CASE /\ pub' \in {[pub EXCEPT ![p] = "rlock"], [pub EXCEPT ![p] = "idle"]}
           /\ targets' \in {targets, [targets EXCEPT ![p] = {}]}
           /\ rw' \in RWMutex /\ rw.readers \ {p} \subseteq rw'.readers
  <2>1. LockTypes' /\ NoSendOnClosed'
    <3>1. /\ pub' \in [Publishers -> {"idle", "rlock", "send", "panic"}]
          /\ \A q \in Publishers : pub'[q] # "panic"
      BY <1>2 DEF LockTypes, NoSendOnClosed
    <3>2. targets' \in [Publishers -> SUBSET Subscribers]
      BY <1>2 DEF LockTypes
    <3>. QED
      BY <1>1, <1>2, <3>1, <3>2 DEF LockTypes, NoSendOnClosed
  <2>2. \A q \in Publishers : pub'[q] = "send" =>
            q # p /\ pub[q] = "send" /\ targets'[q] = targets[q]
    BY <1>2 DEF LockTypes
  <2>3. SendHoldsRLock' /\ TargetsSubscribed'
    BY <1>1, <1>2, <2>2 DEF SendHoldsRLock, TargetsSubscribed
  <2>. QED
    BY <1>1, <2>1, <2>3
<1>3. CASE /\ pub' = [pub EXCEPT ![p] = "send"]
           /\ targets' = [targets EXCEPT ![p] = subs[PubChannel[p]]]
           /\ rw' = rw /\ p \in rw.readers
  <2>1. subs[PubChannel[p]] \in SUBSET Subscribers
    BY DEF LockTypes
  <2>2. LockTypes' /\ NoSendOnClosed'
    BY <1>1, <1>3, <2>1 DEF LockTypes, NoSendOnClosed
  <2>3. SendHoldsRLock' /\ TargetsSubscribed'
    BY <1>1, <1>3 DEF LockTypes, SendHoldsRLock, TargetsSubscribed
  <2>. QED
    BY <1>1, <2>2, <2>3
<1>4. CASE PublishCall(p)
  BY <1>2, <1>4, LockOps, closer \in Writers DEF PublishCall, Writers
<1>5. CASE PublishLocked(p)
  BY <1>2, <1>3, <1>5, LockOps, closer \in Writers DEF PublishLocked, Writers
<1>6. CASE PublishCancelled(p) \/ PublishReturn(p)
  BY <1>2, <1>6, LockOps, closer \in Writers DEF PublishCancelled, PublishReturn, Writers
<1>. QED
  BY <1>4, <1>5, <1>6

(* A send goes to a channel that is in the list, hence open. *)
LEMMA SendKeeps ==
    ASSUME LockInv, NEW p \in Publishers, PublishSend(p)
    PROVE  LockInv'
<1> USE BusAssumption DEF LockInv
<1>1. PICK s \in targets[p] :
        IF chan[s].closed
        THEN /\ pub' = [pub EXCEPT ![p] = "panic"]
             /\ UNCHANGED <<targets, chan>>
        ELSE /\ Len(chan[s].buf) < BufCap
             /\ chan' = [chan EXCEPT ![s].buf = Append(@, <<p, seq[p]>>)]
             /\ targets' = [targets EXCEPT ![p] = @ \ {s}]
             /\ UNCHANGED pub
  BY DEF PublishSend
<1>2. s \in Subscribers /\ ~chan[s].closed
  <2>1. pub[p] = "send" /\ s \in subs[PubChannel[p]] /\ PubChannel[p] \in Channels
    BY DEF PublishSend, TargetsSubscribed
  <2>. QED
    BY <2>1 DEF ListedOpen, LockTypes
<1>3. /\ pub' = pub /\ rw' = rw /\ subs' = subs /\ seq' = seq
      /\ targets' = [targets EXCEPT ![p] = @ \ {s}]
      /\ chan' = [chan EXCEPT ![s].buf = Append(@, <<p, seq[p]>>)]
  BY <1>1, <1>2 DEF PublishSend
<1>4. \A x \in Subscribers : chan'[x].closed = chan[x].closed
  BY <1>2, <1>3 DEF LockTypes
<1>5. LockTypes'
  <2>1. <<p, seq[p]>> \in Message
    BY DEF LockTypes, Message
  <2>2. Append(chan[s].buf, <<p, seq[p]>>) \in Seq(Message)
    BY <1>2, <2>1 DEF LockTypes
  <2>3. chan' \in [Subscribers -> [buf : Seq(Message), closed : BOOLEAN]]
    BY <1>2, <1>3, <2>2, ZenonT(60) DEF LockTypes
  <2>4. targets' \in [Publishers -> SUBSET Subscribers]
    BY <1>3 DEF LockTypes
  <2>. QED
    BY <1>3, <2>3, <2>4 DEF LockTypes, PublishSend
<1>6. NoSendOnClosed' /\ SendHoldsRLock'
  BY <1>3 DEF NoSendOnClosed, SendHoldsRLock
<1>7. TargetsSubscribed' /\ ListedOpen' /\ FreshOpen'
  <2>1. UNCHANGED sub
    BY DEF PublishSend
  <2>. QED
    BY <1>3, <1>4, <2>1 DEF TargetsSubscribed, ListedOpen, FreshOpen, LockTypes
<1>. QED
  BY <1>5, <1>6, <1>7

(* While a writer is inside, no Publish is in its send loop. *)
LEMMA WriterAlone ==
    ASSUME LockInv, NEW w \in Writers, Locked(w)
    PROVE  \A p \in Publishers : pub[p] # "send"
BY DEF LockInv, Locked, SendHoldsRLock

(* The writers: Subscribe, closeFn and Close. *)
LEMMA WriterKeeps ==
    ASSUME LockInv,
           Close \/ \E s \in Subscribers : Subscribe(s) \/ CloseFn(s)
    PROVE  LockInv'
<1> USE BusAssumption DEF LockInv, Writers
<1>1. CASE Close
  <2>1. \A p \in Publishers : pub[p] # "send"
    BY <1>1, WriterAlone DEF Close
  <2>2. LockTypes'
    <3>1. chan' \in [Subscribers -> [buf : Seq(Message), closed : BOOLEAN]]
      BY <1>1, ZenonT(60) DEF Close, LockTypes
    <3>2. rw' \in RWMutex
      BY <1>1 DEF Close, Unlock, LockTypes, RWMutex
    <3>. QED
      BY <1>1, <3>1, <3>2 DEF Close, LockTypes, RWMutex
  <2>. QED
    BY <1>1, <2>1, <2>2 DEF Close, NoSendOnClosed, SendHoldsRLock,
                            TargetsSubscribed, ListedOpen, FreshOpen
<1>2. ASSUME NEW s \in Subscribers, Subscribe(s) PROVE LockInv'
  <2>1. \A p \in Publishers : pub[p] # "send"
    BY <1>2, WriterAlone DEF Subscribe
  <2>2. /\ UNCHANGED <<pub, targets, seq, chan>>
        /\ sub' \in [Subscribers -> {"new", "subscribing", "open", "closing", "done", "refused"}]
        /\ \A x \in Subscribers : x # s => sub'[x] = sub[x]
        /\ sub'[s] \notin {"new", "subscribing"}
        /\ \/ subs' = subs
           \/ subs' = [subs EXCEPT ![SubChannel[s]] = @ \cup {s}]
    <3>1. /\ UNCHANGED <<pub, targets, seq, chan>>
          /\ \/ subs' = subs
             \/ subs' = [subs EXCEPT ![SubChannel[s]] = @ \cup {s}]
      BY <1>2 DEF Subscribe, pubVars, dataVars
    <3>2. PICK v \in {"open", "refused"} : sub' = [sub EXCEPT ![s] = v]
      BY <1>2 DEF Subscribe
    <3>3. sub \in [Subscribers -> {"new", "subscribing", "open", "closing", "done", "refused"}]
      BY DEF LockInv, LockTypes
    <3>4. /\ sub' \in [Subscribers -> {"new", "subscribing", "open", "closing", "done", "refused"}]
          /\ \A x \in Subscribers : x # s => sub'[x] = sub[x]
          /\ sub'[s] \notin {"new", "subscribing"}
      BY <3>2, <3>3
    <3>. QED
      BY <3>1, <3>4
  <2>3. ~chan[s].closed
    BY <1>2 DEF Subscribe, FreshOpen
  <2>4. NoSendOnClosed' /\ SendHoldsRLock' /\ TargetsSubscribed'
    BY <2>1, <2>2 DEF NoSendOnClosed, SendHoldsRLock, TargetsSubscribed
  <2>5. rw' \in RWMutex
    BY <1>2 DEF Subscribe, Unlock, LockTypes, RWMutex
  <2>6. SubChannel[s] \in Channels
    OBVIOUS
  <2>7. /\ subs' \in [Channels -> SUBSET Subscribers]
        /\ \A c \in Channels : \A x \in subs'[c] :
             x \in subs[c] \/ (x = s /\ c = SubChannel[s])
    <3>1. CASE subs' = subs
      BY <3>1 DEF LockTypes
    <3>2. CASE subs' = [subs EXCEPT ![SubChannel[s]] = @ \cup {s}]
      BY <2>6, <3>2 DEF LockTypes
    <3>. QED
      BY <2>2, <3>1, <3>2
  <2>8. LockTypes'
    BY <2>2, <2>5, <2>7 DEF LockTypes, RWMutex
  <2>9. ListedOpen' /\ FreshOpen'
    BY <2>2, <2>3, <2>7 DEF ListedOpen, FreshOpen, LockTypes
  <2>. QED
    BY <2>4, <2>8, <2>9
<1>3. ASSUME NEW s \in Subscribers, CloseFn(s) PROVE LockInv'
  <2>1. \A p \in Publishers : pub[p] # "send"
    BY <1>3, WriterAlone DEF CloseFn
  <2>2. /\ UNCHANGED <<pub, targets, seq>>
        /\ sub' = [sub EXCEPT ![s] = "done"]
        /\ sub[s] = "closing"
        /\ \/ UNCHANGED <<subs, chan>>
           \/ /\ subs' = [subs EXCEPT ![SubChannel[s]] = @ \ {s}]
              /\ chan' = [chan EXCEPT ![s].closed = TRUE]
    BY <1>3 DEF CloseFn
  <2>3. LockTypes'
    <3>1. rw' \in RWMutex
      BY <1>3 DEF CloseFn, Unlock, LockTypes, RWMutex
    <3>2. /\ subs' \in [Channels -> SUBSET Subscribers]
          /\ chan' \in [Subscribers -> [buf : Seq(Message), closed : BOOLEAN]]
          /\ sub' \in [Subscribers -> {"new", "subscribing", "open", "closing", "done", "refused"}]
      <4>1. sub' \in [Subscribers -> {"new", "subscribing", "open", "closing", "done", "refused"}]
        BY <2>2 DEF LockTypes
      <4>2. CASE UNCHANGED <<subs, chan>>
        BY <4>1, <4>2 DEF LockTypes
      <4>3. CASE /\ subs' = [subs EXCEPT ![SubChannel[s]] = @ \ {s}]
                 /\ chan' = [chan EXCEPT ![s].closed = TRUE]
        <5>1. subs' \in [Channels -> SUBSET Subscribers]
          BY <4>3 DEF LockTypes
        <5>2. chan' \in [Subscribers -> [buf : Seq(Message), closed : BOOLEAN]]
          BY <4>3, ZenonT(60) DEF LockTypes
        <5>. QED
          BY <4>1, <5>1, <5>2
      <4>. QED
        BY <2>2, <4>2, <4>3
    <3>. QED
      BY <2>2, <3>1, <3>2 DEF LockTypes, RWMutex
  <2>4. NoSendOnClosed' /\ SendHoldsRLock' /\ TargetsSubscribed'
    BY <2>1, <2>2 DEF NoSendOnClosed, SendHoldsRLock, TargetsSubscribed
  <2>5. CASE UNCHANGED <<subs, chan>>
    BY <2>2, <2>3, <2>4, <2>5 DEF ListedOpen, FreshOpen, LockTypes
  <2>6. CASE /\ subs' = [subs EXCEPT ![SubChannel[s]] = @ \ {s}]
             /\ chan' = [chan EXCEPT ![s].closed = TRUE]
    <3>1. \A x \in Subscribers : x # s => chan'[x].closed = chan[x].closed /\ sub'[x] = sub[x]
      BY <2>2, <2>6 DEF LockTypes
    <3>2. \A c \in Channels : subs'[c] \subseteq subs[c] /\ s \notin subs'[c]
      BY <2>6 DEF ListedOpen, LockTypes
    <3>3. ListedOpen' /\ FreshOpen'
      BY <2>2, <3>1, <3>2 DEF ListedOpen, FreshOpen, LockTypes
    <3>. QED
      BY <2>3, <2>4, <3>3
  <2>. QED
    BY <2>2, <2>5, <2>6
<1>. QED
  BY <1>1, <1>2, <1>3

(* Asking for the lock changes neither the list nor a channel. *)
LEMMA AnnounceKeeps ==
    ASSUME LockInv,
           CloseCall \/ \E s \in Subscribers : SubscribeCall(s) \/ CloseFnCall(s)
    PROVE  LockInv'
<1>1. /\ UNCHANGED <<subs, pub, targets, chan, seq>>
      /\ \E w \in Writers : LockAnnounce(w)
      /\ \/ UNCHANGED sub
         \/ \E s \in Subscribers :
              \/ sub[s] = "new" /\ sub' = [sub EXCEPT ![s] = "subscribing"]
              \/ sub' = [sub EXCEPT ![s] = "closing"]
  BY DEF CloseCall, SubscribeCall, CloseFnCall, Writers
<1>2. /\ sub' \in [Subscribers -> {"new", "subscribing", "open", "closing", "done", "refused"}]
      /\ \A x \in Subscribers :
           sub'[x] \in {"new", "subscribing"} => sub[x] \in {"new", "subscribing"}
  BY <1>1 DEF LockInv, LockTypes
<1>3. rw' \in RWMutex /\ rw'.readers = rw.readers
  BY <1>1, ZenonT(60) DEF LockAnnounce, LockInv, LockTypes, RWMutex
<1>. QED
  BY <1>1, <1>2, <1>3 DEF LockInv, LockTypes, NoSendOnClosed, SendHoldsRLock,
              TargetsSubscribed, ListedOpen, FreshOpen

(* The forwarder and the consumer only drain. *)
LEMMA DrainKeeps ==
    ASSUME LockInv, NEW s \in Subscribers,
           ForwardTake(s) \/ ForwardSend(s) \/ ForwardEnd(s) \/ ConsumerRead(s)
    PROVE  LockInv'
<1>1. UNCHANGED <<rw, subs, pub, targets, seq, sub>>
  BY DEF ForwardTake, ForwardSend, ForwardEnd, ConsumerRead
<1>2. /\ chan' \in [Subscribers -> [buf : Seq(Message), closed : BOOLEAN]]
      /\ \A x \in Subscribers : chan'[x].closed = chan[x].closed
  <2>1. CASE ForwardTake(s)
    <3>1. Tail(chan[s].buf) \in Seq(Message)
      BY <2>1 DEF ForwardTake, LockInv, LockTypes
    <3>. QED
      BY <2>1, <3>1 DEF ForwardTake, LockInv, LockTypes
  <2>2. CASE UNCHANGED chan
    BY <2>2 DEF LockInv, LockTypes
  <2>. QED
    BY <2>1, <2>2 DEF ForwardSend, ForwardEnd, ConsumerRead
<1>. QED
  BY <1>1, <1>2 DEF LockInv, LockTypes, NoSendOnClosed, SendHoldsRLock,
                    TargetsSubscribed, ListedOpen, FreshOpen

LEMMA NextLockInv == LockInv /\ [BusNext]_busVars => LockInv'
<1>1. ASSUME LockInv, UNCHANGED busVars \/ \E p \in Publishers : PublisherDone(p)
      PROVE  LockInv'
  <2>1. UNCHANGED <<rw, subs, pub, targets, chan, seq, sub>>
    BY <1>1 DEF busVars, PublisherDone
  <2>. QED
    BY <1>1, <2>1 DEF LockInv, LockTypes, NoSendOnClosed, SendHoldsRLock,
                      TargetsSubscribed, ListedOpen, FreshOpen
<1>. QED
  BY <1>1, PublishKeeps, SendKeeps, WriterKeeps, AnnounceKeeps, DrainKeeps
  DEF BusNext, PublishStep

(* No reachable state of the bus has a Publish that panicked on a closed    *)
(* channel, whatever subscribes, unsubscribes and closes in the meantime.   *)
THEOREM SendSafe == BusSpec => []NoSendOnClosed
<1>1. LockInv => NoSendOnClosed
  BY DEF LockInv
<1>. QED
  BY <1>1, InitLockInv, NextLockInv, PTL DEF BusSpec
-----------------------------------------------------------------------------
(* Delivery. What s was sent is Stream(s), wherever on its way it is; the   *)
(* forwarder and the consumer only move it along.                           *)
Seen(s) == {Stream(s)[i] : i \in 1..Len(Stream(s))}

DataTypes ==
    /\ fwd \in [Subscribers -> [hand : Seq(Message), out : Seq(Message), closed : BOOLEAN]]
    /\ got \in [Subscribers -> Seq(Message)]
    /\ pubDone \in SUBSET Publishers
    /\ closed \in BOOLEAN
    /\ closed => \A c \in Channels : subs[c] = {}

(* The latest event of p that s has to have while it is subscribed. *)
Upto(p, s) ==
    IF pub[p] = "rlock" \/ (pub[p] = "send" /\ s \in targets[p]) THEN seq[p] - 1 ELSE seq[p]

Ordered(s) ==
    \A i, j \in 1..Len(Stream(s)) :
        i < j /\ Stream(s)[i][1] = Stream(s)[j][1] => Stream(s)[i][2] < Stream(s)[j][2]

Published(s) ==
    \A e \in Seen(s) : PubChannel[e[1]] = SubChannel[s] /\ e[2] <= Upto(e[1], s)

NoGap(s) ==
    \A e, f \in Seen(s) :
        e[1] = f[1] /\ e[1] \notin pubDone => \A k \in e[2]..f[2] : <<e[1], k>> \in Seen(s)

UpToDate(s) ==
    \A e \in Seen(s) : s \in subs[SubChannel[s]] /\ e[1] \notin pubDone =>
        \A k \in e[2]..Upto(e[1], s) : <<e[1], k>> \in Seen(s)

NothingBefore(s) == sub[s] \in {"new", "subscribing"} => Stream(s) = <<>>

Drained(s) == fwd[s].closed => chan[s].closed /\ chan[s].buf = <<>> /\ fwd[s].hand = <<>>

StreamOK(s) ==
    Ordered(s) /\ Published(s) /\ NoGap(s) /\ UpToDate(s) /\ NothingBefore(s) /\ Drained(s)

StreamInv == LockInv /\ DataTypes /\ \A s \in Subscribers : StreamOK(s)

(* The stages of a stream, joined: what the consumer has, what waits for    *)
(* it, what the forwarder has in hand, and the buffer of the bus.           *)
Join(g, o, h, b) == g \o o \o h \o b

(* Moving events along the stages leaves the stream as it is, and a send    *)
(* appends to it.                                                           *)
LEMMA JoinTake ==
    ASSUME NEW g \in Seq(Message), NEW o \in Seq(Message), NEW b \in Seq(Message), b # <<>>
    PROVE  Join(g, o, <<Head(b)>>, Tail(b)) = Join(g, o, <<>>, b)
<1>1. Head(b) \in Message /\ Tail(b) \in Seq(Message) /\ b = <<Head(b)>> \o Tail(b)
  BY HeadTailProperties
<1>2. <<Head(b)>> \in Seq(Message) /\ g \o o \in Seq(Message) /\ g \o o \o <<>> = g \o o
  BY <1>1
<1>. QED
  BY <1>1, <1>2, ConcatAssociative, SMTT(30) DEF Join

LEMMA JoinSend ==
    ASSUME NEW g \in Seq(Message), NEW o \in Seq(Message),
           NEW h \in Seq(Message), NEW b \in Seq(Message)
    PROVE  Join(g, o \o h, <<>>, b) = Join(g, o, h, b)
<1>1. g \o (o \o h) = g \o o \o h
  BY ConcatAssociative, SMTT(30)
<1>2. g \o o \o h \in Seq(Message) /\ g \o o \o h \o <<>> = g \o o \o h
  OBVIOUS
<1>. QED
  BY <1>1, <1>2 DEF Join

LEMMA JoinRead ==
    ASSUME NEW g \in Seq(Message), NEW o \in Seq(Message),
           NEW h \in Seq(Message), NEW b \in Seq(Message), o # <<>>
    PROVE  Join(Append(g, Head(o)), Tail(o), h, b) = Join(g, o, h, b)
<1>1. Head(o) \in Message /\ Tail(o) \in Seq(Message) /\ o = <<Head(o)>> \o Tail(o)
  BY HeadTailProperties
<1>2. <<Head(o)>> \in Seq(Message) /\ Append(g, Head(o)) = g \o <<Head(o)>>
  BY <1>1, AppendIsConcat
<1>3. (g \o <<Head(o)>>) \o Tail(o) = g \o (<<Head(o)>> \o Tail(o))
  BY <1>1, <1>2, ConcatAssociative, SMTT(30)
<1>4. Append(g, Head(o)) \o Tail(o) = g \o o
  BY <1>1, <1>2, <1>3, Zenon
<1>. QED
  BY <1>4 DEF Join

LEMMA JoinAppend ==
    ASSUME NEW g \in Seq(Message), NEW o \in Seq(Message),
           NEW h \in Seq(Message), NEW b \in Seq(Message), NEW m \in Message
    PROVE  /\ Join(g, o, h, b) \in Seq(Message)
           /\ Join(g, o, h, Append(b, m)) = Append(Join(g, o, h, b), m)
<1>1. g \o o \o h \in Seq(Message) /\ g \o o \o h \o b \in Seq(Message)
  OBVIOUS
<1>2. /\ Append(b, m) = b \o <<m>> /\ <<m>> \in Seq(Message)
      /\ Append(g \o o \o h \o b, m) = (g \o o \o h \o b) \o <<m>>
  BY <1>1, AppendIsConcat, SMTT(30)
<1>. QED
  BY <1>1, <1>2, ConcatAssociative, SMTT(30) DEF Join

LEMMA StreamIsJoin ==
    \A s \in Subscribers :
        /\ Stream(s) = Join(got[s], fwd[s].out, fwd[s].hand, chan[s].buf)
        /\ Stream(s)' = Join(got'[s], fwd'[s].out, fwd'[s].hand, chan'[s].buf)
BY DEF Stream, Join

LEMMA StreamTyped ==
    ASSUME StreamInv, NEW s \in Subscribers
    PROVE  /\ got[s] \in Seq(Message) /\ fwd[s].out \in Seq(Message)
           /\ fwd[s].hand \in Seq(Message) /\ chan[s].buf \in Seq(Message)
           /\ Stream(s) \in Seq(Message)
<1>1. /\ got[s] \in Seq(Message) /\ fwd[s].out \in Seq(Message)
      /\ fwd[s].hand \in Seq(Message) /\ chan[s].buf \in Seq(Message)
  BY DEF StreamInv, LockInv, LockTypes, DataTypes
<1>. QED
  BY <1>1 DEF Stream

(* The forwarder and the consumer leave the streams as they are. *)
LEMMA DrainStream ==
    ASSUME StreamInv, NEW s \in Subscribers,
           ForwardTake(s) \/ ForwardSend(s) \/ ForwardEnd(s) \/ ConsumerRead(s)
    PROVE  /\ DataTypes'
           /\ \A x \in Subscribers : Stream(x)' = Stream(x) /\ Drained(x)'
<1> DEFINE F == [hand : Seq(Message), out : Seq(Message), closed : BOOLEAN]
<1>T. /\ fwd \in [Subscribers -> F] /\ got \in [Subscribers -> Seq(Message)]
      /\ chan \in [Subscribers -> [buf : Seq(Message), closed : BOOLEAN]]
      /\ \A x \in Subscribers : Drained(x)
  BY DEF StreamInv, LockInv, LockTypes, DataTypes, StreamOK
<1>S. /\ got[s] \in Seq(Message) /\ fwd[s].out \in Seq(Message)
      /\ fwd[s].hand \in Seq(Message) /\ chan[s].buf \in Seq(Message)
  BY StreamTyped
<1>C. UNCHANGED <<pubDone, closed, subs>>
  BY DEF ForwardTake, ForwardSend, ForwardEnd, ConsumerRead
<1>1. CASE ForwardTake(s)
  <2> DEFINE b == chan[s].buf
             f == [fwd[s] EXCEPT !.hand = <<Head(b)>>]
             c == [chan[s] EXCEPT !.buf = Tail(b)]
  <2>1. b # <<>> /\ fwd[s].hand = <<>> /\ got' = got
    BY <1>1 DEF ForwardTake
  <2>2. <<Head(b)>> \in Seq(Message) /\ Tail(b) \in Seq(Message)
    <3>1. Head(b) \in Message /\ Tail(b) \in Seq(Message)
      BY <1>S, <2>1
    <3>. QED
      BY <3>1
  <2>3. /\ f \in F /\ f.hand = <<Head(b)>> /\ f.out = fwd[s].out /\ f.closed = fwd[s].closed
        /\ c.buf = Tail(b) /\ c.closed = chan[s].closed
    BY <1>T, <2>2
  <2>4. fwd' = [fwd EXCEPT ![s] = f] /\ chan' = [chan EXCEPT ![s] = c]
    BY <1>1, <1>T DEF ForwardTake
  <2> HIDE DEF f, c
  <2>5. fwd' \in [Subscribers -> F] /\ fwd'[s] = f /\ chan'[s] = c
        /\ \A x \in Subscribers \ {s} : fwd'[x] = fwd[x] /\ chan'[x] = chan[x]
    BY <1>T, <2>3, <2>4
  <2>6. Stream(s)' = Stream(s)
    <3>1. Join(got[s], fwd[s].out, <<Head(b)>>, Tail(b)) = Join(got[s], fwd[s].out, <<>>, b)
      BY <1>S, <2>1, JoinTake
    <3>. QED
      BY <2>1, <2>3, <2>5, <3>1, StreamIsJoin
  <2>7. ~fwd[s].closed
    BY <1>T, <2>1 DEF Drained
  <2>8. ASSUME NEW x \in Subscribers PROVE Stream(x)' = Stream(x) /\ Drained(x)'
    <3>1. CASE x = s
      <4>1. fwd'[s].closed = fwd[s].closed
        BY <2>3, <2>5
      <4>. QED
        BY <2>6, <2>7, <3>1, <4>1, Zenon DEF Stream, Drained
    <3>2. CASE x # s
      <4>1. got'[x] = got[x] /\ fwd'[x] = fwd[x] /\ chan'[x] = chan[x]
        BY <2>1, <2>5, <3>2, Zenon
      <4>. QED
        BY <1>T, <4>1, Zenon DEF Stream, Drained
    <3>. QED
      BY <3>1, <3>2
  <2>. QED
    BY <1>C, <2>1, <2>5, <2>8 DEF StreamInv, DataTypes
<1>2. CASE ForwardSend(s)
  <2> DEFINE f == [fwd[s] EXCEPT !.out = @ \o fwd[s].hand, !.hand = <<>>]
  <2>1. got' = got /\ chan' = chan /\ fwd[s].hand # <<>>
    BY <1>2 DEF ForwardSend
  <2>2. fwd[s].out \o fwd[s].hand \in Seq(Message) /\ <<>> \in Seq(Message)
    BY <1>S
  <2>3. f \in F /\ f.hand = <<>> /\ f.out = fwd[s].out \o fwd[s].hand /\ f.closed = fwd[s].closed
    BY <1>T, <2>2
  <2>4. fwd' = [fwd EXCEPT ![s] = f]
    BY <1>2, <1>T DEF ForwardSend
  <2> HIDE DEF f
  <2>5. fwd' \in [Subscribers -> F] /\ fwd'[s] = f /\ \A x \in Subscribers \ {s} : fwd'[x] = fwd[x]
    BY <1>T, <2>3, <2>4
  <2>6. Stream(s)' = Stream(s)
    <3>1. Join(got[s], fwd[s].out \o fwd[s].hand, <<>>, chan[s].buf)
            = Join(got[s], fwd[s].out, fwd[s].hand, chan[s].buf)
      BY <1>S, JoinSend
    <3>. QED
      BY <2>1, <2>3, <2>5, <3>1, StreamIsJoin
  <2>7. ~fwd[s].closed
    BY <1>T, <2>1 DEF Drained
  <2>8. ASSUME NEW x \in Subscribers PROVE Stream(x)' = Stream(x) /\ Drained(x)'
    <3>1. CASE x = s
      <4>1. fwd'[s].closed = fwd[s].closed
        BY <2>3, <2>5
      <4>. QED
        BY <2>6, <2>7, <3>1, <4>1, Zenon DEF Stream, Drained
    <3>2. CASE x # s
      <4>1. got'[x] = got[x] /\ fwd'[x] = fwd[x] /\ chan'[x] = chan[x]
        BY <2>1, <2>5, <3>2, Zenon
      <4>. QED
        BY <1>T, <4>1, Zenon DEF Stream, Drained
    <3>. QED
      BY <3>1, <3>2
  <2>. QED
    BY <1>C, <2>1, <2>5, <2>8 DEF StreamInv, DataTypes
<1>3. CASE ForwardEnd(s)
  <2> DEFINE f == [fwd[s] EXCEPT !.closed = TRUE]
  <2>1. got' = got /\ chan' = chan /\ chan[s].closed /\ chan[s].buf = <<>> /\ fwd[s].hand = <<>>
    BY <1>3 DEF ForwardEnd
  <2>2. f \in F /\ f.hand = fwd[s].hand /\ f.out = fwd[s].out
    BY <1>T
  <2>3. fwd' = [fwd EXCEPT ![s] = f]
    BY <1>3, <1>T DEF ForwardEnd
  <2> HIDE DEF f
  <2>4. fwd' \in [Subscribers -> F] /\ fwd'[s] = f /\ \A x \in Subscribers \ {s} : fwd'[x] = fwd[x]
    BY <1>T, <2>2, <2>3
  <2>5. \A x \in Subscribers : Stream(x)' = Stream(x) /\ Drained(x)'
    BY <1>T, <2>1, <2>2, <2>4 DEF Stream, Drained
  <2>. QED
    BY <1>C, <2>1, <2>4, <2>5 DEF StreamInv, DataTypes
<1>4. CASE ConsumerRead(s)
  <2> DEFINE o == fwd[s].out
             f == [fwd[s] EXCEPT !.out = Tail(o)]
  <2>1. chan' = chan /\ o # <<>> /\ got' = [got EXCEPT ![s] = Append(@, Head(o))]
    BY <1>4 DEF ConsumerRead
  <2>2. Head(o) \in Message /\ Tail(o) \in Seq(Message)
    BY <1>S, <2>1
  <2>3. Append(got[s], Head(o)) \in Seq(Message)
    BY <1>S, <2>2
  <2>4. f \in F /\ f.hand = fwd[s].hand /\ f.out = Tail(o) /\ f.closed = fwd[s].closed
    BY <1>T, <2>2
  <2>5. fwd' = [fwd EXCEPT ![s] = f]
    BY <1>4, <1>T DEF ConsumerRead
  <2> HIDE DEF f
  <2>6. /\ fwd' \in [Subscribers -> F] /\ fwd'[s] = f /\ \A x \in Subscribers \ {s} : fwd'[x] = fwd[x]
        /\ got' \in [Subscribers -> Seq(Message)] /\ got'[s] = Append(got[s], Head(o))
        /\ \A x \in Subscribers \ {s} : got'[x] = got[x]
    BY <1>T, <2>1, <2>3, <2>4, <2>5
  <2>7. Stream(s)' = Stream(s)
    <3>1. Join(Append(got[s], Head(o)), Tail(o), fwd[s].hand, chan[s].buf)
            = Join(got[s], o, fwd[s].hand, chan[s].buf)
      BY <1>S, <2>1, JoinRead
    <3>. QED
      BY <2>1, <2>4, <2>6, <3>1, StreamIsJoin
  <2>8. \A x \in Subscribers : Stream(x)' = Stream(x) /\ Drained(x)'
    BY <1>T, <2>1, <2>4, <2>6, <2>7, ZenonT(60) DEF Stream, Drained
  <2>. QED
    BY <1>C, <2>1, <2>6, <2>8 DEF StreamInv, DataTypes
<1>. QED
  BY <1>1, <1>2, <1>3, <1>4

(* The events in a stream are messages of publishers. *)
LEMMA SeenTyped ==
    ASSUME StreamInv, NEW s \in Subscribers
    PROVE  \A e \in Seen(s) : e \in Message /\ e[1] \in Publishers /\ e[2] \in Nat
                              /\ e = <<e[1], e[2]>>
<1>1. Stream(s) \in Seq(Message)
  BY StreamTyped
<1>2. \A e \in Seen(s) : e \in Message
  BY <1>1 DEF Seen
<1>. QED
  BY <1>2 DEF Message

(* A step that leaves the stream of x alone. What x has to have grows only  *)
(* with an event it is not there for: it is not subscribed, listens on      *)
(* another channel, or the publisher's context has ended.                   *)
LEMMA SameStreamKeeps ==
    ASSUME StreamInv, NEW x \in Subscribers,
           Stream(x)' = Stream(x), pubDone \subseteq pubDone',
           sub'[x] \in {"new", "subscribing"} => sub[x] \in {"new", "subscribing"},
           \A p \in Publishers : Upto(p, x) <= Upto(p, x)',
           seq' \in [Publishers -> Nat],
           x \in subs'[SubChannel[x]] =>
               \/ Stream(x) = <<>>
               \/ /\ x \in subs[SubChannel[x]]
                  /\ \A p \in Publishers \ pubDone' :
                        PubChannel[p] = SubChannel[x] => Upto(p, x)' = Upto(p, x)
    PROVE  Ordered(x)' /\ Published(x)' /\ NoGap(x)' /\ UpToDate(x)' /\ NothingBefore(x)'
<1>1. Ordered(x) /\ Published(x) /\ NoGap(x) /\ UpToDate(x) /\ NothingBefore(x)
  BY DEF StreamInv, StreamOK
<1>2. Seen(x)' = Seen(x)
  BY DEF Seen
<1>3. \A e \in Seen(x) : e \in Message /\ e[1] \in Publishers /\ e[2] \in Nat
  BY SeenTyped
<1>4. Ordered(x)'
  BY <1>1 DEF Ordered
<1>U. \A p \in Publishers : Upto(p, x) \in Int /\ Upto(p, x)' \in Int
  BY DEF StreamInv, LockInv, LockTypes, Upto
<1>5. Published(x)'
  BY <1>1, <1>2, <1>3, <1>U DEF Published
<1>6. NoGap(x)'
  BY <1>1, <1>2 DEF NoGap
<1>7. UpToDate(x)'
  <2>1. CASE Stream(x) = <<>>
    <3>1. Seen(x) = {}
      BY <2>1 DEF Seen
    <3>. QED
      BY <1>2, <3>1 DEF UpToDate
  <2>2. CASE Stream(x) # <<>>
    <3> SUFFICES ASSUME NEW e \in Seen(x), x \in subs'[SubChannel[x]], e[1] \notin pubDone'
                 PROVE  \A k \in e[2]..Upto(e[1], x)' : <<e[1], k>> \in Seen(x)
      BY <1>2 DEF UpToDate
    <3>1. Upto(e[1], x)' = Upto(e[1], x)
      BY <1>1, <1>3, <2>2 DEF Published
    <3>. QED
      BY <1>1, <2>2, <3>1 DEF UpToDate
  <2>. QED
    BY <2>1, <2>2
<1>8. NothingBefore(x)'
  BY <1>1 DEF NothingBefore
<1>. QED
  BY <1>4, <1>5, <1>6, <1>7, <1>8

(* Nothing but the forwarder's own steps and the close of a channel that    *)
(* was open can disturb the drained streams.                                *)
LEMMA SameDrained ==
    ASSUME StreamInv, fwd' = fwd, NEW x \in Subscribers,
           chan'[x].buf = chan[x].buf, chan[x].closed => chan'[x].closed
    PROVE  Drained(x)'
BY DEF StreamInv, StreamOK, Drained

LEMMA DrainKeepsStreams ==
    ASSUME StreamInv, NEW s \in Subscribers,
           ForwardTake(s) \/ ForwardSend(s) \/ ForwardEnd(s) \/ ConsumerRead(s)
    PROVE  StreamInv'
<1>1. LockInv'
  BY DrainKeeps DEF StreamInv
<1>2. DataTypes' /\ \A x \in Subscribers : Stream(x)' = Stream(x) /\ Drained(x)'
  BY DrainStream
<1>3. UNCHANGED <<pub, seq, targets, pubDone, sub, subs>>
  BY DEF ForwardTake, ForwardSend, ForwardEnd, ConsumerRead
<1>4. ASSUME NEW x \in Subscribers PROVE StreamOK(x)'
  <2>1. \A p \in Publishers : Upto(p, x)' = Upto(p, x) /\ Upto(p, x) \in Int
    BY <1>3 DEF Upto, StreamInv, LockInv, LockTypes
  <2>2. seq' \in [Publishers -> Nat]
    BY <1>1 DEF LockInv, LockTypes
  <2>3. Ordered(x)' /\ Published(x)' /\ NoGap(x)' /\ UpToDate(x)' /\ NothingBefore(x)'
    BY <1>2, <1>3, <2>1, <2>2, SameStreamKeeps
  <2>. QED
    BY <1>2, <2>3 DEF StreamOK
<1>. QED
  BY <1>1, <1>2, <1>4 DEF StreamInv

(* The steps of a Publish other than a send. *)
LEMMA PublishKeepsStreams ==
    ASSUME StreamInv, NEW p \in Publishers,
           PublishCall(p) \/ PublishLocked(p) \/ PublishCancelled(p) \/ PublishReturn(p)
    PROVE  StreamInv'
<1> USE BusAssumption
<1>1. LockInv'
  BY PublishKeeps DEF StreamInv
<1>2. UNCHANGED <<pubDone, sub, subs, closed, chan, fwd, got>>
  BY DEF PublishCall, PublishLocked, PublishCancelled, PublishReturn
<1>3. DataTypes'
  BY <1>2 DEF StreamInv, DataTypes
<1>T. /\ pub \in [Publishers -> {"idle", "rlock", "send", "panic"}]
      /\ seq \in [Publishers -> Nat] /\ seq' \in [Publishers -> Nat]
      /\ targets \in [Publishers -> SUBSET Subscribers]
      /\ \A c \in Channels : \A s \in subs[c] : c = SubChannel[s]
      /\ closed => \A c \in Channels : subs[c] = {}
  BY <1>1 DEF StreamInv, LockInv, LockTypes, ListedOpen, DataTypes
<1>4. ASSUME NEW x \in Subscribers
      PROVE  /\ \A q \in Publishers : Upto(q, x) <= Upto(q, x)'
             /\ x \in subs[SubChannel[x]] =>
                  \A q \in Publishers \ pubDone :
                     PubChannel[q] = SubChannel[x] => Upto(q, x)' = Upto(q, x)
  <2>0. SubChannel[x] \in Channels
    OBVIOUS
  <2>1. CASE PublishCall(p)
    BY <1>T, <2>1 DEF PublishCall, Upto
  <2>2. CASE PublishLocked(p) /\ closed
    BY <1>T, <2>0, <2>2 DEF PublishLocked, Upto
  <2>3. CASE PublishLocked(p) /\ ~closed
    BY <1>T, <2>0, <2>3 DEF PublishLocked, Upto
  <2>4. CASE PublishCancelled(p)
    BY <1>T, <2>4 DEF PublishCancelled, Upto
  <2>5. CASE PublishReturn(p)
    BY <1>T, <2>5 DEF PublishReturn, Upto
  <2>. QED
    BY <2>1, <2>2, <2>3, <2>4, <2>5
<1>5. ASSUME NEW x \in Subscribers PROVE StreamOK(x)'
  <2>1. Stream(x)' = Stream(x)
    BY <1>2 DEF Stream
  <2>2. Ordered(x)' /\ Published(x)' /\ NoGap(x)' /\ UpToDate(x)' /\ NothingBefore(x)'
    BY <1>2, <1>4, <1>T, <2>1, SameStreamKeeps
  <2>3. Drained(x)'
    BY <1>2, SameDrained
  <2>. QED
    BY <2>2, <2>3 DEF StreamOK
<1>. QED
  BY <1>1, <1>3, <1>5 DEF StreamInv

(* The announcements, the end of a context, and stuttering. *)
LEMMA QuietKeepsStreams ==
    ASSUME StreamInv,
           \/ CloseCall \/ \E s \in Subscribers : SubscribeCall(s) \/ CloseFnCall(s)
           \/ \E p \in Publishers : PublisherDone(p)
           \/ UNCHANGED busVars
    PROVE  StreamInv'
<1>1. LockInv'
  BY NextLockInv DEF StreamInv, BusNext
<1>2. /\ UNCHANGED <<pub, seq, targets, subs, closed, chan, fwd, got>>
      /\ pubDone \subseteq pubDone' /\ pubDone' \in SUBSET Publishers
      /\ \/ sub' = sub
         \/ \E s \in Subscribers :
              \/ sub[s] = "new" /\ sub' = [sub EXCEPT ![s] = "subscribing"]
              \/ sub' = [sub EXCEPT ![s] = "closing"]
  BY BusAssumption DEF CloseCall, SubscribeCall, CloseFnCall, PublisherDone, busVars, StreamInv, DataTypes
<1>3. DataTypes'
  BY <1>2 DEF StreamInv, DataTypes
<1>4. /\ seq' \in [Publishers -> Nat]
      /\ \A x \in Subscribers :
           sub'[x] \in {"new", "subscribing"} => sub[x] \in {"new", "subscribing"}
  BY <1>2 DEF StreamInv, LockInv, LockTypes
<1>5. ASSUME NEW x \in Subscribers PROVE StreamOK(x)'
  <2>1. Stream(x)' = Stream(x)
    BY <1>2 DEF Stream
  <2>2. \A p \in Publishers : Upto(p, x)' = Upto(p, x) /\ Upto(p, x) \in Int
    BY <1>2 DEF Upto, StreamInv, LockInv, LockTypes
  <2>3. Ordered(x)' /\ Published(x)' /\ NoGap(x)' /\ UpToDate(x)' /\ NothingBefore(x)'
    BY <1>2, <1>4, <2>1, <2>2, SameStreamKeeps
  <2>4. Drained(x)'
    BY <1>2, SameDrained
  <2>. QED
    BY <2>3, <2>4 DEF StreamOK
<1>. QED
  BY <1>1, <1>3, <1>5 DEF StreamInv

(* The writers change no stream. Subscribe lists a subscription that was    *)
(* sent nothing, closeFn and Close unlist and close.                        *)
LEMMA WriterKeepsStreams ==
    ASSUME StreamInv,
           Close \/ \E s \in Subscribers : Subscribe(s) \/ CloseFn(s)
    PROVE  StreamInv'
<1> USE BusAssumption
<1>1. LockInv'
  BY WriterKeeps DEF StreamInv
<1>2. /\ UNCHANGED <<pub, seq, targets, pubDone, fwd, got>>
      /\ seq' \in [Publishers -> Nat]
  BY DEF Close, Subscribe, CloseFn, StreamInv, LockInv, LockTypes
<1>T. /\ chan \in [Subscribers -> [buf : Seq(Message), closed : BOOLEAN]]
      /\ subs \in [Channels -> SUBSET Subscribers]
      /\ sub \in [Subscribers -> {"new", "subscribing", "open", "closing", "done", "refused"}]
      /\ closed \in BOOLEAN /\ (closed => \A c \in Channels : subs[c] = {})
      /\ \A x \in Subscribers : SubChannel[x] \in Channels
      /\ \A x \in Subscribers : NothingBefore(x)
  BY DEF StreamInv, LockInv, LockTypes, DataTypes, StreamOK
<1>3. /\ closed' \in BOOLEAN /\ (closed' => \A c \in Channels : subs'[c] = {})
      /\ \A x \in Subscribers :
           /\ chan'[x].buf = chan[x].buf /\ (chan[x].closed => chan'[x].closed)
           /\ sub'[x] \in {"new", "subscribing"} => sub[x] \in {"new", "subscribing"}
           /\ x \in subs'[SubChannel[x]] => x \in subs[SubChannel[x]] \/ Stream(x) = <<>>
  <2> DEFINE Listed(x) == x \in subs'[SubChannel[x]] => x \in subs[SubChannel[x]] \/ Stream(x) = <<>>
             Fresh(x) == sub'[x] \in {"new", "subscribing"} => sub[x] \in {"new", "subscribing"}
             Chan(x) == chan'[x].buf = chan[x].buf /\ (chan[x].closed => chan'[x].closed)
             Closed == closed' \in BOOLEAN /\ (closed' => \A c \in Channels : subs'[c] = {})
  <2> SUFFICES Closed /\ \A x \in Subscribers : Listed(x) /\ Fresh(x) /\ Chan(x)
    OBVIOUS
  <2>1. CASE Close
    <3>1. \A x \in Subscribers : Chan(x)
      BY <1>T, <2>1 DEF Close
    <3>2. Closed /\ \A x \in Subscribers : Listed(x) /\ Fresh(x)
      BY <1>T, <2>1 DEF Close
    <3>. QED
      BY <3>1, <3>2
  <2>2. ASSUME NEW s \in Subscribers, Subscribe(s)
        PROVE  Closed /\ \A x \in Subscribers : Listed(x) /\ Fresh(x) /\ Chan(x)
    <3>1. Stream(s) = <<>>
      BY <1>T, <2>2 DEF Subscribe, NothingBefore
    <3>2. \A x \in Subscribers : Chan(x) /\ Fresh(x)
      BY <1>T, <2>2 DEF Subscribe
    <3>3. CASE closed
      BY <1>T, <2>2, <3>2, <3>3 DEF Subscribe
    <3>4. CASE ~closed
      <4>1. closed' = FALSE /\ subs' = [subs EXCEPT ![SubChannel[s]] = @ \cup {s}]
        BY <1>T, <2>2, <3>4 DEF Subscribe
      <4>2. \A x \in Subscribers : x # s => (x \in subs'[SubChannel[x]] => x \in subs[SubChannel[x]])
        BY <1>T, <4>1
      <4>. QED
        BY <3>1, <3>2, <4>1, <4>2
    <3>. QED
      BY <1>T, <3>3, <3>4
  <2>3. ASSUME NEW s \in Subscribers, CloseFn(s)
        PROVE  Closed /\ \A x \in Subscribers : Listed(x) /\ Fresh(x) /\ Chan(x)
    <3>1. /\ closed' = closed /\ sub' = [sub EXCEPT ![s] = "done"]
          /\ \/ subs' = subs /\ chan' = chan
             \/ /\ subs' = [subs EXCEPT ![SubChannel[s]] = @ \ {s}]
                /\ chan' = [chan EXCEPT ![s].closed = TRUE]
      BY <2>3 DEF CloseFn
    <3>2. \A x \in Subscribers : Fresh(x)
      BY <1>T, <3>1
    <3>3. (\A x \in Subscribers : Chan(x)) /\ \A c \in Channels : subs'[c] \subseteq subs[c]
      <4>1. CASE subs' = subs /\ chan' = chan
        BY <4>1
      <4>2. CASE /\ subs' = [subs EXCEPT ![SubChannel[s]] = @ \ {s}]
                 /\ chan' = [chan EXCEPT ![s].closed = TRUE]
        <5>1. \A x \in Subscribers : Chan(x)
          BY <1>T, <4>2
        <5>2. \A c \in Channels : subs'[c] \subseteq subs[c]
          BY <1>T, <4>2
        <5>. QED
          BY <5>1, <5>2
      <4>. QED
        BY <3>1, <4>1, <4>2
    <3>. QED
      BY <1>T, <3>1, <3>2, <3>3
  <2>. QED
    BY <2>1, <2>2, <2>3
<1>4. DataTypes'
  BY <1>2, <1>3 DEF StreamInv, DataTypes
<1>5. ASSUME NEW x \in Subscribers PROVE StreamOK(x)'
  <2>1. Stream(x)' = Stream(x)
    BY <1>2, <1>3 DEF Stream
  <2>2. \A p \in Publishers : Upto(p, x)' = Upto(p, x) /\ Upto(p, x) \in Int
    BY <1>2 DEF Upto, StreamInv, LockInv, LockTypes
  <2>5. /\ pubDone \subseteq pubDone' /\ \A p \in Publishers : Upto(p, x) <= Upto(p, x)'
        /\ x \in subs'[SubChannel[x]] =>
             \/ Stream(x) = <<>>
             \/ /\ x \in subs[SubChannel[x]]
                /\ \A p \in Publishers \ pubDone' :
                      PubChannel[p] = SubChannel[x] => Upto(p, x)' = Upto(p, x)
    BY <1>2, <1>3, <2>2
  <2>3. Ordered(x)' /\ Published(x)' /\ NoGap(x)' /\ UpToDate(x)' /\ NothingBefore(x)'
    BY <1>2, <1>3, <2>1, <2>5, SameStreamKeeps
  <2>4. Drained(x)'
    BY <1>2, <1>3, SameDrained
  <2>. QED
    BY <2>3, <2>4 DEF StreamOK
<1>. QED
  BY <1>1, <1>4, <1>5 DEF StreamInv

(* A send appends the publisher's latest event, the next one s has to have. *)
LEMMA SendAppends ==
    ASSUME StreamInv, NEW p \in Publishers, PublishSend(p)
    PROVE  \E s \in targets[p] :
             /\ s \in Subscribers /\ s \in subs[SubChannel[s]] /\ PubChannel[p] = SubChannel[s]
             /\ ~chan[s].closed
             /\ chan' = [chan EXCEPT ![s].buf = Append(@, <<p, seq[p]>>)]
             /\ targets' = [targets EXCEPT ![p] = @ \ {s}]
             /\ pub' = pub
             /\ Stream(s)' = Append(Stream(s), <<p, seq[p]>>)
             /\ \A x \in Subscribers \ {s} : Stream(x)' = Stream(x)
<1> USE BusAssumption
<1>1. PICK s \in targets[p] :
        IF chan[s].closed
        THEN /\ pub' = [pub EXCEPT ![p] = "panic"]
             /\ UNCHANGED <<targets, chan>>
        ELSE /\ Len(chan[s].buf) < BufCap
             /\ chan' = [chan EXCEPT ![s].buf = Append(@, <<p, seq[p]>>)]
             /\ targets' = [targets EXCEPT ![p] = @ \ {s}]
             /\ UNCHANGED pub
  BY DEF PublishSend
<1>2. s \in Subscribers /\ ~chan[s].closed /\ s \in subs[SubChannel[s]] /\ PubChannel[p] = SubChannel[s]
  <2>1. pub[p] = "send" /\ s \in subs[PubChannel[p]] /\ PubChannel[p] \in Channels
    BY DEF PublishSend, TargetsSubscribed, StreamInv, LockInv
  <2>. QED
    BY <2>1 DEF ListedOpen, LockTypes, StreamInv, LockInv
<1>3. /\ pub' = pub /\ targets' = [targets EXCEPT ![p] = @ \ {s}]
      /\ chan' = [chan EXCEPT ![s].buf = Append(@, <<p, seq[p]>>)]
      /\ fwd' = fwd /\ got' = got
  BY <1>1, <1>2 DEF PublishSend
<1>4. /\ chan'[s].buf = Append(chan[s].buf, <<p, seq[p]>>)
      /\ \A x \in Subscribers \ {s} : chan'[x] = chan[x]
  BY <1>2, <1>3 DEF StreamInv, LockInv, LockTypes
<1>5. <<p, seq[p]>> \in Message
  BY DEF StreamInv, LockInv, LockTypes, Message
<1>6. Stream(s)' = Append(Stream(s), <<p, seq[p]>>)
  <2> DEFINE m == <<p, seq[p]>>
  <2>1. /\ got[s] \in Seq(Message) /\ fwd[s].out \in Seq(Message)
        /\ fwd[s].hand \in Seq(Message) /\ chan[s].buf \in Seq(Message)
    BY <1>2, StreamTyped
  <2>2. m \in Message /\ chan'[s].buf = Append(chan[s].buf, m)
    BY <1>4, <1>5
  <2> HIDE DEF m
  <2>3. Join(got[s], fwd[s].out, fwd[s].hand, Append(chan[s].buf, m))
          = Append(Join(got[s], fwd[s].out, fwd[s].hand, chan[s].buf), m)
    <3> DEFINE g == got[s]
               o == fwd[s].out
               h == fwd[s].hand
               b == chan[s].buf
    <3>1. g \in Seq(Message) /\ o \in Seq(Message) /\ h \in Seq(Message) /\ b \in Seq(Message)
      BY <2>1
    <3> HIDE DEF g, o, h, b
    <3>2. Join(g, o, h, Append(b, m)) = Append(Join(g, o, h, b), m)
      BY <2>2, <3>1, JoinAppend
    <3>. QED
      BY <3>2 DEF g, o, h, b
  <2>4. Stream(s)' = Append(Stream(s), m)
    BY <1>2, <1>3, <2>2, <2>3, StreamIsJoin
  <2>. QED
    BY <2>4 DEF m
<1>7. \A x \in Subscribers \ {s} : Stream(x)' = Stream(x)
  BY <1>3, <1>4, Zenon DEF Stream
<1>. QED
  BY <1>2, <1>3, <1>6, <1>7

LEMMA SendKeepsStreams ==
    ASSUME StreamInv, NEW p \in Publishers, PublishSend(p)
    PROVE  StreamInv'
<1> USE BusAssumption
<1>1. LockInv'
  BY SendKeeps DEF StreamInv
<1>2. UNCHANGED <<seq, pubDone, sub, subs, closed, fwd, got>>
  BY DEF PublishSend
<1>3. DataTypes'
  BY <1>2 DEF StreamInv, DataTypes
<1>4. PICK s \in targets[p] :
        /\ s \in Subscribers /\ s \in subs[SubChannel[s]] /\ PubChannel[p] = SubChannel[s]
        /\ ~chan[s].closed
        /\ chan' = [chan EXCEPT ![s].buf = Append(@, <<p, seq[p]>>)]
        /\ targets' = [targets EXCEPT ![p] = @ \ {s}]
        /\ pub' = pub
        /\ Stream(s)' = Append(Stream(s), <<p, seq[p]>>)
        /\ \A x \in Subscribers \ {s} : Stream(x)' = Stream(x)
  BY SendAppends
<1>T. /\ pub \in [Publishers -> {"idle", "rlock", "send", "panic"}] /\ pub[p] = "send"
      /\ seq \in [Publishers -> Nat] /\ seq' \in [Publishers -> Nat]
      /\ targets \in [Publishers -> SUBSET Subscribers]
      /\ chan \in [Subscribers -> [buf : Seq(Message), closed : BOOLEAN]]
  BY <1>1 DEF StreamInv, LockInv, LockTypes, PublishSend
<1>5. ASSUME NEW x \in Subscribers, x # s PROVE StreamOK(x)'
  <2>1. \A q \in Publishers : Upto(q, x)' = Upto(q, x) /\ Upto(q, x) \in Int
    BY <1>2, <1>4, <1>5, <1>T DEF Upto
  <2>5. /\ pubDone \subseteq pubDone' /\ \A q \in Publishers : Upto(q, x) <= Upto(q, x)'
        /\ sub' = sub /\ subs' = subs /\ Stream(x)' = Stream(x)
        /\ \A q \in Publishers \ pubDone' :
             PubChannel[q] = SubChannel[x] => Upto(q, x)' = Upto(q, x)
    BY <1>2, <1>4, <1>5, <2>1
  <2>2. Ordered(x)' /\ Published(x)' /\ NoGap(x)' /\ UpToDate(x)' /\ NothingBefore(x)'
    BY <1>5, <1>T, <2>5, SameStreamKeeps
  <2>3. chan'[x] = chan[x]
    BY <1>4, <1>5, <1>T
  <2>4. Drained(x)'
    BY <1>2, <2>3, SameDrained
  <2>. QED
    BY <2>2, <2>4 DEF StreamOK
<1>6. StreamOK(s)'
  <2> DEFINE m == <<p, seq[p]>>
             st == Stream(s)
  <2>1. /\ Ordered(s) /\ Published(s) /\ NoGap(s) /\ UpToDate(s) /\ Drained(s)
        /\ st \in Seq(Message) /\ m \in Message
        /\ \A e \in Seen(s) : e[1] \in Publishers /\ e[2] \in Nat /\ e = <<e[1], e[2]>>
    BY <1>4, <1>T, StreamTyped, SeenTyped DEF StreamInv, StreamOK, Message
  <2>2. /\ Len(Append(st, m)) = Len(st) + 1 /\ Len(st) \in Nat
        /\ \A i \in 1..Len(st) : Append(st, m)[i] = st[i] /\ st[i] \in Seen(s)
        /\ Append(st, m)[Len(st) + 1] = m
    BY <2>1 DEF Seen
  <2>3. Seen(s)' = Seen(s) \cup {m}
    <3>1. Seen(s)' = {Append(st, m)[i] : i \in 1..(Len(st) + 1)} /\ Seen(s) = {st[i] : i \in 1..Len(st)}
      BY <1>4, <2>2 DEF Seen
    <3> HIDE DEF m, st
    <3>2. ASSUME NEW e \in Seen(s)' PROVE e \in Seen(s) \cup {m}
      <4>1. PICK i \in 1..(Len(st) + 1) : e = Append(st, m)[i]
        BY <3>1, <3>2
      <4>2. CASE i = Len(st) + 1
        BY <2>2, <4>1, <4>2
      <4>3. CASE i # Len(st) + 1
        <5>1. i \in 1..Len(st)
          BY <2>2, <4>3
        <5>. QED
          BY <2>2, <4>1, <5>1
      <4>. QED
        BY <4>2, <4>3
    <3>3. m \in Seen(s)'
      <4>1. Len(st) + 1 \in 1..(Len(st) + 1)
        BY <2>2
      <4>. QED
        BY <2>2, <3>1, <4>1
    <3>4. ASSUME NEW e \in Seen(s) PROVE e \in Seen(s)'
      <4>1. PICK i \in 1..Len(st) : e = st[i]
        BY <3>1, <3>4
      <4>2. i \in 1..(Len(st) + 1)
        BY <2>2
      <4>. QED
        BY <2>2, <3>1, <4>1, <4>2
    <3>. QED
      BY <3>2, <3>3, <3>4
  <2>4. /\ Upto(p, s) = seq[p] - 1 /\ Upto(p, s)' = seq[p] /\ seq[p] \in Nat
        /\ \A q \in Publishers \ {p} : Upto(q, s)' = Upto(q, s)
    BY <1>2, <1>4, <1>T DEF Upto
  <2>5. \A e \in Seen(s) : e[1] = p => e[2] < seq[p]
    BY <2>1, <2>4 DEF Published
  <2>6. Ordered(s)'
    <3> HIDE DEF m, st
    <3>1. m[1] = p /\ m[2] = seq[p]
      BY DEF m
    <3> SUFFICES ASSUME NEW i \in 1..(Len(st) + 1), NEW j \in 1..(Len(st) + 1), i < j,
                        Append(st, m)[i][1] = Append(st, m)[j][1]
                 PROVE  Append(st, m)[i][2] < Append(st, m)[j][2]
      BY <1>4, <2>2 DEF Ordered, m, st
    <3>2. CASE j = Len(st) + 1
      BY <2>2, <2>5, <3>1, <3>2
    <3>3. CASE j # Len(st) + 1
      <4>1. i \in 1..Len(st) /\ j \in 1..Len(st)
        BY <2>2, <3>3, SMTT(60)
      <4>. QED
        BY <2>1, <2>2, <4>1 DEF Ordered, st
    <3>. QED
      BY <3>2, <3>3
  <2>7. Published(s)'
    BY <1>2, <1>4, <2>1, <2>3, <2>4, <2>5 DEF Published
  <2>8. UpToDate(s)'
    <3> SUFFICES ASSUME NEW e \in Seen(s) \cup {m}, e[1] \notin pubDone,
                        NEW k \in e[2]..Upto(e[1], s)'
                 PROVE  <<e[1], k>> \in Seen(s) \cup {m}
      BY <1>2, <2>3 DEF UpToDate
    <3>1. CASE e = m
      BY <2>4, <3>1
    <3>2. CASE e \in Seen(s) /\ e[1] = p
      BY <1>4, <2>1, <2>4, <3>2 DEF UpToDate
    <3>3. CASE e \in Seen(s) /\ e[1] # p
      BY <1>4, <2>1, <2>4, <3>3 DEF UpToDate
    <3>. QED
      BY <3>1, <3>2, <3>3
  <2>9. NoGap(s)'
    <3> SUFFICES ASSUME NEW e \in Seen(s) \cup {m}, NEW f \in Seen(s) \cup {m},
                        e[1] = f[1], e[1] \notin pubDone, NEW k \in e[2]..f[2]
                 PROVE  <<e[1], k>> \in Seen(s) \cup {m}
      BY <1>2, <2>3 DEF NoGap
    <3>1. CASE e = m
      <4>1. f[2] <= seq[p] /\ f[2] \in Nat
        BY <2>1, <2>4, <2>5, <3>1
      <4>. QED
        BY <2>4, <3>1, <4>1
    <3>2. CASE e \in Seen(s) /\ f \in Seen(s)
      BY <2>1, <3>2 DEF NoGap
    <3>3. CASE e \in Seen(s) /\ f = m
      BY <1>4, <2>1, <2>4, <3>3 DEF UpToDate
    <3>. QED
      BY <3>1, <3>2, <3>3
  <2>10. NothingBefore(s)'
    BY <1>2, <1>4 DEF NothingBefore, StreamInv, LockInv, FreshOpen
  <2>11. Drained(s)'
    BY <1>2, <1>4, <2>1 DEF Drained
  <2>. QED
    BY <2>6, <2>7, <2>8, <2>9, <2>10, <2>11 DEF StreamOK
<1>. QED
  BY <1>1, <1>3, <1>5, <1>6 DEF StreamInv

LEMMA InitStreamInv == BusInit => StreamInv
<1> SUFFICES ASSUME BusInit PROVE StreamInv
  OBVIOUS
<1>1. LockInv
  BY InitLockInv
<1>2. DataTypes
  <2>1. fwd \in [Subscribers -> [hand : Seq(Message), out : Seq(Message), closed : BOOLEAN]]
    BY DEF BusInit
  <2>. QED
    BY <2>1 DEF BusInit, DataTypes
<1>3. ASSUME NEW s \in Subscribers PROVE StreamOK(s)
  <2>1. Stream(s) = <<>>
    <3>1. got[s] = <<>> /\ fwd[s].out = <<>> /\ fwd[s].hand = <<>> /\ chan[s].buf = <<>>
      BY DEF BusInit
    <3>2. <<>> \o <<>> = <<>>
      OBVIOUS
    <3>. QED
      BY <3>1, <3>2 DEF Stream
  <2>2. Seen(s) = {} /\ Len(Stream(s)) = 0
    BY <2>1 DEF Seen
  <2>3. Ordered(s)
    BY <2>2 DEF Ordered
  <2>4. ~fwd[s].closed
    BY DEF BusInit
  <2>. QED
    BY <2>1, <2>2, <2>3, <2>4 DEF StreamOK, Published, NoGap, UpToDate, NothingBefore, Drained
<1>. QED
  BY <1>1, <1>2, <1>3 DEF StreamInv

LEMMA NextStreamInv == StreamInv /\ [BusNext]_busVars => StreamInv'
BY DrainKeepsStreams, PublishKeepsStreams, QuietKeepsStreams, WriterKeepsStreams, SendKeepsStreams
DEF BusNext, PublishStep

LEMMA StreamInvDelivers == StreamInv => DeliveredInOrder
<1> SUFFICES ASSUME StreamInv, NEW s \in Subscribers
             PROVE  /\ Ordered(s) /\ NoGap(s)
                    /\ \A e \in Seen(s) :
                         s \in subs[SubChannel[s]] /\ e[1] \notin pubDone /\ pub[e[1]] = "idle" =>
                            <<e[1], seq[e[1]]>> \in Seen(s)
                    /\ fwd[s].closed =>
                         chan[s].buf = <<>> /\ fwd[s].hand = <<>> /\ s \notin subs[SubChannel[s]]
  BY DEF DeliveredInOrder, Ordered, NoGap, Seen
<1>1. Ordered(s) /\ Published(s) /\ NoGap(s) /\ UpToDate(s) /\ Drained(s)
  BY DEF StreamInv, StreamOK
<1>2. ASSUME NEW e \in Seen(s), s \in subs[SubChannel[s]], e[1] \notin pubDone, pub[e[1]] = "idle"
      PROVE  <<e[1], seq[e[1]]>> \in Seen(s)
  <2>1. Upto(e[1], s) = seq[e[1]]
    BY <1>2 DEF Upto
  <2>2. e[2] \in Nat /\ e[2] <= seq[e[1]] /\ seq[e[1]] \in Nat
    BY <1>1, <2>1, SeenTyped DEF Published, StreamInv, LockInv, LockTypes
  <2>. QED
    BY <1>1, <1>2, <2>1, <2>2 DEF UpToDate
<1>3. fwd[s].closed => s \notin subs[SubChannel[s]]
  BY <1>1, BusAssumption DEF Drained, StreamInv, LockInv, ListedOpen
<1>. QED
  BY <1>1, <1>2, <1>3 DEF Drained

(* Whatever publishes, subscribes, unsubscribes, cancels and closes in the  *)
(* meantime, a subscriber sees the events of each publisher in the order    *)
(* they were published, none twice and none missing from the first it saw,  *)
(* and a stream that has ended was drained and is out of the bus.           *)
THEOREM StreamsInOrder == BusSpec => []DeliveredInOrder
BY InitStreamInv, NextStreamInv, StreamInvDelivers, PTL DEF BusSpec

-----------------------------------------------------------------------------
(* Approvals. *)

(* A call that has been made is known by its request. *)
LEMMA NoCallHasNoRequest == \A c : NoCall.req # {c}
  BY DEF NoCall

LEMMA InitInv == ApprovalInit => TokenInv
  <1> SUFFICES ASSUME ApprovalInit PROVE TokenInv
    OBVIOUS
  <1> USE ApprovalAssumption DEF ApprovalInit
  <1>1. ApprovalTypeOK
    BY DEF ApprovalTypeOK, Calls, NoCall, Statuses
  <1>2. \A a \in Answers, c \in Requests : ~Of(a, c)
    BY NoCallHasNoRequest DEF Of
  <1>3. QED
    BY <1>1, <1>2 DEF TokenInv, TokenHome, AnswersAsked, ViaKnown, TokenTaken, SlotFree, OneTaker, OneWay, Accepted

(* Every step keeps TokenInv. *)
LEMMA StepInv == TokenInv /\ [ApprovalNext]_approvalVars => TokenInv'
  <1> SUFFICES ASSUME TokenInv, [ApprovalNext]_approvalVars PROVE TokenInv'
    OBVIOUS
  <1> USE ApprovalAssumption
  <1>T. ApprovalTypeOK
    BY DEF TokenInv
  <1>1. ASSUME NEW c \in Requests, Ask(c) PROVE TokenInv'
    <2>1. ApprovalTypeOK'
      BY <1>1, <1>T DEF Ask, ApprovalTypeOK
    <2>2. \A a \in Answers : ~Of(a, c)
      BY <1>1 DEF Ask, TokenInv, AnswersAsked
    <2>3. /\ wait[c] = "idle" /\ wait'[c] # "idle"
          /\ \A d \in Requests \ {c} : wait'[d] = wait[d]
          /\ \A rt \in Runtimes : pending'[rt] \subseteq pending[rt] \cup {c}
          /\ \A rt \in Runtimes : c \in pending'[rt] =>
                 rt = Owner[c] /\ wait'[c] \in {"handler", "select"}
          /\ UNCHANGED <<ch, ans>>
      BY <1>1, <1>T DEF Ask, ApprovalTypeOK, TokenInv, TokenHome
    <2>4. TokenHome' /\ AnswersAsked' /\ ViaKnown'
      BY <2>2, <2>3 DEF TokenInv, TokenHome, AnswersAsked, ViaKnown, Of
    <2>5. TokenTaken' /\ OneTaker'
      BY <2>2, <2>3 DEF TokenInv, TokenTaken, OneTaker, OneWay, Of, Accepted
    <2>6. SlotFree'
      BY <2>2, <2>3 DEF TokenInv, SlotFree, OneWay, Of, Accepted
    <2>7. QED
      BY <2>1, <2>4, <2>5, <2>6 DEF TokenInv
  <1>2. ASSUME NEW c \in Requests, HandlerReturns(c) PROVE TokenInv'
    <2>1. ApprovalTypeOK'
      BY <1>2, <1>T DEF HandlerReturns, ApprovalTypeOK
    <2>2. /\ wait[c] # "idle" /\ wait'[c] \in {"select", "over"}
          /\ \A d \in Requests \ {c} : wait'[d] = wait[d]
          /\ UNCHANGED <<ch, ans>>
          /\ pending' = pending
      BY <1>2, <1>T DEF HandlerReturns, ApprovalTypeOK
    <2>3. TokenHome'
      BY <1>2, <1>T, <2>2 DEF HandlerReturns, ApprovalTypeOK, TokenInv, TokenHome
    <2>4. AnswersAsked' /\ ViaKnown' /\ TokenTaken' /\ OneTaker'
      BY <2>2 DEF TokenInv, AnswersAsked, ViaKnown, TokenTaken, OneTaker, OneWay, Of, Accepted
    <2>5. SlotFree'
      BY <2>2 DEF TokenInv, SlotFree, OneWay, Of, Accepted
    <2>6. QED
      BY <2>1, <2>3, <2>4, <2>5 DEF TokenInv
  <1>3. ASSUME NEW c \in Requests, Select(c) PROVE TokenInv'
    <2>1. /\ wait[c] = "select"
          /\ wait' = [wait EXCEPT ![c] = "leaving"]
          /\ UNCHANGED <<pending, expired, runDone, ans>>
      BY <1>3 DEF Select, SelectAnswer, SelectTimeout, SelectDone, Resolve
    <2>2. ch' = ch \/ ch' = [ch EXCEPT ![c] = <<>>]
      <3>1. \A s \in Statuses : Tail(<<s>>) = <<>>
        OBVIOUS
      <3>2. ch[c] # <<>> => Tail(ch[c]) = <<>>
        <4>1. SUFFICES ASSUME ch[c] # <<>> PROVE Tail(ch[c]) = <<>>
          OBVIOUS
        <4>2. ch[c] \in {<<>>} \cup {<<s>> : s \in Statuses}
          BY <1>T DEF ApprovalTypeOK
        <4>3. PICK s \in Statuses : ch[c] = <<s>>
          BY <4>1, <4>2
        <4>4. QED
          BY <3>1, <4>3
      <3>3. QED
        BY <1>3, <3>2 DEF Select, SelectAnswer, SelectTimeout, SelectDone
    <2>3. outcome' \in [Requests -> Statuses \cup {"none", "timedOut", "cancelled", "unavailable"}]
      BY <1>3, <1>T DEF Select, SelectAnswer, SelectTimeout, SelectDone, Resolve, ApprovalTypeOK, Statuses
    <2>4. ApprovalTypeOK'
      BY <1>T, <2>1, <2>2, <2>3 DEF ApprovalTypeOK
    <2>5. TokenHome' /\ AnswersAsked' /\ ViaKnown'
      BY <1>T, <2>1 DEF ApprovalTypeOK, TokenInv, TokenHome, AnswersAsked, ViaKnown, Of
    <2>6. TokenTaken' /\ OneTaker'
      BY <2>1 DEF TokenInv, TokenTaken, OneTaker, OneWay, Of, Accepted
    <2>7. SlotFree'
      <3>1. \A d \in Requests : ch[d] = <<>> => ch'[d] = <<>>
        BY <1>T, <2>2 DEF ApprovalTypeOK
      <3>2. QED
        BY <1>T, <2>1, <3>1 DEF ApprovalTypeOK, TokenInv, SlotFree, OneWay, Of, Accepted
    <2>8. QED
      BY <2>4, <2>5, <2>6, <2>7 DEF TokenInv
  <1>4. ASSUME NEW c \in Requests, Leave(c) PROVE TokenInv'
    <2>1. ApprovalTypeOK'
      BY <1>4, <1>T DEF Leave, ApprovalTypeOK
    <2>2. /\ wait[c] # "idle" /\ wait'[c] \in {"select", "over"}
          /\ \A d \in Requests \ {c} : wait'[d] = wait[d]
          /\ UNCHANGED <<ch, ans>>
          /\ c \notin pending'[Owner[c]]
          /\ \A rt \in Runtimes : pending'[rt] \subseteq pending[rt]
      BY <1>4, <1>T DEF Leave, ApprovalTypeOK
    <2>3. TokenHome'
      BY <1>4, <1>T, <2>2 DEF Leave, ApprovalTypeOK, TokenInv, TokenHome
    <2>4. AnswersAsked' /\ ViaKnown' /\ TokenTaken' /\ OneTaker'
      BY <2>2 DEF TokenInv, AnswersAsked, ViaKnown, TokenTaken, OneTaker, OneWay, Of, Accepted
    <2>5. SlotFree'
      BY <2>2 DEF TokenInv, SlotFree, OneWay, Of, Accepted
    <2>6. QED
      BY <2>1, <2>3, <2>4, <2>5 DEF TokenInv
  <1>5. ASSUME NEW c \in Requests, TimerFires(c) PROVE TokenInv'
    <2>1. ApprovalTypeOK'
      BY <1>5, <1>T DEF TimerFires, waitVars, ApprovalTypeOK
    <2>2. QED
      <3>1. UNCHANGED <<wait, outcome, pending, ch, ans>>
        BY <1>5 DEF TimerFires, waitVars
      <3>2. TokenHome' /\ AnswersAsked' /\ ViaKnown'
        BY <3>1 DEF TokenInv, TokenHome, AnswersAsked, ViaKnown, Of
      <3>3. TokenTaken' /\ OneTaker'
        BY <3>1 DEF TokenInv, TokenTaken, OneTaker, OneWay, Of, Accepted
      <3>4. SlotFree'
        BY <3>1 DEF TokenInv, SlotFree, OneWay, Of, Accepted
      <3>5. QED
        BY <2>1, <3>2, <3>3, <3>4 DEF TokenInv
  <1>6. ASSUME NEW a \in Answers, NEW c \in Requests, NEW s \in Statuses, Respond(a, c, s)
        PROVE TokenInv'
    <2>1. c \in Handled /\ wait[c] # "idle"
      BY <1>6 DEF Respond
    <2>2. PICK v \in {"inline", "later"} : Call(a, c, s, v, "send")
      BY <1>6 DEF Respond
    <2>3. UNCHANGED <<wait, outcome, pending, ch, expired, runDone>>
      BY <1>6 DEF Respond, waitVars
    <2>4. ApprovalTypeOK'
      BY <1>T, <2>2, <2>3 DEF ApprovalTypeOK, Call, Calls
    <2>5. /\ ans'[a] = [req |-> {c}, status |-> s, via |-> v, pc |-> "send"]
          /\ \A b \in Answers \ {a} : ans'[b] = ans[b]
          /\ \A d : ~Of(a, d)
      BY <1>T, <2>2, NoCallHasNoRequest DEF ApprovalTypeOK, Call, Of
    <2>6. /\ \A d \in Requests : Of(a, d)' <=> d = c
          /\ \A d \in Requests, b \in Answers \ {a} :
               (Of(b, d)' <=> Of(b, d)) /\ (Accepted(b, d)' <=> Accepted(b, d))
      <3>1. ans'[a].req = {c}
        BY <2>5
      <3>2. \A d \in Requests : Of(a, d)' <=> d = c
        BY <3>1, Zenon DEF Of
      <3>3. QED
        BY <2>5, <3>2 DEF Of, Accepted
    <2>7. c \in OneWay => \A b \in Answers : ~Of(b, c)
      BY <1>6, <2>1 DEF Respond, OneWay, TokenInv, ViaKnown
    <2>8. TokenHome' /\ AnswersAsked'
      BY <2>1, <2>3, <2>6 DEF TokenInv, TokenHome, AnswersAsked
    <2>9. ViaKnown'
      <3>1. ans'[a].via # "approve"
        BY <2>5
      <3>2. QED
        BY <2>1, <2>5, <2>6, <3>1 DEF TokenInv, ViaKnown
    <2>10. TokenTaken'
      BY <2>1, <2>3, <2>6 DEF TokenInv, TokenTaken, Accepted, OneWay
    <2>11. SlotFree'
      <3>1. c \in OneWay => ch[c] = <<>>
        BY <2>7 DEF TokenInv, SlotFree, Accepted
      <3>2. \A d \in OneWay \ {c} : \A b \in Answers : Accepted(b, d)' <=> Accepted(b, d)
        BY <2>5, <2>6 DEF OneWay, Accepted
      <3>3. QED
        BY <2>3, <2>5, <2>6, <3>1, <3>2 DEF TokenInv, SlotFree, OneWay
    <2>12. OneTaker'
      BY <2>5, <2>6, <2>7 DEF TokenInv, OneTaker, OneWay, Accepted
    <2>13. QED
      BY <2>4, <2>8, <2>9, <2>10, <2>11, <2>12 DEF TokenInv
  <1>7. ASSUME NEW a \in Answers, NEW c \in Requests, NEW s \in Statuses, ApproveCall(a, c, s)
        PROVE TokenInv'
    <2> DEFINE p == IF c \in pending[Root] THEN "send" ELSE "refused"
    <2>1. c \in Streamed /\ wait[c] # "idle" /\ Call(a, c, s, "approve", p)
      BY <1>7 DEF ApproveCall
    <2>2. /\ UNCHANGED <<wait, outcome, ch, expired, runDone>>
          /\ pending' = [pending EXCEPT ![Root] = @ \ {c}]
      BY <1>7 DEF ApproveCall, waitVars
    <2>3. ApprovalTypeOK'
      BY <1>T, <2>1, <2>2 DEF ApprovalTypeOK, Call, Calls
    <2>4. /\ ans'[a] = [req |-> {c}, status |-> s, via |-> "approve", pc |-> p]
          /\ \A b \in Answers \ {a} : ans'[b] = ans[b]
          /\ \A d : ~Of(a, d)
      BY <1>T, <2>1, NoCallHasNoRequest DEF ApprovalTypeOK, Call, Of
    <2>5. /\ pending'[Root] = pending[Root] \ {c}
          /\ \A rt \in Runtimes : pending'[rt] \subseteq pending[rt]
          /\ \A d \in Requests : Of(a, d)' => d = c
          /\ ans'[a].via = "approve"
          /\ ans'[a].pc \in {"send", "ok"} => c \in pending[Root]
      <3>1. ans'[a].req = {c} /\ ans'[a].via = "approve" /\ ans'[a].pc = p
        BY <2>4
      <3>2. p \in {"send", "ok"} => c \in pending[Root]
        OBVIOUS
      <3>3. \A d \in Requests : Of(a, d)' => d = c
        BY <3>1, Zenon DEF Of
      <3>4. pending'[Root] = pending[Root] \ {c} /\ \A rt \in Runtimes : pending'[rt] \subseteq pending[rt]
        BY <1>T, <2>2 DEF ApprovalTypeOK
      <3>5. QED
        BY <3>1, <3>2, <3>3, <3>4
    <2>6. /\ \A d \in Requests, b \in Answers \ {a} :
               (Of(b, d)' <=> Of(b, d)) /\ (Accepted(b, d)' <=> Accepted(b, d))
          /\ \A d \in Requests \ {c}, b \in Answers : Accepted(b, d)' <=> Accepted(b, d)
      BY <2>4, <2>5 DEF Of, Accepted
    <2>7. TokenHome' /\ AnswersAsked' /\ ViaKnown' /\ TokenTaken'
      <3>1. TokenHome' /\ AnswersAsked'
        BY <2>1, <2>2, <2>5, <2>6 DEF TokenInv, TokenHome, AnswersAsked
      <3>2. ViaKnown'
        BY <2>1, <2>4, <2>5, <2>6 DEF TokenInv, ViaKnown
      <3>3. TokenTaken'
        BY <2>5, <2>6 DEF TokenInv, TokenTaken, OneWay
      <3>4. QED
        BY <3>1, <3>2, <3>3
    <2>8. SlotFree'
      <3>1. c \in OneWay => c \notin Handled
        BY <2>1 DEF OneWay
      <3>2. c \in OneWay /\ ans'[a].pc = "send" => ch[c] = <<>>
        BY <2>5, <3>1 DEF TokenInv, SlotFree
      <3>3. c \in OneWay /\ (\A b \in Answers : ~Accepted(b, c)') => ch[c] = <<>>
        <4>1. ~Accepted(a, c)
          BY <2>4 DEF Accepted
        <4>2. QED
          BY <2>6, <4>1 DEF TokenInv, SlotFree, OneWay
      <3>4. c \notin pending'[Root] /\ wait'[c] # "idle"
        BY <2>1, <2>2, <2>5
      <3>5. \A d \in OneWay \ {c} : \A b \in Answers :
              Of(b, d)' /\ ans'[b].pc = "send" => Of(b, d) /\ ans[b].pc = "send"
        BY <2>4, <2>5, <2>6 DEF OneWay
      <3>6. \A b \in Answers : Of(b, c)' /\ ans'[b].pc = "send" /\ b # a => Of(b, c) /\ ans[b].pc = "send"
        BY <2>4, <2>6
      <3>7. QED
        BY <2>2, <2>5, <2>6, <3>2, <3>3, <3>4, <3>5, <3>6 DEF TokenInv, SlotFree, OneWay
    <2>9. OneTaker'
      <3>1. SUFFICES ASSUME NEW d \in OneWay, NEW b \in Answers \ {a},
                            Accepted(a, d)', Accepted(b, d)'
                     PROVE FALSE
        BY <2>4 DEF TokenInv, OneTaker, OneWay, Of, Accepted
      <3>2. d = c /\ c \in pending[Root] /\ Accepted(b, d) /\ d \notin Handled
        BY <2>1, <2>4, <2>5, <3>1 DEF Of, Accepted, OneWay
      <3>3. QED
        BY <3>1, <3>2 DEF TokenInv, TokenTaken
    <2>10. QED
      BY <2>3, <2>7, <2>8, <2>9 DEF TokenInv
  <1>8. ASSUME NEW a \in Answers, Send(a) PROVE TokenInv'
    <2>1. PICK c \in Requests :
            /\ ans[a].pc = "send" /\ Of(a, c)
            /\ \/ ch[c] = <<>> /\ ch' = [ch EXCEPT ![c] = <<ans[a].status>>]
               \/ ch[c] # <<>> /\ c \in BudgetKind /\ ans[a].via # "approve" /\ UNCHANGED ch
            /\ ans' = [ans EXCEPT ![a].pc = "ok"]
            /\ UNCHANGED <<wait, outcome, pending, expired, runDone>>
      BY <1>8 DEF Send, waitVars
    <2>2. /\ ans[a] \in [req : {{d} : d \in Requests}, status : Statuses,
                         via : {"inline", "later", "approve"}, pc : {"send", "ok", "refused"}]
      BY <1>T, <2>1 DEF ApprovalTypeOK, Calls, NoCall
    <2>3. ApprovalTypeOK'
      BY <1>T, <2>1, <2>2 DEF ApprovalTypeOK, Calls
    <2>4. /\ \A b \in Answers : ans'[b].req = ans[b].req /\ ans'[b].via = ans[b].via
          /\ ans'[a].pc = "ok"
          /\ \A b \in Answers \ {a} : ans'[b] = ans[b]
      BY <1>T, <2>1, <2>2 DEF ApprovalTypeOK
    <2>5. /\ \A b \in Answers, d \in Requests : Of(b, d)' <=> Of(b, d)
          /\ \A b \in Answers, d \in Requests : Accepted(b, d)' <=> Accepted(b, d)
      BY <2>1, <2>4 DEF Of, Accepted
    <2>6. TokenHome' /\ AnswersAsked' /\ ViaKnown' /\ TokenTaken' /\ OneTaker'
      BY <2>1, <2>4, <2>5 DEF TokenInv, TokenHome, AnswersAsked, ViaKnown, TokenTaken, OneTaker, OneWay
    <2>7. SlotFree'
      <3>1. \A d \in Requests \ {c} : ch'[d] = ch[d]
        BY <1>T, <2>1 DEF ApprovalTypeOK
      <3>2. /\ Accepted(a, c) /\ Accepted(a, c)' /\ wait[c] # "idle"
            /\ c \in OneWay \ Handled => c \notin pending[Root]
            /\ c \in OneWay => \A b \in Answers \ {a} : ~Accepted(b, c)
        BY <2>1, <2>5 DEF TokenInv, TokenTaken, OneTaker, AnswersAsked, Accepted
      <3>3. \A b \in Answers : ans'[b].pc = "send" => ans[b].pc = "send" /\ b # a
        BY <2>4
      <3>4. c \in OneWay => \A b \in Answers : ans'[b].pc = "send" => ~Of(b, c)
        BY <3>2, <3>3 DEF Accepted
      <3>5. QED
        BY <2>1, <2>5, <3>1, <3>2, <3>3, <3>4 DEF TokenInv, SlotFree, OneWay
    <2>8. QED
      BY <2>3, <2>6, <2>7 DEF TokenInv
  <1>9. CASE RunDone
    <2>1. ApprovalTypeOK'
      BY <1>9, <1>T DEF RunDone, waitVars, ApprovalTypeOK
    <2>2. QED
      BY <1>9, <2>1, SMTT(60) DEF RunDone, waitVars, TokenInv, TokenHome, AnswersAsked, ViaKnown, TokenTaken, SlotFree, OneTaker, OneWay, Of, Accepted
  <1>10. CASE UNCHANGED approvalVars
    BY <1>10 DEF approvalVars, TokenInv, ApprovalTypeOK, TokenHome, AnswersAsked, ViaKnown, TokenTaken, SlotFree, OneTaker, OneWay, Of, Accepted
  <1>11. QED
    BY <1>1, <1>2, <1>3, <1>4, <1>5, <1>6, <1>7, <1>8, <1>9, <1>10 DEF ApprovalNext

(* The inductive invariant holds of every behaviour. *)
THEOREM TokenInvariant == ApprovalSpec => []TokenInv
  BY InitInv, StepInv, PTL DEF ApprovalSpec

(* Of the Approve calls on a stream, and of the Respond calls of a handler  *)
(* that responds once, at most one succeeds for a token.                    *)
THEOREM OneAnswer == ApprovalSpec => []OneAnswerSucceeds
  <1>1. TokenInv => OneAnswerSucceeds
    BY DEF TokenInv, OneTaker, OneAnswerSucceeds, Accepted
  <1>2. QED
    BY <1>1, TokenInvariant, PTL

(* A request that is over has left no token in any runtime, and an answer   *)
(* that was accepted finds the slot free: its call returns even when the    *)
(* wait has ended by its timer.                                             *)
THEOREM NoStuckAnswer == ApprovalSpec => []NothingLeftBehind
  <1>1. TokenInv => NothingLeftBehind
    BY DEF TokenInv, TokenHome, SlotFree, NothingLeftBehind
  <1>2. QED
    BY <1>1, TokenInvariant, PTL
-----------------------------------------------------------------------------
(* What the waits end with. An answer that was sent is in the slot until    *)
(* the wait takes it, so what the slot holds and what a wait ended with     *)
(* are statuses of calls that succeeded.                                    *)
Sent(a, c) == Of(a, c) /\ ans[a].pc = "ok"

SlotFrom ==
    \A c \in Requests : ch[c] # <<>> => \E a \in Answers : Sent(a, c) /\ ch[c] = <<ans[a].status>>

OutcomeFrom ==
    \A c \in Requests :
        /\ wait[c] \in {"idle", "handler", "select"} => outcome[c] = "none"
        /\ wait[c] \in {"leaving", "over"} =>
             \/ \E a \in Answers : Sent(a, c) /\ ans[a].status = outcome[c]
             \/ /\ c \in expired \/ runDone
                /\ outcome[c] \in Statuses => c \in BudgetKind /\ runDone
             \/ c \notin Handled \cup Streamed /\ outcome[c] = "unavailable"

(* A request that is answered one way keeps its answer: in the slot while   *)
(* it waits, as its outcome afterwards.                                     *)
AnswerKept ==
    \A c \in OneWay : \A a \in Answers : Sent(a, c) =>
        \/ wait[c] \in {"handler", "select"} /\ ch[c] = <<ans[a].status>>
        \/ wait[c] \in {"leaving", "over"} /\ (outcome[c] = ans[a].status \/ c \in expired \/ runDone)

AnswerInv == TokenInv /\ SlotFrom /\ OutcomeFrom /\ AnswerKept

(* Only Send changes who has sent; an answer keeps its status. *)
LEMMA SentStays ==
  ASSUME TokenInv, [ApprovalNext]_approvalVars
  PROVE  /\ \A a \in Answers, c \in Requests : Sent(a, c) => Sent(a, c)' /\ ans'[a].status = ans[a].status
         /\ \A a \in Answers, c \in Requests : Sent(a, c)' => Sent(a, c) \/ (Send(a) /\ Of(a, c))
  <1>T. ApprovalTypeOK
    BY DEF TokenInv
  <1>1. ASSUME NEW b \in Answers, NEW d \in Requests, NEW s \in Statuses, Respond(b, d, s) \/ ApproveCall(b, d, s)
        PROVE  /\ \A a \in Answers, c \in Requests : Sent(a, c) => Sent(a, c)' /\ ans'[a].status = ans[a].status
               /\ \A a \in Answers, c \in Requests : Sent(a, c)' => Sent(a, c)
    <2>1. PICK v \in {"inline", "later", "approve"}, p \in {"send", "refused"} : Call(b, d, s, v, p)
      BY <1>1 DEF Respond, ApproveCall
    <2>2. ans'[b] = [req |-> {d}, status |-> s, via |-> v, pc |-> p] /\ \A a \in Answers \ {b} : ans'[a] = ans[a]
      BY <1>T, <2>1 DEF Call, ApprovalTypeOK
    <2>3. ans'[b].pc # "ok" /\ ans[b].pc # "ok"
      <3>1. ans[b].pc = "idle"
        BY <2>1 DEF Call, NoCall
      <3>2. ans'[b].pc = p
        BY <2>2
      <3>3. QED
        BY <3>1, <3>2
    <2>4. QED
      BY <2>2, <2>3 DEF Sent, Of
  <1>2. ASSUME NEW b \in Answers, Send(b)
        PROVE  /\ \A a \in Answers, c \in Requests : Sent(a, c) => Sent(a, c)' /\ ans'[a].status = ans[a].status
               /\ \A a \in Answers, c \in Requests : Sent(a, c)' => Sent(a, c) \/ (a = b /\ Of(a, c))
    <2>1. ans' = [ans EXCEPT ![b].pc = "ok"] /\ ans[b].pc = "send"
      BY <1>2 DEF Send
    <2>2. ans[b] \in [req : {{d} : d \in Requests}, status : Statuses,
                      via : {"inline", "later", "approve"}, pc : {"send", "ok", "refused"}]
      BY <1>T, <2>1 DEF ApprovalTypeOK, Calls, NoCall
    <2>3. /\ ans'[b].req = ans[b].req /\ ans'[b].status = ans[b].status
          /\ \A a \in Answers \ {b} : ans'[a] = ans[a]
      BY <1>T, <2>1, <2>2 DEF ApprovalTypeOK
    <2>4. QED
      BY <2>1, <2>3 DEF Sent, Of
  <1>3. ASSUME UNCHANGED ans
        PROVE  /\ \A a \in Answers, c \in Requests : Sent(a, c) => Sent(a, c)' /\ ans'[a].status = ans[a].status
               /\ \A a \in Answers, c \in Requests : Sent(a, c)' => Sent(a, c)
    BY <1>3 DEF Sent, Of
  <1>4. \/ \E b \in Answers, d \in Requests, s \in Statuses : Respond(b, d, s) \/ ApproveCall(b, d, s)
        \/ \E b \in Answers : Send(b)
        \/ UNCHANGED ans
    BY DEF ApprovalNext, approvalVars, Ask, HandlerReturns, Select, SelectAnswer, SelectTimeout, SelectDone, Resolve,
           Leave, TimerFires, RunDone
  <1>5. QED
    BY <1>1, <1>2, <1>3, <1>4

LEMMA AnswerInitial == ApprovalInit => AnswerInv
  <1> SUFFICES ASSUME ApprovalInit PROVE AnswerInv
    OBVIOUS
  <1>1. \A a \in Answers, c \in Requests : ~Sent(a, c)
    BY NoCallHasNoRequest DEF ApprovalInit, Of, Sent
  <1>2. TokenInv
    BY InitInv
  <1>3. QED
    BY <1>1, <1>2 DEF AnswerInv, ApprovalInit, SlotFrom, OutcomeFrom, AnswerKept, OneWay

(* Every step keeps AnswerInv. *)
LEMMA AnswerStep == AnswerInv /\ [ApprovalNext]_approvalVars => AnswerInv'
  <1> SUFFICES ASSUME AnswerInv, [ApprovalNext]_approvalVars PROVE AnswerInv'
    OBVIOUS
  <1>T. TokenInv /\ TokenInv' /\ ApprovalTypeOK
    BY StepInv DEF AnswerInv, TokenInv
  <1>S. /\ \A a \in Answers, c \in Requests : Sent(a, c) => Sent(a, c)' /\ ans'[a].status = ans[a].status
        /\ \A a \in Answers, c \in Requests : Sent(a, c)' => Sent(a, c) \/ (Send(a) /\ Of(a, c))
    BY <1>T, SentStays
  <1>R. OneWay \subseteq Requests
    BY DEF OneWay
  <1> USE DEF SlotFrom, OutcomeFrom, AnswerKept
  (* Steps that leave the waits and the slots as they are. *)
  <1>1. ASSUME UNCHANGED <<wait, outcome, ch>>, expired \subseteq expired', runDone => runDone',
               \A a \in Answers, c \in Requests : Sent(a, c)' => Sent(a, c)
        PROVE  AnswerInv'
    <2>1. SlotFrom'
      BY <1>1, <1>S DEF AnswerInv
    <2>2. OutcomeFrom'
      BY <1>1, <1>S DEF AnswerInv
    <2>3. AnswerKept'
      BY <1>1, <1>S, <1>R DEF AnswerInv
    <2>4. QED
      BY <1>T, <2>1, <2>2, <2>3 DEF AnswerInv
  <1>2. ASSUME NEW c \in Requests, Ask(c) PROVE AnswerInv'
    <2>1. \A a \in Answers : ~Sent(a, c)
      BY <1>2, <1>T DEF Ask, TokenInv, AnswersAsked, Sent
    <2>2. /\ wait[c] = "idle" /\ UNCHANGED <<ch, expired, runDone>>
          /\ \A d \in Requests \ {c} : wait'[d] = wait[d] /\ outcome'[d] = outcome[d]
          /\ \/ wait'[c] \in {"handler", "select"} /\ outcome'[c] = outcome[c]
             \/ wait'[c] = "over" /\ outcome'[c] = "unavailable" /\ c \notin Handled \cup Streamed
      BY <1>2, <1>T DEF Ask, ApprovalTypeOK
    <2>3. \A a \in Answers, d \in Requests : Sent(a, d)' => Sent(a, d)
      BY <1>2 DEF Ask, Sent, Of
    <2>4. SlotFrom'
      BY <2>2, <1>S DEF AnswerInv
    <2>5. OutcomeFrom'
      BY <2>2, <1>S DEF AnswerInv
    <2>6. AnswerKept'
      BY <2>1, <2>2, <2>3, <1>S, <1>R DEF AnswerInv
    <2>7. QED
      BY <1>T, <2>4, <2>5, <2>6 DEF AnswerInv
  <1>3. ASSUME NEW c \in Requests, HandlerReturns(c) \/ Leave(c) PROVE AnswerInv'
    <2>1. /\ UNCHANGED <<ch, expired, runDone, outcome, ans>>
          /\ \A d \in Requests \ {c} : wait'[d] = wait[d]
          /\ \/ wait[c] = "handler" /\ wait'[c] = "select"
             \/ wait[c] = "leaving" /\ wait'[c] = "over"
      BY <1>3, <1>T DEF HandlerReturns, Leave, ApprovalTypeOK
    <2>2. \A a \in Answers, d \in Requests : Sent(a, d)' <=> Sent(a, d)
      BY <2>1 DEF Sent, Of
    <2>3. SlotFrom'
      BY <2>1, <2>2 DEF AnswerInv
    <2>4. OutcomeFrom'
      BY <2>1, <2>2 DEF AnswerInv
    <2>5. AnswerKept'
      BY <2>1, <2>2, <1>R DEF AnswerInv
    <2>6. QED
      BY <1>T, <2>3, <2>4, <2>5 DEF AnswerInv
  <1>4. ASSUME NEW c \in Requests, Select(c) PROVE AnswerInv'
    <2>1. /\ UNCHANGED <<expired, runDone, ans>>
          /\ \A d \in Requests \ {c} : wait'[d] = wait[d] /\ outcome'[d] = outcome[d] /\ ch'[d] = ch[d]
          /\ wait[c] = "select" /\ wait'[c] = "leaving"
      BY <1>4, <1>T DEF Select, SelectAnswer, SelectTimeout, SelectDone, Resolve, ApprovalTypeOK
    <2>2. \A a \in Answers, d \in Requests : Sent(a, d)' <=> Sent(a, d)
      BY <2>1 DEF Sent, Of
    <2>3. CASE SelectAnswer(c)
      <3>1. PICK b \in Answers : Sent(b, c) /\ ch[c] = <<ans[b].status>>
        BY <2>3 DEF AnswerInv, SelectAnswer
      <3>2. ch'[c] = <<>> /\ outcome'[c] = ans[b].status
        <4>1. Head(<<ans[b].status>>) = ans[b].status /\ Tail(<<ans[b].status>>) = <<>>
          OBVIOUS
        <4>2. ch'[c] = Tail(ch[c]) /\ outcome'[c] = Head(ch[c])
          BY <2>3, <1>T DEF SelectAnswer, Resolve, ApprovalTypeOK
        <4>3. QED
          BY <3>1, <4>1, <4>2
      <3>3. SlotFrom'
        BY <2>1, <2>2, <3>2 DEF AnswerInv
      <3>4. OutcomeFrom'
        BY <2>1, <2>2, <3>1, <3>2 DEF AnswerInv
      <3>5. \A a \in Answers : c \in OneWay /\ Sent(a, c) => a = b
        BY <1>T, <3>1 DEF TokenInv, OneTaker, Accepted, Sent
      <3>6. AnswerKept'
        BY <2>1, <2>2, <3>2, <3>5, <1>R DEF AnswerInv
      <3>7. QED
        BY <1>T, <3>3, <3>4, <3>6 DEF AnswerInv
    <2>4. CASE SelectTimeout(c) \/ SelectDone(c)
      <3>1. /\ ch' = ch /\ (c \in expired \/ runDone)
            /\ outcome'[c] \in Statuses => c \in BudgetKind /\ runDone
        BY <2>4, <1>T DEF SelectTimeout, SelectDone, Resolve, ApprovalTypeOK, Statuses
      <3>2. SlotFrom'
        BY <2>1, <2>2, <3>1 DEF AnswerInv
      <3>3. OutcomeFrom'
        BY <2>1, <2>2, <3>1 DEF AnswerInv
      <3>4. AnswerKept'
        BY <2>1, <2>2, <3>1, <1>R DEF AnswerInv
      <3>5. QED
        BY <1>T, <3>2, <3>3, <3>4 DEF AnswerInv
    <2>5. QED
      BY <1>4, <2>3, <2>4 DEF Select
  <1>5. ASSUME NEW a \in Answers, Send(a) PROVE AnswerInv'
    <2>1. PICK c \in Requests :
            /\ ans[a].pc = "send" /\ Of(a, c)
            /\ \/ ch[c] = <<>> /\ ch' = [ch EXCEPT ![c] = <<ans[a].status>>]
               \/ ch[c] # <<>> /\ UNCHANGED ch
            /\ ans' = [ans EXCEPT ![a].pc = "ok"]
            /\ UNCHANGED <<wait, outcome, pending, expired, runDone>>
      BY <1>5 DEF Send, waitVars
    <2>2. ans[a] \in [req : {{d} : d \in Requests}, status : Statuses,
                      via : {"inline", "later", "approve"}, pc : {"send", "ok", "refused"}]
      BY <1>T, <2>1 DEF ApprovalTypeOK, Calls, NoCall
    <2>3. /\ ans'[a].req = ans[a].req /\ ans'[a].status = ans[a].status /\ ans'[a].pc = "ok"
          /\ \A b \in Answers \ {a} : ans'[b] = ans[b]
      BY <1>T, <2>1, <2>2 DEF ApprovalTypeOK
    <2>4. \A d \in Requests : Of(a, d) => d = c
      BY <2>1, Zenon DEF Of
    <2>5. /\ Sent(a, c)' /\ ~Sent(a, c)
          /\ \A b \in Answers \ {a}, d \in Requests : Sent(b, d)' <=> Sent(b, d)
          /\ \A d \in Requests \ {c} : ~Sent(a, d)'
      BY <2>1, <2>3, <2>4 DEF Sent, Of
    <2>6. \A d \in Requests \ {c} : ch'[d] = ch[d]
      BY <1>T, <2>1 DEF ApprovalTypeOK
    <2>7. SlotFrom'
      <3>1. ch'[c] = <<ans'[a].status>> \/ (ch' = ch)
        BY <1>T, <2>1, <2>3 DEF ApprovalTypeOK
      <3>2. QED
        BY <3>1, <2>5, <2>6, <1>S DEF AnswerInv
    <2>8. OutcomeFrom'
      BY <2>1, <1>S DEF AnswerInv
    <2>9. AnswerKept'
      <3>1. c \in OneWay => ch[c] = <<>> /\ \A b \in Answers : ~Sent(b, c)
        BY <2>1, <2>5, <1>T DEF TokenInv, SlotFree, OneTaker, Accepted, Sent
      <3>2. c \in OneWay => ch'[c] = <<ans'[a].status>>
        BY <3>1, <2>1, <2>3, <1>T DEF ApprovalTypeOK
      <3>3. wait[c] \in {"handler", "select", "leaving", "over"}
        BY <2>1, <1>T DEF ApprovalTypeOK, TokenInv, AnswersAsked
      <3>4. c \in Handled \cup Streamed
        BY <2>1, <1>T DEF TokenInv, ViaKnown
      <3>5. c \in OneWay /\ wait[c] \in {"leaving", "over"} => c \in expired \/ runDone
        BY <3>1, <3>4 DEF AnswerInv
      <3>6. QED
        BY <2>1, <2>5, <2>6, <3>1, <3>2, <3>3, <3>5, <1>S, <1>R DEF AnswerInv
    <2>10. QED
      BY <1>T, <2>7, <2>8, <2>9 DEF AnswerInv
  <1>6. ASSUME NEW b \in Answers, NEW d \in Requests, NEW s \in Statuses, Respond(b, d, s) \/ ApproveCall(b, d, s)
        PROVE  AnswerInv'
    <2>1. UNCHANGED <<wait, outcome, ch, expired, runDone>>
      BY <1>6 DEF Respond, ApproveCall, waitVars
    <2>2. PICK v \in {"inline", "later", "approve"}, p \in {"send", "refused"} : Call(b, d, s, v, p)
      BY <1>6 DEF Respond, ApproveCall
    <2>3. ans'[b] = [req |-> {d}, status |-> s, via |-> v, pc |-> p] /\ \A a \in Answers \ {b} : ans'[a] = ans[a]
      BY <1>T, <2>2 DEF Call, ApprovalTypeOK
    <2>4. ans'[b].pc # "ok"
      BY <2>3
    <2>5. \A a \in Answers, c \in Requests : Sent(a, c)' => Sent(a, c)
      BY <2>3, <2>4 DEF Sent, Of
    <2>6. QED
      BY <1>1, <2>1, <2>5
  <1>7. ASSUME UNCHANGED <<wait, outcome, ch, ans>>, expired \subseteq expired', runDone => runDone'
        PROVE  AnswerInv'
    BY <1>1, <1>7 DEF Sent, Of
  <1>8. ASSUME NEW c \in Requests, TimerFires(c) PROVE AnswerInv'
    BY <1>7, <1>8 DEF TimerFires, waitVars
  <1>9. CASE RunDone
    BY <1>7, <1>9 DEF RunDone, waitVars
  <1>10. CASE UNCHANGED approvalVars
    BY <1>7, <1>10 DEF approvalVars
  <1>11. QED
    BY <1>2, <1>3, <1>4, <1>5, <1>6, <1>8, <1>9, <1>10 DEF ApprovalNext

(* The slots and the outcomes of all requests come from calls that          *)
(* succeeded, whatever mix of handlers and streams there is.                *)
THEOREM AnswerInvariant == ApprovalSpec => []AnswerInv
  BY AnswerInitial, AnswerStep, PTL DEF ApprovalSpec

(* When every request is answered one way, a wait ends with a status only   *)
(* because a call with that status succeeded (or a budget pause with the    *)
(* end of its context), and a call that succeeded decided its wait unless   *)
(* the timer or the end of the context was there too.                       *)
THEOREM AnswersDecide ==
  ASSUME Requests \subseteq OneWay
  PROVE  ApprovalSpec => []AcceptedAgrees
  <1>1. AnswerInv => AcceptedAgrees
    <2> SUFFICES ASSUME AnswerInv PROVE AcceptedAgrees
      OBVIOUS
    <2>1. ApprovalTypeOK
      BY DEF AnswerInv, TokenInv
    <2>2. \A a \in Answers, c \in Requests :
            Of(a, c) /\ ans[a].pc = "ok" /\ wait[c] = "over" =>
                outcome[c] = ans[a].status \/ c \in expired \/ runDone
      BY DEF AnswerInv, AnswerKept, Sent
    <2>3. ASSUME NEW c \in Requests, outcome[c] \in Statuses
          PROVE  \/ \E a \in Answers : Of(a, c) /\ ans[a].pc = "ok" /\ ans[a].status = outcome[c]
                 \/ c \in BudgetKind /\ runDone
      <3>1. wait[c] \in {"leaving", "over"}
        BY <2>1, <2>3 DEF AnswerInv, OutcomeFrom, ApprovalTypeOK, Statuses
      <3>2. QED
        BY <2>3, <3>1 DEF AnswerInv, OutcomeFrom, Sent, Statuses
    <2>4. QED
      BY <2>2, <2>3 DEF AcceptedAgrees
  <1>2. QED
    BY <1>1, AnswerInvariant, PTL
=============================================================================
