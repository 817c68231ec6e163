---------------------- MODULE TemporalWorkflow_proofs -----------------------
(***************************************************************************)
(* Proofs about the chain of executions of a Temporal run, for every budget*)
(* configuration that NewAgent accepts and every number of executions,     *)
(* attempts and tool calls: the budget, the other choices that the chain   *)
(* carries on, and the conversation the models are shown. LimitInv with    *)
(* BatchInv, ChoiceInv, and RequestInv with the first two are the          *)
(* inductive invariants.                                                   *)
(***************************************************************************)
EXTENDS TemporalWorkflow, FiniteSetTheorems, SequenceTheorems, TLAPS

(* A window of an enforced limit is not empty. *)
LEMMA WindowPositive ==
    /\ tokenWindow \in Nat /\ costWindow \in Nat
    /\ MaxTokens > 0 => tokenWindow > 0
    /\ MaxCost > 0 => costWindow > 0
BY BudgetConfigAssumption DEF tokenWindow, costWindow

(* An approval opens a new period: right after it nothing is breached. *)
LEMMA AdvanceClears ==
    ASSUME NEW t \in Tracker
    PROVE  /\ AdvanceWatermark(t) \in Tracker
           /\ ~checkLimits(AdvanceWatermark(t))
           /\ AdvanceWatermark(t).tokens = t.tokens
           /\ AdvanceWatermark(t).wmTokens = t.tokens
           /\ AdvanceWatermark(t).approvals = t.approvals + 1
<1> DEFINE w == AdvanceWatermark(t)
<1>1. /\ w.tokens = t.tokens /\ w.cost = t.cost
      /\ w.wmTokens = t.tokens /\ w.wmCost = t.cost
      /\ w.approvals = t.approvals + 1
  BY DEF Tracker, AdvanceWatermark
<1>2. t.tokens \in Nat /\ t.cost \in Nat /\ t.approvals \in Nat
  BY DEF Tracker
<1>5. w \in Tracker
  <2>1. t.approvals + 1 \in Nat
    BY <1>2
  <2>. QED
    BY <2>1, <1>2 DEF Tracker, AdvanceWatermark
<1>3. ~TokensExceeded(w)
  BY <1>1, <1>2, WindowPositive DEF TokensExceeded
<1>4. ~CostExceeded(w)
  BY <1>1, <1>2, WindowPositive DEF CostExceeded
<1>. QED
  BY <1>1, <1>3, <1>4, <1>5 DEF checkLimits

(* What the loop charges: a usage that was reported, or none.               *)
Reports == Usages \cup {NoUsage}

LEMMA AddType ==
    ASSUME NEW t \in Tracker, NEW u \in Reports
    PROVE  /\ Add(t, u) \in Tracker
           /\ Add(t, u).tokens = t.tokens + u.total
           /\ Add(t, u).wmTokens = t.wmTokens
           /\ Add(t, u).approvals = t.approvals
           /\ u.total \in Nat /\ u.total <= MaxCallTokens
<1>1. u \in LLMUsage /\ u.total <= MaxCallTokens
  <2>1. NoUsage \in LLMUsage /\ NoUsage.total = 0
    BY DEF NoUsage, LLMUsage
  <2>2. MaxCallTokens \in Nat /\ (u \in Usages => u \in LLMUsage /\ u.total <= MaxCallTokens)
    BY WorkflowAssumption
  <2>. QED
    BY <2>1, <2>2 DEF Reports
<1>2. u.prompt * PromptRate \in Nat /\ u.completion * CompletionRate \in Nat
  BY <1>1, BudgetConfigAssumption DEF LLMUsage
<1>3. CostOf(u) \in Nat
  BY <1>2 DEF CostOf
<1>4. t.tokens + u.total \in Nat /\ t.cost + CostOf(u) \in Nat
  BY <1>1, <1>3 DEF Tracker, LLMUsage
<1>5. Add(t, u) \in Tracker
  BY <1>4 DEF Add, Tracker
<1>. QED
  BY <1>1, <1>5 DEF Add, Tracker, LLMUsage

(* A tracker within its limits has not used up its token window. *)
LEMMA WithinWindow ==
    ASSUME NEW t \in Tracker, ~checkLimits(t), MaxTokens > 0
    PROVE  t.tokens < t.wmTokens + tokenWindow
BY WindowPositive DEF checkLimits, TokensExceeded, Tracker

(* Multiplication by the successor. *)
LEMMA MulSucc ==
    ASSUME NEW n \in Nat, NEW u \in Nat
    PROVE  n * u \in Nat /\ (n + 1) * u = n * u + u
OBVIOUS


(* The places of the workflow code: those where the loop is within its      *)
(* limits, and those at which an approved pause lets it go on.              *)
InLoop == {"recall", "prefetch", "llm", "final", "answer", "decide", "batch", "tools", "save", "history",
           "saveEnd", "memory"}
Resumes == {"llm", "answer", "decide", "batch", "tools", "save", "history"}
AtPlace(l) == pc = l \/ (pc = "budget" /\ resume = l)
Report == [failed : BOOLEAN, counts : BOOLEAN, usage : Reports]

(* What one grant lets a run use at most, the overrun of its window         *)
(* included; a tracker that may go on, and one that asks for a grant.       *)
Stretch == tokenWindow + MaxCallTokens - 1
Within(t, sp, g) ==
    /\ t \in Tracker /\ t.tokens = sp /\ ~checkLimits(t)
    /\ MaxTokens > 0 => t.wmTokens <= g * Stretch
Overrun(t, sp, g) ==
    /\ t \in Tracker /\ t.tokens = sp
    /\ MaxTokens > 0 => t.wmTokens <= g * Stretch /\ t.tokens <= t.wmTokens + Stretch

BatchInv ==
    /\ result \in [1..MaxCalls -> Report] /\ (calls = 0 \/ calls \in 1..MaxCalls) /\ merged \in Nat
    /\ pc \notin {"exit", "closed"} => IF AtPlace("tools") THEN merged < calls ELSE merged = 0
    /\ AtPlace("batch") \/ AtPlace("decide") => calls > 0

CarriedTracker == RestoreState(state.tokens, state.cost, state.wmTokens, state.wmCost)
Charged == spent + recharged
LimitInv ==
    /\ pc \in InLoop \cup {"start", "budget", "exit", "closed"} /\ resume \in Resumes
    /\ spent \in Nat /\ recharged \in Nat /\ grants \in Nat
    /\ llmUsage \in Reports
    /\ pc = "start" => Within(CarriedTracker, Charged, grants)
    /\ pc \in InLoop => Within(tracker, Charged, grants)
    /\ pc = "budget" => Overrun(tracker, Charged, grants)
    /\ pc \in {"exit", "closed"} => tracker \in Tracker /\ tracker.tokens = Charged

(* Where another LLM call can follow, a run that fell back says so.         *)
Calling == {"recall", "prefetch", "llm", "final", "decide", "batch", "tools", "save", "history"}
ChoiceInv ==
    /\ resume # "start"
    /\ pc = "start" => state.breaker = breaker /\ (client = "fallback" => state.useFallback)
    /\ pc \in Calling \/ (pc = "budget" /\ resume \in Calling) => (client = "fallback" => useFallback)

(* A report of at most MaxCallTokens tokens, on a tracker within its limits.*)
LEMMA ReportAdded ==
    ASSUME NEW t, NEW sp \in Nat, NEW g \in Nat, NEW u \in Reports, Within(t, sp, g)
    PROVE  /\ sp + u.total \in Nat
           /\ Overrun(Add(t, u), sp + u.total, g)
           /\ ~checkLimits(Add(t, u)) => Within(Add(t, u), sp + u.total, g)
<1> DEFINE a == Add(t, u)
<1>1. t \in Tracker /\ t.tokens = sp /\ ~checkLimits(t)
  BY DEF Within
<1>2. a \in Tracker /\ a.tokens = t.tokens + u.total /\ a.wmTokens = t.wmTokens /\ u.total \in Nat /\ u.total <= MaxCallTokens
  BY <1>1, AddType
<1>3. t.tokens \in Nat /\ t.wmTokens \in Nat
  BY <1>1 DEF Tracker
<1>4. MaxTokens > 0 => t.tokens < t.wmTokens + tokenWindow
  BY <1>1, WithinWindow
<1> HIDE DEF a
<1>5. MaxTokens > 0 => a.tokens <= a.wmTokens + Stretch
  <2>1. MaxCallTokens \in Nat /\ tokenWindow \in Nat
    BY WorkflowAssumption, WindowPositive
  <2>2. a.tokens \in Nat /\ a.wmTokens \in Nat
    BY <1>2 DEF Tracker
  <2>. QED
    BY <1>2, <1>3, <1>4, <2>1, <2>2 DEF Stretch
<1>6. MaxTokens > 0 => a.wmTokens <= g * Stretch
  BY <1>2 DEF Within
<1>7. sp + u.total \in Nat /\ a.tokens = sp + u.total
  BY <1>1, <1>2
<1>8. Overrun(a, sp + u.total, g) /\ (~checkLimits(a) => Within(a, sp + u.total, g))
  BY <1>2, <1>5, <1>6, <1>7 DEF Overrun, Within
<1>. QED
  BY <1>7, <1>8 DEF a

(* A grant starts a new window where the old one ended.                     *)
LEMMA Granted ==
    ASSUME NEW t, NEW sp \in Nat, NEW g \in Nat, Overrun(t, sp, g)
    PROVE  Within(AdvanceWatermark(t), sp, g + 1)
<1> DEFINE a == AdvanceWatermark(t)
<1>1. t \in Tracker /\ t.tokens = sp
  BY DEF Overrun
<1>2. a \in Tracker /\ ~checkLimits(a) /\ a.tokens = t.tokens /\ a.wmTokens = t.tokens
  BY <1>1, AdvanceClears
<1> HIDE DEF a
<1>3. ASSUME MaxTokens > 0 PROVE a.wmTokens <= (g + 1) * Stretch
  <2>1. MaxCallTokens \in Nat /\ tokenWindow \in Nat /\ tokenWindow > 0
    BY <1>3, WorkflowAssumption, WindowPositive
  <2>2. Stretch \in Nat
    BY <2>1 DEF Stretch
  <2>3. g * Stretch \in Nat /\ (g + 1) * Stretch = g * Stretch + Stretch
    BY <2>2, MulSucc
  <2>4. t.tokens \in Nat /\ t.wmTokens \in Nat /\ t.wmTokens <= g * Stretch /\ t.tokens <= t.wmTokens + Stretch
    BY <1>1, <1>3 DEF Overrun, Tracker
  <2> DEFINE p == g * Stretch
  <2>5. t.tokens <= p + Stretch
    <3>1. p \in Nat /\ t.wmTokens <= p
      BY <2>3, <2>4
    <3> HIDE DEF p
    <3>. QED
      BY <2>2, <2>4, <3>1
  <2>. QED
    BY <1>2, <2>3, <2>5
<1>. QED
  BY <1>1, <1>2, <1>3 DEF Within, a

(* Charge: the loop goes on, pauses or ends.                                *)
Goes(next) == pc' = next /\ resume' = resume /\ Within(tracker', Charged', grants')
Pauses(next) == pc' = "budget" /\ resume' = next /\ Overrun(tracker', Charged', grants')
Stops == pc' = "exit" /\ resume' = resume /\ tracker' \in Tracker /\ tracker'.tokens = Charged'
LEMMA ChargeOutcome ==
    ASSUME NEW u \in Reports, NEW next, Charged \in Nat, grants \in Nat, Within(tracker, Charged, grants),
           Charge(u, next), grants' = grants, Charged' = Charged + u.total
    PROVE  Charged' \in Nat /\ (Goes(next) \/ Pauses(next) \/ Stops)
<1> DEFINE a == Add(tracker, u)
<1>1. tracker' = a /\ Charged' = Charged + u.total
  BY DEF Charge
<1>2. /\ Charged + u.total \in Nat /\ Overrun(a, Charged + u.total, grants)
      /\ ~checkLimits(a) => Within(a, Charged + u.total, grants)
  BY ReportAdded
<1>3. \/ checkLimits(a) /\ pc' = "budget" /\ resume' = next
      \/ checkLimits(a) /\ pc' = "exit" /\ resume' = resume
      \/ ~checkLimits(a) /\ pc' = next /\ resume' = resume
  BY DEF Charge, handleBudgetExceeded, Go, Exit
<1>4. Overrun(tracker', Charged', grants') /\ (~checkLimits(a) => Within(tracker', Charged', grants'))
  BY <1>1, <1>2
<1>5. tracker' \in Tracker /\ tracker'.tokens = Charged'
  BY <1>4 DEF Overrun
<1>. QED
  BY <1>1, <1>2, <1>3, <1>4, <1>5 DEF Goes, Pauses, Stops

(* A step of the loop that neither spends nor grants.                       *)
LEMMA LoopMoves ==
    ASSUME LimitInv, UNCHANGED <<resume, tracker, spent, recharged, llmUsage, grants>>, pc \in InLoop, pc' \in InLoop \cup {"exit"}
    PROVE  LimitInv'
<1>1. Within(tracker', Charged', grants')
  BY DEF LimitInv, Charged
<1>2. tracker' \in Tracker /\ tracker'.tokens = Charged'
  BY <1>1 DEF Within
<1>3. pc' \notin {"start", "budget"}
  BY DEF InLoop
<1>. QED
  BY <1>1, <1>2, <1>3 DEF LimitInv

LEMMA LoopStays ==
    ASSUME LimitInv, UNCHANGED <<pc, resume, tracker, spent, recharged, llmUsage, grants, state>>
    PROVE  LimitInv'
BY DEF LimitInv, Charged, CarriedTracker, RestoreState, NewBudgetTracker

(* Usage is charged, at next the loop goes on.                              *)
LEMMA LoopCharges ==
    ASSUME LimitInv, NEW u \in Reports, NEW next \in Resumes, pc \in InLoop, Charge(u, next),
           grants' = grants, Charged' = Charged + u.total, spent' \in Nat, recharged' \in Nat, llmUsage' \in Reports
    PROVE  LimitInv' /\ (pc' \in {next, "exit"} \/ (pc' = "budget" /\ resume' = next))
<1>1. Charged \in Nat /\ grants \in Nat /\ Within(tracker, Charged, grants)
  BY DEF LimitInv, Charged
<1>2. Charged' \in Nat /\ (Goes(next) \/ Pauses(next) \/ Stops)
  BY <1>1, ChargeOutcome
<1>3. next \in InLoop
  BY DEF InLoop, Resumes
<1>4. CASE Goes(next)
  BY <1>1, <1>2, <1>3, <1>4 DEF LimitInv, Goes, InLoop, Within
<1>5. CASE Pauses(next)
  BY <1>1, <1>2, <1>3, <1>5 DEF LimitInv, Pauses, InLoop
<1>6. CASE Stops
  BY <1>1, <1>2, <1>3, <1>6 DEF LimitInv, Stops, InLoop
<1>. QED
  BY <1>2, <1>4, <1>5, <1>6 DEF Goes, Pauses, Stops

(* What is carried to the next execution is what this one has used.         *)
LEMMA CarriedWithin ==
    ASSUME NEW t, NEW sp, NEW g, Within(t, sp, g)
    PROVE  Within(RestoreState(t.tokens, t.cost, t.wmTokens, t.wmCost), sp, g)
<1> DEFINE r == RestoreState(t.tokens, t.cost, t.wmTokens, t.wmCost)
<1>1. t \in Tracker
  BY DEF Within
<1>2. r \in Tracker /\ r.tokens = t.tokens /\ r.cost = t.cost /\ r.wmTokens = t.wmTokens /\ r.wmCost = t.wmCost
  BY <1>1 DEF Tracker, RestoreState, NewBudgetTracker
<1> HIDE DEF r
<1>3. checkLimits(r) <=> checkLimits(t)
  BY <1>2 DEF checkLimits, TokensExceeded, CostExceeded
<1>4. Within(r, sp, g)
  BY <1>2, <1>3 DEF Within
<1>. QED
  BY <1>4 DEF r

(* The batch of tool calls outside the loop over its results.               *)
LEMMA BatchMoves ==
    ASSUME BatchInv, UNCHANGED <<calls, merged, result>>,
           \/ pc' \in {"exit", "closed"}
           \/ pc \notin {"tools", "budget", "exit", "closed"} /\ pc' \notin {"tools", "batch", "decide", "budget"}
    PROVE  BatchInv'
BY DEF BatchInv, AtPlace

LEMMA BatchStays ==
    ASSUME BatchInv, UNCHANGED <<pc, resume, calls, merged, result>>
    PROVE  BatchInv'
BY DEF BatchInv, AtPlace

LEMMA InitChain == Init => LimitInv /\ BatchInv
<1> SUFFICES ASSUME Init PROVE LimitInv /\ BatchInv
  OBVIOUS
<1>1. pc = "start" /\ spent = 0 /\ recharged = 0 /\ Charged = 0 /\ llmUsage \in Reports /\ grants = 0 /\ resume = "llm" /\ calls = 0 /\ merged = 0
  BY DEF Init, Charged, Reports
<1>2. Within(CarriedTracker, 0, 0)
  <2> DEFINE t == CarriedTracker
  <2>1. t \in Tracker /\ t.tokens = 0 /\ t.cost = 0 /\ t.wmTokens = 0 /\ t.wmCost = 0
    BY DEF Init, NewState, CarriedTracker, RestoreState, NewBudgetTracker, Tracker
  <2> HIDE DEF t
  <2>2. ~checkLimits(t)
    BY <2>1, WindowPositive DEF checkLimits, TokensExceeded, CostExceeded
  <2>3. MaxTokens > 0 => 0 <= 0 * Stretch
    <3>1. ASSUME MaxTokens > 0 PROVE Stretch \in Nat
      BY <3>1, WorkflowAssumption, WindowPositive DEF Stretch
    <3>. QED
      BY <3>1
  <2>. QED
    BY <2>1, <2>2, <2>3 DEF Within, t
<1>3. LimitInv
  BY <1>1, <1>2 DEF LimitInv, Resumes, InLoop
<1>4. result \in [1..MaxCalls -> Report]
  BY DEF Init, NoResults, NoResult, Report, Reports
<1>5. calls = 0
  BY <1>1
<1>. QED
  BY <1>1, <1>3, <1>4, <1>5 DEF BatchInv, AtPlace

(* The actions that neither spend nor grant, one by one in what they move.  *)
LEMMA QuietSteps ==
    ASSUME LimitInv, BatchInv,
           \/ RecallMemory \/ PrefetchRetrievers \/ LLMAttemptFails \/ FallbackFails \/ LLMCanceled
           \/ Answer \/ SaveAttemptDies \/ SaveRound \/ NextIteration \/ SaveEnd \/ StoreMemory
    PROVE  LimitInv' /\ BatchInv'
<1>1. UNCHANGED <<resume, tracker, spent, recharged, llmUsage, grants>> /\ UNCHANGED <<calls, merged, result>>
  BY DEF RecallMemory, PrefetchRetrievers, Activity, LLMAttemptFails, FallbackFails, LLMCanceled,
         Answer, SaveAttemptDies, SaveRound, NextIteration, SaveEnd, StoreMemory,
         locals, batch, ghosts, Charged
<1>2. /\ pc \in {"recall", "prefetch", "llm", "final", "answer", "save", "history", "saveEnd", "memory"}
      /\ pc' \in {"prefetch", "llm", "final", "save", "saveEnd", "history", "memory", "exit"}
  BY DEF RecallMemory, PrefetchRetrievers, Activity, LLMAttemptFails, FallbackFails, LLMCanceled,
         Answer, SaveAttemptDies, SaveRound, NextIteration, SaveEnd, StoreMemory,
         InCall, Exit, Go
<1>3. pc \in InLoop /\ pc' \in InLoop \cup {"exit"}
  BY <1>2 DEF InLoop
<1>. QED
  BY <1>1, <1>2, <1>3, LoopMoves, BatchMoves

LEMMA DecideStep ==
    ASSUME LimitInv, BatchInv, DecideMaxIterations \/ StartBatch
    PROVE  LimitInv' /\ BatchInv'
<1>1. UNCHANGED <<resume, tracker, spent, recharged, llmUsage, grants>> /\ UNCHANGED <<calls, merged, result>>
  BY DEF DecideMaxIterations, StartBatch, locals, batch, ghosts, Charged
<1>2. \/ pc = "decide" /\ pc' \in {"exit", "batch", "final"}
      \/ pc = "batch" /\ pc' = "tools"
  BY DEF DecideMaxIterations, StartBatch, Go, Exit
<1>3. pc \in InLoop /\ pc' \in InLoop \cup {"exit"}
  BY <1>2 DEF InLoop
<1>4. BatchInv'
  BY <1>1, <1>2 DEF BatchInv, AtPlace
<1>. QED
  BY <1>1, <1>3, <1>4, LoopMoves

LEMMA RestoreStep ==
    ASSUME LimitInv, BatchInv, Restore
    PROVE  LimitInv' /\ BatchInv'
<1>1. /\ pc = "start" /\ pc' = "recall" /\ tracker' = CarriedTracker /\ llmUsage' \in Reports
      /\ UNCHANGED <<resume, spent, recharged, grants>>
  BY DEF Restore, CarriedTracker, ghosts, Charged, Reports
<1>2. UNCHANGED <<calls, merged, result>>
  BY DEF Restore, batch
<1>3. LimitInv'
  BY <1>1 DEF LimitInv, Charged, InLoop
<1>. QED
  BY <1>1, <1>2, <1>3, BatchMoves

LEMMA ContinueStep ==
    ASSUME LimitInv, BatchInv, ContinueAsNew
    PROVE  LimitInv' /\ BatchInv'
<1>1. /\ pc = "history" /\ pc' = "start" /\ state' = Carried
      /\ UNCHANGED <<resume, spent, recharged, llmUsage, grants>> /\ UNCHANGED <<calls, merged, result>>
  BY DEF ContinueAsNew, Go, ghosts, locals, Charged
<1>2. Within(tracker, Charged, grants)
  BY <1>1 DEF LimitInv, InLoop
<1>3. CarriedTracker' = RestoreState(tracker.tokens, tracker.cost, tracker.wmTokens, tracker.wmCost)
  BY <1>1 DEF CarriedTracker, Carried, RestoreState, NewBudgetTracker
<1>4. Within(CarriedTracker', Charged', grants')
  BY <1>1, <1>2, <1>3, CarriedWithin DEF Charged
<1>5. LimitInv'
  BY <1>1, <1>4 DEF LimitInv, InLoop
<1>. QED
  BY <1>1, <1>5, BatchMoves

LEMMA ApprovalStep ==
    ASSUME LimitInv, BatchInv, BudgetApproval
    PROVE  LimitInv' /\ BatchInv'
<1>1. pc = "budget" /\ UNCHANGED <<resume, spent, recharged, llmUsage>> /\ UNCHANGED <<calls, merged, result>>
  BY DEF BudgetApproval, batch, Charged
<1>2. Overrun(tracker, Charged, grants) /\ Charged \in Nat /\ grants \in Nat /\ resume \in Resumes /\ llmUsage \in Reports
  BY <1>1 DEF LimitInv, Charged
<1>3. CASE pc' = "exit" /\ UNCHANGED <<tracker, grants>>
  <2>1. LimitInv'
    BY <1>1, <1>2, <1>3 DEF LimitInv, Charged, InLoop, Overrun
  <2>. QED
    BY <1>1, <1>3, <2>1, BatchMoves
<1>4. CASE pc' = resume /\ tracker' = AdvanceWatermark(tracker) /\ grants' = grants + 1
  <2>1. Within(tracker', Charged', grants')
    BY <1>1, <1>2, <1>4, Granted DEF Charged
  <2>2. LimitInv'
    BY <1>1, <1>2, <1>4, <2>1 DEF LimitInv, InLoop, Resumes, Within
  <2>3. BatchInv'
    BY <1>1, <1>2, <1>4 DEF BatchInv, AtPlace, Resumes
  <2>. QED
    BY <2>2, <2>3
<1>. QED
  BY <1>3, <1>4 DEF BudgetApproval, Go, Exit

(* A reply, with a usage of its own or with the one decoded before it.      *)
LEMMA ReplyStep ==
    ASSUME LimitInv, NEW next \in Resumes, pc \in InLoop, ReplyCharged(next), grants' = grants
    PROVE  LimitInv' /\ (pc' \in {next, "exit"} \/ (pc' = "budget" /\ resume' = next))
<1>1. spent \in Nat /\ recharged \in Nat /\ llmUsage \in Reports
  BY DEF LimitInv
<1>2. \A u \in Reports : u.total \in Nat
  BY WorkflowAssumption DEF Reports, LLMUsage, NoUsage
<1>3. ASSUME NEW u \in Usages, llmUsage' = u, Charge(u, next), spent' = spent + u.total, UNCHANGED recharged
      PROVE  LimitInv' /\ (pc' \in {next, "exit"} \/ (pc' = "budget" /\ resume' = next))
  <2>1. u \in Reports
    BY DEF Reports
  <2>2. spent' \in Nat /\ recharged' \in Nat /\ Charged' = Charged + u.total
    BY <1>1, <1>2, <1>3, <2>1 DEF Charged
  <2>. QED
    BY <1>3, <2>1, <2>2, LoopCharges
<1>4. ASSUME Charge(llmUsage, next), recharged' = recharged + llmUsage.total, UNCHANGED <<llmUsage, spent>>
      PROVE  LimitInv' /\ (pc' \in {next, "exit"} \/ (pc' = "budget" /\ resume' = next))
  <2>1. spent' \in Nat /\ recharged' \in Nat /\ Charged' = Charged + llmUsage.total
    BY <1>1, <1>2, <1>4 DEF Charged
  <2>. QED
    BY <1>1, <1>4, <2>1, LoopCharges
<1>. QED
  BY <1>3, <1>4 DEF ReplyCharged

LEMMA LLMStep ==
    ASSUME LimitInv, BatchInv, LLMReturns \/ FinalLLMReturns
    PROVE  LimitInv' /\ BatchInv'
<1>1. CASE LLMReturns
  <2>1. PICK k \in 0..MaxCalls : calls' = k /\ ReplyCharged(AfterLLM(k))
    BY <1>1 DEF LLMReturns
  <2>2. pc = "llm" /\ UNCHANGED <<grants, merged, result>>
    BY <1>1 DEF LLMReturns
  <2>3. AfterLLM(k) \in {"answer", "decide", "batch"} /\ (AfterLLM(k) # "answer" => k \in 1..MaxCalls)
    BY DEF AfterLLM
  <2>4. pc \in InLoop /\ AfterLLM(k) \in Resumes
    BY <2>2, <2>3 DEF InLoop, Resumes
  <2>5. LimitInv' /\ (pc' \in {AfterLLM(k), "exit"} \/ (pc' = "budget" /\ resume' = AfterLLM(k)))
    BY <2>1, <2>2, <2>4, ReplyStep
  <2>6. BatchInv'
    BY <2>1, <2>2, <2>3, <2>5 DEF BatchInv, AtPlace
  <2>. QED
    BY <2>5, <2>6
<1>2. CASE FinalLLMReturns
  <2>1. ReplyCharged("answer")
    BY <1>2 DEF FinalLLMReturns
  <2>2. pc = "final" /\ UNCHANGED <<grants, calls, merged, result>>
    BY <1>2 DEF FinalLLMReturns, batch
  <2>3. pc \in InLoop /\ "answer" \in Resumes
    BY <2>2 DEF InLoop, Resumes
  <2>4. LimitInv' /\ (pc' \in {"answer", "exit"} \/ (pc' = "budget" /\ resume' = "answer"))
    BY <2>1, <2>2, <2>3, ReplyStep
  <2>5. BatchInv'
    BY <2>2, <2>4 DEF BatchInv, AtPlace
  <2>. QED
    BY <2>4, <2>5
<1>. QED
  BY <1>1, <1>2

LEMMA CollectStep ==
    ASSUME LimitInv, BatchInv, CollectResult
    PROVE  LimitInv' /\ BatchInv'
<1> DEFINE i == merged + 1
           after == AfterBatch
<1>1. pc = "tools" /\ UNCHANGED <<grants, llmUsage, recharged>>
  BY DEF CollectResult, BatchOver
<1>2. /\ merged \in Nat /\ calls \in 1..MaxCalls /\ merged < calls /\ result \in [1..MaxCalls -> Report]
  BY <1>1 DEF BatchInv, AtPlace
<1>3. i \in 1..MaxCalls /\ result[i] \in Report
  BY <1>2, WorkflowAssumption
<1>4. \/ i < calls /\ merged' = i /\ UNCHANGED <<calls, result>> /\ after = "tools"
      \/ merged' = 0 /\ calls' = 0 /\ result' = NoResults /\ after \in {"save", "history"}
  BY DEF CollectResult, AfterBatch
<1>5. after \in Resumes /\ pc \in InLoop
  BY <1>1, <1>4 DEF Resumes, InLoop
<1>6. LimitInv' /\ (pc' \in {after, "exit"} \/ (pc' = "budget" /\ resume' = after))
  <2>1. CASE pc' = after /\ UNCHANGED <<tracker, spent, resume>>
    <3>1. pc' \in InLoop
      BY <1>5, <2>1 DEF InLoop, Resumes
    <3>. QED
      BY <1>1, <1>5, <2>1, <3>1, LoopMoves DEF Charged
  <2>2. CASE Charge(result[i].usage, after) /\ spent' = spent + result[i].usage.total
    <3>1. result[i].usage \in Reports /\ llmUsage' \in Reports
      BY <1>1, <1>3 DEF Report, LimitInv
    <3>2. Charged' = Charged + result[i].usage.total /\ spent' \in Nat /\ recharged' \in Nat
      <4>1. result[i].usage.total \in Nat
        BY <3>1, WorkflowAssumption DEF Reports, LLMUsage, NoUsage
      <4>. QED
        BY <1>1, <2>2, <4>1 DEF Charged, LimitInv
    <3>. QED
      BY <1>1, <1>5, <2>2, <3>1, <3>2, LoopCharges
  <2>. QED
    BY <2>1, <2>2 DEF CollectResult, Go
<1>7. result' \in [1..MaxCalls -> Report]
  <2>1. NoResults \in [1..MaxCalls -> Report]
    BY DEF NoResults, NoResult, Report, Reports
  <2>. QED
    BY <1>2, <1>4, <2>1
<1> HIDE DEF i, after
<1>8. i \in Nat
  BY <1>2 DEF i
<1>9. CASE i < calls /\ merged' = i /\ UNCHANGED <<calls, result>> /\ after = "tools"
  BY <1>2, <1>6, <1>7, <1>8, <1>9 DEF BatchInv, AtPlace
<1>10. CASE merged' = 0 /\ calls' = 0 /\ after \in {"save", "history"}
  BY <1>6, <1>7, <1>10 DEF BatchInv, AtPlace
<1>. QED
  BY <1>4, <1>6, <1>9, <1>10

(* A tool call writes its own result, and nothing else of this.             *)
LEMMA ToolSteps ==
    ASSUME LimitInv, BatchInv, NEW i \in 1..MaxCalls, ToolAction(i) \/ ApprovalResolved(i)
    PROVE  LimitInv' /\ BatchInv'
<1>1. UNCHANGED <<pc, resume, tracker, spent, recharged, llmUsage, grants, state, calls, merged>>
  BY DEF ToolAction, ApprovalResolved, ToolStart, ToolAuthorize, ApprovalReturns, ApprovalCanceled,
         ToolExecute, delegateToSubAgent, ToolStep, locals, ghosts, Charged
<1>2. UNCHANGED result \/ \E r \in Report : result' = [result EXCEPT ![i] = r]
  <2>0. NoResult \in Report
    BY DEF NoResult, Report, Reports
  <2>1. ASSUME NEW f \in BOOLEAN PROVE Ran(f) \in Report
    BY <2>0 DEF Ran, Report
  <2>2. ASSUME NEW u \in Usages PROVE [NoResult EXCEPT !.usage = u] \in Report
    BY <2>0 DEF Report, Reports
  <2>3. CASE ToolStart(i) \/ ToolAuthorize(i) \/ ApprovalReturns(i) \/ ApprovalCanceled(i)
    BY <2>0, <2>1, <2>3 DEF ToolStart, ToolAuthorize, ApprovalReturns, ApprovalCanceled, Ends
  <2>4. CASE ToolExecute(i)
    BY <2>1, <2>4 DEF ToolExecute, Ends
  <2>5. CASE delegateToSubAgent(i)
    BY <2>0, <2>2, <2>5 DEF delegateToSubAgent, Ends
  <2>6. CASE ApprovalResolved(i)
    BY <2>6 DEF ApprovalResolved
  <2>. QED
    BY <2>3, <2>4, <2>5, <2>6 DEF ToolAction
<1>3. result' \in [1..MaxCalls -> Report]
  BY <1>2 DEF BatchInv
<1>4. BatchInv'
  BY <1>1, <1>3 DEF BatchInv, AtPlace
<1>. QED
  BY <1>1, <1>4, LoopStays

LEMMA NextChain ==
    ASSUME LimitInv, BatchInv, [Next]_vars
    PROVE  LimitInv' /\ BatchInv'
<1>1. CASE UNCHANGED vars
  <2>1. UNCHANGED <<pc, resume, tracker, spent, recharged, llmUsage, grants, state, calls, merged, result>>
    BY <1>1 DEF vars, locals, batch, ghosts, Charged
  <2>. QED
    BY <2>1, LoopStays, BatchStays
<1>2. CASE CancelRequested
  <2>1. UNCHANGED <<pc, resume, tracker, spent, recharged, llmUsage, grants, state, calls, merged, result>>
    BY <1>2 DEF CancelRequested, locals, batch, ghosts, Charged
  <2>. QED
    BY <2>1, LoopStays, BatchStays
<1>3. CASE Cleanup
  <2>1. UNCHANGED <<resume, tracker, spent, recharged, llmUsage, grants, calls, merged, result>> /\ pc = "exit" /\ pc' = "closed"
    BY <1>3 DEF Cleanup, Go, locals, ghosts, Charged
  <2>2. LimitInv'
    BY <2>1 DEF LimitInv, Charged, InLoop
  <2>. QED
    BY <2>1, <2>2, BatchMoves
<1>4. CASE LoopStep
  BY <1>3, <1>4, QuietSteps, DecideStep, RestoreStep, ContinueStep, ApprovalStep, LLMStep, CollectStep DEF LoopStep
<1>. QED
  BY <1>1, <1>2, <1>4, ToolSteps DEF Next, Closed

(* The budget of a Temporal run is one over its chain of executions, for    *)
(* every budget configuration, number of executions, of tool calls and of   *)
(* attempts (TemporalWorkflow.BudgetCarried, AgentWorkflow).                *)
THEOREM BudgetOfTheChain == Spec => []BudgetCarried
<1>1. LimitInv => BudgetCarried
  <2> SUFFICES ASSUME LimitInv PROVE BudgetCarried
    OBVIOUS
  <2>1. pc # "start" => tracker.tokens = spent + recharged
    BY DEF LimitInv, InLoop, Within, Overrun, Charged
  <2>2. ASSUME pc \in InLoop PROVE ~checkLimits(tracker) /\ (MaxTokens > 0 => tracker.tokens < grants * Stretch + tokenWindow)
    <3>1. Within(tracker, Charged, grants) /\ grants \in Nat
      BY <2>2 DEF LimitInv
    <3>2. tracker \in Tracker /\ ~checkLimits(tracker)
      BY <3>1 DEF Within
    <3>3. ASSUME MaxTokens > 0 PROVE tracker.tokens < grants * Stretch + tokenWindow
      <4>1. tracker.tokens < tracker.wmTokens + tokenWindow /\ tracker.wmTokens <= grants * Stretch
        BY <3>1, <3>2, <3>3, WithinWindow DEF Within
      <4>2. tokenWindow \in Nat /\ tokenWindow > 0 /\ MaxCallTokens \in Nat
        BY <3>3, WindowPositive, WorkflowAssumption
      <4>3. Stretch \in Nat
        BY <4>2 DEF Stretch
      <4> DEFINE p == grants * Stretch
      <4>4. p \in Nat
        BY <3>1, <4>3
      <4>5. tracker.wmTokens \in Nat /\ tracker.tokens \in Nat
        BY <3>2 DEF Tracker
      <4>6. tracker.wmTokens <= p
        BY <4>1
      <4> HIDE DEF p
      <4>7. tracker.tokens < p + tokenWindow
        BY <3>2, <4>1, <4>2, <4>4, <4>5, <4>6
      <4>. QED
        BY <4>7 DEF p
    <3>. QED
      BY <3>2, <3>3
  <2>3. {"llm", "final", "decide", "batch", "tools", "save"} \subseteq InLoop
    BY DEF InLoop
  <2>5. ASSUME pc \in {"llm", "final", "decide", "batch", "tools", "save"}
        PROVE  /\ ~checkLimits(tracker)
               /\ MaxTokens > 0 => tracker.tokens < grants * (tokenWindow + MaxCallTokens - 1) + tokenWindow
    <3>1. ~checkLimits(tracker) /\ (MaxTokens > 0 => tracker.tokens < grants * Stretch + tokenWindow)
      BY <2>2, <2>3, <2>5
    <3>2. Stretch = tokenWindow + MaxCallTokens - 1
      BY DEF Stretch
    <3>3. ~checkLimits(tracker)
      BY <3>1
    <3>. QED
      BY <3>1, <3>2, <3>3, Zenon
  <2>. QED
    BY <2>1, <2>5 DEF BudgetCarried
<1>2. LimitInv /\ BatchInv /\ [Next]_vars => (LimitInv /\ BatchInv)'
  BY NextChain
<1>. QED
  BY <1>1, <1>2, InitChain, PTL DEF Spec

(* The breaker of a tool that tripped stays as it is.                       *)
LEMMA TrippedStays ==
    ASSUME NEW st, st.tripped, NEW counts, NEW h, NEW failed, NEW now
    PROVE  ApplyToolCircuitResult(st, counts, h, failed, now) = st
BY DEF ApplyToolCircuitResult, RecordFailure, RecordSuccess

(* What a step leaves of the choices of the run.                            *)
ChoicesKept ==
    /\ breaker.tripped => breaker'.tripped
    /\ client = "fallback" => client' = "fallback"

(* The steps between LLM calls.                                             *)
LEMMA ChoiceMoves ==
    ASSUME ChoiceInv, UNCHANGED <<useFallback, client>>, pc' # "start", resume' # "start",
           \/ pc \in Calling \/ pc' \notin Calling \cup {"budget"}
           \/ pc = "budget" /\ pc' = resume,
           UNCHANGED resume \/ pc' # "budget" \/ pc \in Calling
    PROVE  ChoiceInv'
BY DEF ChoiceInv

LEMMA ChoiceStays ==
    ASSUME ChoiceInv, UNCHANGED <<pc, resume, state, breaker, useFallback, client>>
    PROVE  ChoiceInv' /\ ChoicesKept
BY DEF ChoiceInv, ChoicesKept

LEMMA QuietChoices ==
    ASSUME ChoiceInv,
           \/ RecallMemory \/ PrefetchRetrievers \/ LLMCanceled \/ Answer \/ DecideMaxIterations
           \/ StartBatch \/ SaveAttemptDies \/ SaveRound \/ NextIteration \/ SaveEnd \/ StoreMemory
           \/ BudgetApproval \/ Cleanup
    PROVE  ChoiceInv' /\ ChoicesKept
<1>1. UNCHANGED <<resume, useFallback, client, breaker>>
  BY DEF RecallMemory, PrefetchRetrievers, Activity, LLMCanceled, Answer, DecideMaxIterations,
         StartBatch, SaveAttemptDies, SaveRound, NextIteration, SaveEnd, StoreMemory,
         BudgetApproval, Cleanup, locals, ghosts
<1>2. \/ pc \in Calling \/ pc' \notin Calling \cup {"budget"}
      \/ pc = "budget" /\ pc' = resume
  BY DEF RecallMemory, PrefetchRetrievers, Activity, LLMCanceled, Answer, DecideMaxIterations,
         StartBatch, SaveAttemptDies, SaveRound, NextIteration, SaveEnd, StoreMemory,
         BudgetApproval, Cleanup, Go, Exit, InCall, Calling
<1>3. ChoicesKept
  BY <1>1 DEF ChoicesKept
<1>4. resume # "start" /\ pc' # "start"
  BY DEF ChoiceInv, RecallMemory, PrefetchRetrievers, Activity, LLMCanceled, Answer, DecideMaxIterations,
         StartBatch, SaveAttemptDies, SaveRound, NextIteration, SaveEnd, StoreMemory,
         BudgetApproval, Cleanup, Go, Exit, InCall
<1>. QED
  BY <1>1, <1>2, <1>3, <1>4, ChoiceMoves

LEMMA CallChoices ==
    ASSUME ChoiceInv, LLMAttemptFails \/ FallbackFails \/ LLMReturns \/ FinalLLMReturns
    PROVE  ChoiceInv' /\ ChoicesKept
<1>1. pc \in {"llm", "final"} /\ UNCHANGED breaker
  BY DEF LLMAttemptFails, FallbackFails, LLMReturns, FinalLLMReturns, InCall, locals
<1>2. client = "fallback" => useFallback
  BY <1>1 DEF ChoiceInv, Calling
<1>3. CASE LLMAttemptFails
  <2>1. client' = Client(useFallback) /\ UNCHANGED <<useFallback, resume>> /\ pc' \in {pc, "exit"}
    BY <1>3 DEF LLMAttemptFails, Exit, locals
  <2>2. client' = "fallback" <=> useFallback
    BY <2>1 DEF Client
  <2>. QED
    BY <1>1, <1>2, <2>1, <2>2 DEF ChoiceInv, ChoicesKept, Calling
<1>4. CASE FallbackFails
  <2>1. client' = "fallback" /\ pc' = "exit" /\ UNCHANGED resume
    BY <1>4 DEF FallbackFails, Exit
  <2>. QED
    BY <1>1, <2>1 DEF ChoiceInv, ChoicesKept, Calling
<1>5. ASSUME NEW fb \in BOOLEAN, runLLMActivity(fb)
      PROVE  ChoicesKept /\ (client' = "fallback" => fb) /\ (pc = "llm" => useFallback' = fb)
  <2>1. client' = Client(fb) /\ (~fb => ~useFallback)
    BY <1>5 DEF runLLMActivity
  <2>2. client' = "fallback" <=> fb
    BY <2>1 DEF Client
  <2>3. pc = "llm" => useFallback' = fb
    BY <1>5 DEF runLLMActivity
  <2>. QED
    BY <1>1, <1>2, <2>1, <2>2, <2>3 DEF ChoicesKept
<1>6. ASSUME NEW u, NEW next, next \in {"answer", "decide", "batch"}, Charge(u, next)
      PROVE  (pc' \in {next, "exit"} \/ (pc' = "budget" /\ resume' = next)) /\ resume' \in {resume, next}
  BY <1>6 DEF Charge, handleBudgetExceeded, Go, Exit
<1>7. CASE LLMReturns
  <2>1. PICK fb \in BOOLEAN : runLLMActivity(fb)
    BY <1>7 DEF LLMReturns
  <2>2. pc = "llm"
    BY <1>7 DEF LLMReturns
  <2>3. PICK k \in 0..MaxCalls : \E u : Charge(u, AfterLLM(k))
    BY <1>7 DEF LLMReturns, ReplyCharged
  <2>4. AfterLLM(k) \in {"answer", "decide", "batch"}
    BY DEF AfterLLM
  <2>5. pc' # "start" /\ resume' # "start"
    BY <1>6, <2>3, <2>4 DEF ChoiceInv
  <2>. QED
    BY <1>5, <2>1, <2>2, <2>5 DEF ChoiceInv
<1>8. CASE FinalLLMReturns
  <2>1. PICK fb \in BOOLEAN : runLLMActivity(fb)
    BY <1>8 DEF FinalLLMReturns
  <2>2. PICK u : Charge(u, "answer")
    BY <1>8 DEF FinalLLMReturns, ReplyCharged
  <2>3. pc' \in {"answer", "exit"} \/ (pc' = "budget" /\ resume' = "answer")
    BY <1>6, <2>2
  <2>4. resume' # "start"
    BY <1>6, <2>2 DEF ChoiceInv
  <2>. QED
    BY <1>5, <2>1, <2>3, <2>4 DEF ChoiceInv, Calling
<1>. QED
  BY <1>3, <1>4, <1>7, <1>8

LEMMA NextChoices ==
    ASSUME ChoiceInv, [Next]_vars
    PROVE  ChoiceInv' /\ ChoicesKept
<1>1. CASE UNCHANGED vars
  <2>1. UNCHANGED <<pc, resume, state, breaker, useFallback, client>>
    BY <1>1 DEF vars, locals, ghosts
  <2>. QED
    BY <2>1, ChoiceStays
<1>2. CASE CancelRequested
  <2>1. UNCHANGED <<pc, resume, state, breaker, useFallback, client>>
    BY <1>2 DEF CancelRequested, locals, ghosts
  <2>. QED
    BY <2>1, ChoiceStays
<1>3. ASSUME NEW i \in 1..MaxCalls, ToolAction(i) \/ ApprovalResolved(i) PROVE ChoiceInv' /\ ChoicesKept
  <2>1. UNCHANGED <<pc, resume, state, breaker, useFallback, client>>
    BY <1>3 DEF ToolAction, ApprovalResolved, ToolStart, ToolAuthorize, ApprovalReturns,
           ApprovalCanceled, ToolExecute, delegateToSubAgent, ToolStep, locals, ghosts
  <2>. QED
    BY <2>1, ChoiceStays
<1>4. CASE Restore
  <2>1. pc = "start" /\ pc' = "recall" /\ breaker' = state.breaker /\ useFallback' = state.useFallback /\ UNCHANGED <<client, resume>>
    BY <1>4 DEF Restore, ghosts
  <2>. QED
    BY <2>1 DEF ChoiceInv, ChoicesKept
<1>5. CASE ContinueAsNew
  <2>1. pc = "history" /\ pc' = "start" /\ state' = Carried /\ UNCHANGED <<breaker, useFallback, client, resume>>
    BY <1>5 DEF ContinueAsNew, Go, locals, ghosts
  <2>2. state'.breaker = breaker /\ state'.useFallback = useFallback
    BY <2>1 DEF Carried
  <2>3. client = "fallback" => useFallback
    BY <2>1 DEF ChoiceInv, Calling
  <2>. QED
    BY <2>1, <2>2, <2>3 DEF ChoiceInv, ChoicesKept, Calling
<1>6. CASE CollectResult
  <2>1. pc = "tools" /\ UNCHANGED <<useFallback, client>> /\ pc' # "start" /\ resume' # "start"
    BY <1>6 DEF ChoiceInv, CollectResult, BatchOver, Charge, handleBudgetExceeded, Go, Exit, AfterBatch
  <2>2. breaker.tripped => breaker' = breaker
    BY <1>6, TrippedStays DEF CollectResult
  <2>3. ChoiceInv'
    BY <2>1, ChoiceMoves DEF Calling
  <2>. QED
    BY <2>1, <2>2, <2>3 DEF ChoicesKept
<1>. QED
  BY <1>1, <1>2, <1>3, <1>4, <1>5, <1>6, QuietChoices, CallChoices DEF Next, Closed, LoopStep

(* What a Temporal run has decided it does not take back, in this execution *)
(* or in a later one: a tripped tool stays skipped, and once a call was     *)
(* made with the fallback model every later one is too, for every number of *)
(* executions, attempts and tool calls (TemporalWorkflow.ChoicesSurvive).   *)
THEOREM ChoicesOfTheChain == Spec => ChoicesSurvive
<1>1. Init => ChoiceInv
  BY DEF Init, NewState, ChoiceInv, Calling
<1>2. ChoiceInv /\ [Next]_vars => ChoiceInv' /\ [ChoicesKept]_vars
  BY NextChoices
<1>3. [][ChoicesKept]_vars => ChoicesSurvive
  BY PTL DEF ChoicesKept, ChoicesSurvive
<1>. QED
  BY <1>1, <1>2, <1>3, PTL DEF Spec
-----------------------------------------------------------------------------
(* The request of an LLM call: what the store and the workflow hold shows   *)
(* the transcript. RequestInv, with LimitInv and BatchInv, is inductive: it *)
(* says so at every place of a round, and that no message of the round is   *)
(* said twice.                                                              *)

(* A new message at the end of both.                                       *)
LEMMA ShowsAppended ==
    ASSUME NEW S, NEW s \in Seq(S), NEW t \in Seq(S), NEW m \in S, m \notin Elements(t), Shows(s, t)
    PROVE  Shows(Append(s, m), Append(t, m))
<1> DEFINE u == Append(s, m)
           v == Append(t, m)
<1>1. /\ Len(s) \in Nat /\ Len(u) = Len(s) + 1 /\ u[Len(s) + 1] = m
      /\ \A i \in 1..Len(s) : u[i] = s[i]
  OBVIOUS
<1>2. /\ Len(t) \in Nat /\ Len(v) = Len(t) + 1 /\ v[Len(t) + 1] = m
      /\ \A i \in 1..Len(t) : v[i] = t[i]
  OBVIOUS
<1> HIDE DEF u, v
<1>3. Elements(u) = Elements(s) \cup {m}
  BY <1>1 DEF Elements
<1>4. Elements(v) = Elements(t) \cup {m}
  BY <1>2 DEF Elements
<1>5. Elements(u) = Elements(v)
  BY <1>3, <1>4 DEF Shows
<1>6. ASSUME NEW i \in 1..Len(v), NEW j \in 1..Len(v), i < j
      PROVE  /\ v[i] # v[j]
             /\ \A q \in 1..Len(u) : u[q] = v[j] => \E p \in 1..(q - 1) : u[p] = v[i]
  <2>1. i \in 1..Len(t) /\ v[i] = t[i]
    BY <1>2, <1>6
  <2>2. CASE j \in 1..Len(t)
    <3>1. v[j] = t[j] /\ t[i] # t[j]
      BY <1>2, <1>6, <2>1, <2>2 DEF Shows
    <3>2. ASSUME NEW q \in 1..Len(u), u[q] = v[j] PROVE \E p \in 1..(q - 1) : u[p] = v[i]
      <4>1. v[j] # m
        BY <2>2, <3>1 DEF Elements
      <4>2. q \in 1..Len(s) /\ s[q] = t[j]
        BY <1>1, <3>1, <3>2, <4>1
      <4>3. PICK p \in 1..(q - 1) : s[p] = t[i]
        BY <1>6, <2>1, <2>2, <4>2 DEF Shows
      <4>4. p \in 1..Len(s)
        BY <1>1, <4>2, <4>3
      <4>5. u[p] = v[i]
        BY <1>1, <2>1, <4>3, <4>4
      <4>. QED
        BY <4>5
    <3>. QED
      BY <2>1, <3>1, <3>2
  <2>3. CASE j = Len(t) + 1
    <3>1. v[j] = m /\ v[i] # m
      BY <1>2, <2>1, <2>3 DEF Elements
    <3>2. ASSUME NEW q \in 1..Len(u), u[q] = v[j] PROVE \E p \in 1..(q - 1) : u[p] = v[i]
      <4>1. m \notin Elements(s)
        BY DEF Shows
      <4>2. q = Len(s) + 1
        BY <1>1, <3>1, <3>2, <4>1 DEF Elements
      <4>3. t[i] \in Elements(s)
        BY <2>1 DEF Shows, Elements
      <4>4. PICK p \in 1..Len(s) : s[p] = t[i]
        BY <4>3 DEF Elements
      <4>5. p \in 1..(q - 1) /\ u[p] = v[i]
        BY <1>1, <2>1, <4>2, <4>4
      <4>. QED
        BY <4>5
    <3>. QED
      BY <3>1, <3>2
  <2>4. j \in 1..Len(t) \/ j = Len(t) + 1
    <3>1. PICK k \in Nat : k = Len(t)
      BY <1>2
    <3>2. j \in 1..(k + 1)
      BY <1>2, <3>1, Zenon
    <3>3. j \in 1..k \/ j = k + 1
      BY <3>2, SMTT(60)
    <3>. QED
      BY <3>1, <3>3, Zenon
  <2>. QED
    BY <2>2, <2>3, <2>4, Zenon
<1>7. Shows(u, v)
  BY <1>5, <1>6 DEF Shows
<1>. QED
  BY <1>7 DEF u, v

LEMMA FollowsAppended ==
    ASSUME NEW S, NEW s \in Seq(S), NEW t \in Seq(S), NEW m \in S, m \notin Elements(t), Follows(s, t)
    PROVE  Follows(Append(s, m), Append(t, m))
<1> DEFINE u == Append(s, m)
           v == Append(t, m)
<1>1. /\ Len(s) \in Nat /\ Len(u) = Len(s) + 1 /\ u[Len(s) + 1] = m
      /\ \A i \in 1..Len(s) : u[i] = s[i]
  OBVIOUS
<1>2. /\ Len(t) \in Nat /\ Len(v) = Len(t) + 1 /\ v[Len(t) + 1] = m
      /\ \A i \in 1..Len(t) : v[i] = t[i]
  OBVIOUS
<1> HIDE DEF u, v
<1>3. ASSUME NEW i \in 1..Len(v), NEW j \in 1..Len(v), i < j, NEW q \in 1..Len(u), u[q] = v[i]
      PROVE  \E p \in (q + 1)..Len(u) : u[p] = v[j]
  <2>1. i \in 1..Len(t) /\ v[i] = t[i]
    BY <1>2, <1>3
  <2>2. v[i] # m
    BY <2>1 DEF Elements
  <2>3. q \in 1..Len(s) /\ s[q] = t[i]
    BY <1>1, <1>3, <2>1, <2>2
  <2>4. CASE j \in 1..Len(t)
    <3>1. PICK p \in (q + 1)..Len(s) : s[p] = t[j]
      BY <1>3, <2>1, <2>3, <2>4 DEF Follows
    <3>2. p \in 1..Len(s) /\ p \in (q + 1)..Len(u)
      BY <1>1, <2>3, <3>1
    <3>. QED
      BY <1>1, <1>2, <2>4, <3>1, <3>2
  <2>5. CASE j = Len(t) + 1
    <3>1. Len(u) \in (q + 1)..Len(u) /\ u[Len(u)] = m
      BY <1>1, <2>3
    <3>. QED
      BY <1>2, <2>5, <3>1
  <2>6. j \in 1..Len(t) \/ j = Len(t) + 1
    <3>1. PICK k \in Nat : k = Len(t)
      BY <1>2
    <3>2. j \in 1..(k + 1)
      BY <1>2, <3>1, Zenon
    <3>3. j \in 1..k \/ j = k + 1
      BY <3>2, SMTT(60)
    <3>. QED
      BY <3>1, <3>3, Zenon
  <2>. QED
    BY <2>4, <2>5, <2>6, Zenon
<1>4. Follows(u, v)
  BY <1>3 DEF Follows
<1>. QED
  BY <1>4 DEF u, v

(* The elements of a concatenation, by their places in the two parts.       *)
LEMMA Joined ==
    ASSUME NEW S, NEW a \in Seq(S), NEW b \in Seq(S)
    PROVE  /\ a \o b \in Seq(S) /\ Len(a \o b) = Len(a) + Len(b)
           /\ \A i \in 1..Len(a) : (a \o b)[i] = a[i]
           /\ \A i \in 1..Len(b) : (a \o b)[Len(a) + i] = b[i]
<1>1. Len(a) \in Nat /\ Len(b) \in Nat
  OBVIOUS
<1>2. \A i \in 1..Len(b) : ~(Len(a) + i <= Len(a)) /\ (Len(a) + i) - Len(a) = i /\ Len(a) + i \in 1..(Len(a) + Len(b))
  BY <1>1
<1>3. /\ Len(a \o b) = Len(a) + Len(b)
      /\ \A i \in 1..(Len(a) + Len(b)) : (a \o b)[i] = IF i <= Len(a) THEN a[i] ELSE b[i - Len(a)]
  BY ConcatProperties
<1>. QED
  BY <1>1, <1>2, <1>3

(* The first k of the last messages once more, ahead of them: what an       *)
(* attempt to save that dies after k messages makes of the request.         *)
LEMMA ShowsAgain ==
    ASSUME NEW S, NEW a \in Seq(S), NEW m \in Seq(S), NEW t \in Seq(S), NEW k \in 0..Len(m),
           Shows(a \o m, t), Follows(a \o m, t)
    PROVE  /\ Shows((a \o [n \in 1..k |-> m[n]]) \o m, t)
           /\ Follows((a \o [n \in 1..k |-> m[n]]) \o m, t)
<1> DEFINE s == a \o m
           c == Len(a)
<1>1. c \in Nat /\ Len(m) \in Nat /\ k \in Nat /\ k <= Len(m)
  OBVIOUS
<1>2. PICK b \in Seq(S) : b = [n \in 1..k |-> m[n]] /\ Len(b) = k /\ \A i \in 1..k : b[i] = m[i]
  <2> DEFINE e == [n \in 1..k |-> m[n]]
  <2>1. e \in Seq(S) /\ Len(e) = k /\ \A i \in 1..k : e[i] = m[i]
    BY <1>1
  <2> HIDE DEF e
  <2>. QED
    BY <2>1 DEF e
<1>3. /\ s \in Seq(S) /\ Len(s) = c + Len(m)
      /\ \A i \in 1..c : s[i] = a[i]
      /\ \A i \in 1..Len(m) : s[c + i] = m[i]
  BY <1>1
<1>4. PICK d \in Seq(S) :
      /\ d = a \o b /\ Len(d) = c + k
      /\ \A i \in 1..c : d[i] = a[i]
      /\ \A i \in 1..k : d[c + i] = m[i]
  <2>1. /\ Len(a \o b) = Len(a) + Len(b)
        /\ \A i \in 1..Len(a) : (a \o b)[i] = a[i]
        /\ \A i \in 1..Len(b) : (a \o b)[Len(a) + i] = b[i]
    BY Joined
  <2>2. a \o b \in Seq(S)
    BY Joined
  <2> DEFINE e == a \o b
  <2>3. /\ e \in Seq(S) /\ Len(e) = c + k
        /\ \A i \in 1..c : e[i] = a[i]
        /\ \A i \in 1..k : e[c + i] = m[i]
    <3> HIDE DEF e
    <3>1. /\ e \in Seq(S) /\ Len(e) = Len(a) + Len(b)
          /\ \A i \in 1..Len(a) : e[i] = a[i]
          /\ \A i \in 1..Len(b) : e[Len(a) + i] = b[i]
      BY <2>1, <2>2 DEF e
    <3>. QED
      BY <1>2, <3>1
  <2> HIDE DEF e
  <2>. QED
    BY <2>3 DEF e
<1> DEFINE u == d \o m
<1>5. /\ Len(u) = c + k + Len(m)
      /\ \A i \in 1..(c + k) : u[i] = d[i]
      /\ \A i \in 1..Len(m) : u[c + k + i] = m[i]
  <2>1. /\ Len(d \o m) = Len(d) + Len(m)
        /\ \A i \in 1..Len(d) : (d \o m)[i] = d[i]
        /\ \A i \in 1..Len(m) : (d \o m)[Len(d) + i] = m[i]
    BY Joined
  <2>. QED
    BY <1>4, <2>1
<1>6. \A i \in 1..(c + k) : d[i] = s[i]
  <2> SUFFICES ASSUME NEW i \in 1..(c + k) PROVE d[i] = s[i]
    OBVIOUS
  <2>1. CASE i \in 1..c
    BY <1>3, <1>4, <2>1
  <2>2. CASE i > c
    <3>1. i - c \in 1..k /\ c + (i - c) = i /\ i - c \in 1..Len(m)
      BY <1>1, <2>2
    <3>2. d[c + (i - c)] = m[i - c]
      BY <1>4, <3>1
    <3>3. s[c + (i - c)] = m[i - c]
      BY <1>3, <3>1
    <3>. QED
      BY <3>1, <3>2, <3>3
  <2>. QED
    BY <1>1, <2>1, <2>2
<1> HIDE DEF c, u, s
<1>7. \A i \in 1..(c + k) : i \in 1..Len(s) /\ u[i] = s[i]
  BY <1>1, <1>3, <1>5, <1>6
<1>8. ASSUME NEW i \in 1..Len(u), i > c + k
      PROVE  i - k \in 1..Len(s) /\ i - k > c /\ u[i] = s[i - k]
  <2>1. i - (c + k) \in 1..Len(m) /\ c + k + (i - (c + k)) = i /\ c + (i - (c + k)) = i - k
    BY <1>1, <1>5, <1>8
  <2>2. u[c + k + (i - (c + k))] = m[i - (c + k)] /\ s[c + (i - (c + k))] = m[i - (c + k)]
    BY <1>3, <1>5, <2>1
  <2>3. i - k \in 1..Len(s) /\ i - k > c
    BY <1>1, <1>3, <1>5, <1>8
  <2>. QED
    BY <2>1, <2>2, <2>3
<1>13. ASSUME NEW p \in 1..Len(s), p > c
       PROVE  p + k \in 1..Len(u) /\ u[p + k] = s[p]
  <2>1. p + k \in 1..Len(u) /\ p + k > c + k /\ (p + k) - k = p
    BY <1>1, <1>3, <1>5, <1>13
  <2>. QED
    BY <1>8, <2>1
<1>9. ASSUME NEW p \in 1..Len(s)
      PROVE  \E r \in 1..Len(u) : u[r] = s[p] /\ r <= p + k /\ p <= r
  <2>1. CASE p \in 1..c
    <3>1. p \in 1..(c + k) /\ p \in 1..Len(u) /\ p <= p + k /\ p <= p
      BY <1>1, <1>5, <2>1
    <3>. QED
      BY <1>7, <3>1
  <2>2. CASE p > c
    <3>1. p + k <= p + k /\ p <= p + k
      BY <1>1
    <3>. QED
      BY <1>13, <2>2, <3>1
  <2>. QED
    BY <1>1, <2>1, <2>2
<1>10. Elements(u) = Elements(s)
  <2>1. ASSUME NEW x \in Elements(u) PROVE x \in Elements(s)
    <3>1. PICK i \in 1..Len(u) : u[i] = x
      BY DEF Elements
    <3>2. CASE i \in 1..(c + k)
      BY <1>7, <3>1, <3>2 DEF Elements
    <3>3. CASE i > c + k
      BY <1>8, <3>1, <3>3 DEF Elements
    <3>. QED
      BY <1>1, <1>5, <3>2, <3>3
  <2>2. ASSUME NEW x \in Elements(s) PROVE x \in Elements(u)
    <3>1. PICK p \in 1..Len(s) : s[p] = x
      BY DEF Elements
    <3>. QED
      BY <1>9, <3>1 DEF Elements
  <2>. QED
    BY <2>1, <2>2
<1>11. ASSUME NEW i \in 1..Len(t), NEW j \in 1..Len(t), i < j,
             NEW q \in 1..Len(u), u[q] = t[j]
       PROVE \E p \in 1..(q - 1) : u[p] = t[i]
  <2>1. CASE q \in 1..(c + k)
    <3>1. q \in 1..Len(s) /\ s[q] = t[j]
      BY <1>7, <1>11, <2>1
    <3>2. PICK p \in 1..(q - 1) : s[p] = t[i]
      BY <1>11, <3>1, Shows(s, t) DEF Shows, s
    <3>3. p \in 1..(c + k)
      BY <1>1, <2>1
    <3>. QED
      BY <1>7, <3>2, <3>3
  <2>2. CASE q > c + k
    <3>1. q - k \in 1..Len(s) /\ s[q - k] = t[j]
      BY <1>8, <1>11, <2>2
    <3>2. PICK p \in 1..(q - k - 1) : s[p] = t[i]
      BY <1>11, <3>1, Shows(s, t) DEF Shows, s
    <3>3. p \in 1..Len(s) /\ p + k <= q - 1
      <4>1. PICK L \in Nat : L = Len(s)
        BY <1>1, <1>3
      <4>2. q \in Int /\ k \in Nat /\ q - k \in 1..L /\ p \in 1..(q - k - 1)
        BY <1>1, <1>5, <3>1, <3>2, <4>1
      <4>3. p \in 1..L /\ p + k <= q - 1
        BY <4>2
      <4>. QED
        BY <4>1, <4>3
    <3>4. PICK r \in 1..Len(u) : u[r] = s[p] /\ r <= p + k
      BY <1>9, <3>3
    <3>5. r \in 1..(q - 1)
      BY <1>1, <1>5, <3>3, <3>4
    <3>. QED
      BY <3>2, <3>4, <3>5
  <2>. QED
    BY <1>1, <1>5, <2>1, <2>2
<1>12. Shows(u, t)
  <2>1. Shows(s, t)
    BY DEF s
  <2>. QED
    BY <1>10, <1>11, <2>1 DEF Shows
<1>14. ASSUME NEW i \in 1..Len(t), NEW j \in 1..Len(t), i < j,
              NEW q \in 1..Len(u), u[q] = t[i]
       PROVE \E p \in (q + 1)..Len(u) : u[p] = t[j]
  <2>0. Follows(s, t) /\ Len(u) \in Nat /\ Len(s) \in Nat
    BY <1>1, <1>3, <1>5 DEF s
  <2>1. CASE q \in 1..(c + k)
    <3>1. q \in 1..Len(s) /\ s[q] = t[i]
      BY <1>7, <1>14, <2>1
    <3>2. PICK p \in (q + 1)..Len(s) : s[p] = t[j]
      BY <1>14, <2>0, <3>1 DEF Follows
    <3>3. p \in 1..Len(s) /\ p > q
      BY <2>0, <3>1, <3>2
    <3>4. PICK r \in 1..Len(u) : u[r] = s[p] /\ p <= r
      BY <1>9, <3>3
    <3>5. r \in (q + 1)..Len(u)
      BY <2>0, <3>3, <3>4
    <3>. QED
      BY <3>2, <3>4, <3>5
  <2>2. CASE q > c + k
    <3>1. q - k \in 1..Len(s) /\ q - k > c /\ s[q - k] = t[i]
      BY <1>8, <1>14, <2>2
    <3>2. PICK p \in ((q - k) + 1)..Len(s) : s[p] = t[j]
      BY <1>14, <2>0, <3>1 DEF Follows
    <3>3. p \in 1..Len(s) /\ p > c /\ p + k >= q + 1
      BY <1>1, <2>0, <3>1, <3>2
    <3>4. p + k \in 1..Len(u) /\ u[p + k] = s[p]
      BY <1>13, <3>3
    <3>5. p + k \in (q + 1)..Len(u)
      BY <1>1, <2>0, <3>3, <3>4
    <3>. QED
      BY <3>2, <3>4, <3>5
  <2>. QED
    BY <1>1, <1>5, <2>1, <2>2
<1>15. Follows(u, t)
  BY <1>14 DEF Follows
<1>. QED
  BY <1>2, <1>4, <1>12, <1>15 DEF u

(* The number of the numbers up to j.                                       *)
LEMMA CountUpTo ==
    ASSUME NEW k \in Nat, NEW j \in 1..k
    PROVE  Cardinality({x \in 1..k : x <= j}) = j
<1>1. {x \in 1..k : x <= j} = 1..j
  OBVIOUS
<1>2. Cardinality(1..j) = j
  BY FS_Interval
<1>. QED
  BY <1>1, <1>2

(* An attempt that loses none of its k messages appends them in order.      *)
LEMMA SavedInOrder ==
    ASSUME NEW k \in Nat, AddMessages(k), lost' = {}
    PROVE  lost = {} /\ store' = store \o [n \in 1..k |-> messages[n]]
<1>1. PICK skipped \in SUBSET (1..k) :
        /\ lost' = lost \cup {messages[j] : j \in skipped}
        /\ LET kept == {j \in 1..k : j \notin skipped}
               nth(n) == CHOOSE j \in kept : Cardinality({x \in kept : x <= j}) = n
           IN  store' = store \o [n \in 1..Cardinality(kept) |-> messages[nth(n)]]
  BY DEF AddMessages
<1>2. lost = {} /\ skipped = {}
  BY <1>1
<1> DEFINE kept == {j \in 1..k : j \notin skipped}
           nth(n) == CHOOSE j \in kept : Cardinality({x \in kept : x <= j}) = n
<1>3. kept = 1..k
  BY <1>2
<1>4. Cardinality(kept) = k
  <2>1. Cardinality(1..k) = k
    BY FS_Interval
  <2>. QED
    BY <1>3, <2>1
<1>5. store' = store \o [n \in 1..Cardinality(kept) |-> messages[nth(n)]]
  BY <1>1
<1> HIDE DEF kept
<1>6. ASSUME NEW n \in 1..k PROVE nth(n) = n
  <2>1. \A j \in kept : Cardinality({x \in kept : x <= j}) = j
    BY <1>3, CountUpTo
  <2>2. n \in kept
    BY <1>3
  <2>. QED
    BY <2>1, <2>2
<1> HIDE DEF nth
<1>7. [n \in 1..Cardinality(kept) |-> messages[nth(n)]] = [n \in 1..k |-> messages[n]]
  BY <1>4, <1>6
<1>. QED
  BY <1>2, <1>5, <1>7

(* Where the loop is, or will be when the pause is approved; the iteration  *)
(* it counts and the messages it holds, which an execution that has not     *)
(* started has in its state record.                                         *)
Place == IF pc = "budget" THEN resume ELSE pc
Count == IF pc = "start" THEN state.iteration ELSE iter
Held == IF pc = "start" THEN state.messages ELSE messages
Before == {"start", "recall", "prefetch", "llm", "final", "answer", "decide", "batch"}
Rounds == Before \cup {"tools", "save", "history"}

(* The messages of the transcript are of earlier iterations, or of the      *)
(* round in progress up to the results merged.                              *)
Earlier(x, n) == x.role = "user" \/ x.iter < n
Known(l, n, mg, x) ==
    /\ l \in Before => Earlier(x, n)
    /\ l = "tools" => Earlier(x, n) \/ (x.iter = n /\ (x.role = "tool" => x.n <= mg))
    /\ l \in {"save", "history"} => Earlier(x, n + 1)
Whole(l, n, mg, held, st, t) ==
    /\ n \in Nat /\ held \in Seq(Message) /\ st \in Seq(Message) /\ t \in Seq(Message)
    /\ Len(t) > 0
    /\ Shows(st \o held, t) /\ Follows(st \o held, t)
    /\ \A x \in Elements(t) : Known(l, n, mg, x)
RequestInv ==
    Place \in Rounds /\ lost = {} => Whole(Place, Count, merged, Held, store, transcript)

LEMMA InitRequest == Init => RequestInv
<1> SUFFICES ASSUME Init PROVE Whole(Place, Count, merged, Held, store, transcript)
  BY DEF RequestInv
<1>1. Place = "start" /\ Count = 0 /\ Held = <<UserMsg>> /\ store = <<>> /\ transcript = <<UserMsg>>
  BY DEF Init, Place, Count, Held, NewState
<1>2. UserMsg \in Message /\ UserMsg.role = "user"
  BY DEF UserMsg, Message
<1>3. /\ Len(<<UserMsg>>) = 1 /\ <<UserMsg>>[1] = UserMsg /\ <<>> \o <<UserMsg>> = <<UserMsg>>
      /\ <<UserMsg>> \in Seq(Message) /\ <<>> \in Seq(Message)
  BY <1>2
<1>4. Shows(<<UserMsg>>, <<UserMsg>>) /\ Follows(<<UserMsg>>, <<UserMsg>>)
  BY <1>3 DEF Shows, Follows
<1>5. \A x \in Elements(<<UserMsg>>) : Known("start", 0, merged, x)
  BY <1>2, <1>3 DEF Elements, Known, Earlier, Before
<1>. QED
  BY <1>1, <1>3, <1>4, <1>5 DEF Whole

(* A step that adds no message and stays in the round. *)
LEMMA RequestStays ==
    ASSUME RequestInv, UNCHANGED <<messages, store, transcript, iter, merged, state>>,
           lost' = {} => lost = {},
           pc # "start" \/ pc' = "start", pc' = "start" => pc = "start",
           Place' \in Rounds => Place \in Rounds /\ (Place' = Place \/ {Place, Place'} \subseteq Before)
    PROVE  RequestInv'
<1> SUFFICES ASSUME Place' \in Rounds, lost' = {}
             PROVE  Whole(Place', Count', merged', Held', store', transcript')
  BY DEF RequestInv
<1>1. Whole(Place, Count, merged, Held, store, transcript)
  BY DEF RequestInv
<1>2. Count' = Count /\ Held' = Held
  BY DEF Count, Held
<1>3. \A x : Known(Place, Count, merged, x) => Known(Place', Count, merged, x)
  BY DEF Known, Before
<1>4. Whole(Place', Count, merged, Held, store, transcript)
  BY <1>1, <1>3 DEF Whole
<1>. QED
  BY <1>2, <1>4

(* A message that the round has not had yet is said. *)
LEMMA RequestSays ==
    ASSUME NEW l, NEW n, NEW mg, NEW held, NEW st, NEW t, NEW m \in Message, NEW l2, NEW mg2,
           Whole(l, n, mg, held, st, t), ~Known(l, n, mg, m), Known(l2, n, mg2, m),
           \A x \in Elements(t) : Known(l, n, mg, x) => Known(l2, n, mg2, x)
    PROVE  Whole(l2, n, mg2, Append(held, m), st, Append(t, m))
<1>1. n \in Nat /\ held \in Seq(Message) /\ st \in Seq(Message) /\ t \in Seq(Message) /\ Shows(st \o held, t) /\ Follows(st \o held, t)
  BY DEF Whole
<1>2. m \notin Elements(t)
  BY DEF Whole
<1>3. st \o held \in Seq(Message) /\ st \o Append(held, m) = Append(st \o held, m)
  BY <1>1
<1>4. Shows(Append(st \o held, m), Append(t, m)) /\ Follows(Append(st \o held, m), Append(t, m))
  BY <1>1, <1>2, <1>3, ShowsAppended, FollowsAppended
<1>5. \A x \in Elements(Append(t, m)) : x = m \/ x \in Elements(t)
  BY <1>1 DEF Elements
<1>6. \A x \in Elements(Append(t, m)) : Known(l2, n, mg2, x)
  BY <1>5 DEF Whole
<1>7. Append(held, m) \in Seq(Message) /\ Append(t, m) \in Seq(Message) /\ Len(Append(t, m)) > 0
  BY <1>1
<1>. QED
  BY <1>1, <1>3, <1>4, <1>6, <1>7 DEF Whole

(* The actions that leave the conversation as it is. *)
LEMMA QuietRequest ==
    ASSUME LimitInv, RequestInv,
           \/ RecallMemory \/ PrefetchRetrievers \/ BudgetApproval \/ LLMAttemptFails \/ FallbackFails
           \/ LLMCanceled \/ LLMReturns \/ FinalLLMReturns \/ DecideMaxIterations \/ StoreMemory
           \/ Cleanup
    PROVE  RequestInv'
<1>1. UNCHANGED <<messages, store, transcript, iter, merged, state, lost>>
  BY DEF RecallMemory, PrefetchRetrievers, Activity, BudgetApproval, LLMAttemptFails, FallbackFails,
         LLMCanceled, LLMReturns, FinalLLMReturns, DecideMaxIterations, StoreMemory, Cleanup,
         locals, batch, stores, ghosts
<1>2. resume \in Resumes
  BY DEF LimitInv
<1>3. ASSUME NEW u, NEW next, Charge(u, next)
      PROVE  pc' = next \/ pc' = "exit" \/ (pc' = "budget" /\ resume' = next)
  BY <1>3 DEF Charge, handleBudgetExceeded, Go, Exit
<1>4. CASE LLMReturns
  <2>1. PICK k \in 0..MaxCalls : \E u : Charge(u, AfterLLM(k))
    BY <1>4 DEF LLMReturns, ReplyCharged
  <2>2. AfterLLM(k) \in {"answer", "decide", "batch"}
    BY DEF AfterLLM
  <2>3. pc = "llm"
    BY <1>4 DEF LLMReturns
  <2>4. pc' \in {"answer", "decide", "batch", "exit"} \/ (pc' = "budget" /\ resume' \in {"answer", "decide", "batch"})
    BY <1>3, <2>1, <2>2
  <2>. QED
    BY <1>1, <2>3, <2>4, RequestStays DEF Place, Before, Rounds
<1>5. CASE FinalLLMReturns
  <2>1. PICK u : Charge(u, "answer")
    BY <1>5 DEF FinalLLMReturns, ReplyCharged
  <2>2. pc' \in {"answer", "exit"} \/ (pc' = "budget" /\ resume' = "answer")
    BY <1>3, <2>1
  <2>3. pc = "final"
    BY <1>5 DEF FinalLLMReturns
  <2>. QED
    BY <1>1, <2>2, <2>3, RequestStays DEF Place, Before, Rounds
<1>6. CASE BudgetApproval
  <2>1. pc = "budget" /\ pc' \in {resume, "exit"} /\ resume' = resume
    BY <1>6 DEF BudgetApproval, Go, Exit
  <2>. QED
    BY <1>1, <1>2, <2>1, RequestStays DEF Place, Rounds, Resumes, Before
<1>7. CASE \/ RecallMemory \/ PrefetchRetrievers \/ LLMAttemptFails \/ FallbackFails
           \/ LLMCanceled \/ DecideMaxIterations \/ StoreMemory \/ Cleanup
  <2>1. /\ pc \in {"recall", "prefetch", "llm", "final", "decide", "memory", "exit"}
        /\ \/ pc' \in {"exit", "closed"} \/ pc' = pc
           \/ {pc, pc'} \subseteq {"recall", "prefetch", "llm", "decide", "batch", "final"}
    BY <1>7 DEF RecallMemory, PrefetchRetrievers, Activity, LLMAttemptFails, FallbackFails,
         LLMCanceled, DecideMaxIterations, StoreMemory, Cleanup, InCall, Go, Exit
  <2>. QED
    BY <1>1, <2>1, RequestStays DEF Place, Before, Rounds
<1>. QED
  BY <1>4, <1>5, <1>6, <1>7

(* The round's end: the next iteration, here or in the next execution.      *)
LEMMA StartRequest ==
    ASSUME RequestInv, Restore \/ ContinueAsNew \/ NextIteration
    PROVE  RequestInv'
<1>1. UNCHANGED <<store, lost, transcript, merged>>
  BY DEF Restore, ContinueAsNew, NextIteration, batch, stores, ghosts
<1> SUFFICES ASSUME Place' \in Rounds, lost = {}
             PROVE  Whole(Place', Count', merged', Held', store', transcript')
  BY <1>1 DEF RequestInv
<1>2. CASE Restore
  <2>1. pc = "start" /\ pc' = "recall" /\ iter' = state.iteration /\ messages' = state.messages
    BY <1>2 DEF Restore
  <2>2. Place = "start" /\ Place' = "recall" /\ Count' = Count /\ Held' = Held
    BY <2>1 DEF Place, Count, Held
  <2>3. Whole("start", Count, merged, Held, store, transcript)
    BY <2>2 DEF RequestInv, Rounds, Before
  <2>4. Whole("recall", Count, merged, Held, store, transcript)
    BY <2>3 DEF Whole, Known, Before
  <2>. QED
    BY <1>1, <2>2, <2>4
<1>3. ASSUME pc = "history"
      PROVE  \A l \in Before : Whole(l, iter + 1, merged, messages, store, transcript)
  <2>1. Place = "history" /\ Count = iter /\ Held = messages
    BY <1>3 DEF Place, Count, Held
  <2>2. Whole("history", iter, merged, messages, store, transcript)
    BY <2>1 DEF RequestInv, Rounds
  <2>3. iter + 1 \in Nat
    BY <2>2 DEF Whole
  <2>4. \A l \in Before : l # "tools" /\ l \notin {"save", "history"}
    BY DEF Before
  <2>5. \A x \in Elements(transcript) : Earlier(x, iter + 1)
    BY <2>2 DEF Whole, Known
  <2>. QED
    BY <2>2, <2>3, <2>4, <2>5 DEF Whole, Known
<1>4. CASE ContinueAsNew
  <2>1. pc = "history" /\ pc' = "start" /\ state' = Carried
    BY <1>4 DEF ContinueAsNew, Go
  <2>2. state'.iteration = iter + 1 /\ state'.messages = messages
    BY <2>1 DEF Carried
  <2>3. Place' = "start" /\ Count' = iter + 1 /\ Held' = messages
    BY <2>1, <2>2 DEF Place, Count, Held
  <2>. QED
    BY <1>1, <1>3, <2>1, <2>3 DEF Before
<1>5. CASE NextIteration
  <2>1. pc = "history" /\ pc' \in {"llm", "saveEnd"} /\ iter' = iter + 1 /\ messages' = messages
    BY <1>5 DEF NextIteration, Go
  <2>2. Place' = "llm" /\ Count' = iter + 1 /\ Held' = messages
    BY <2>1 DEF Place, Count, Held, Rounds, Before
  <2>. QED
    BY <1>1, <1>3, <2>1, <2>2 DEF Before
<1>. QED
  BY <1>2, <1>4, <1>5

(* The response that asks for tools, and their results one by one.          *)
LEMMA BatchRequest ==
    ASSUME BatchInv, RequestInv, StartBatch
    PROVE  RequestInv'
<1>1. /\ pc = "batch" /\ pc' = "tools" /\ UNCHANGED <<store, lost, merged, iter>>
      /\ messages' = Append(messages, AssistantMsg(calls))
      /\ transcript' = Append(transcript, AssistantMsg(calls))
  BY DEF StartBatch, Say, Go, locals, stores
<1> SUFFICES ASSUME lost = {}
             PROVE  Whole(Place', Count', merged', Held', store', transcript')
  BY <1>1 DEF RequestInv
<1>2. /\ Place = "batch" /\ Count = iter /\ Held = messages
      /\ Place' = "tools" /\ Count' = iter /\ Held' = Append(messages, AssistantMsg(calls))
  BY <1>1 DEF Place, Count, Held
<1>3. Whole("batch", iter, merged, messages, store, transcript)
  BY <1>2 DEF RequestInv, Rounds, Before
<1>4. iter \in Nat /\ calls \in Nat
  BY <1>3, WorkflowAssumption DEF Whole, BatchInv
<1> DEFINE m == AssistantMsg(calls)
<1>5. m \in Message /\ m.role = "assistant" /\ m.iter = iter
  BY <1>4 DEF AssistantMsg, Message
<1> HIDE DEF m
<1>6. ~Known("batch", iter, merged, m) /\ Known("tools", iter, merged, m)
  BY <1>4, <1>5 DEF Known, Earlier, Before
<1>7. \A x \in Elements(transcript) : Known("batch", iter, merged, x) => Known("tools", iter, merged, x)
  BY DEF Known, Before
<1>8. Whole("tools", iter, merged, Append(messages, m), store, Append(transcript, m))
  BY <1>3, <1>5, <1>6, <1>7, RequestSays
<1>. QED
  BY <1>1, <1>2, <1>8 DEF m

LEMMA CollectRequest ==
    ASSUME BatchInv, RequestInv, CollectResult
    PROVE  RequestInv'
<1> DEFINE i == merged + 1
           m == ToolMsg(i)
<1>1. /\ pc = "tools" /\ UNCHANGED <<store, lost, iter>>
      /\ messages' = Append(messages, m) /\ transcript' = Append(transcript, m)
  BY DEF CollectResult, BatchOver, Say, stores
<1>2. \/ i < calls /\ merged' = i /\ AfterBatch = "tools"
      \/ merged' = 0 /\ AfterBatch \in {"save", "history"}
  BY DEF CollectResult, AfterBatch
<1>3. pc' \in {AfterBatch, "exit"} \/ (pc' = "budget" /\ resume' = AfterBatch)
  BY DEF CollectResult, Charge, handleBudgetExceeded, Go, Exit
<1> SUFFICES ASSUME lost = {}, Place' \in Rounds
             PROVE  Whole(Place', Count', merged', Held', store', transcript')
  BY <1>1 DEF RequestInv
<1>4. Place' = AfterBatch
  BY <1>2, <1>3 DEF Place, Rounds, Before
<1>5. pc' # "start"
  BY <1>2, <1>3
<1>6. /\ Place = "tools" /\ Count = iter /\ Held = messages
      /\ Count' = iter /\ Held' = Append(messages, m)
  BY <1>1, <1>5 DEF Place, Count, Held
<1>7. Whole("tools", iter, merged, messages, store, transcript)
  BY <1>6 DEF RequestInv, Rounds
<1>8. iter \in Nat /\ merged \in Nat /\ i \in Nat /\ i > merged
  BY <1>7 DEF Whole, BatchInv
<1>9. m \in Message /\ m.role = "tool" /\ m.iter = iter /\ m.n = i
  BY <1>8 DEF ToolMsg, Message
<1>10. transcript \in Seq(Message)
  BY <1>7 DEF Whole
<1>11. \A x \in Elements(transcript) : x.iter \in Nat /\ x.n \in Nat
  <2>1. \A j \in 1..Len(transcript) : transcript[j] \in Message
    BY <1>10
  <2>. QED
    BY <2>1 DEF Elements, Message
<1> HIDE DEF m, i
<1>12. ~Known("tools", iter, merged, m)
  BY <1>8, <1>9 DEF Known, Earlier
<1>13. CASE merged' = i /\ AfterBatch = "tools"
  <2>1. Known("tools", iter, i, m)
    BY <1>8, <1>9 DEF Known, Before
  <2>2. \A x \in Elements(transcript) : Known("tools", iter, merged, x) => Known("tools", iter, i, x)
    BY <1>8, <1>11 DEF Known, Before
  <2>3. Whole("tools", iter, i, Append(messages, m), store, Append(transcript, m))
    BY <1>7, <1>9, <1>12, <2>1, <2>2, RequestSays
  <2>. QED
    BY <1>1, <1>4, <1>6, <1>13, <2>3
<1>14. CASE merged' = 0 /\ AfterBatch \in {"save", "history"}
  <2>1. Known(AfterBatch, iter, 0, m)
    BY <1>8, <1>9, <1>14 DEF Known, Before, Earlier
  <2>2. \A x \in Elements(transcript) : Known("tools", iter, merged, x) => Known(AfterBatch, iter, 0, x)
    BY <1>8, <1>11, <1>14 DEF Known, Before, Earlier
  <2>3. Whole(AfterBatch, iter, 0, Append(messages, m), store, Append(transcript, m))
    BY <1>7, <1>9, <1>12, <2>1, <2>2, RequestSays
  <2>. QED
    BY <1>1, <1>4, <1>6, <1>14, <2>3
<1>. QED
  BY <1>2, <1>13, <1>14

(* What an attempt writes: all or a first part of the messages held. *)
LEMMA SavedShows ==
    ASSUME NEW l, NEW n, NEW mg, Whole(l, n, mg, messages, store, transcript),
           NEW k \in 0..Len(messages), AddMessages(k), lost' = {}
    PROVE  /\ Whole(l, n, mg, messages, store', transcript)
           /\ k = Len(messages) => Whole(l, n, mg, <<>>, store', transcript)
<1>1. /\ n \in Nat /\ messages \in Seq(Message) /\ store \in Seq(Message) /\ transcript \in Seq(Message)
      /\ Len(transcript) > 0
      /\ Shows(store \o messages, transcript) /\ Follows(store \o messages, transcript)
  BY DEF Whole
<1>2. k \in Nat /\ k <= Len(messages)
  BY <1>1
<1> DEFINE b == [j \in 1..k |-> messages[j]]
<1>3. store' = store \o b
  BY <1>2, SavedInOrder
<1>4. b \in Seq(Message)
  BY <1>1, <1>2
<1>5. store' \in Seq(Message)
  <2> HIDE DEF b
  <2>. QED
    BY <1>1, <1>3, <1>4
<1>6. Shows(store' \o messages, transcript) /\ Follows(store' \o messages, transcript)
  BY <1>1, <1>3, ShowsAgain
<1>7. k = Len(messages) => b = messages
  BY <1>1
<1>8. store' \o <<>> = store'
  BY <1>5
<1>9. k = Len(messages) => Shows(store' \o <<>>, transcript) /\ Follows(store' \o <<>>, transcript)
  <2> HIDE DEF b
  <2>. QED
    BY <1>1, <1>3, <1>7, <1>8
<1>10. <<>> \in Seq(Message)
  OBVIOUS
<1>. QED
  BY <1>1, <1>5, <1>6, <1>9, <1>10 DEF Whole

(* The save of a round: its attempts that die, its success and its failure. *)
LEMMA SaveRequest ==
    ASSUME RequestInv, SaveAttemptDies \/ SaveRound
    PROVE  RequestInv'
<1>1. UNCHANGED <<transcript, merged, iter>>
  BY DEF SaveAttemptDies, SaveRound, locals, batch, ghosts
<1> SUFFICES ASSUME Place' \in Rounds, lost' = {}
             PROVE  Whole(Place', Count', merged', Held', store', transcript')
  BY DEF RequestInv
<1>2. pc = "save" /\ pc' \in {"save", "history"}
  <2>1. SaveAttemptDies => pc \in {"save", "saveEnd"} /\ pc' = pc
    BY DEF SaveAttemptDies
  <2>2. SaveRound => pc = "save" /\ pc' = "history"
    BY DEF SaveRound, Go
  <2>. QED
    BY <2>1, <2>2 DEF Place, Rounds, Before
<1>3. Place = "save" /\ Place' \in {"save", "history"} /\ Count' = iter /\ Count = iter /\ Held = messages /\ Held' = messages'
  BY <1>1, <1>2 DEF Place, Count, Held
<1>4. \/ messages' = messages /\ \E k \in 0..Len(messages) : AddMessages(k)
      \/ messages' = <<>> /\ AddMessages(Len(messages))
      \/ messages' = messages /\ store' = store /\ lost' = lost
  BY DEF SaveAttemptDies, SaveRound, SaveFails, Dies, Completes, stores
<1>5. lost = {}
  BY <1>4 DEF AddMessages
<1>6. Whole("save", iter, merged, messages, store, transcript)
  BY <1>3, <1>5 DEF RequestInv, Rounds
<1>7. Len(messages) \in 0..Len(messages)
  BY <1>6 DEF Whole
<1>8. Whole("save", iter, merged, messages', store', transcript)
  BY <1>4, <1>6, <1>7, SavedShows
<1>9. Whole(Place', iter, merged, messages', store', transcript)
  BY <1>3, <1>8 DEF Whole, Known, Before
<1>. QED
  BY <1>1, <1>3, <1>9

LEMMA NextRequest ==
    ASSUME LimitInv, BatchInv, RequestInv, [Next]_vars
    PROVE  RequestInv'
<1>1. ASSUME UNCHANGED <<pc, resume, messages, store, transcript, iter, merged, state, lost>> PROVE RequestInv'
  BY <1>1, RequestStays DEF Place
<1>2. CASE UNCHANGED vars
  BY <1>1, <1>2 DEF vars, locals, batch, stores, ghosts
<1>3. CASE CancelRequested
  BY <1>1, <1>3 DEF CancelRequested, locals, batch, stores, ghosts
<1>4. ASSUME NEW i \in 1..MaxCalls, ToolAction(i) \/ ApprovalResolved(i) PROVE RequestInv'
  <2>1. UNCHANGED <<pc, resume, messages, store, transcript, iter, merged, state, lost>>
    BY <1>4 DEF ToolAction, ApprovalResolved, ToolStart, ToolAuthorize, ApprovalReturns,
           ApprovalCanceled, ToolExecute, delegateToSubAgent, ToolStep, locals, stores, ghosts
  <2>. QED
    BY <1>1, <2>1
<1>5. CASE Answer \/ SaveEnd
  <2>1. pc' \in {"saveEnd", "memory", "exit"}
    BY <1>5 DEF Answer, SaveEnd, Go, Exit
  <2>. QED
    BY <2>1 DEF RequestInv, Place, Rounds, Before
<1>. QED
  BY <1>2, <1>3, <1>4, <1>5, QuietRequest, StartRequest, BatchRequest, CollectRequest, SaveRequest
     DEF Next, LoopStep, Closed

(* The end of a that the limit leaves, and b: a suffix of a \o b.           *)
IsSuffix(w, s, d) == Len(w) = Len(s) - d /\ \A i \in 1..(Len(s) - d) : w[i] = s[i + d]
LEMMA WindowJoined ==
    ASSUME NEW S, NEW a \in Seq(S), NEW b \in Seq(S)
    PROVE  \E d \in Nat : /\ d <= Len(a) /\ (Len(a) > 0 => d < Len(a))
                         /\ LastN(a, limit) \o b \in Seq(S)
                         /\ IsSuffix(LastN(a, limit) \o b, a \o b, d)
<1>1. limit \in Nat /\ limit >= 1 /\ Len(a) \in Nat /\ Len(b) \in Nat
  BY WorkflowAssumption DEF limit
<1>2. CASE Len(a) <= limit
  <2>1. LastN(a, limit) = a
    BY <1>2 DEF LastN
  <2>2. a \o b \in Seq(S) /\ Len(a \o b) \in Nat
    BY <1>1, Joined
  <2> DEFINE f == a \o b
  <2> HIDE DEF f
  <2>3. Len(f) \in Nat
    BY <2>2 DEF f
  <2>4. IsSuffix(f, f, 0)
    BY <2>3 DEF IsSuffix
  <2>5. 0 <= Len(a) /\ (Len(a) > 0 => 0 < Len(a)) /\ 0 \in Nat
    BY <1>1
  <2>. QED
    BY <2>1, <2>2, <2>4, <2>5 DEF f
<1>3. CASE Len(a) > limit
  <2> DEFINE d == Len(a) - limit
             c == SubSeq(a, d + 1, Len(a))
  <2>1. d \in Nat /\ d <= Len(a) /\ d < Len(a) /\ d + 1 \in 1..Len(a) /\ Len(a) \in 1..Len(a)
    BY <1>1, <1>3
  <2>2. LastN(a, limit) = c
    BY <1>1, <1>3 DEF LastN
  <2>3. c \in Seq(S) /\ Len(c) = limit /\ \A i \in 1..limit : c[i] = a[i + d]
    <3>1. c \in Seq(S) /\ Len(c) = Len(a) - (d + 1) + 1 /\ \A i \in 1..(Len(a) - (d + 1) + 1) : c[i] = a[(d + 1) + i - 1]
      BY <2>1, SubSeqProperties
    <3>2. Len(a) - (d + 1) + 1 = limit /\ \A i \in 1..limit : (d + 1) + i - 1 = i + d
      BY <1>1
    <3>. QED
      BY <3>1, <3>2
  <2> HIDE DEF c
  <2> DEFINE e == c \o b
             f == a \o b
  <2>4. /\ e \in Seq(S) /\ Len(e) = limit + Len(b)
        /\ \A i \in 1..limit : e[i] = c[i]
        /\ \A i \in 1..Len(b) : e[limit + i] = b[i]
    <3>1. /\ e \in Seq(S) /\ Len(e) = Len(c) + Len(b)
          /\ \A i \in 1..Len(c) : e[i] = c[i]
          /\ \A i \in 1..Len(b) : e[Len(c) + i] = b[i]
      <4>1. c \in Seq(S)
        BY <2>3
      <4>. QED
        BY <4>1, Joined
    <3> HIDE DEF e
    <3>. QED
      BY <2>3, <3>1
  <2>5. /\ Len(f) = Len(a) + Len(b)
        /\ \A i \in 1..Len(a) : f[i] = a[i]
        /\ \A i \in 1..Len(b) : f[Len(a) + i] = b[i]
    BY Joined
  <2> HIDE DEF e, f
  <2>6. limit + Len(b) = Len(f) - d
    BY <1>1, <2>5
  <2>7. ASSUME NEW i \in 1..(limit + Len(b)) PROVE e[i] = f[i + d]
    <3>1. CASE i <= limit
      <4>1. i \in 1..limit /\ i + d \in 1..Len(a)
        BY <1>1, <1>3, <3>1
      <4>. QED
        BY <2>3, <2>4, <2>5, <4>1
    <3>2. CASE i > limit
      <4>1. i - limit \in 1..Len(b) /\ limit + (i - limit) = i /\ Len(a) + (i - limit) = i + d
        BY <1>1, <3>2
      <4>2. e[limit + (i - limit)] = b[i - limit] /\ f[Len(a) + (i - limit)] = b[i - limit]
        BY <2>4, <2>5, <4>1
      <4>. QED
        BY <4>1, <4>2
    <3>3. i <= limit \/ i > limit
      BY <1>1
    <3>. QED
      BY <3>1, <3>2, <3>3
  <2>9. d <= Len(a) /\ (Len(a) > 0 => d < Len(a)) /\ e \in Seq(S) /\ IsSuffix(e, f, d)
    BY <2>1, <2>4, <2>6, <2>7 DEF IsSuffix
  <2> HIDE DEF d
  <2>10. LastN(a, limit) \o b = e /\ a \o b = f
    BY <2>2 DEF e, f
  <2>. QED
    BY <2>1, <2>9, <2>10
<1>4. Len(a) <= limit \/ Len(a) > limit
  BY <1>1
<1>. QED
  BY <1>2, <1>3, <1>4

(* A suffix of what shows and follows the transcript ends as it does.       *)
LEMMA SuffixEnds ==
    ASSUME NEW S, NEW s \in Seq(S), NEW t \in Seq(S), NEW w \in Seq(S), NEW d \in Nat,
           Shows(s, t), Follows(s, t), Len(t) > 0, d < Len(s), IsSuffix(w, s, d)
    PROVE  EndsAs(w, t)
<1>1. Len(s) \in Nat /\ Len(t) \in Nat /\ Len(w) \in Nat /\ Len(t) \in 1..Len(t)
  OBVIOUS
<1>7. Len(w) = Len(s) - d
  BY DEF IsSuffix
<1>2. \A i \in 1..Len(w) : i + d \in 1..Len(s) /\ w[i] = s[i + d]
  BY <1>1, <1>7 DEF IsSuffix
<1>6. Elements(s) = Elements(t)
  BY DEF Shows
<1>3. Elements(w) \subseteq Elements(t)
  <2>1. ASSUME NEW i \in 1..Len(w) PROVE w[i] \in Elements(s)
    BY <1>2 DEF Elements
  <2>2. Elements(w) = {w[i] : i \in 1..Len(w)}
    BY DEF Elements
  <2>. QED
    BY <1>6, <2>1, <2>2
<1>4. t[Len(t)] \in Elements(w)
  <2> DEFINE n == Len(s)
  <2>1. n \in 1..Len(s) /\ Len(w) \in 1..Len(w) /\ Len(w) + d = n
    BY <1>1, <1>7
  <2>6. s[n] \in Elements(s)
    BY <2>1 DEF Elements
  <2>2. PICK i \in 1..Len(t) : t[i] = s[n]
    BY <1>6, <2>6 DEF Elements
  <2>3. ~(i < Len(t))
    <3>1. SUFFICES ASSUME i < Len(t) PROVE FALSE
      OBVIOUS
    <3>2. PICK p \in (n + 1)..Len(s) : s[p] = t[Len(t)]
      BY <1>1, <2>1, <2>2, <3>1 DEF Follows
    <3>. QED
      BY <1>1, <3>2
  <2>4. i = Len(t)
    BY <1>1, <2>2, <2>3
  <2>5. w[Len(w)] = s[n]
    BY <1>2, <2>1
  <2>. QED
    BY <2>1, <2>2, <2>4, <2>5 DEF Elements
<1>5. ASSUME NEW i \in 1..Len(t), NEW j \in 1..Len(t), i < j, NEW q \in 1..Len(w), w[q] = t[i]
      PROVE  \E p \in (q + 1)..Len(w) : w[p] = t[j]
  <2>1. q + d \in 1..Len(s) /\ s[q + d] = t[i]
    BY <1>2, <1>5
  <2>2. PICK p \in ((q + d) + 1)..Len(s) : s[p] = t[j]
    BY <1>5, <2>1 DEF Follows
  <2>3. p - d \in (q + 1)..Len(w) /\ p - d \in 1..Len(w) /\ (p - d) + d = p
    BY <1>1, <1>5, <1>7, <2>2
  <2>. QED
    BY <1>2, <2>2, <2>3
<1>. QED
  BY <1>3, <1>4, <1>5 DEF EndsAs, Follows

(* What a model is shown, in any execution of the chain, is the transcript  *)
(* of the run in order, or its end when the stored conversation is longer   *)
(* than ConversationSize: of a message that is shown no later one is        *)
(* missing, misplaced or of another run, unless the store refused it,       *)
(* whatever attempts to save died and were repeated, and however often the  *)
(* run continued as new, for every limit and number of executions, attempts *)
(* and tool calls (TemporalWorkflow.RequestComplete).                       *)
THEOREM RequestsOfTheChain == Spec => []RequestComplete
<1>1. Init => LimitInv /\ BatchInv /\ RequestInv
  BY InitChain, InitRequest
<1>2. LimitInv /\ BatchInv /\ RequestInv /\ [Next]_vars => (LimitInv /\ BatchInv /\ RequestInv)'
  BY NextChain, NextRequest
<1>3. RequestInv => RequestComplete
  <2> SUFFICES ASSUME RequestInv, InCall, lost = {}
               PROVE  /\ EndsAs(Request, transcript)
                      /\ Len(store) <= limit => Shows(Request, transcript)
    BY DEF RequestComplete
  <2> DEFINE s == store \o messages
  <2>1. Place \in Rounds /\ Held = messages
    BY DEF InCall, Place, Held, Rounds, Before
  <2>2. /\ messages \in Seq(Message) /\ store \in Seq(Message) /\ transcript \in Seq(Message)
        /\ Shows(s, transcript) /\ Follows(s, transcript) /\ Len(transcript) > 0
    BY <2>1 DEF RequestInv, Whole
  <2>3. PICK d \in Nat : /\ d <= Len(store) /\ (Len(store) > 0 => d < Len(store))
                        /\ Request \in Seq(Message) /\ IsSuffix(Request, s, d)
    <3>1. Request = LastN(store, limit) \o messages
      BY DEF Request, FetchConversationMessages
    <3>2. messages \in Seq(Message) /\ store \in Seq(Message)
      BY <2>2
    <3>3. \E d \in Nat : /\ d <= Len(store) /\ (Len(store) > 0 => d < Len(store))
                         /\ LastN(store, limit) \o messages \in Seq(Message)
                         /\ IsSuffix(LastN(store, limit) \o messages, store \o messages, d)
      BY <3>2, WindowJoined
    <3>. QED
      BY <3>1, <3>3
  <2>4. Len(store) <= limit => Shows(Request, transcript)
    <3>1. ASSUME Len(store) <= limit PROVE Request = s
      BY <3>1 DEF Request, FetchConversationMessages, LastN
    <3>. QED
      BY <2>2, <3>1
  <2>5. s \in Seq(Message) /\ d < Len(s)
    <3>1. s \in Seq(Message) /\ Len(s) = Len(store) + Len(messages) /\ Len(store) \in Nat /\ Len(messages) \in Nat
      BY <2>2, Joined
    <3>2. Len(transcript) \in 1..Len(transcript)
      BY <2>2
    <3>3. Elements(s) # {}
      BY <2>2, <3>2 DEF Shows, Elements
    <3>4. Len(s) > 0
      BY <3>1, <3>3 DEF Elements
    <3>. QED
      BY <2>3, <3>1, <3>4
  <2> HIDE DEF s
  <2>. QED
    BY <2>2, <2>3, <2>4, <2>5, SuffixEnds
<1>. QED
  BY <1>1, <1>2, <1>3, PTL DEF Spec
=============================================================================
