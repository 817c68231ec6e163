-------------------------- MODULE AgentLoop_proofs --------------------------
(***************************************************************************)
(* The LLM calls of a run are bounded and its fallback is for good; what   *)
(* the runs of a session write to the store is written once and whole; and *)
(* every LLM call is made with a transcript a chat model accepts: for      *)
(* every number of runs, iterations, tool calls and messages, whatever the *)
(* hooks and the models answer.                                            *)
(***************************************************************************)
EXTENDS AgentLoop, SequenceTheorems, TLAPS

(* The invariant of one run, to be shown of every run after a step. *)
RunInv(q) == IterationBound(q) /\ CallCount(q) /\ FallbackRemembered(q)

(* Control points that lie inside the loop's last part. *)
Leaving == {"saveEnd", "done"}

(* The first state: no call made, below the bound. *)
LEMMA InitInv == Init => LoopInv
<1> SUFFICES ASSUME Init PROVE LoopInv
  OBVIOUS
<1>1. LoopTypes
  BY LoopAssumption DEF Init, LoopTypes, PCs
<1>2. ASSUME NEW q \in Runs PROVE IterationBound(q) /\ CallCount(q) /\ FallbackRemembered(q)
  BY LoopAssumption DEF Init, IterationBound, CallCount, FallbackRemembered, PCs
<1>3. QED
  BY <1>1, <1>2 DEF LoopInv

(* A step of run r leaves the loop state of every other run alone. *)
LEMMA OtherRuns ==
    ASSUME LoopInv, NEW r \in Runs, NEW q \in Runs, q # r,
           pc'[q] = pc[q], iter'[q] = iter[q], maxIter'[q] = maxIter[q],
           extended'[q] = extended[q], useFallback'[q] = useFallback[q],
           final'[q] = final[q], made'[q] = made[q], client'[q] = client[q]
    PROVE  RunInv(q)'
BY DEF LoopInv, RunInv, IterationBound, CallCount, FallbackRemembered

(* A step that only moves the control of r, from inside the loop to a place *)
(* where the invariant asks for no more than it did.                        *)
LEMMA MoveOnly ==
    ASSUME LoopInv, NEW r \in Runs, NEW l \in PCs,
           pc' = [pc EXCEPT ![r] = l],
           \/ l \in Leaving
           \/ pc[r] \in {"new", "prefetch"} /\ l \in {"prefetch", "llm"}
           \/ pc[r] \in {"tools"} /\ l \in {"tools", "saveRound"},
           UNCHANGED <<loopVars, made, client>>
    PROVE  LoopInv'
<1>1. LoopTypes'
  BY DEF LoopInv, LoopTypes, loopVars
<1>2. RunInv(r)'
  BY DEF LoopInv, LoopTypes, RunInv, IterationBound, CallCount, FallbackRemembered, loopVars,
         PCs, Leaving
<1>3. ASSUME NEW q \in Runs, q # r PROVE RunInv(q)'
  BY <1>3, OtherRuns DEF LoopInv, LoopTypes, loopVars
<1>4. QED
  BY <1>1, <1>2, <1>3 DEF LoopInv, RunInv

(* The control of nobody moves. *)
LEMMA StayInv ==
    ASSUME LoopInv, UNCHANGED <<pc, loopVars, made, client>>
    PROVE  LoopInv'
BY DEF LoopInv, LoopTypes, IterationBound, CallCount, FallbackRemembered, loopVars

LEMMA FetchInv ==
    ASSUME LoopInv, NEW r \in Runs, FetchConversationMessages(r)
    PROVE  LoopInv'
BY MoveOnly DEF FetchConversationMessages, Go, Goto, llmVars, loopVars, PCs

LEMMA PrefetchInv ==
    ASSUME LoopInv, NEW r \in Runs, Prefetch(r)
    PROVE  LoopInv'
<1>1. CASE Go(r, "llm")
  BY <1>1, MoveOnly DEF Prefetch, Go, Goto, llmVars, loopVars, PCs
<1>2. CASE End(r, "failed")
  BY <1>2, MoveOnly DEF Prefetch, End, Goto, llmVars, loopVars, PCs, Leaving
<1>3. QED
  BY <1>1, <1>2 DEF Prefetch

(* One call, wherever it leads: the count of r grows by one. *)
LEMMA InvokeFacts ==
    ASSUME LoopInv, NEW r \in Runs, invokeLLM(r)
    PROVE  /\ pc[r] \in {"llm", "fallback"}
           /\ made' \in [Runs -> Nat] /\ made'[r] = made[r] + 1
           /\ client' \in [Runs -> {"none", "primary", "fallback"}]
           /\ client'[r] = IF Fallback(r) THEN "fallback" ELSE "primary"
           /\ \A q \in Runs : q # r => made'[q] = made[q] /\ client'[q] = client[q]
           /\ iter[r] \in Nat /\ iter[r] <= 2 * MaxIter - 1
           /\ made[r] <= iter[r] + 2
           /\ ~Fallback(r) /\ ~final[r] => made[r] <= iter[r]
           /\ ~Fallback(r) /\ final[r] => made[r] <= iter[r] + 1
           /\ ~final[r] => made[r] <= iter[r] + 1
<1>1. pc[r] \in {"llm", "fallback"}
  BY DEF invokeLLM
<1>2. made' \in [Runs -> Nat] /\ made'[r] = made[r] + 1
  BY DEF invokeLLM, LoopInv, LoopTypes
<1>3. /\ client' \in [Runs -> {"none", "primary", "fallback"}]
      /\ client'[r] = IF Fallback(r) THEN "fallback" ELSE "primary"
  BY DEF invokeLLM, LoopInv, LoopTypes
<1>4. \A q \in Runs : q # r => made'[q] = made[q] /\ client'[q] = client[q]
  BY DEF invokeLLM, LoopInv, LoopTypes
<1>5. iter[r] \in Nat /\ iter[r] <= 2 * MaxIter - 1
  BY <1>1, LoopAssumption DEF LoopInv, LoopTypes, IterationBound, PCs
<1>6. /\ made[r] <= iter[r] + 2
      /\ ~Fallback(r) /\ ~final[r] => made[r] <= iter[r]
      /\ ~Fallback(r) /\ final[r] => made[r] <= iter[r] + 1
      /\ ~final[r] => made[r] <= iter[r] + 1
  BY <1>1, <1>5 DEF LoopInv, LoopTypes, CallCount, Fallback
<1>7. QED
  BY <1>1, <1>2, <1>3, <1>4, <1>5, <1>6

LEMMA LLMFailsInv ==
    ASSUME LoopInv, NEW r \in Runs, LLMFails(r)
    PROVE  LoopInv'
<1> USE DEF LLMFails
<1>1. PICK l \in {"fallback", "done"} :
        pc' = [pc EXCEPT ![r] = l] /\ (l = "fallback" => ~Fallback(r))
  BY DEF Go, End, Goto
<1>2. LoopTypes'
  BY <1>1, InvokeFacts DEF LoopInv, LoopTypes, loopVars, PCs
<1>3. RunInv(r)'
  <2>1. IterationBound(r)'
    BY <1>1, InvokeFacts DEF LoopInv, LoopTypes, IterationBound, loopVars, PCs
  <2>2. CallCount(r)'
    BY <1>1, InvokeFacts, LoopAssumption DEF LoopInv, LoopTypes, CallCount, loopVars, Fallback
  <2>3. FallbackRemembered(r)'
    BY <1>1, InvokeFacts DEF LoopInv, LoopTypes, FallbackRemembered, loopVars
  <2>4. QED
    BY <2>1, <2>2, <2>3 DEF RunInv
<1>4. ASSUME NEW q \in Runs, q # r PROVE RunInv(q)'
  BY <1>1, <1>4, InvokeFacts, OtherRuns DEF LoopInv, LoopTypes, loopVars
<1>5. QED
  BY <1>2, <1>3, <1>4 DEF LoopInv, RunInv

LEMMA LLMReturnsInv ==
    ASSUME LoopInv, NEW r \in Runs, LLMReturns(r)
    PROVE  LoopInv'
<1>1. PICK l \in {"done", "saveEnd", "decide", "tools"} : pc' = [pc EXCEPT ![r] = l]
  BY DEF LLMReturns, BudgetStop, Answer, StartBatch, Go, End, Goto
<1>2. /\ invokeLLM(r) /\ ~final[r]
      /\ useFallback' = [useFallback EXCEPT ![r] = Fallback(r)]
      /\ UNCHANGED <<iter, maxIter, extended, final>>
  BY DEF LLMReturns, LLMResponds
<1>3. Fallback(r) \in BOOLEAN
  BY DEF Fallback, LoopInv, LoopTypes
<1>4. LoopTypes'
  BY <1>1, <1>2, <1>3, InvokeFacts DEF LoopInv, LoopTypes, PCs
<1>5. RunInv(r)'
  <2>1. IterationBound(r)'
    BY <1>1, <1>2, InvokeFacts DEF LoopInv, LoopTypes, IterationBound, PCs
  <2>2. CallCount(r)'
    BY <1>1, <1>2, <1>3, InvokeFacts, LoopAssumption DEF LoopInv, LoopTypes, CallCount
  <2>3. FallbackRemembered(r)'
    BY <1>1, <1>2, <1>3, InvokeFacts DEF LoopInv, LoopTypes, FallbackRemembered
  <2>4. QED
    BY <2>1, <2>2, <2>3 DEF RunInv
<1>6. ASSUME NEW q \in Runs, q # r PROVE RunInv(q)'
  BY <1>1, <1>2, <1>6, InvokeFacts, OtherRuns DEF LoopInv, LoopTypes
<1>7. QED
  BY <1>4, <1>5, <1>6 DEF LoopInv, RunInv

LEMMA FinalReturnsInv ==
    ASSUME LoopInv, NEW r \in Runs, FinalLLMReturns(r)
    PROVE  LoopInv'
<1>1. PICK l \in Leaving : pc' = [pc EXCEPT ![r] = l]
  BY DEF FinalLLMReturns, BudgetStop, Answer, Go, End, Goto, Leaving
<1>2. invokeLLM(r) /\ UNCHANGED loopVars
  BY DEF FinalLLMReturns
<1>3. LoopTypes'
  BY <1>1, <1>2, InvokeFacts DEF LoopInv, LoopTypes, loopVars, PCs, Leaving
<1>4. RunInv(r)'
  BY <1>1, <1>2, InvokeFacts, LoopAssumption
  DEF LoopInv, LoopTypes, RunInv, IterationBound, CallCount, FallbackRemembered, loopVars,
      PCs, Leaving
<1>5. ASSUME NEW q \in Runs, q # r PROVE RunInv(q)'
  BY <1>1, <1>2, <1>5, InvokeFacts, OtherRuns DEF LoopInv, LoopTypes, loopVars
<1>6. QED
  BY <1>3, <1>4, <1>5 DEF LoopInv, RunInv

(* A grant is at least one round and at most the configured bound. *)
LEMMA ClampBounds ==
    ASSUME NEW offer \in Int
    PROVE  ClampExtraIterations(offer) \in 0..MaxIter
BY LoopAssumption DEF ClampExtraIterations

LEMMA DecideInv ==
    ASSUME LoopInv, NEW r \in Runs, DecideMaxIterations(r)
    PROVE  LoopInv'
<1>1. pc[r] = "decide" /\ UNCHANGED <<iter, useFallback, made, client>>
  BY DEF DecideMaxIterations, llmVars
<1>2. PICK extra \in 0..MaxIter :
        IF ~extended[r] /\ extra >= 1
        THEN /\ maxIter' = [maxIter EXCEPT ![r] = @ + extra]
             /\ extended' = [extended EXCEPT ![r] = TRUE]
             /\ pc' = [pc EXCEPT ![r] = "tools"]
             /\ UNCHANGED final
        ELSE /\ final' = [final EXCEPT ![r] = TRUE]
             /\ pc' = [pc EXCEPT ![r] = "llm"]
             /\ UNCHANGED <<maxIter, extended>>
  <2>1. PICK offer \in ExtraOffers :
          LET extra == ClampExtraIterations(offer)
          IN  IF ~extended[r] /\ extra >= 1
              THEN /\ maxIter' = [maxIter EXCEPT ![r] = @ + extra]
                   /\ extended' = [extended EXCEPT ![r] = TRUE]
                   /\ StartBatch(r, calls[r])
                   /\ UNCHANGED final
              ELSE /\ final' = [final EXCEPT ![r] = TRUE]
                   /\ Go(r, "llm")
                   /\ UNCHANGED <<maxIter, extended, messages, tool>>
    BY DEF DecideMaxIterations
  <2>2. ClampExtraIterations(offer) \in 0..MaxIter
    BY ClampBounds, LoopAssumption
  <2>3. QED
    BY <2>1, <2>2 DEF StartBatch, Go, Goto
<1>3. CASE ~extended[r] /\ extra >= 1
  <2>1. /\ maxIter' = [maxIter EXCEPT ![r] = @ + extra]
        /\ extended' = [extended EXCEPT ![r] = TRUE]
        /\ pc' = [pc EXCEPT ![r] = "tools"]
        /\ UNCHANGED final
    BY <1>2, <1>3
  <2>2. LoopTypes'
    BY <1>1, <2>1, LoopAssumption DEF LoopInv, LoopTypes, PCs
  <2>3. IterationBound(r)'
    BY <1>1, <1>3, <2>1, LoopAssumption DEF LoopInv, LoopTypes, IterationBound, PCs
  <2>4. CallCount(r)' /\ FallbackRemembered(r)'
    BY <1>1, <2>1 DEF LoopInv, LoopTypes, CallCount, FallbackRemembered
  <2>5. ASSUME NEW q \in Runs, q # r PROVE RunInv(q)'
    BY <1>1, <2>1, <2>5, OtherRuns DEF LoopInv, LoopTypes
  <2>6. QED
    BY <2>2, <2>3, <2>4, <2>5 DEF LoopInv, RunInv
<1>4. CASE ~(~extended[r] /\ extra >= 1)
  <2>1. /\ final' = [final EXCEPT ![r] = TRUE]
        /\ pc' = [pc EXCEPT ![r] = "llm"]
        /\ UNCHANGED <<maxIter, extended>>
    BY <1>2, <1>4
  <2>2. LoopTypes'
    BY <1>1, <2>1 DEF LoopInv, LoopTypes, PCs
  <2>3. IterationBound(r)'
    BY <1>1, <2>1 DEF LoopInv, LoopTypes, IterationBound, PCs
  <2>4. CallCount(r)' /\ FallbackRemembered(r)'
    BY <1>1, <2>1 DEF LoopInv, LoopTypes, CallCount, FallbackRemembered
  <2>5. ASSUME NEW q \in Runs, q # r PROVE RunInv(q)'
    BY <1>1, <2>1, <2>5, OtherRuns DEF LoopInv, LoopTypes
  <2>6. QED
    BY <2>2, <2>3, <2>4, <2>5 DEF LoopInv, RunInv
<1>5. QED
  BY <1>3, <1>4

(* The next iteration begins below the bound or not at all. *)
LEMMA NextIterationInv ==
    ASSUME LoopInv, NEW r \in Runs, pc[r] \in {"tools", "saveRound"}, NextIteration(r),
           UNCHANGED <<maxIter, extended, useFallback, final, made, client>>
    PROVE  LoopInv'
<1>1. PICK l \in {"llm", "saveEnd"} :
        /\ pc' = [pc EXCEPT ![r] = l]
        /\ l = "llm" => iter[r] + 1 < maxIter[r]
  BY DEF NextIteration, Go, Goto
<1>2. iter' = [iter EXCEPT ![r] = @ + 1]
  BY DEF NextIteration
<1>3. LoopTypes'
  BY <1>1, <1>2 DEF LoopInv, LoopTypes, PCs
<1>4. RunInv(r)'
  BY <1>1, <1>2 DEF LoopInv, LoopTypes, RunInv, IterationBound, CallCount, FallbackRemembered, PCs
<1>5. ASSUME NEW q \in Runs, q # r PROVE RunInv(q)'
  BY <1>1, <1>2, <1>5, OtherRuns DEF LoopInv, LoopTypes
<1>6. QED
  BY <1>3, <1>4, <1>5 DEF LoopInv, RunInv

LEMMA CollectInv ==
    ASSUME LoopInv, NEW r \in Runs, CollectResults(r)
    PROVE  LoopInv'
<1>0. pc[r] = "tools" /\ UNCHANGED <<maxIter, extended, useFallback, final, made, client>>
  BY DEF CollectResults, BatchOver
<1>1. CASE BudgetStop(r) /\ UNCHANGED iter
  BY <1>0, <1>1, MoveOnly DEF BudgetStop, End, Goto, loopVars, PCs, Leaving
<1>2. CASE Go(r, "saveRound") /\ UNCHANGED iter
  BY <1>0, <1>2, MoveOnly DEF Go, Goto, loopVars, PCs
<1>3. CASE NextIteration(r)
  BY <1>0, <1>3, NextIterationInv
<1>4. QED
  BY <1>1, <1>2, <1>3 DEF CollectResults

LEMMA ToolInv ==
    ASSUME LoopInv, NEW r \in Runs, NEW i \in 1..MaxCalls, ToolAction(r, i)
    PROVE  LoopInv'
BY StayInv DEF ToolAction, ToolStart, ToolAuthorize, ToolApproval, ToolExecute, ToolStep, llmVars

LEMMA SaveInv ==
    ASSUME LoopInv, NEW r \in Runs, SaveMessage(r) \/ SaveRoundDone(r) \/ RunCompletes(r)
    PROVE  LoopInv'
<1>1. CASE SaveMessage(r)
  BY <1>1, StayInv DEF SaveMessage, llmVars
<1>2. CASE SaveRoundDone(r)
  BY <1>2, NextIterationInv DEF SaveRoundDone, llmVars
<1>3. CASE RunCompletes(r)
  BY <1>3, MoveOnly DEF RunCompletes, End, Goto, llmVars, loopVars, PCs, Leaving
<1>4. QED
  BY <1>1, <1>2, <1>3

(* Every step keeps the invariant. *)
LEMMA NextInv == LoopInv /\ [Next]_vars => LoopInv'
<1> SUFFICES ASSUME LoopInv, [Next]_vars PROVE LoopInv'
  OBVIOUS
<1>1. CASE UNCHANGED vars
  BY <1>1, StayInv DEF vars, loopVars
<1>2. ASSUME NEW r \in Runs, FetchConversationMessages(r) \/ LoopStep(r) PROVE LoopInv'
  BY <1>2, FetchInv, PrefetchInv, LLMFailsInv, LLMReturnsInv, FinalReturnsInv, DecideInv,
     CollectInv, SaveInv DEF LoopStep
<1>3. ASSUME NEW r \in Runs, NEW i \in 1..MaxCalls, ToolAction(r, i) PROVE LoopInv'
  BY <1>3, ToolInv
<1>4. QED
  BY <1>1, <1>2, <1>3 DEF Next

(* The invariant of the loop's counters and of its model choice. *)
THEOREM LoopInvariant == Spec => []LoopInv
BY InitInv, NextInv, PTL DEF Spec

(* A run makes at most 2 * MaxIter + 2 LLM calls. *)
THEOREM BoundedCalls == Spec => []CallsBounded
<1>1. LoopInv => CallsBounded
  BY DEF LoopInv, CallCount, CallsBounded
<1>2. QED
  BY <1>1, LoopInvariant, PTL

(* Only a run that is about to call a model changes its latest client. *)
LEMMA StickyStep ==
    LoopInv /\ [Next]_vars =>
        [\A r \in Runs : client[r] = "fallback" => client'[r] = "fallback"]_vars
<1> SUFFICES ASSUME LoopInv, Next, NEW q \in Runs, client[q] = "fallback"
             PROVE  client'[q] = "fallback"
  OBVIOUS
<1>1. ASSUME NEW r \in Runs, invokeLLM(r) PROVE client'[q] = "fallback"
  <2>1. CASE q # r
    BY <1>1, <2>1, InvokeFacts
  <2>2. CASE q = r
    BY <1>1, <2>2, InvokeFacts DEF LoopInv, FallbackRemembered, Fallback
  <2>3. QED
    BY <2>1, <2>2
<1>2. ASSUME NEW r \in Runs, FetchConversationMessages(r) \/ LoopStep(r)
      PROVE  client'[q] = "fallback"
  <2>1. CASE LLMFails(r) \/ LLMReturns(r) \/ FinalLLMReturns(r)
    BY <1>1, <2>1 DEF LLMFails, LLMReturns, LLMResponds, FinalLLMReturns
  <2>2. CASE FetchConversationMessages(r) \/ Prefetch(r) \/ DecideMaxIterations(r)
    BY <2>2 DEF FetchConversationMessages, Prefetch, DecideMaxIterations, llmVars
  <2>3. CASE CollectResults(r) \/ SaveMessage(r) \/ SaveRoundDone(r) \/ RunCompletes(r)
    BY <2>3 DEF CollectResults, SaveMessage, SaveRoundDone, RunCompletes, llmVars
  <2>4. QED
    BY <1>2, <2>1, <2>2, <2>3 DEF LoopStep
<1>3. ASSUME NEW r \in Runs, NEW i \in 1..MaxCalls, ToolAction(r, i)
      PROVE  client'[q] = "fallback"
  BY <1>3 DEF ToolAction, ToolStart, ToolAuthorize, ToolApproval, ToolExecute, ToolStep, llmVars
<1>4. CASE UNCHANGED vars
  BY <1>4 DEF vars
<1>5. QED
  BY <1>2, <1>3, <1>4 DEF Next

(* Once a call went to the fallback model, so do all later ones of the run. *)
THEOREM FallbackForGood == Spec => FallbackSticky
BY LoopInvariant, StickyStep, PTL DEF Spec, FallbackSticky
-----------------------------------------------------------------------------
(* The transcript and the store.                                            *)

(* The store has dropped nothing, and a run that starts reads all of it. *)
Untrimmed == Len(conv) < StoreMaxSize
ReadWhole == Len(conv) <= ConversationSize

Saving == {"saveRound", "saveEnd"}
Own(r, i) == messages[r][i].run = r

Outcomes == {"none", "completed", "failed", "budget"}

TranscriptTypes ==
    /\ pc \in [Runs -> PCs] /\ iter \in [Runs -> Nat] /\ calls \in [Runs -> 0..MaxCalls]
    /\ messages \in [Runs -> Seq(Message)] /\ persisted \in [Runs -> Nat]
    /\ outcome \in [Runs -> Outcomes] /\ conv \in Seq(Message)
    /\ \A r \in Runs : persisted[r] <= Len(messages[r])

(* A run has no message before it starts, and a batch follows its request.  *)
Phases(r) ==
    /\ pc[r] = "new" => messages[r] = <<>>
    /\ pc[r] = "tools" => /\ persisted[r] < Len(messages[r])
                          /\ messages[r][Len(messages[r])] = AssistantMsg(r, calls[r])
    /\ outcome[r] = "completed" => pc[r] = "done" /\ persisted[r] = Len(messages[r])

(* The iteration tells the messages of a run apart: before a response there *)
(* is none of the current iteration, during a batch only the request.       *)
Numbered(r) ==
    \A i \in 1..Len(messages[r]) : Own(r, i) /\ messages[r][i].role # "user" =>
        \/ messages[r][i].iter < iter[r]
        \/ pc[r] = "tools" /\ messages[r][i].iter = iter[r] /\ messages[r][i].role = "assistant"
        \/ pc[r] \in Saving \cup {"done"} /\ messages[r][i].iter <= iter[r]

OwnOnce(r) ==
    \A i, j \in 1..Len(messages[r]) : Own(r, i) /\ messages[r][j] = messages[r][i] => i = j

(* What is still to be saved is the run's own, what the store has of the    *)
(* run is from the part that was saved.                                     *)
RestOwn(r) == \A i \in 1..Len(messages[r]) : i > persisted[r] => Own(r, i)
SavedFrom(r) ==
    \A m \in Elements(conv) : m.run = r =>
        \E i \in 1..Len(messages[r]) : i <= persisted[r] /\ messages[r][i] = m

(* The part that counts as saved is in the store or was lost. *)
SavedPart(r) ==
    Untrimmed => \A i \in 1..Len(messages[r]) : i <= persisted[r] => messages[r][i] \in Elements(conv) \cup lost

(* A request for tools is followed by its results, except during its batch, *)
(* and the saves end after whole rounds.                                    *)
Answered(r, i, last) ==
    \A j \in 1..messages[r][i].n :
        /\ i + j <= last
        /\ messages[r][i + j] = [messages[r][i] EXCEPT !.role = "tool", !.n = j]
Rounds(r) ==
    \A i \in 1..Len(messages[r]) : Own(r, i) /\ messages[r][i].role = "assistant" =>
        \/ pc[r] = "tools" /\ i = Len(messages[r])
        \/ Answered(r, i, Len(messages[r]))
RoundsSaved(r) ==
    pc[r] \notin Saving =>
        \A i \in 1..Len(messages[r]) :
            i <= persisted[r] /\ Own(r, i) /\ messages[r][i].role = "assistant" => Answered(r, i, persisted[r])

StoredOnce == \A i, j \in 1..Len(conv) : conv[i] = conv[j] => i = j

RunParts(r) ==
    /\ Phases(r) /\ Numbered(r) /\ OwnOnce(r) /\ RestOwn(r)
    /\ SavedFrom(r) /\ SavedPart(r) /\ Rounds(r) /\ RoundsSaved(r)

TranscriptInv == TranscriptTypes /\ StoredOnce /\ \A r \in Runs : RunParts(r)


(* Sequences of messages. *)
LEMMA Messages ==
    ASSUME NEW r \in Runs, iter \in [Runs -> Nat], NEW k \in Nat
    PROVE  /\ UserMsg(r) \in Message /\ AssistantMsg(r, k) \in Message /\ ToolMsg(r, k) \in Message
           /\ UserMsg(r).run = r /\ UserMsg(r).role = "user"
           /\ AssistantMsg(r, k).run = r /\ AssistantMsg(r, k).role = "assistant"
           /\ AssistantMsg(r, k).iter = iter[r] /\ AssistantMsg(r, k).n = k
           /\ ToolMsg(r, k).run = r /\ ToolMsg(r, k).role = "tool"
           /\ ToolMsg(r, k).iter = iter[r] /\ ToolMsg(r, k).n = k
BY DEF UserMsg, AssistantMsg, ToolMsg, Message

LEMMA LastNElements ==
    ASSUME NEW s \in Seq(Message), NEW n \in Nat
    PROVE  /\ LastN(s, n) \in Seq(Message) /\ Elements(LastN(s, n)) \subseteq Elements(s)
           /\ (\A i, j \in 1..Len(s) : s[i] = s[j] => i = j) =>
                \A i, j \in 1..Len(LastN(s, n)) : LastN(s, n)[i] = LastN(s, n)[j] => i = j
           /\ Len(LastN(s, n)) < n => LastN(s, n) = s
           /\ Len(s) <= n => LastN(s, n) = s
<1>1. CASE Len(s) <= n
  BY <1>1 DEF LastN
<1>2. CASE ~(Len(s) <= n)
  <2> DEFINE d == Len(s) - n
             t == SubSeq(s, d + 1, Len(s))
  <2>1. Len(s) \in Nat /\ d \in Nat /\ d > 0 /\ d <= Len(s) /\ \A i \in 1..Len(s) : s[i] \in Message
    BY <1>2
  <2>2. LastN(s, n) = t
    BY <1>2 DEF LastN
  <2>3. t \in Seq(Message) /\ Len(t) = n /\ \A i \in 1..n : t[i] = s[i + d]
    <3>1. \A i \in (d + 1)..Len(s) : s[i] \in Message
      BY <2>1
    <3> HIDE DEF d
    <3>2. /\ SubSeq(s, d + 1, Len(s)) \in Seq(Message)
          /\ Len(SubSeq(s, d + 1, Len(s))) = IF d + 1 <= Len(s) THEN Len(s) - (d + 1) + 1 ELSE 0
          /\ \A i \in 1..(Len(s) - (d + 1) + 1) : SubSeq(s, d + 1, Len(s))[i] = s[d + 1 + i - 1]
      BY <2>1, <3>1, SubSeqProperties
    <3>3. Len(s) - (d + 1) + 1 = n
      BY <2>1 DEF d
    <3> HIDE DEF t
    <3>4. /\ t \in Seq(Message) /\ Len(t) = IF d + 1 <= Len(s) THEN n ELSE 0
          /\ \A i \in 1..n : t[i] = s[d + 1 + i - 1]
      BY <3>2, <3>3 DEF t
    <3>5. (d + 1 <= Len(s)) \/ n = 0
      BY <2>1, <3>3
    <3>6. \A i \in 1..n : d + 1 + i - 1 = i + d
      BY <2>1
    <3>. QED
      BY <3>4, <3>5, <3>6
  <2>4. \A i \in 1..n : i + d \in 1..Len(s)
    BY <2>1
  <2> HIDE DEF t, d
  <2>5. Elements(t) \subseteq Elements(s)
    BY <2>3, <2>4 DEF Elements
  <2>6. (\A i, j \in 1..Len(s) : s[i] = s[j] => i = j) => \A i, j \in 1..Len(t) : t[i] = t[j] => i = j
    <3>1. SUFFICES ASSUME \A i, j \in 1..Len(s) : s[i] = s[j] => i = j, NEW i \in 1..n, NEW j \in 1..n, t[i] = t[j]
                   PROVE  i = j
      BY <2>3
    <3>2. i + d = j + d
      BY <2>3, <2>4, <3>1
    <3>. QED
      BY <2>1, <3>2
  <2>. QED
    BY <1>2, <2>1, <2>2, <2>3, <2>5, <2>6
<1>. QED
  BY <1>1, <1>2

LEMMA AppendElements ==
    ASSUME NEW s \in Seq(Message), NEW m \in Message
    PROVE  /\ Append(s, m) \in Seq(Message) /\ Len(Append(s, m)) = Len(s) + 1
           /\ Elements(Append(s, m)) = Elements(s) \cup {m}
           /\ (\A i, j \in 1..Len(s) : s[i] = s[j] => i = j) /\ m \notin Elements(s) =>
                \A i, j \in 1..Len(Append(s, m)) : Append(s, m)[i] = Append(s, m)[j] => i = j
<1> DEFINE t == Append(s, m)
<1>1. t \in Seq(Message) /\ Len(t) = Len(s) + 1 /\ (\A i \in 1..Len(s) : t[i] = s[i]) /\ t[Len(s) + 1] = m
  BY AppendProperties
<1> HIDE DEF t
<1>2. Elements(t) = Elements(s) \cup {m}
  BY <1>1 DEF Elements
<1>3. \A i \in 1..Len(t) : i \in 1..Len(s) \/ i = Len(s) + 1
  BY <1>1
<1>4. (\A i, j \in 1..Len(s) : s[i] = s[j] => i = j) /\ m \notin Elements(s) =>
         \A i, j \in 1..Len(t) : t[i] = t[j] => i = j
  BY <1>1, <1>3 DEF Elements
<1>. QED
  BY <1>1, <1>2, <1>4 DEF t

(* A run whose part of the state, and the store, stay the same. *)
LEMMA SameRun ==
    ASSUME NEW q \in Runs, RunParts(q), messages'[q] = messages[q], persisted'[q] = persisted[q],
           pc'[q] = pc[q], iter'[q] = iter[q], calls'[q] = calls[q], outcome'[q] = outcome[q],
           UNCHANGED <<conv, lost>>
    PROVE  RunParts(q)'
<1>1. Phases(q)'
  BY DEF RunParts, Phases, AssistantMsg
<1>2. Numbered(q)' /\ OwnOnce(q)' /\ RestOwn(q)'
  BY DEF RunParts, Numbered, OwnOnce, RestOwn, Own
<1>3. SavedFrom(q)' /\ SavedPart(q)'
  BY DEF RunParts, SavedFrom, SavedPart, Elements, Untrimmed
<1>4. Rounds(q)' /\ RoundsSaved(q)'
  <2>1. \A i \in 1..Len(messages[q]) : Answered(q, i, Len(messages[q]))' <=> Answered(q, i, Len(messages[q]))
    BY DEF Answered
  <2>2. \A i \in 1..Len(messages[q]) : Answered(q, i, persisted[q])' <=> Answered(q, i, persisted[q])
    BY DEF Answered
  <2>. QED
    BY <2>1, <2>2 DEF RunParts, Rounds, RoundsSaved, Own
<1>. QED
  BY <1>1, <1>2, <1>3, <1>4 DEF RunParts

(* The same for every run but r, and what is left to show about r. *)
LEMMA OnlyRun ==
    ASSUME TranscriptInv, NEW r \in Runs, NEW l \in PCs, NEW it \in Nat, NEW k \in 0..MaxCalls,
           pc' = [pc EXCEPT ![r] = l], iter' = [iter EXCEPT ![r] = it], calls' = [calls EXCEPT ![r] = k],
           NEW o \in Outcomes, outcome' = [outcome EXCEPT ![r] = o],
           NEW s \in Seq(Message), messages' = [messages EXCEPT ![r] = s],
           NEW p \in Nat, persisted' = [persisted EXCEPT ![r] = p], p <= Len(s),
           UNCHANGED <<conv, lost>>, RunParts(r)'
    PROVE  TranscriptInv'
<1>1. TranscriptTypes'
  <2>1. /\ pc' \in [Runs -> PCs] /\ iter' \in [Runs -> Nat] /\ calls' \in [Runs -> 0..MaxCalls]
        /\ persisted' \in [Runs -> Nat] /\ outcome' \in [Runs -> Outcomes]
    BY DEF TranscriptInv, TranscriptTypes
  <2>2. messages' \in [Runs -> Seq(Message)] /\ conv' \in Seq(Message)
    BY DEF TranscriptInv, TranscriptTypes
  <2>3. \A q \in Runs : persisted'[q] <= Len(messages'[q])
    BY DEF TranscriptInv, TranscriptTypes
  <2>. QED
    BY <2>1, <2>2, <2>3 DEF TranscriptTypes
<1>2. StoredOnce'
  BY DEF TranscriptInv, StoredOnce
<1>3. ASSUME NEW q \in Runs, q # r PROVE RunParts(q)'
  <2>1. /\ messages'[q] = messages[q] /\ persisted'[q] = persisted[q] /\ pc'[q] = pc[q]
        /\ iter'[q] = iter[q] /\ calls'[q] = calls[q] /\ outcome'[q] = outcome[q]
    BY <1>3 DEF TranscriptInv, TranscriptTypes
  <2>. QED
    BY <2>1, SameRun DEF TranscriptInv
<1>. QED
  BY <1>1, <1>2, <1>3 DEF TranscriptInv

(* The request of a batch with the role and the number of a result is the  *)
(* result.                                                                 *)
LEMMA ResultOf ==
    ASSUME NEW r, NEW k, NEW j
    PROVE  [AssistantMsg(r, k) EXCEPT !.role = "tool", !.n = j] = ToolMsg(r, j)
<1> DEFINE a == [run |-> r, iter |-> iter[r], role |-> "assistant", n |-> k]
           b == [run |-> r, iter |-> iter[r], role |-> "tool", n |-> k]
<1>1. [a EXCEPT !.role = "tool"] = b
  OBVIOUS
<1>2. [b EXCEPT !.n = j] = [run |-> r, iter |-> iter[r], role |-> "tool", n |-> j]
  OBVIOUS
<1>3. [AssistantMsg(r, k) EXCEPT !.role = "tool", !.n = j] = [[a EXCEPT !.role = "tool"] EXCEPT !.n = j]
  BY DEF AssistantMsg
<1>. QED
  BY <1>1, <1>2, <1>3 DEF ToolMsg

(* The rounds of r in a new transcript u. *)
AnsweredIn(u, i) ==
    \A j \in 1..u[i].n : i + j <= Len(u) /\ u[i + j] = [u[i] EXCEPT !.role = "tool", !.n = j]

LEMMA RoundsNext ==
    ASSUME NEW r, NEW u, messages'[r] = u,
           \A i \in 1..Len(u) :
               u[i].run = r /\ u[i].role = "assistant" /\ ~(pc'[r] = "tools" /\ i = Len(u)) => AnsweredIn(u, i)
    PROVE  Rounds(r)'
BY ZenonT(60) DEF Rounds, Answered, AnsweredIn, Own

(* The values of r after a step that sets them. *)
LEMMA RunValues ==
    ASSUME TranscriptTypes, NEW r \in Runs
    PROVE  /\ messages[r] \in Seq(Message) /\ persisted[r] \in Nat /\ persisted[r] <= Len(messages[r])
           /\ Len(messages[r]) \in Nat /\ iter[r] \in Nat /\ calls[r] \in 0..MaxCalls /\ pc[r] \in PCs
           /\ outcome[r] \in Outcomes
           /\ \A i \in 1..Len(messages[r]) : messages[r][i] \in Message
           /\ \A i \in 1..Len(messages[r]) : messages[r][i].iter \in Nat
<1>1. messages[r] \in Seq(Message) /\ Len(messages[r]) \in Nat
  BY DEF TranscriptTypes
<1>2. \A i \in 1..Len(messages[r]) : messages[r][i] \in Message
  BY <1>1
<1>3. \A i \in 1..Len(messages[r]) : messages[r][i].iter \in Nat
  BY <1>2 DEF Message
<1>. QED
  BY <1>1, <1>2, <1>3 DEF TranscriptTypes

(* The control moves and the transcript stays: no batch begins or ends, and *)
(* a save that is left is done.                                             *)
LEMMA TranscriptStays ==
    ASSUME TranscriptInv, NEW r \in Runs, NEW l \in PCs \ {"new", "tools"}, NEW it \in Nat, NEW k \in 0..MaxCalls,
           NEW o \in Outcomes, pc' = [pc EXCEPT ![r] = l], iter' = [iter EXCEPT ![r] = it],
           calls' = [calls EXCEPT ![r] = k], outcome' = [outcome EXCEPT ![r] = o],
           UNCHANGED <<messages, persisted, conv, lost>>,
           pc[r] \notin {"new", "tools"}, it >= iter[r],
           pc[r] \in Saving /\ l \notin Saving => persisted[r] = Len(messages[r]),
           pc[r] \in Saving \cup {"done"} /\ l \notin Saving \cup {"done"} => it > iter[r],
           o = "completed" => l = "done" /\ persisted[r] = Len(messages[r])
    PROVE  TranscriptInv'
<1> DEFINE s == messages[r]
<1>V. /\ s \in Seq(Message) /\ persisted[r] \in Nat /\ persisted[r] <= Len(s) /\ Len(s) \in Nat /\ iter[r] \in Nat
      /\ pc[r] \in PCs /\ \A i \in 1..Len(s) : s[i].iter \in Nat
  BY RunValues DEF TranscriptInv
<1>E. /\ pc'[r] = l /\ iter'[r] = it /\ calls'[r] = k /\ outcome'[r] = o
      /\ messages'[r] = s /\ persisted'[r] = persisted[r]
  BY DEF TranscriptInv, TranscriptTypes
<1>P. RunParts(r)
  BY DEF TranscriptInv
<1>1. Phases(r)'
  BY <1>E DEF Phases
<1>2. Numbered(r)'
  <2>1. SUFFICES ASSUME NEW i \in 1..Len(s), Own(r, i), s[i].role # "user"
                 PROVE  s[i].iter < it \/ (l \in Saving \cup {"done"} /\ s[i].iter <= it)
    BY <1>E DEF Numbered, Own
  <2>2. s[i].iter < iter[r] \/ (pc[r] \in Saving \cup {"done"} /\ s[i].iter <= iter[r])
    BY <1>P, <2>1 DEF RunParts, Numbered
  <2>3. s[i].iter \in Nat
    BY <1>V
  <2>. QED
    BY <1>V, <2>2, <2>3
<1>3. OwnOnce(r)' /\ RestOwn(r)'
  BY <1>E, <1>P DEF RunParts, OwnOnce, RestOwn, Own
<1>4. SavedFrom(r)' /\ SavedPart(r)'
  BY <1>E, <1>P DEF RunParts, SavedFrom, SavedPart, Elements, Untrimmed
<1>5. Rounds(r)'
  <2>1. \A i \in 1..Len(s) : Answered(r, i, Len(messages[r]))' <=> Answered(r, i, Len(messages[r]))
    BY <1>E DEF Answered
  <2>. QED
    BY <1>E, <1>P, <2>1 DEF RunParts, Rounds, Own
<1>6. RoundsSaved(r)'
  <2>1. \A i \in 1..Len(s) : Answered(r, i, persisted[r])' <=> Answered(r, i, persisted[r])
    BY <1>E DEF Answered
  <2>2. SUFFICES ASSUME l \notin Saving, NEW i \in 1..Len(s), i <= persisted[r], Own(r, i), s[i].role = "assistant"
                 PROVE  Answered(r, i, persisted[r])
    BY <1>E, <2>1 DEF RoundsSaved, Own
  <2>3. CASE pc[r] \notin Saving
    BY <1>P, <2>2, <2>3 DEF RunParts, RoundsSaved
  <2>4. CASE pc[r] \in Saving
    BY <1>P, <2>2, <2>4 DEF RunParts, Rounds
  <2>. QED
    BY <2>3, <2>4
<1>7. RunParts(r)'
  BY <1>1, <1>2, <1>3, <1>4, <1>5, <1>6 DEF RunParts
<1>8. messages' = [messages EXCEPT ![r] = s] /\ persisted' = [persisted EXCEPT ![r] = persisted[r]]
  BY DEF TranscriptInv, TranscriptTypes
<1> HIDE DEF s
<1>. QED
  BY <1>7, <1>8, <1>V, OnlyRun

(* New messages of r at the end of its transcript, unlike those it has: the *)
(* parts that do not depend on where the control goes.                      *)
LEMMA TranscriptGrows ==
    ASSUME TranscriptInv, NEW r \in Runs, pc[r] \notin Saving, NEW u \in Seq(Message), NEW n \in Nat,
           Len(u) = Len(messages[r]) + n, messages'[r] = u, persisted'[r] = persisted[r],
           \A i \in 1..Len(messages[r]) : u[i] = messages[r][i],
           \A a \in (Len(messages[r]) + 1)..Len(u) : u[a].run = r,
           \A a \in (Len(messages[r]) + 1)..Len(u), i \in 1..Len(messages[r]) : Own(r, i) => u[a] # u[i],
           \A a, b \in (Len(messages[r]) + 1)..Len(u) : u[a] = u[b] => a = b,
           UNCHANGED <<conv, lost>>
    PROVE  OwnOnce(r)' /\ RestOwn(r)' /\ SavedFrom(r)' /\ SavedPart(r)' /\ RoundsSaved(r)'
<1> DEFINE s == messages[r]
           p == persisted[r]
           New == (Len(s) + 1)..Len(u)
<1>V. s \in Seq(Message) /\ p \in Nat /\ p <= Len(s) /\ Len(s) \in Nat /\ Len(u) \in Nat
  BY RunValues DEF TranscriptInv
<1>P. RunParts(r)
  BY DEF TranscriptInv
<1> HIDE DEF s, p
<1>1. \A i \in 1..Len(u) : i \in 1..Len(s) \/ i \in New
  BY <1>V
<1>2. \A i \in 1..Len(s) : i \in 1..Len(u)
  BY <1>V DEF s
<1>3. \A i \in 1..Len(u) : i <= p => i \in 1..Len(s)
  BY <1>V
<1>4. OwnOnce(r)'
  <2>1. SUFFICES ASSUME NEW i \in 1..Len(u), NEW j \in 1..Len(u), u[i].run = r, u[j] = u[i]
                 PROVE  i = j
    BY DEF OwnOnce, Own
  <2> HIDE DEF New
  <2>2. CASE i \in 1..Len(s) /\ j \in 1..Len(s)
    BY <1>P, <2>1, <2>2 DEF RunParts, OwnOnce, Own, s
  <2>3. CASE i \in New /\ j \in New
    BY <2>1, <2>3 DEF New, s
  <2>4. CASE i \in New /\ j \in 1..Len(s)
    <3>1. Own(r, j)
      BY <2>1, <2>4 DEF Own, s
    <3>. QED
      BY <2>1, <2>4, <3>1 DEF New, s
  <2>5. CASE i \in 1..Len(s) /\ j \in New
    <3>1. Own(r, i)
      BY <2>1, <2>5 DEF Own, s
    <3>. QED
      BY <2>1, <2>5, <3>1 DEF New, s
  <2>. QED
    BY <1>1, <2>2, <2>3, <2>4, <2>5
<1>5. RestOwn(r)'
  <2>1. SUFFICES ASSUME NEW i \in 1..Len(u), i > p PROVE u[i].run = r
    BY DEF RestOwn, Own, p
  <2>2. CASE i \in 1..Len(s)
    BY <1>P, <2>1, <2>2 DEF RunParts, RestOwn, Own, s, p
  <2>3. CASE i \in New
    BY <2>3 DEF s
  <2>. QED
    BY <1>1, <2>2, <2>3
<1>6. SavedFrom(r)'
  <2>1. SUFFICES ASSUME NEW m \in Elements(conv), m.run = r
                 PROVE  \E i \in 1..Len(u) : i <= p /\ u[i] = m
    BY DEF SavedFrom, Elements, p
  <2>2. PICK i \in 1..Len(s) : i <= p /\ s[i] = m
    BY <1>P, <2>1 DEF RunParts, SavedFrom, s, p
  <2>. QED
    BY <1>2, <2>2 DEF s
<1>7. SavedPart(r)'
  <2>1. SUFFICES ASSUME Untrimmed, NEW i \in 1..Len(u), i <= p PROVE u[i] \in Elements(conv) \cup lost
    BY DEF SavedPart, Elements, Untrimmed, p
  <2>2. i \in 1..Len(s) /\ u[i] = s[i]
    BY <1>3, <2>1 DEF s
  <2>. QED
    BY <1>P, <2>1, <2>2 DEF RunParts, SavedPart, s, p
<1>8. RoundsSaved(r)'
  <2>1. SUFFICES ASSUME NEW i \in 1..Len(u), i <= p, u[i].run = r, u[i].role = "assistant", NEW j \in 1..u[i].n
                 PROVE  i + j <= p /\ u[i + j] = [u[i] EXCEPT !.role = "tool", !.n = j]
    BY ZenonT(60) DEF RoundsSaved, Answered, Own, p
  <2>2. i \in 1..Len(s) /\ u[i] = s[i]
    BY <1>3, <2>1 DEF s
  <2>3. Answered(r, i, p)
    BY <1>P, <2>1, <2>2 DEF RunParts, RoundsSaved, Own, s, p
  <2>4. i + j <= p /\ s[i + j] = [s[i] EXCEPT !.role = "tool", !.n = j]
    BY <2>1, <2>2, <2>3 DEF Answered, s
  <2>5. s[i].n \in Nat
    <3>1. s[i] \in Message
      BY <1>V, <2>2
    <3>. QED
      BY <3>1 DEF Message
  <2>6. i + j \in 1..Len(s)
    BY <1>V, <2>2, <2>4, <2>5, SMTT(60)
  <2>. QED
    BY <2>2, <2>4, <2>6 DEF s
<1>. QED
  BY <1>4, <1>5, <1>6, <1>7, <1>8

(* A response joins the transcript: the answer, or the request of a batch.  *)
LEMMA ResponseJoins ==
    ASSUME TranscriptInv, NEW r \in Runs, pc[r] \in {"llm", "fallback", "decide"}, NEW k \in 0..MaxCalls,
           messages' = [messages EXCEPT ![r] = Append(@, AssistantMsg(r, k))],
           NEW c \in 0..MaxCalls, calls' = [calls EXCEPT ![r] = c],
           NEW l \in {"tools", "saveEnd"}, pc' = [pc EXCEPT ![r] = l],
           l = "tools" => c = k, l = "saveEnd" => k = 0,
           UNCHANGED <<iter, persisted, outcome, conv, lost>>
    PROVE  TranscriptInv'
<1> DEFINE s == messages[r]
           m == AssistantMsg(r, k)
           u == Append(s, m)
<1>T. TranscriptTypes
  BY DEF TranscriptInv
<1>V. /\ s \in Seq(Message) /\ persisted[r] \in Nat /\ persisted[r] <= Len(s) /\ Len(s) \in Nat /\ iter[r] \in Nat
      /\ \A i \in 1..Len(s) : s[i].iter \in Nat
  BY <1>T, RunValues
<1>P. RunParts(r)
  BY DEF TranscriptInv
<1>K. k \in Nat
  BY LoopAssumption
<1>I. iter \in [Runs -> Nat]
  BY <1>T DEF TranscriptTypes
<1>M. m \in Message /\ m.run = r /\ m.role = "assistant" /\ m.iter = iter[r] /\ m.n = k
  BY <1>K, <1>I, Messages
<1>A. AssistantMsg(r, k)' = m
  BY DEF AssistantMsg
<1>E. /\ pc'[r] = l /\ iter'[r] = iter[r] /\ calls'[r] = c /\ outcome'[r] = outcome[r]
      /\ messages'[r] = u /\ persisted'[r] = persisted[r]
  BY <1>T DEF TranscriptTypes
<1>O. outcome[r] # "completed"
  BY <1>P DEF RunParts, Phases
<1> HIDE DEF m
<1>U. u \in Seq(Message) /\ Len(u) = Len(s) + 1 /\ (\A i \in 1..Len(s) : u[i] = s[i]) /\ u[Len(s) + 1] = m
  BY <1>V, <1>M, AppendProperties
<1>X. messages' = [messages EXCEPT ![r] = u]
  BY DEF m
<1> HIDE DEF u
<1>1. ASSUME NEW i \in 1..Len(s), Own(r, i), s[i].role # "user" PROVE s[i].iter < iter[r]
  BY <1>P, <1>1 DEF RunParts, Numbered, Saving
<1>2. \A i \in 1..Len(s) : Own(r, i) => m # s[i]
  <2>1. SUFFICES ASSUME NEW i \in 1..Len(s), Own(r, i), m = s[i] PROVE FALSE
    OBVIOUS
  <2>2. s[i].iter < iter[r]
    BY <1>1, <1>M, <2>1
  <2>. QED
    BY <1>M, <1>V, <2>1, <2>2
<1>3. \A i \in 1..Len(u) : i \in 1..Len(s) \/ i = Len(s) + 1
  BY <1>U, <1>V
<1> HIDE DEF s
<1>4. OwnOnce(r)' /\ RestOwn(r)' /\ SavedFrom(r)' /\ SavedPart(r)' /\ RoundsSaved(r)'
  <2>1. \A a \in (Len(s) + 1)..Len(u) : a = Len(s) + 1
    BY <1>U, <1>V
  <2>2. \A a \in (Len(s) + 1)..Len(u) : u[a] = m
    BY <1>U, <2>1
  <2>3. pc[r] \notin Saving
    BY DEF Saving
  <2>4. \A a \in (Len(s) + 1)..Len(u) : u[a].run = r
    BY <1>M, <2>2
  <2>5. \A a \in (Len(s) + 1)..Len(u), i \in 1..Len(s) : Own(r, i) => u[a] # u[i]
    BY <1>2, <1>U, <2>2
  <2>6. \A a, b \in (Len(s) + 1)..Len(u) : u[a] = u[b] => a = b
    BY <2>1
  <2>7. Len(u) = Len(s) + 1 /\ 1 \in Nat /\ \A i \in 1..Len(s) : u[i] = s[i]
    BY <1>U
  <2>. QED
    BY <1>E, <1>U, <2>3, <2>4, <2>5, <2>6, <2>7, TranscriptGrows, SMTT(30) DEF s
<1>5. Phases(r)'
  <2>1. l = "tools" => persisted[r] < Len(u) /\ u[Len(u)] = m
    BY <1>U, <1>V
  <2>2. l = "tools" => (AssistantMsg(r, calls[r]))' = m
    BY <1>E, <1>A DEF AssistantMsg
  <2>. QED
    BY <1>E, <1>O, <2>1, <2>2 DEF Phases
<1>6. Numbered(r)'
  <2>1. SUFFICES ASSUME NEW i \in 1..Len(u), u[i].run = r, u[i].role # "user"
                 PROVE  \/ u[i].iter < iter[r]
                        \/ l = "tools" /\ u[i].iter = iter[r] /\ u[i].role = "assistant"
                        \/ l \in Saving \cup {"done"} /\ u[i].iter <= iter[r]
    BY <1>E DEF Numbered, Own
  <2>2. CASE i \in 1..Len(s)
    BY <1>1, <1>U, <2>1, <2>2 DEF Own, s
  <2>3. CASE i = Len(s) + 1
    BY <1>M, <1>U, <1>V, <2>3 DEF Saving
  <2>. QED
    BY <1>3, <2>2, <2>3
<1>7. Rounds(r)'
  <2>0. SUFFICES \A i \in 1..Len(u) : u[i].run = r /\ u[i].role = "assistant" /\ ~(pc'[r] = "tools" /\ i = Len(u)) =>
                   AnsweredIn(u, i)
    BY <1>E, RoundsNext
  <2>1. SUFFICES ASSUME NEW i \in 1..Len(u), u[i].run = r, u[i].role = "assistant", ~(l = "tools" /\ i = Len(u)),
                        NEW j \in 1..u[i].n
                 PROVE  i + j <= Len(u) /\ u[i + j] = [u[i] EXCEPT !.role = "tool", !.n = j]
    BY <1>E DEF AnsweredIn
  <2>2. CASE i \in 1..Len(s)
    <3>1. u[i] = s[i] /\ pc[r] # "tools"
      BY <1>U, <2>2
    <3>2. Answered(r, i, Len(messages[r]))
      BY <1>P, <2>1, <2>2, <3>1 DEF RunParts, Rounds, Own, s
    <3>3. i + j <= Len(s) /\ s[i + j] = [s[i] EXCEPT !.role = "tool", !.n = j]
      BY <2>1, <3>1, <3>2 DEF Answered, s
    <3>4. s[i].n \in Nat
      <4>1. s[i] \in Message
        BY <1>V, <2>2
      <4>. QED
        BY <4>1 DEF Message
    <3>5. i + j \in 1..Len(s) /\ i + j <= Len(u)
      BY <1>U, <1>V, <2>1, <2>2, <3>3, <3>4
    <3>. QED
      BY <1>U, <3>1, <3>3, <3>5
  <2>3. CASE i = Len(s) + 1
    <3>1. i = Len(u) /\ u[i].n = k
      BY <1>M, <1>U, <2>3
    <3>2. k = 0
      BY <2>1, <3>1
    <3>. QED
      BY <2>1, <3>1, <3>2
  <2>. QED
    BY <1>3, <2>2, <2>3
<1>8. RunParts(r)'
  BY <1>4, <1>5, <1>6, <1>7 DEF RunParts
<1>9. /\ iter' = [iter EXCEPT ![r] = iter[r]] /\ outcome' = [outcome EXCEPT ![r] = outcome[r]]
      /\ persisted' = [persisted EXCEPT ![r] = persisted[r]] /\ outcome[r] \in Outcomes
  BY <1>T DEF TranscriptTypes
<1>10. l \in PCs /\ persisted[r] <= Len(u)
  BY <1>U, <1>V DEF PCs
<1>. QED
  BY <1>8, <1>9, <1>10, <1>U, <1>V, <1>X, OnlyRun

(* The results of a batch join the transcript behind their request. *)
LEMMA ResultsJoin ==
    ASSUME TranscriptInv, NEW r \in Runs, pc[r] = "tools", NEW l \in {"llm", "saveRound", "saveEnd", "done"},
           NEW it \in {iter[r], iter[r] + 1}, NEW o \in Outcomes, o # "completed",
           messages' = [messages EXCEPT ![r] = @ \o Results(r)], pc' = [pc EXCEPT ![r] = l],
           iter' = [iter EXCEPT ![r] = it], outcome' = [outcome EXCEPT ![r] = o], l = "llm" => it = iter[r] + 1,
           UNCHANGED <<calls, persisted, conv, lost>>
    PROVE  TranscriptInv'
<1> DEFINE s == messages[r]
           c == calls[r]
           t == Results(r)
           u == s \o t
<1>T. TranscriptTypes
  BY DEF TranscriptInv
<1>V. /\ s \in Seq(Message) /\ persisted[r] \in Nat /\ persisted[r] <= Len(s) /\ Len(s) \in Nat /\ iter[r] \in Nat
      /\ (\A i \in 1..Len(s) : s[i].iter \in Nat) /\ c \in 0..MaxCalls
  BY <1>T, RunValues
<1>P. RunParts(r)
  BY DEF TranscriptInv
<1>C. c \in Nat /\ it \in Nat
  BY <1>V, LoopAssumption
<1>M. \A j \in 1..c : /\ ToolMsg(r, j) \in Message /\ ToolMsg(r, j).run = r /\ ToolMsg(r, j).role = "tool"
                      /\ ToolMsg(r, j).iter = iter[r] /\ ToolMsg(r, j).n = j
  <2>1. iter \in [Runs -> Nat]
    BY <1>T DEF TranscriptTypes
  <2> HIDE DEF c
  <2>2. \A j \in 1..c : j \in Nat
    BY <1>C
  <2>3. SUFFICES ASSUME NEW j \in 1..c
                 PROVE  /\ ToolMsg(r, j) \in Message /\ ToolMsg(r, j).run = r /\ ToolMsg(r, j).role = "tool"
                        /\ ToolMsg(r, j).iter = iter[r] /\ ToolMsg(r, j).n = j
    OBVIOUS
  <2>. QED
    BY <2>1, <2>2, <2>3, Messages
<1>R. t \in Seq(Message) /\ Len(t) = c /\ \A j \in 1..c : t[j] = ToolMsg(r, j)
  <2>1. t = [j \in 1..c |-> ToolMsg(r, j)]
    BY DEF Results
  <2> HIDE DEF t, c
  <2>2. t \in [1..c -> Message]
    BY <1>M, <2>1
  <2>3. t \in Seq(Message)
    BY <1>C, <2>2, SeqDef
  <2>4. 1..c = 1..Len(t) /\ Len(t) \in Nat
    BY <2>2, <2>3, LenProperties
  <2>5. Len(t) = c
    BY <1>C, <2>4
  <2>. QED
    BY <2>1, <2>3, <2>5
<1>E. /\ pc'[r] = l /\ iter'[r] = it /\ calls'[r] = c /\ outcome'[r] = o
      /\ messages'[r] = u /\ persisted'[r] = persisted[r]
  BY <1>T DEF TranscriptTypes
<1>L. s[Len(s)] = AssistantMsg(r, c) /\ persisted[r] < Len(s)
  BY <1>P DEF RunParts, Phases
<1>X. messages' = [messages EXCEPT ![r] = u] /\ calls' = [calls EXCEPT ![r] = c]
      /\ persisted' = [persisted EXCEPT ![r] = persisted[r]]
  BY <1>T DEF TranscriptTypes
<1> HIDE DEF t, c
<1>U. /\ u \in Seq(Message) /\ Len(u) = Len(s) + c /\ (\A i \in 1..Len(s) : u[i] = s[i])
      /\ \A j \in 1..c : u[Len(s) + j] = ToolMsg(r, j)
  <2>1. /\ u \in Seq(Message) /\ Len(u) = Len(s) + Len(t)
        /\ \A i \in 1..(Len(s) + Len(t)) : u[i] = IF i <= Len(s) THEN s[i] ELSE t[i - Len(s)]
    BY <1>V, <1>R, ConcatProperties
  <2> HIDE DEF u, s
  <2>2. \A i \in 1..Len(s) : u[i] = s[i]
    BY <1>C, <1>R, <1>V, <2>1
  <2>3. ASSUME NEW j \in 1..c PROVE u[Len(s) + j] = ToolMsg(r, j)
    <3>1. Len(s) + j \in 1..(Len(s) + Len(t)) /\ ~(Len(s) + j <= Len(s)) /\ (Len(s) + j) - Len(s) = j
      BY <1>C, <1>R, <1>V
    <3>. QED
      BY <1>R, <2>1, <3>1
  <2>. QED
    BY <1>R, <2>1, <2>2, <2>3
<1> HIDE DEF u
<1>1. ASSUME NEW i \in 1..Len(s), Own(r, i), s[i].role # "user"
      PROVE  s[i].iter <= iter[r] /\ (s[i].iter < iter[r] \/ s[i].role = "assistant")
  <2>1. s[i].iter < iter[r] \/ (s[i].iter = iter[r] /\ s[i].role = "assistant")
    BY <1>P, <1>1 DEF RunParts, Numbered, Saving
  <2>. QED
    BY <1>V, <2>1
<1> HIDE DEF s
<1>3. \A i \in 1..Len(u) : i \in 1..Len(s) \/ \E j \in 1..c : i = Len(s) + j
  <2>1. SUFFICES ASSUME NEW i \in 1..Len(u), i \notin 1..Len(s) PROVE i - Len(s) \in 1..c /\ i = Len(s) + (i - Len(s))
    OBVIOUS
  <2>. QED
    BY <1>C, <1>U, <1>V, <2>1
<1>4. OwnOnce(r)' /\ RestOwn(r)' /\ SavedFrom(r)' /\ SavedPart(r)' /\ RoundsSaved(r)'
  <2> DEFINE New == (Len(s) + 1)..Len(u)
  <2>1. ASSUME NEW a \in New PROVE a - Len(s) \in 1..c /\ a = Len(s) + (a - Len(s))
    BY <1>C, <1>U, <1>V
  <2>2. \A a \in New : u[a] = ToolMsg(r, a - Len(s))
    BY <1>U, <2>1
  <2>3. pc[r] \notin Saving
    BY DEF Saving
  <2>4. \A a \in New : u[a].run = r /\ u[a].role = "tool" /\ u[a].iter = iter[r] /\ u[a].n = a - Len(s)
    BY <1>M, <2>1, <2>2
  <2>5. ASSUME NEW a \in New, NEW i \in 1..Len(s), Own(r, i), u[a] = u[i] PROVE FALSE
    <3>1. s[i] = u[a]
      BY <1>U, <2>5
    <3>2. s[i].iter < iter[r]
      BY <1>1, <2>4, <2>5, <3>1
    <3>. QED
      BY <1>V, <2>4, <3>1, <3>2
  <2>6. ASSUME NEW a \in New, NEW b \in New, u[a] = u[b] PROVE a = b
    <3>1. a - Len(s) = b - Len(s)
      BY <2>4, <2>6
    <3>2. a \in Int /\ b \in Int
      BY <1>U, <1>V
    <3>. QED
      BY <1>V, <3>1, <3>2
  <2> HIDE DEF New
  <2>7. /\ \A a \in New : u[a].run = r
        /\ \A a \in New, i \in 1..Len(s) : Own(r, i) => u[a] # u[i]
        /\ \A a, b \in New : u[a] = u[b] => a = b
    BY <2>4, <2>5, <2>6
  <2>. QED
    BY <1>C, <1>E, <1>U, <2>3, <2>7, TranscriptGrows, ZenonT(60) DEF s, New
<1>5. Phases(r)'
  BY <1>E DEF Phases
<1>6. Numbered(r)'
  <2>1. SUFFICES ASSUME NEW i \in 1..Len(u), u[i].run = r, u[i].role # "user"
                 PROVE  u[i].iter < it \/ (l \in Saving \cup {"done"} /\ u[i].iter <= it)
    BY <1>E DEF Numbered, Own
  <2>2. u[i].iter \in Nat /\ u[i].iter <= iter[r]
    <3>1. CASE i \in 1..Len(s)
      BY <1>1, <1>U, <1>V, <2>1, <3>1 DEF Own, s
    <3>2. ASSUME NEW j \in 1..c, i = Len(s) + j PROVE u[i].iter = iter[r]
      BY <1>M, <1>U, <3>2
    <3>. QED
      BY <1>3, <1>V, <3>1, <3>2
  <2>3. l \in Saving \cup {"done"} \/ it = iter[r] + 1
    BY DEF Saving
  <2>. QED
    BY <1>V, <2>2, <2>3
<1>7. Rounds(r)'
  <2>0. SUFFICES \A i \in 1..Len(u) : u[i].run = r /\ u[i].role = "assistant" /\ ~(pc'[r] = "tools" /\ i = Len(u)) =>
                   AnsweredIn(u, i)
    BY <1>E, RoundsNext
  <2>1. SUFFICES ASSUME NEW i \in 1..Len(u), u[i].run = r, u[i].role = "assistant", NEW j \in 1..u[i].n
                 PROVE  i + j <= Len(u) /\ u[i + j] = [u[i] EXCEPT !.role = "tool", !.n = j]
    BY <1>E DEF AnsweredIn
  <2>2. i \in 1..Len(s)
    BY <1>3, <1>M, <1>U, <2>1
  <2>3. u[i] = s[i]
    BY <1>U, <2>2
  <2>4. CASE i = Len(s)
    <3>1. u[i] = AssistantMsg(r, c)
      BY <1>L, <2>3, <2>4 DEF s
    <3>2. u[i].n = c /\ j \in 1..c
      BY <2>1, <3>1 DEF AssistantMsg
    <3>3. u[i + j] = ToolMsg(r, j)
      BY <1>U, <2>4, <3>2
    <3>4. i + j <= Len(u)
      BY <1>C, <1>U, <1>V, <2>4, <3>2
    <3>5. [AssistantMsg(r, c) EXCEPT !.role = "tool", !.n = j] = ToolMsg(r, j)
      BY ResultOf
    <3>. QED
      BY <3>1, <3>3, <3>4, <3>5
  <2>5. CASE i # Len(s)
    <3>2. Answered(r, i, Len(messages[r]))
      BY <1>P, <2>1, <2>2, <2>3, <2>5 DEF RunParts, Rounds, Own, s
    <3>3. i + j <= Len(s) /\ s[i + j] = [s[i] EXCEPT !.role = "tool", !.n = j]
      BY <2>1, <2>3, <3>2 DEF Answered, s
    <3>4. s[i].n \in Nat
      <4>1. s[i] \in Message
        BY <1>V, <2>2
      <4>. QED
        BY <4>1 DEF Message
    <3>5. i + j \in 1..Len(s) /\ i + j <= Len(u)
      BY <1>C, <1>U, <1>V, <2>1, <2>2, <2>3, <3>3, <3>4
    <3>. QED
      BY <1>U, <2>3, <3>3, <3>5
  <2>. QED
    BY <2>4, <2>5
<1>8. RunParts(r)'
  BY <1>4, <1>5, <1>6, <1>7 DEF RunParts
<1>9. l \in PCs /\ persisted[r] <= Len(u)
  BY <1>C, <1>U, <1>V DEF PCs
<1>. QED
  BY <1>8, <1>9, <1>C, <1>U, <1>V, <1>X, OnlyRun

(* A run starts: the history it loads has nothing of its own. *)
LEMMA FetchTranscript ==
    ASSUME TranscriptInv, NEW r \in Runs, FetchConversationMessages(r)
    PROVE  TranscriptInv'
<1>T. TranscriptTypes
  BY DEF TranscriptInv
<1>P. RunParts(r)
  BY DEF TranscriptInv
<1>C. conv \in Seq(Message) /\ iter \in [Runs -> Nat] /\ iter[r] \in Nat /\ calls[r] \in 0..MaxCalls
      /\ outcome[r] \in Outcomes
  BY <1>T DEF TranscriptTypes
<1>1. PICK h \in {LastN(conv, ConversationSize), <<>>} :
        /\ messages' = [messages EXCEPT ![r] = Append(h, UserMsg(r))]
        /\ persisted' = [persisted EXCEPT ![r] = Len(h)]
  BY DEF FetchConversationMessages
<1>2. pc[r] = "new" /\ pc' = [pc EXCEPT ![r] = "prefetch"] /\ UNCHANGED <<iter, calls, outcome, conv, lost>>
  BY DEF FetchConversationMessages, Go, Goto, loopVars, toolVars, storeVars
<1>3. h \in Seq(Message) /\ Elements(h) \subseteq Elements(conv)
  <2>1. CASE h = <<>>
    BY <2>1 DEF Elements
  <2>2. CASE h = LastN(conv, ConversationSize)
    BY <1>C, <2>2, LastNElements, LoopAssumption
  <2>. QED
    BY <2>1, <2>2
<1> DEFINE m == UserMsg(r)
           u == Append(h, m)
<1>M. m \in Message /\ m.run = r /\ m.role = "user"
  BY <1>C, Messages
<1> HIDE DEF m
<1>U. u \in Seq(Message) /\ Len(u) = Len(h) + 1 /\ (\A i \in 1..Len(h) : u[i] = h[i]) /\ u[Len(h) + 1] = m
      /\ Len(h) \in Nat
  BY <1>3, <1>M, AppendProperties
<1>E. /\ pc'[r] = "prefetch" /\ iter'[r] = iter[r] /\ calls'[r] = calls[r] /\ outcome'[r] = outcome[r]
      /\ messages'[r] = u /\ persisted'[r] = Len(h)
  BY <1>T, <1>1, <1>2 DEF TranscriptTypes, m
<1>X. messages' = [messages EXCEPT ![r] = u] /\ iter' = [iter EXCEPT ![r] = iter[r]]
      /\ calls' = [calls EXCEPT ![r] = calls[r]] /\ outcome' = [outcome EXCEPT ![r] = outcome[r]]
  BY <1>T, <1>1, <1>2 DEF TranscriptTypes, m
<1> HIDE DEF u
<1>4. \A x \in Elements(conv) : x.run # r
  <2>1. messages[r] = <<>>
    BY <1>2, <1>P DEF RunParts, Phases
  <2>. QED
    BY <1>P, <2>1 DEF RunParts, SavedFrom
<1>5. \A i \in 1..Len(h) : u[i] \in Elements(conv) /\ u[i].run # r
  BY <1>3, <1>4, <1>U DEF Elements
<1>6. \A i \in 1..Len(u) : i \in 1..Len(h) \/ i = Len(h) + 1
  BY <1>U
<1>7. \A i \in 1..Len(u) : u[i].run = r => i = Len(h) + 1 /\ u[i].role = "user"
  BY <1>5, <1>6, <1>M, <1>U
<1>8. Phases(r)'
  BY <1>2, <1>E, <1>P DEF RunParts, Phases
<1>9. Numbered(r)' /\ Rounds(r)'
  <2>1. Numbered(r)'
    BY <1>7, <1>E DEF Numbered, Own
  <2>2. Rounds(r)'
    BY <1>7, <1>E DEF Rounds, Own
  <2>. QED
    BY <2>1, <2>2
<1>10. OwnOnce(r)'
  <2>1. SUFFICES ASSUME NEW i \in 1..Len(u), NEW j \in 1..Len(u), u[i].run = r, u[j] = u[i]
                 PROVE  i = j
    BY <1>E DEF OwnOnce, Own
  <2>. QED
    BY <1>7, <2>1
<1>11. RestOwn(r)'
  <2>1. SUFFICES ASSUME NEW i \in 1..Len(u), i > Len(h) PROVE u[i].run = r
    BY <1>E DEF RestOwn, Own
  <2>2. i = Len(h) + 1
    BY <1>U, <2>1
  <2>. QED
    BY <1>M, <1>U, <2>2
<1>12. SavedFrom(r)'
  BY <1>2, <1>4 DEF SavedFrom, Elements
<1>13. SavedPart(r)'
  <2>1. SUFFICES ASSUME NEW i \in 1..Len(u), i <= Len(h) PROVE u[i] \in Elements(conv)
    BY <1>2, <1>E DEF SavedPart, Elements
  <2>2. i \in 1..Len(h)
    BY <1>U, <2>1
  <2>. QED
    BY <1>5, <2>2
<1>14. RoundsSaved(r)'
  BY <1>7, <1>E DEF RoundsSaved, Own
<1>15. RunParts(r)'
  BY <1>8, <1>9, <1>10, <1>11, <1>12, <1>13, <1>14 DEF RunParts
<1>16. "prefetch" \in PCs /\ Len(h) <= Len(u)
  BY <1>U DEF PCs
<1>. QED
  BY <1>1, <1>2, <1>15, <1>16, <1>C, <1>U, <1>X, OnlyRun

(* One AddMessage: what it writes is not in the store yet. *)
LEMMA SaveTranscript ==
    ASSUME TranscriptInv, NEW r \in Runs, SaveMessage(r)
    PROVE  TranscriptInv'
<1> DEFINE s == messages[r]
           p == persisted[r]
           m == s[p + 1]
<1>T. TranscriptTypes
  BY DEF TranscriptInv
<1>V. s \in Seq(Message) /\ p \in Nat /\ Len(s) \in Nat /\ conv \in Seq(Message)
  BY <1>T, RunValues DEF TranscriptTypes
<1>P. \A q \in Runs : RunParts(q)
  BY DEF TranscriptInv
<1>1. /\ pc[r] \in Saving /\ p < Len(s)
      /\ persisted' = [persisted EXCEPT ![r] = p + 1]
      /\ UNCHANGED <<pc, iter, calls, outcome, messages>>
      /\ \/ conv' = LastN(Append(conv, m), StoreMaxSize) /\ UNCHANGED lost
         \/ lost' = lost \cup {m} /\ UNCHANGED conv
  BY DEF SaveMessage, Saving, loopVars, toolVars
<1>2. p + 1 \in 1..Len(s) /\ m \in Message
  BY <1>1, <1>V
<1>3. m.run = r
  BY <1>2, <1>P, <1>V DEF RunParts, RestOwn, Own
<1>4. m \notin Elements(conv)
  <2>1. SUFFICES ASSUME m \in Elements(conv) PROVE FALSE
    OBVIOUS
  <2>2. PICK i \in 1..Len(s) : i <= p /\ s[i] = m
    BY <1>3, <1>P, <2>1 DEF RunParts, SavedFrom
  <2>3. i = p + 1
    BY <1>2, <1>3, <1>P, <2>2 DEF RunParts, OwnOnce, Own
  <2>. QED
    BY <1>V, <2>2, <2>3
<1> HIDE DEF m
<1>5. /\ conv' \in Seq(Message) /\ Elements(conv)' \subseteq Elements(conv) \cup {m}
      /\ StoredOnce'
      /\ Untrimmed' => Untrimmed /\ Elements(conv)' \cup lost' = Elements(conv) \cup lost \cup {m}
  <2>1. CASE conv' = LastN(Append(conv, m), StoreMaxSize) /\ UNCHANGED lost
    <3> DEFINE a == Append(conv, m)
    <3>1. /\ a \in Seq(Message) /\ Len(a) = Len(conv) + 1 /\ Elements(a) = Elements(conv) \cup {m}
          /\ \A i, j \in 1..Len(a) : a[i] = a[j] => i = j
      BY <1>2, <1>4, <1>V, AppendElements DEF TranscriptInv, StoredOnce
    <3>2. StoreMaxSize \in Nat
      BY LoopAssumption
    <3> HIDE DEF a
    <3>3. /\ LastN(a, StoreMaxSize) \in Seq(Message) /\ Elements(LastN(a, StoreMaxSize)) \subseteq Elements(a)
          /\ \A i, j \in 1..Len(LastN(a, StoreMaxSize)) : LastN(a, StoreMaxSize)[i] = LastN(a, StoreMaxSize)[j] => i = j
          /\ Len(LastN(a, StoreMaxSize)) < StoreMaxSize => LastN(a, StoreMaxSize) = a
      BY <3>1, <3>2, LastNElements
    <3>4. conv' = LastN(a, StoreMaxSize)
      BY <2>1 DEF a
    <3>5. Elements(conv)' = Elements(conv')
      BY DEF Elements
    <3>6. StoredOnce'
      BY <3>3, <3>4 DEF StoredOnce
    <3>7. Untrimmed' => conv' = a
      BY <3>3, <3>4 DEF Untrimmed
    <3>8. Untrimmed' => Untrimmed
      <4>1. SUFFICES ASSUME Len(conv') < StoreMaxSize, conv' = a PROVE Len(conv) < StoreMaxSize
        BY <3>7 DEF Untrimmed
      <4>2. Len(conv) + 1 < StoreMaxSize /\ Len(conv) \in Nat
        BY <1>V, <3>1, <4>1
      <4>. QED
        BY <3>2, <4>2
    <3>9. Untrimmed' => Elements(conv)' \cup lost' = Elements(conv) \cup lost \cup {m}
      BY <2>1, <3>1, <3>5, <3>7
    <3>. QED
      BY <3>1, <3>3, <3>4, <3>5, <3>6, <3>8, <3>9
  <2>2. CASE lost' = lost \cup {m} /\ UNCHANGED conv
    BY <1>V, <2>2 DEF TranscriptInv, StoredOnce, Elements, Untrimmed
  <2>. QED
    BY <1>1, <2>1, <2>2
<1>6. persisted'[r] = p + 1 /\ \A q \in Runs : q # r => persisted'[q] = persisted[q]
  BY <1>1, <1>T DEF TranscriptTypes
<1>7. TranscriptTypes'
  <2>1. persisted' \in [Runs -> Nat]
    BY <1>1, <1>T, <1>V DEF TranscriptTypes
  <2>2. \A q \in Runs : persisted'[q] <= Len(messages'[q])
    BY <1>1, <1>2, <1>6, <1>T DEF TranscriptTypes
  <2>. QED
    BY <1>1, <1>5, <1>T, <2>1, <2>2 DEF TranscriptTypes
<1>8. ASSUME NEW q \in Runs
      PROVE  Numbered(q)' /\ OwnOnce(q)' /\ Rounds(q)'
  <2>1. Numbered(q) /\ OwnOnce(q) /\ Rounds(q)
    BY <1>P DEF RunParts
  <2>2. Numbered(q)' /\ OwnOnce(q)'
    BY <1>1, <2>1 DEF Numbered, OwnOnce, Own
  <2>3. \A i \in 1..Len(messages[q]) : Answered(q, i, Len(messages[q]))' <=> Answered(q, i, Len(messages[q]))
    BY <1>1 DEF Answered
  <2>4. Rounds(q)'
    BY <1>1, <2>1, <2>3 DEF Rounds, Own
  <2>. QED
    BY <2>2, <2>4
<1>9. ASSUME NEW q \in Runs, q # r PROVE RunParts(q)'
  <2>P. RunParts(q)
    BY <1>P
  <2>1. Phases(q)' /\ RestOwn(q)'
    BY <1>1, <1>6, <1>9, <2>P DEF RunParts, Phases, RestOwn, Own, AssistantMsg
  <2>2. SavedFrom(q)'
    <3>1. SUFFICES ASSUME NEW x \in Elements(conv)', x.run = q
                   PROVE  \E i \in 1..Len(messages[q]) : i <= persisted[q] /\ messages[q][i] = x
      BY <1>1, <1>6, <1>9 DEF SavedFrom
    <3>2. x \in Elements(conv)
      BY <1>3, <1>5, <1>9, <3>1
    <3>. QED
      BY <2>P, <3>1, <3>2 DEF RunParts, SavedFrom
  <2>3. SavedPart(q)'
    <3>1. SUFFICES ASSUME Untrimmed', NEW i \in 1..Len(messages[q]), i <= persisted[q]
                   PROVE  messages[q][i] \in Elements(conv)' \cup lost'
      BY <1>1, <1>6, <1>9 DEF SavedPart
    <3>. QED
      BY <1>5, <2>P, <3>1 DEF RunParts, SavedPart
  <2>4. RoundsSaved(q)'
    <3>1. \A i \in 1..Len(messages[q]) : Answered(q, i, persisted[q])' <=> Answered(q, i, persisted[q])
      BY <1>1, <1>6, <1>9 DEF Answered
    <3>. QED
      BY <1>1, <1>6, <1>9, <2>P, <3>1 DEF RunParts, RoundsSaved, Own
  <2>. QED
    BY <1>8, <2>1, <2>2, <2>3, <2>4 DEF RunParts
<1>10. RunParts(r)'
  <2>P. RunParts(r)
    BY <1>P
  <2>1. Phases(r)'
    <3>1. pc[r] \notin {"new", "tools", "done"}
      BY <1>1 DEF Saving
    <3>. QED
      BY <1>1, <2>P, <3>1 DEF RunParts, Phases
  <2>2. RestOwn(r)'
    <3>1. SUFFICES ASSUME NEW i \in 1..Len(s), i > p + 1 PROVE s[i].run = r
      BY <1>1, <1>6 DEF RestOwn, Own
    <3>2. i > p
      BY <1>V, <3>1
    <3>. QED
      BY <2>P, <3>2 DEF RunParts, RestOwn, Own
  <2>3. SavedFrom(r)'
    <3>1. SUFFICES ASSUME NEW x \in Elements(conv)', x.run = r
                   PROVE  \E i \in 1..Len(s) : i <= p + 1 /\ s[i] = x
      BY <1>1, <1>6 DEF SavedFrom
    <3>2. CASE x = m
      <4>1. p + 1 <= p + 1 /\ s[p + 1] = x
        BY <1>V, <3>2 DEF m
      <4>. QED
        BY <1>2, <4>1
    <3>3. CASE x \in Elements(conv)
      <4>1. PICK i \in 1..Len(s) : i <= p /\ s[i] = x
        BY <2>P, <3>1, <3>3 DEF RunParts, SavedFrom
      <4>2. i <= p + 1
        BY <1>V, <4>1
      <4>. QED
        BY <4>1, <4>2
    <3>. QED
      BY <1>5, <3>1, <3>2, <3>3
  <2>4. SavedPart(r)'
    <3>1. SUFFICES ASSUME Untrimmed', NEW i \in 1..Len(s), i <= p + 1
                   PROVE  s[i] \in Elements(conv)' \cup lost'
      BY <1>1, <1>6 DEF SavedPart
    <3>2. i <= p \/ i = p + 1
      BY <1>V, <3>1
    <3>3. CASE i <= p
      BY <1>5, <2>P, <3>1, <3>3 DEF RunParts, SavedPart
    <3>4. CASE i = p + 1
      BY <1>5, <3>1, <3>4 DEF m
    <3>. QED
      BY <3>2, <3>3, <3>4
  <2>5. RoundsSaved(r)'
    BY <1>1 DEF RoundsSaved, Saving
  <2>. QED
    BY <1>8, <2>1, <2>2, <2>3, <2>4, <2>5 DEF RunParts
<1>. QED
  BY <1>5, <1>7, <1>9, <1>10 DEF TranscriptInv

LEMMA CallTranscript ==
    ASSUME TranscriptInv, NEW r \in Runs, Prefetch(r) \/ LLMFails(r) \/ LLMReturns(r) \/ FinalLLMReturns(r)
    PROVE  TranscriptInv'
<1>T. TranscriptTypes
  BY DEF TranscriptInv
<1>V. iter[r] \in Nat /\ calls[r] \in 0..MaxCalls /\ outcome[r] \in Outcomes /\ persisted[r] \in Nat
  BY <1>T DEF TranscriptTypes
<1>I. pc[r] \in {"prefetch", "llm", "fallback"} /\ UNCHANGED <<iter, persisted, conv, lost>>
  BY DEF Prefetch, LLMFails, LLMReturns, FinalLLMReturns, LLMResponds, invokeLLM, loopVars, storeVars
<1>O. outcome[r] # "completed"
  BY <1>I DEF TranscriptInv, RunParts, Phases
<1>S. /\ iter' = [iter EXCEPT ![r] = iter[r]]
      /\ UNCHANGED outcome => outcome' = [outcome EXCEPT ![r] = outcome[r]]
      /\ UNCHANGED calls => calls' = [calls EXCEPT ![r] = calls[r]]
  BY <1>I, <1>T DEF TranscriptTypes
<1>1. ASSUME NEW l \in {"llm", "fallback", "decide", "done"}, NEW o \in Outcomes \ {"completed"}, NEW k \in 0..MaxCalls,
             pc' = [pc EXCEPT ![r] = l], outcome' = [outcome EXCEPT ![r] = o], calls' = [calls EXCEPT ![r] = k],
             UNCHANGED messages
      PROVE  TranscriptInv'
  <2>1. l \in PCs \ {"new", "tools"} /\ iter[r] >= iter[r] /\ pc[r] \notin {"new", "tools"} /\ pc[r] \notin Saving \cup {"done"}
    BY <1>I, <1>V DEF PCs, Saving
  <2>. QED
    BY <1>1, <1>I, <1>S, <1>V, <2>1, TranscriptStays
<1>2. CASE Prefetch(r)
  <2>1. UNCHANGED <<messages, calls>>
    BY <1>2 DEF Prefetch, toolVars
  <2>2. CASE Go(r, "llm")
    BY <1>1, <1>O, <1>S, <1>V, <2>1, <2>2 DEF Go, Goto
  <2>3. CASE End(r, "failed")
    BY <1>1, <1>S, <1>V, <2>1, <2>3 DEF End, Goto, Outcomes
  <2>. QED
    BY <1>2, <2>2, <2>3 DEF Prefetch
<1>3. CASE LLMFails(r)
  <2>1. UNCHANGED <<messages, calls>>
    BY <1>3 DEF LLMFails, toolVars
  <2>2. CASE Go(r, "fallback")
    BY <1>1, <1>O, <1>S, <1>V, <2>1, <2>2 DEF Go, Goto
  <2>3. CASE End(r, "failed")
    BY <1>1, <1>S, <1>V, <2>1, <2>3 DEF End, Goto, Outcomes
  <2>. QED
    BY <1>3, <2>2, <2>3 DEF LLMFails
<1>4. CASE LLMReturns(r)
  <2>1. pc[r] \in {"llm", "fallback"}
    BY <1>4 DEF LLMReturns, LLMResponds, invokeLLM
  <2>2. PICK k \in 0..MaxCalls :
          /\ calls' = [calls EXCEPT ![r] = k]
          /\ \/ BudgetStop(r) /\ UNCHANGED messages
             \/ k = 0 /\ Answer(r)
             \/ Go(r, "decide") /\ UNCHANGED messages
             \/ StartBatch(r, k)
    BY <1>4 DEF LLMReturns
  <2>3. CASE BudgetStop(r) /\ UNCHANGED messages
    BY <1>1, <2>2, <2>3 DEF BudgetStop, End, Goto, Outcomes
  <2>4. CASE k = 0 /\ Answer(r)
    BY <1>I, <2>1, <2>2, <2>4, ResponseJoins DEF Answer, Go, Goto
  <2>5. CASE Go(r, "decide") /\ UNCHANGED messages
    BY <1>1, <1>O, <1>S, <1>V, <2>2, <2>5 DEF Go, Goto
  <2>6. CASE StartBatch(r, k)
    BY <1>I, <2>1, <2>2, <2>6, ResponseJoins DEF StartBatch, Go, Goto
  <2>. QED
    BY <2>2, <2>3, <2>4, <2>5, <2>6
<1>5. CASE FinalLLMReturns(r)
  <2>1. pc[r] \in {"llm", "fallback"} /\ UNCHANGED calls
    BY <1>5 DEF FinalLLMReturns, invokeLLM, toolVars
  <2>2. CASE BudgetStop(r) /\ UNCHANGED messages
    BY <1>1, <1>S, <1>V, <2>1, <2>2 DEF BudgetStop, End, Goto, Outcomes
  <2>3. CASE Answer(r)
    <3>1. 0 \in 0..MaxCalls
      BY LoopAssumption
    <3>. QED
      BY <1>I, <1>S, <1>V, <2>1, <2>3, <3>1, ResponseJoins DEF Answer, Go, Goto
  <2>. QED
    BY <1>5, <2>2, <2>3 DEF FinalLLMReturns
<1>. QED
  BY <1>2, <1>3, <1>4, <1>5

LEMMA DecideTranscript ==
    ASSUME TranscriptInv, NEW r \in Runs, DecideMaxIterations(r)
    PROVE  TranscriptInv'
<1>T. TranscriptTypes
  BY DEF TranscriptInv
<1>V. iter[r] \in Nat /\ calls[r] \in 0..MaxCalls /\ outcome[r] \in Outcomes
  BY <1>T DEF TranscriptTypes
<1>I. pc[r] = "decide" /\ UNCHANGED <<iter, calls, persisted, conv, lost>>
  BY DEF DecideMaxIterations, storeVars
<1>O. outcome[r] # "completed"
  BY <1>I DEF TranscriptInv, RunParts, Phases
<1>S. /\ iter' = [iter EXCEPT ![r] = iter[r]] /\ calls' = [calls EXCEPT ![r] = calls[r]]
      /\ UNCHANGED outcome => outcome' = [outcome EXCEPT ![r] = outcome[r]]
  BY <1>I, <1>T DEF TranscriptTypes
<1>1. CASE StartBatch(r, calls[r])
  BY <1>1, <1>I, <1>S, <1>V, ResponseJoins DEF StartBatch, Go, Goto
<1>2. CASE Go(r, "llm") /\ UNCHANGED messages
  <2>1. "llm" \in PCs \ {"new", "tools"} /\ iter[r] >= iter[r] /\ pc[r] \notin {"new", "tools"} /\ pc[r] \notin Saving \cup {"done"}
    BY <1>I, <1>V DEF PCs, Saving
  <2>2. pc' = [pc EXCEPT ![r] = "llm"] /\ outcome' = [outcome EXCEPT ![r] = outcome[r]] /\ UNCHANGED messages
    BY <1>2, <1>S DEF Go, Goto
  <2>. QED
    BY <1>I, <1>O, <1>S, <1>V, <2>1, <2>2, TranscriptStays
<1>. QED
  BY <1>1, <1>2 DEF DecideMaxIterations

LEMMA CollectTranscript ==
    ASSUME TranscriptInv, NEW r \in Runs, CollectResults(r)
    PROVE  TranscriptInv'
<1>T. TranscriptTypes
  BY DEF TranscriptInv
<1>V. iter[r] \in Nat /\ outcome[r] \in Outcomes
  BY <1>T DEF TranscriptTypes
<1>I. /\ pc[r] = "tools" /\ UNCHANGED <<calls, persisted, conv, lost>>
      /\ messages' = [messages EXCEPT ![r] = @ \o Results(r)]
  BY DEF CollectResults, BatchOver, toolVars, storeVars
<1>O. outcome[r] # "completed"
  BY <1>I DEF TranscriptInv, RunParts, Phases
<1>S. /\ UNCHANGED iter => iter' = [iter EXCEPT ![r] = iter[r]]
      /\ UNCHANGED outcome => outcome' = [outcome EXCEPT ![r] = outcome[r]]
  BY <1>T DEF TranscriptTypes
<1>1. CASE BudgetStop(r) /\ UNCHANGED iter
  BY <1>1, <1>I, <1>S, <1>V, ResultsJoin DEF BudgetStop, End, Goto, Outcomes
<1>2. CASE Go(r, "saveRound") /\ UNCHANGED iter
  BY <1>2, <1>I, <1>O, <1>S, <1>V, ResultsJoin DEF Go, Goto
<1>3. CASE NextIteration(r)
  <2>1. PICK l \in {"llm", "saveEnd"} : pc' = [pc EXCEPT ![r] = l]
    BY <1>3 DEF NextIteration, Go, Goto
  <2>2. iter' = [iter EXCEPT ![r] = iter[r] + 1] /\ outcome' = [outcome EXCEPT ![r] = outcome[r]]
    BY <1>3, <1>S DEF NextIteration, Go
  <2>. QED
    BY <1>I, <1>O, <1>V, <2>1, <2>2, ResultsJoin
<1>. QED
  BY <1>1, <1>2, <1>3 DEF CollectResults

LEMMA SaveEndsTranscript ==
    ASSUME TranscriptInv, NEW r \in Runs, SaveRoundDone(r) \/ RunCompletes(r)
    PROVE  TranscriptInv'
<1>T. TranscriptTypes
  BY DEF TranscriptInv
<1>V. iter[r] \in Nat /\ outcome[r] \in Outcomes /\ calls[r] \in 0..MaxCalls
  BY <1>T DEF TranscriptTypes
<1>I. /\ pc[r] \in Saving /\ UNCHANGED <<calls, messages, persisted, conv, lost>>
      /\ persisted[r] = Len(messages[r])
  BY DEF SaveRoundDone, RunCompletes, toolVars, storeVars, Saving
<1>O. outcome[r] # "completed"
  BY <1>I DEF TranscriptInv, RunParts, Phases, Saving
<1>S. /\ UNCHANGED iter => iter' = [iter EXCEPT ![r] = iter[r]]
      /\ UNCHANGED outcome => outcome' = [outcome EXCEPT ![r] = outcome[r]]
      /\ calls' = [calls EXCEPT ![r] = calls[r]]
  BY <1>I, <1>T DEF TranscriptTypes
<1>N. pc[r] \notin {"new", "tools"}
  BY <1>I DEF Saving
<1>1. CASE SaveRoundDone(r)
  <2>1. PICK l \in {"llm", "saveEnd"} : pc' = [pc EXCEPT ![r] = l]
    BY <1>1 DEF SaveRoundDone, NextIteration, Go, Goto
  <2>2. iter' = [iter EXCEPT ![r] = iter[r] + 1] /\ outcome' = [outcome EXCEPT ![r] = outcome[r]]
    BY <1>1, <1>S DEF SaveRoundDone, NextIteration, Go
  <2>3. iter[r] + 1 \in Nat /\ iter[r] + 1 >= iter[r] /\ iter[r] + 1 > iter[r] /\ l \in PCs \ {"new", "tools"}
    BY <1>V DEF PCs
  <2>. QED
    BY <1>I, <1>N, <1>O, <1>S, <1>V, <2>1, <2>2, <2>3, TranscriptStays
<1>2. CASE RunCompletes(r)
  <2>1. pc' = [pc EXCEPT ![r] = "done"] /\ outcome' = [outcome EXCEPT ![r] = "completed"] /\ UNCHANGED iter
    BY <1>2 DEF RunCompletes, End, Goto, loopVars
  <2>2. iter[r] >= iter[r] /\ "done" \in PCs \ {"new", "tools"} /\ "completed" \in Outcomes
    BY <1>V DEF PCs, Outcomes
  <2>. QED
    BY <1>I, <1>N, <1>S, <1>V, <2>1, <2>2, TranscriptStays
<1>. QED
  BY <1>1, <1>2

LEMMA InitTranscript == Init => TranscriptInv
<1> SUFFICES ASSUME Init PROVE TranscriptInv
  OBVIOUS
<1>1. TranscriptTypes
  BY LoopAssumption DEF Init, TranscriptTypes, PCs, Outcomes
<1>2. conv = <<>> /\ Len(conv) = 0
  BY DEF Init
<1>3. StoredOnce
  BY <1>2 DEF StoredOnce
<1>4. ASSUME NEW r \in Runs PROVE RunParts(r)
  <2>1. messages[r] = <<>> /\ pc[r] = "new" /\ outcome[r] = "none" /\ Len(messages[r]) = 0
    BY DEF Init
  <2>2. 1..Len(messages[r]) = {} /\ Elements(conv) = {}
    BY <1>2, <2>1 DEF Elements
  <2>3. Phases(r) /\ SavedFrom(r)
    BY <2>1, <2>2 DEF Phases, SavedFrom
  <2>4. Numbered(r) /\ OwnOnce(r) /\ RestOwn(r) /\ SavedPart(r) /\ Rounds(r) /\ RoundsSaved(r)
    BY <2>2 DEF Numbered, OwnOnce, RestOwn, SavedPart, Rounds, RoundsSaved
  <2>. QED
    BY <2>3, <2>4 DEF RunParts
<1>. QED
  BY <1>1, <1>3, <1>4 DEF TranscriptInv

LEMMA StillTranscript ==
    ASSUME TranscriptInv, UNCHANGED <<pc, iter, calls, outcome, messages, persisted, conv, lost>>
    PROVE  TranscriptInv'
<1>1. TranscriptTypes' /\ StoredOnce'
  BY DEF TranscriptInv, TranscriptTypes, StoredOnce
<1>2. \A r \in Runs : RunParts(r)'
  BY SameRun DEF TranscriptInv
<1>. QED
  BY <1>1, <1>2 DEF TranscriptInv

LEMMA NextTranscript == TranscriptInv /\ [Next]_vars => TranscriptInv'
<1> SUFFICES ASSUME TranscriptInv, [Next]_vars PROVE TranscriptInv'
  OBVIOUS
<1>1. CASE UNCHANGED vars
  BY <1>1, StillTranscript DEF vars
<1>2. ASSUME NEW r \in Runs, FetchConversationMessages(r) \/ LoopStep(r) PROVE TranscriptInv'
  BY <1>2, FetchTranscript, CallTranscript, DecideTranscript, CollectTranscript, SaveTranscript, SaveEndsTranscript
  DEF LoopStep
<1>3. ASSUME NEW r \in Runs, NEW i \in 1..MaxCalls, ToolAction(r, i) PROVE TranscriptInv'
  BY <1>3, StillTranscript DEF ToolAction, ToolStart, ToolAuthorize, ToolApproval, ToolExecute, ToolStep,
     loopVars, storeVars
<1>. QED
  BY <1>1, <1>2, <1>3 DEF Next

(* No message is written to the conversation twice, neither by the saves of *)
(* a round and of the end of a run nor by a run that has loaded it as       *)
(* history, for every number of runs, concurrent ones too, and every size   *)
(* of the store and of the history (persistConversationMessages).           *)
THEOREM SavedOnce == Spec => []StoredOnce
<1>1. TranscriptInv => StoredOnce
  BY DEF TranscriptInv
<1>. QED
  BY <1>1, InitTranscript, NextTranscript, PTL DEF Spec

(* As long as the store has dropped nothing, a run that completed has saved *)
(* its whole transcript and one that did not has saved whole rounds, except *)
(* for what the store failed to take (AgentLoop.SavedWhole).                *)
THEOREM RunsSavedWhole == Spec => [](Untrimmed => SavedWhole)
<1>1. TranscriptInv => (Untrimmed => SavedWhole)
  <2>1. SUFFICES ASSUME TranscriptInv, Untrimmed PROVE SavedWhole
    OBVIOUS
  <2>2. \A i, j \in 1..Len(conv) : conv[i] = conv[j] => i = j
    BY <2>1 DEF TranscriptInv, StoredOnce
  <2>3. ASSUME NEW r \in Runs, outcome[r] = "completed"
        PROVE  Elements(messages[r]) \subseteq Elements(conv) \cup lost
    <3>1. persisted[r] = Len(messages[r]) /\ SavedPart(r) /\ Len(messages[r]) \in Nat
      BY <2>1, <2>3, RunValues DEF TranscriptInv, RunParts, Phases
    <3>2. \A i \in 1..Len(messages[r]) : messages[r][i] \in Elements(conv) \cup lost
      BY <2>1, <3>1 DEF SavedPart
    <3>. QED
      BY <3>2 DEF Elements
  <2>4. ASSUME NEW r \in Runs, pc[r] = "done", NEW m \in Elements(conv), m.run = r, m.role = "assistant", NEW j \in 1..m.n
        PROVE  [m EXCEPT !.role = "tool", !.n = j] \in Elements(conv) \cup lost
    <3> DEFINE s == messages[r]
               p == persisted[r]
    <3>1. s \in Seq(Message) /\ p \in Nat /\ p <= Len(s) /\ Len(s) \in Nat
      BY <2>1, RunValues DEF TranscriptInv
    <3>2. RunParts(r)
      BY <2>1 DEF TranscriptInv
    <3> HIDE DEF s, p
    <3>3. PICK i \in 1..Len(s) : i <= p /\ s[i] = m
      BY <2>4, <3>2 DEF RunParts, SavedFrom, s, p
    <3>4. Answered(r, i, p)
      BY <2>4, <3>2, <3>3 DEF RunParts, RoundsSaved, Own, Saving, s, p
    <3>5. i + j <= p /\ s[i + j] = [m EXCEPT !.role = "tool", !.n = j]
      BY <2>4, <3>3, <3>4 DEF Answered, s
    <3>6. m.n \in Nat
      <4>1. m \in Message
        BY <3>1, <3>3
      <4>. QED
        BY <4>1 DEF Message
    <3>7. i + j \in 1..Len(s)
      BY <2>4, <3>1, <3>3, <3>5, <3>6
    <3>. QED
      BY <2>1, <3>2, <3>5, <3>7 DEF RunParts, SavedPart, s, p
  <2>. QED
    BY <2>2, <2>3, <2>4 DEF SavedWhole
<1>. QED
  BY <1>1, InitTranscript, NextTranscript, PTL DEF Spec

-----------------------------------------------------------------------------
(* What a chat model accepts.                                               *)

(* A tool result in s answers a request of s. *)
AsksIn(s, i) ==
    /\ i - s[i].n >= 1
    /\ LET a == s[i - s[i].n]
       IN  a.role = "assistant" /\ a.run = s[i].run /\ a.iter = s[i].iter /\ a.n >= s[i].n

LEMMA WellFormedParts ==
    ASSUME NEW s
    PROVE  WellFormed(s) <=>
             \A i \in 1..Len(s) : /\ s[i].role = "assistant" => AnsweredIn(s, i)
                                  /\ s[i].role = "tool" => AsksIn(s, i)
BY Zenon DEF WellFormed, AnsweredIn, AsksIn

(* A place of a transcript inside a longer one. *)
LEMMA PlaceInside ==
    ASSUME NEW s \in Seq(Message), NEW u \in Seq(Message), NEW d \in Nat, d + Len(s) <= Len(u),
           \A i \in 1..Len(s) : u[i + d] = s[i], NEW i \in 1..Len(s)
    PROVE  /\ AnsweredIn(s, i) => AnsweredIn(u, i + d)
           /\ AsksIn(s, i) => AsksIn(u, i + d)
<1>1. Len(s) \in Nat /\ Len(u) \in Nat /\ s[i] \in Message /\ u[i + d] = s[i]
  BY LenProperties, ElementOfSeq
<1>2. s[i].n \in Nat
  BY <1>1 DEF Message
<1>3. ASSUME AnsweredIn(s, i) PROVE AnsweredIn(u, i + d)
  <2>1. SUFFICES ASSUME NEW j \in 1..s[i].n
                 PROVE  (i + d) + j <= Len(u) /\ u[(i + d) + j] = [s[i] EXCEPT !.role = "tool", !.n = j]
    BY <1>1 DEF AnsweredIn
  <2>2. i + j <= Len(s) /\ s[i + j] = [s[i] EXCEPT !.role = "tool", !.n = j]
    BY <1>3, <2>1 DEF AnsweredIn
  <2>3. i + j \in 1..Len(s) /\ (i + d) + j = (i + j) + d /\ (i + j) + d <= Len(u)
    BY <1>1, <1>2, <2>1, <2>2, SMTT(30)
  <2>. QED
    BY <2>2, <2>3
<1>4. ASSUME AsksIn(s, i) PROVE AsksIn(u, i + d)
  <2> DEFINE k == i - s[i].n
  <2>1. /\ k >= 1 /\ s[k].role = "assistant" /\ s[k].run = s[i].run /\ s[k].iter = s[i].iter
        /\ s[k].n >= s[i].n
    BY <1>4 DEF AsksIn
  <2>2. k \in 1..Len(s) /\ (i + d) - s[i].n = k + d /\ k + d >= 1
    BY <1>1, <1>2, <2>1, SMTT(30)
  <2> HIDE DEF k
  <2>3. u[k + d] = s[k]
    BY <2>2
  <2>. QED
    BY <1>1, <2>1, <2>2, <2>3 DEF AsksIn
<1>. QED
  BY <1>3, <1>4

(* Two transcripts, one after the other. *)
LEMMA WellFormedConcat ==
    ASSUME NEW s \in Seq(Message), NEW t \in Seq(Message), WellFormed(s), WellFormed(t)
    PROVE  WellFormed(s \o t)
<1> DEFINE u == s \o t
<1>1. /\ u \in Seq(Message) /\ Len(u) = Len(s) + Len(t) /\ Len(s) \in Nat /\ Len(t) \in Nat
      /\ \A i \in 1..Len(s) : u[i + 0] = s[i]
      /\ \A i \in 1..Len(t) : u[i + Len(s)] = t[i]
  BY ConcatProperties, LenProperties
<1> HIDE DEF u
<1>2. SUFFICES ASSUME NEW i \in 1..Len(u)
               PROVE  /\ u[i].role = "assistant" => AnsweredIn(u, i)
                      /\ u[i].role = "tool" => AsksIn(u, i)
  BY WellFormedParts DEF u
<1>3. CASE i <= Len(s)
  <2>1. i \in 1..Len(s) /\ i + 0 = i /\ 0 + Len(s) <= Len(u) /\ 0 \in Nat
    BY <1>1, <1>3
  <2>2. /\ AnsweredIn(s, i) => AnsweredIn(u, i + 0)
        /\ AsksIn(s, i) => AsksIn(u, i + 0)
    BY <1>1, <2>1, PlaceInside
  <2>3. /\ s[i].role = "assistant" => AnsweredIn(s, i)
        /\ s[i].role = "tool" => AsksIn(s, i)
    BY <2>1, WellFormedParts
  <2>. QED
    BY <1>1, <2>1, <2>2, <2>3
<1>4. CASE ~(i <= Len(s))
  <2> DEFINE k == i - Len(s)
  <2>1. k \in 1..Len(t) /\ k + Len(s) = i /\ Len(s) + Len(t) <= Len(u)
    BY <1>1, <1>4
  <2> HIDE DEF k
  <2>2. /\ AnsweredIn(t, k) => AnsweredIn(u, k + Len(s))
        /\ AsksIn(t, k) => AsksIn(u, k + Len(s))
    BY <1>1, <2>1, PlaceInside
  <2>3. /\ t[k].role = "assistant" => AnsweredIn(t, k)
        /\ t[k].role = "tool" => AsksIn(t, k)
    BY <2>1, WellFormedParts
  <2>. QED
    BY <1>1, <2>1, <2>2, <2>3
<1>. QED
  BY <1>3, <1>4

(* Nothing, the user's prompt, an answer. *)
LEMMA WellFormedSmall ==
    /\ WellFormed(<<>>)
    /\ \A m \in Message : m.role # "tool" /\ (m.role = "assistant" => m.n = 0) => WellFormed(<<m>>)
<1>1. WellFormed(<<>>)
  <2>1. 1..Len(<<>>) = {}
    OBVIOUS
  <2>. QED
    BY <2>1, WellFormedParts
<1>2. ASSUME NEW m \in Message, m.role # "tool", m.role = "assistant" => m.n = 0
      PROVE  WellFormed(<<m>>)
  <2> DEFINE s == <<m>>
  <2>1. Len(s) = 1 /\ s[1] = m
    OBVIOUS
  <2> HIDE DEF s
  <2>2. m.role = "assistant" => AnsweredIn(s, 1)
    <3>1. 1..0 = {}
      OBVIOUS
    <3>. QED
      BY <1>2, <2>1, <3>1 DEF AnsweredIn
  <2>3. \A i \in 1..Len(s) : i = 1
    BY <2>1
  <2>. QED
    BY <1>2, <2>1, <2>2, <2>3, WellFormedParts DEF s
<1>. QED
  BY <1>1, <1>2

(* The results of a batch. *)
LEMMA ResultsShape ==
    ASSUME NEW r \in Runs, iter \in [Runs -> Nat], calls[r] \in Nat
    PROVE  /\ Results(r) \in Seq(Message) /\ Len(Results(r)) = calls[r]
           /\ \A j \in 1..calls[r] : Results(r)[j] = ToolMsg(r, j)
<1> DEFINE c == calls[r]
           t == Results(r)
<1>1. c \in Nat /\ \A j \in 1..c : j \in Nat
  OBVIOUS
<1>2. t = [j \in 1..c |-> ToolMsg(r, j)]
  BY DEF Results
<1> HIDE DEF t, c
<1>3. \A j \in 1..c : ToolMsg(r, j) \in Message
  BY <1>1, Messages
<1>4. t \in [1..c -> Message]
  BY <1>2, <1>3
<1>5. t \in Seq(Message)
  BY <1>1, <1>4, SeqDef
<1>6. DOMAIN t = 1..c /\ DOMAIN t = 1..Len(t) /\ Len(t) \in Nat
  BY <1>4, <1>5, LenProperties
<1>7. Len(t) = c
  BY <1>1, <1>6
<1>. QED
  BY <1>2, <1>5, <1>7 DEF t, c

(* A request and its results. *)
LEMMA WellFormedRound ==
    ASSUME NEW r \in Runs, iter \in [Runs -> Nat], calls[r] \in Nat
    PROVE  WellFormed(<<AssistantMsg(r, calls[r])>> \o Results(r))
<1> DEFINE c == calls[r]
           a == AssistantMsg(r, c)
           u == <<a>> \o Results(r)
<1>1. c \in Nat
  OBVIOUS
<1>2. /\ Results(r) \in Seq(Message) /\ Len(Results(r)) = c
      /\ \A j \in 1..c : Results(r)[j] = ToolMsg(r, j)
  BY ResultsShape
<1>3. a \in Message /\ a.run = r /\ a.role = "assistant" /\ a.iter = iter[r] /\ a.n = c
  <2> HIDE DEF c
  <2>1. QED BY <1>1, Messages
<1>4. \A j \in 1..c : [a EXCEPT !.role = "tool", !.n = j] = ToolMsg(r, j)
  BY ResultOf
<1>5. \A j \in 1..c : /\ ToolMsg(r, j).run = r /\ ToolMsg(r, j).role = "tool"
                      /\ ToolMsg(r, j).iter = iter[r] /\ ToolMsg(r, j).n = j
  BY DEF ToolMsg
<1> HIDE DEF c, a
<1>6. Len(u) = c + 1 /\ u[1] = a /\ \A j \in 1..c : u[1 + j] = ToolMsg(r, j)
  <2>1. <<a>> \in Seq(Message) /\ Len(<<a>>) = 1 /\ <<a>>[1] = a
    BY <1>3
  <2>2. Len(u) = 1 + c /\ \A i \in 1..(1 + c) : u[i] = IF i <= 1 THEN <<a>>[i] ELSE Results(r)[i - 1]
    BY <1>2, <2>1, ConcatProperties
  <2> HIDE DEF u
  <2>3. \A j \in 1..c : 1 + j \in 1..(1 + c) /\ ~(1 + j <= 1) /\ (1 + j) - 1 = j
    BY <1>1
  <2>4. 1 \in 1..(1 + c) /\ 1 <= 1 /\ 1 + c = c + 1
    BY <1>1
  <2>. QED
    BY <1>2, <2>1, <2>2, <2>3, <2>4
<1> HIDE DEF u
<1>7. AnsweredIn(u, 1)
  <2>1. \A j \in 1..c : 1 + j <= Len(u)
    BY <1>1, <1>6
  <2>2. u[1].n = c
    BY <1>3, <1>6
  <2>3. SUFFICES ASSUME NEW j \in 1..c
                 PROVE  1 + j <= Len(u) /\ u[1 + j] = [a EXCEPT !.role = "tool", !.n = j]
    BY <1>6, <2>2 DEF AnsweredIn
  <2>. QED
    BY <1>4, <1>6, <2>1
<1>8. ASSUME NEW j \in 1..c PROVE AsksIn(u, 1 + j)
  <2>1. u[1 + j] = ToolMsg(r, j) /\ (1 + j) - j = 1 /\ c >= j /\ 1 >= 1
    BY <1>1, <1>6, <1>8
  <2>. QED
    BY <1>3, <1>5, <1>6, <1>8, <2>1 DEF AsksIn
<1>9. SUFFICES ASSUME NEW i \in 1..Len(u)
               PROVE  /\ u[i].role = "assistant" => AnsweredIn(u, i)
                      /\ u[i].role = "tool" => AsksIn(u, i)
  BY WellFormedParts DEF u, a, c
<1>10. CASE i = 1
  BY <1>3, <1>6, <1>7, <1>10
<1>11. CASE i # 1
  <2>1. PICK j \in 1..c : i = 1 + j
    <3>1. i - 1 \in 1..c /\ i = 1 + (i - 1)
      BY <1>1, <1>6, <1>9, <1>11
    <3>. QED
      BY <3>1
  <2>. QED
    BY <1>5, <1>6, <1>8, <2>1
<1>. QED
  BY <1>10, <1>11

(* One run at a time: its transcript, without the request of an open batch, *)
(* is well-formed, and so are the part it has still to save and the store;  *)
(* during a save it is the store with what is still to come. All of it as   *)
(* long as the store has neither failed, dropped a message nor outgrown the *)
(* history a run reads.                                                     *)
First(s, p) == SubSeq(s, 1, p)
Rest(s, p)  == SubSeq(s, p + 1, Len(s))
Complete(r) == IF pc[r] = "tools" THEN First(messages[r], Len(messages[r]) - 1) ELSE messages[r]

StoreWhole == lost = {} /\ Untrimmed /\ ReadWhole
OneActive  == \A r, q \in Active : r = q

RunWellFormed(r) ==
    /\ WellFormed(Complete(r))
    /\ IF pc[r] \in Saving
       THEN WellFormed(conv \o Rest(messages[r], persisted[r]))
       ELSE WellFormed(Rest(Complete(r), persisted[r])) /\ WellFormed(conv)

RequestInv ==
    /\ OneActive
    /\ StoreWhole => /\ \A r \in Active : RunWellFormed(r)
                     /\ Active = {} => WellFormed(conv)

(* A transcript cut at p. *)
LEMMA CutAt ==
    ASSUME NEW s \in Seq(Message), NEW p \in 0..Len(s)
    PROVE  /\ First(s, p) \in Seq(Message) /\ Rest(s, p) \in Seq(Message)
           /\ Len(First(s, p)) = p /\ s = First(s, p) \o Rest(s, p)
<1>1. Len(s) \in Nat /\ \A i \in 1..Len(s) : s[i] \in Message
  BY LenProperties, ElementOfSeq
<1>2. p \in Nat /\ p <= Len(s) /\ \A i \in 1..p : s[i] \in Message
  BY <1>1
<1>3. \A i \in (p + 1)..Len(s) : s[i] \in Message
  BY <1>1, <1>2
<1>4. First(s, p) \in Seq(Message) /\ Len(First(s, p)) = IF 1 <= p THEN p - 1 + 1 ELSE 0
  BY <1>2, SubSeqProperties DEF First
<1>5. Len(First(s, p)) = p
  BY <1>2, <1>4
<1>6. Rest(s, p) \in Seq(Message)
  BY <1>1, <1>2, <1>3, SubSeqProperties DEF Rest
<1>7. /\ 1 \in 1..(Len(s) + 1) /\ p \in (1 - 1)..Len(s) /\ Len(s) \in p..Len(s)
  BY <1>1, <1>2
<1>8. First(s, p) \o Rest(s, p) = SubSeq(s, 1, Len(s))
  BY <1>7, ConcatAdjacentSubSeq DEF First, Rest
<1>9. SubSeq(s, 1, Len(s)) = s
  BY SubSeqFull
<1>. QED
  BY <1>4, <1>5, <1>6, <1>8, <1>9, Zenon

LEMMA CutOf ==
    ASSUME NEW h \in Seq(Message), NEW t \in Seq(Message)
    PROVE  First(h \o t, Len(h)) = h /\ Rest(h \o t, Len(h)) = t
<1> DEFINE s == h \o t
           p == Len(h)
<1>1. s \in Seq(Message) /\ Len(s) = Len(h) + Len(t) /\ Len(h) \in Nat /\ Len(t) \in Nat
  BY ConcatProperties, LenProperties
<1>2. \A i \in 1..Len(s) : s[i] = IF i <= Len(h) THEN h[i] ELSE t[i - Len(h)]
  BY <1>1, ConcatProperties
<1>3. p \in 0..Len(s)
  BY <1>1
<1> HIDE DEF s, p
<1>4. /\ First(s, p) \in Seq(Message) /\ Rest(s, p) \in Seq(Message)
      /\ Len(First(s, p)) = p /\ s = First(s, p) \o Rest(s, p)
  BY <1>1, <1>3, CutAt
<1>5. \A i \in 1..p : First(s, p)[i] = s[i]
  <2>1. /\ First(s, p) \in Seq(Message) /\ Rest(s, p) \in Seq(Message)
    BY <1>4
  <2>2. \A i \in 1..(Len(First(s, p)) + Len(Rest(s, p))) : s[i] =
            IF i <= Len(First(s, p)) THEN First(s, p)[i] ELSE Rest(s, p)[i - Len(First(s, p))]
    BY <1>4, <2>1, ConcatProperties
  <2>3. Len(Rest(s, p)) \in Nat /\ p \in Nat
    BY <1>1, <2>1, LenProperties DEF p
  <2>4. \A i \in 1..p : i \in 1..(p + Len(Rest(s, p))) /\ i <= p
    BY <2>3
  <2>. QED
    BY <1>4, <2>2, <2>4
<1>6. First(s, p) = h
  <2>1. \A i \in 1..p : h[i] = s[i]
    BY <1>1, <1>2 DEF p
  <2>2. Len(First(s, p)) = Len(h) /\ \A i \in 1..Len(First(s, p)) : First(s, p)[i] = h[i]
    BY <1>4, <1>5, <2>1 DEF p
  <2>. QED
    BY <1>4, <2>2, SeqEqual
<1>7. h \o Rest(s, p) = h \o t
  BY <1>4, <1>6 DEF s
<1>8. Rest(s, p) = t
  <2> DEFINE w == Rest(s, p)
  <2>1. w \in Seq(Message) /\ h \o w = h \o t
    BY <1>4, <1>7
  <2> HIDE DEF w
  <2>2. w = t
    BY <2>1, ConcatSimplifications, Zenon
  <2>. QED
    BY <2>2 DEF w
<1>. QED
  BY <1>6, <1>8 DEF s, p

LEMMA RestGrows ==
    ASSUME NEW s \in Seq(Message), NEW u \in Seq(Message), NEW p \in 0..Len(s)
    PROVE  Rest(s \o u, p) = Rest(s, p) \o u
<1>1. /\ First(s, p) \in Seq(Message) /\ Rest(s, p) \in Seq(Message)
      /\ Len(First(s, p)) = p /\ s = First(s, p) \o Rest(s, p)
  BY CutAt
<1>2. s \o u = First(s, p) \o (Rest(s, p) \o u)
  <2> DEFINE h == First(s, p)
             t == Rest(s, p)
  <2>1. h \in Seq(Message) /\ t \in Seq(Message) /\ s = h \o t
    BY <1>1
  <2> HIDE DEF h, t
  <2>2. (h \o t) \o u = h \o (t \o u)
    BY <2>1, ConcatAssociative
  <2>. QED
    BY <2>1, <2>2 DEF h, t
<1>3. Rest(s, p) \o u \in Seq(Message)
  BY <1>1, ConcatProperties
<1>4. Rest(First(s, p) \o (Rest(s, p) \o u), Len(First(s, p))) = Rest(s, p) \o u
  BY <1>1, <1>3, CutOf
<1>. QED
  BY <1>1, <1>2, <1>4

LEMMA RestShrinks ==
    ASSUME NEW s \in Seq(Message), NEW p \in Nat, p < Len(s)
    PROVE  /\ s[p + 1] \in Message /\ Rest(s, p + 1) \in Seq(Message)
           /\ Rest(s, p) = <<s[p + 1]>> \o Rest(s, p + 1)
<1>1. Len(s) \in Nat
  BY LenProperties
<1>2. p + 1 \in 1..Len(s) /\ p + 1 \in 0..Len(s) /\ Len(s) \in (p + 1)..Len(s)
  BY <1>1
<1>3. SubSeq(s, p + 1, Len(s)) = <<s[p + 1]>> \o SubSeq(s, (p + 1) + 1, Len(s))
  BY <1>2, SubSeqRecursiveFirst
<1>. QED
  BY <1>2, <1>3, CutAt, ElementOfSeq DEF Rest

LEMMA RestEmpty ==
    ASSUME NEW s \in Seq(Message)
    PROVE  Rest(s, Len(s)) = <<>>
<1>1. Len(s) \in Nat
  BY LenProperties
<1>2. Len(s) + 1 \in Int /\ Len(s) \in Int /\ Len(s) < Len(s) + 1
  BY <1>1
<1>. QED
  BY <1>2, SubSeqEmpty DEF Rest

(* A step of r, which no other run is beside: what is left to show. *)
LEMMA RunMoves ==
    ASSUME TranscriptTypes, RequestInv, NEW r \in Runs, r \in Active \/ Active = {},
           NEW l \in PCs, l # "new", pc' = [pc EXCEPT ![r] = l],
           StoreWhole' => IF l = "done" THEN WellFormed(conv') ELSE RunWellFormed(r)'
    PROVE  RequestInv'
<1>1. pc \in [Runs -> PCs]
  BY DEF TranscriptTypes
<1>2. \A q \in Active : q = r
  BY DEF RequestInv, OneActive
<1>3. \A q \in Runs : q # r => pc[q] \in {"new", "done"} /\ pc'[q] = pc[q]
  BY <1>1, <1>2 DEF Active
<1>4. pc'[r] = l
  BY <1>1
<1>5. \A q \in Active' : q = r
  BY <1>3 DEF Active
<1>6. l # "done" => r \in Active'
  BY <1>4 DEF Active
<1>7. l = "done" => Active' = {}
  BY <1>4, <1>5 DEF Active
<1>8. OneActive'
  BY <1>5 DEF OneActive
<1>. QED
  BY <1>5, <1>6, <1>7, <1>8 DEF RequestInv

(* What r has before its step. *)
LEMMA RunHas ==
    ASSUME RequestInv, NEW r \in Runs, pc[r] \notin {"new", "done"}, StoreWhole
    PROVE  RunWellFormed(r)
BY DEF RequestInv, Active

Thinking == {"prefetch", "llm", "fallback", "decide"}

(* The control moves between batches, or the run ends there. *)
LEMMA MoveRequest ==
    ASSUME TranscriptTypes, RequestInv, NEW r \in Runs, pc[r] \in Thinking,
           NEW l \in Thinking \cup {"done"}, pc' = [pc EXCEPT ![r] = l],
           UNCHANGED <<messages, persisted, conv, lost>>
    PROVE  RequestInv'
<1>1. r \in Active /\ l \in PCs /\ l # "new" /\ pc[r] \notin {"new", "done", "tools"} /\ pc[r] \notin Saving
  BY DEF Active, Thinking, PCs, Saving
<1>2. pc'[r] = l /\ l # "tools" /\ l \notin Saving
  BY DEF TranscriptTypes, Thinking, Saving
<1>3. ASSUME StoreWhole' PROVE WellFormed(conv') /\ (l # "done" => RunWellFormed(r)')
  <2>1. StoreWhole
    BY <1>3 DEF StoreWhole, Untrimmed, ReadWhole
  <2>2. /\ WellFormed(messages[r]) /\ WellFormed(Rest(messages[r], persisted[r])) /\ WellFormed(conv)
    BY <1>1, <2>1, RunHas DEF RunWellFormed, Complete
  <2>. QED
    BY <1>2, <2>2 DEF RunWellFormed, Complete
<1>. QED
  BY <1>1, <1>3, RunMoves

(* A response joins: an answer is to be saved, a request opens a batch. *)
LEMMA ResponseRequest ==
    ASSUME TranscriptTypes, RequestInv, NEW r \in Runs, pc[r] \in Thinking, NEW k \in 0..MaxCalls,
           NEW l \in {"saveEnd", "tools"}, l = "saveEnd" => k = 0, pc' = [pc EXCEPT ![r] = l],
           messages' = [messages EXCEPT ![r] = Append(@, AssistantMsg(r, k))],
           UNCHANGED <<persisted, conv, lost>>
    PROVE  RequestInv'
<1> DEFINE s == messages[r]
           p == persisted[r]
           a == AssistantMsg(r, k)
<1>1. r \in Active /\ l \in PCs /\ l \notin {"new", "done"} /\ pc[r] \notin {"new", "done", "tools"} /\ pc[r] \notin Saving
  BY DEF Active, Thinking, PCs, Saving
<1>2. s \in Seq(Message) /\ p \in 0..Len(s) /\ conv \in Seq(Message)
  <2>1. s \in Seq(Message) /\ p \in Nat /\ p <= Len(s) /\ Len(s) \in Nat
    BY RunValues
  <2>. QED
    BY <2>1 DEF TranscriptTypes
<1>3. a \in Message /\ a.role = "assistant" /\ a.n = k
  <2>1. iter \in [Runs -> Nat]
    BY DEF TranscriptTypes
  <2>2. k \in Nat
    BY LoopAssumption
  <2>. QED
    BY <2>1, <2>2, Messages
<1>4. pc'[r] = l /\ messages'[r] = Append(s, a) /\ persisted'[r] = p
  BY DEF TranscriptTypes
<1> HIDE DEF s, p, a
<1>5. Append(s, a) = s \o <<a>> /\ <<a>> \in Seq(Message)
  BY <1>2, <1>3, AppendIsConcat
<1>6. ASSUME StoreWhole' PROVE RunWellFormed(r)'
  <2>1. StoreWhole
    BY <1>6 DEF StoreWhole, Untrimmed, ReadWhole
  <2>2. /\ WellFormed(s) /\ WellFormed(Rest(s, p)) /\ WellFormed(conv)
    BY <1>1, <2>1, RunHas DEF RunWellFormed, Complete, s, p
  <2>3. CASE l = "tools"
    <3>1. First(s \o <<a>>, Len(s)) = s
      BY <1>2, <1>5, CutOf
    <3>2. Len(Append(s, a)) - 1 = Len(s)
      BY <1>2, <1>3
    <3>3. Complete(r)' = s
      BY <1>4, <1>5, <2>3, <3>1, <3>2 DEF Complete, First
    <3>. QED
      BY <1>4, <2>2, <2>3, <3>3 DEF RunWellFormed, Saving
  <2>4. CASE l = "saveEnd"
    <3>1. WellFormed(<<a>>)
      BY <1>3, <2>4, WellFormedSmall
    <3>2. Complete(r)' = s \o <<a>>
      BY <1>4, <1>5, <2>4 DEF Complete
    <3>3. Rest(s \o <<a>>, p) = Rest(s, p) \o <<a>> /\ Rest(s, p) \in Seq(Message)
      BY <1>2, <1>5, RestGrows, CutAt
    <3>4. WellFormed(s \o <<a>>) /\ WellFormed(Rest(s, p) \o <<a>>) /\ Rest(s, p) \o <<a>> \in Seq(Message)
      BY <1>2, <1>5, <2>2, <3>1, <3>3, WellFormedConcat, ConcatProperties
    <3>5. WellFormed(conv \o Rest(s \o <<a>>, p))
      BY <1>2, <2>2, <3>3, <3>4, WellFormedConcat
    <3>6. Rest(messages[r], persisted[r])' = Rest(s \o <<a>>, p)
      BY <1>4, <1>5 DEF Rest
    <3>. QED
      BY <1>4, <2>4, <3>2, <3>4, <3>5, <3>6 DEF RunWellFormed, Saving
  <2>. QED
    BY <2>3, <2>4
<1>. QED
  BY <1>1, <1>6, RunMoves

(* The results close the round. *)
LEMMA ResultsRequest ==
    ASSUME TranscriptInv, RequestInv, NEW r \in Runs, pc[r] = "tools",
           NEW l \in {"llm", "saveRound", "saveEnd", "done"}, pc' = [pc EXCEPT ![r] = l],
           messages' = [messages EXCEPT ![r] = @ \o Results(r)],
           UNCHANGED <<persisted, conv, lost>>
    PROVE  RequestInv'
<1> DEFINE s == messages[r]
           p == persisted[r]
           a == AssistantMsg(r, calls[r])
           n == Len(s) - 1
           c == First(s, n)
           u == <<a>> \o Results(r)
<1>T. TranscriptTypes
  BY DEF TranscriptInv
<1>1. r \in Active /\ l \in PCs /\ l \notin {"new", "tools"} /\ pc[r] \notin Saving
  BY DEF Active, PCs, Saving
<1>2. /\ s \in Seq(Message) /\ p \in Nat /\ p < Len(s) /\ Len(s) \in Nat /\ conv \in Seq(Message)
      /\ s[Len(s)] = a
  <2>1. s \in Seq(Message) /\ p \in Nat /\ Len(s) \in Nat
    BY <1>T, RunValues
  <2>2. p < Len(s) /\ s[Len(s)] = a
    BY DEF TranscriptInv, RunParts, Phases
  <2>. QED
    BY <1>T, <2>1, <2>2 DEF TranscriptTypes
<1>3. calls[r] \in Nat /\ iter \in [Runs -> Nat]
  BY <1>T, LoopAssumption DEF TranscriptTypes
<1>4. /\ WellFormed(u) /\ u \in Seq(Message) /\ Results(r) \in Seq(Message) /\ <<a>> \in Seq(Message)
  <2>1. a \in Message
    BY <1>3, Messages
  <2>2. Results(r) \in Seq(Message)
    BY <1>3, ResultsShape
  <2>3. WellFormed(u)
    BY <1>3, WellFormedRound
  <2> HIDE DEF a
  <2>4. <<a>> \in Seq(Message)
    BY <2>1
  <2>5. u \in Seq(Message)
    BY <2>2, <2>4, ConcatProperties
  <2>. QED
    BY <2>2, <2>3, <2>4, <2>5
<1>5. pc'[r] = l /\ messages'[r] = s \o Results(r) /\ persisted'[r] = p
  BY <1>T DEF TranscriptTypes
<1> HIDE DEF s, p, a
<1>6. n \in 0..Len(s) /\ n + 1 = Len(s) /\ n \in Nat /\ n < Len(s) /\ p \in 0..n
  BY <1>2
<1>7. c \in Seq(Message) /\ Len(c) = n /\ s = c \o <<a>>
  <2> HIDE DEF n, c
  <2>1. c \in Seq(Message) /\ Len(c) = n /\ s = c \o Rest(s, n)
    BY <1>2, <1>6, CutAt DEF c
  <2>2. Rest(s, n) = <<s[n + 1]>> \o Rest(s, n + 1)
    BY <1>2, <1>6, RestShrinks
  <2>3. Rest(s, n + 1) = <<>>
    BY <1>2, <1>6, RestEmpty
  <2>4. <<a>> \o <<>> = <<a>>
    BY <1>4, ConcatEmptySeq
  <2>5. Rest(s, n) = <<a>>
    BY <1>2, <1>6, <2>2, <2>3, <2>4
  <2>. QED
    BY <2>1, <2>5
<1>8. ASSUME pc[r] = "tools" PROVE Complete(r) = c
  BY <1>8 DEF Complete, s
<1> HIDE DEF n, c
<1>9. s \o Results(r) = c \o u
  BY <1>4, <1>7, ConcatAssociative DEF u
<1> HIDE DEF u
<1>10. ASSUME StoreWhole' PROVE IF l = "done" THEN WellFormed(conv') ELSE RunWellFormed(r)'
  <2>1. StoreWhole
    BY <1>10 DEF StoreWhole, Untrimmed, ReadWhole
  <2>2. /\ WellFormed(c) /\ WellFormed(Rest(c, p)) /\ WellFormed(conv)
    BY <1>1, <1>8, <2>1, RunHas DEF RunWellFormed, p
  <2>3. Rest(c \o u, p) = Rest(c, p) \o u /\ Rest(c, p) \in Seq(Message)
    BY <1>4, <1>6, <1>7, RestGrows, CutAt
  <2>4. WellFormed(c \o u) /\ WellFormed(Rest(c, p) \o u) /\ Rest(c, p) \o u \in Seq(Message)
    BY <1>4, <1>7, <2>2, <2>3, WellFormedConcat, ConcatProperties
  <2>5. WellFormed(conv \o Rest(c \o u, p))
    BY <1>2, <2>2, <2>3, <2>4, WellFormedConcat
  <2>6. Complete(r)' = c \o u
    BY <1>1, <1>5, <1>9 DEF Complete
  <2>7. Rest(messages[r], persisted[r])' = Rest(c \o u, p)
    BY <1>5, <1>9 DEF Rest
  <2>8. Rest(Complete(r), persisted[r])' = Rest(c \o u, p)
    BY <1>5, <2>6 DEF Rest
  <2>. QED
    BY <2>2, <2>3, <2>4, <2>5, <2>6, <2>7, <2>8 DEF RunWellFormed
<1>. QED
  BY <1>T, <1>1, <1>10, RunMoves

(* One message is saved: what was still to come begins with it. *)
LEMMA SaveRequest ==
    ASSUME TranscriptTypes, RequestInv, NEW r \in Runs, SaveMessage(r)
    PROVE  RequestInv'
<1> DEFINE s == messages[r]
           p == persisted[r]
           m == s[p + 1]
<1>1. /\ pc[r] \in Saving /\ p < Len(s) /\ UNCHANGED <<pc, messages>>
      /\ persisted' = [persisted EXCEPT ![r] = @ + 1]
      /\ \/ conv' = LastN(Append(conv, m), StoreMaxSize) /\ UNCHANGED lost
         \/ lost' = lost \cup {m}
  BY DEF SaveMessage, Saving
<1>2. s \in Seq(Message) /\ p \in Nat /\ Len(s) \in Nat /\ conv \in Seq(Message) /\ pc[r] \in PCs
  BY RunValues DEF TranscriptTypes
<1>3. /\ r \in Active /\ pc[r] \notin {"new", "done", "tools"} /\ pc' = [pc EXCEPT ![r] = pc[r]]
      /\ pc'[r] = pc[r] /\ messages'[r] = s /\ persisted'[r] = p + 1
  BY <1>1 DEF Active, Saving, TranscriptTypes
<1> HIDE DEF s, p
<1>4. m \in Message /\ Rest(s, p + 1) \in Seq(Message) /\ Rest(s, p) = <<m>> \o Rest(s, p + 1)
  BY <1>1, <1>2, RestShrinks
<1> HIDE DEF m
<1>5. ASSUME StoreWhole' PROVE RunWellFormed(r)'
  <2>1. conv' = LastN(Append(conv, m), StoreMaxSize) /\ lost = {}
    BY <1>1, <1>5 DEF StoreWhole
  <2>2. Append(conv, m) \in Seq(Message) /\ Len(Append(conv, m)) = Len(conv) + 1 /\ Len(conv) \in Nat
    BY <1>2, <1>4, AppendElements
  <2>3. conv' = Append(conv, m)
    BY <1>5, <2>1, <2>2, LastNElements, LoopAssumption DEF StoreWhole, Untrimmed
  <2>4. StoreWhole
    <3>1. Len(conv) + 1 < StoreMaxSize /\ Len(conv) + 1 <= ConversationSize
      BY <1>5, <2>2, <2>3 DEF StoreWhole, Untrimmed, ReadWhole
    <3>. QED
      BY <2>1, <2>2, <3>1, LoopAssumption DEF StoreWhole, Untrimmed, ReadWhole
  <2>5. WellFormed(s) /\ WellFormed(conv \o Rest(s, p))
    BY <1>1, <1>3, <2>4, RunHas DEF RunWellFormed, Complete, s, p
  <2>6. Append(conv, m) \o Rest(s, p + 1) = conv \o Rest(s, p)
    <3> DEFINE w == Rest(s, p + 1)
    <3>1. Append(conv, m) = conv \o <<m>> /\ <<m>> \in Seq(Message) /\ w \in Seq(Message)
      BY <1>2, <1>4, AppendIsConcat
    <3> HIDE DEF w
    <3>2. (conv \o <<m>>) \o w = conv \o (<<m>> \o w)
      BY <1>2, <3>1, ConcatAssociative
    <3>. QED
      BY <1>4, <3>1, <3>2 DEF w
  <2>7. Complete(r)' = s
    BY <1>3 DEF Complete
  <2>8. Rest(messages[r], persisted[r])' = Rest(s, p + 1)
    BY <1>3 DEF Rest
  <2>9. (conv \o Rest(messages[r], persisted[r]))' = conv \o Rest(s, p)
    BY <2>3, <2>6, <2>8
  <2>. QED
    BY <1>1, <1>3, <2>5, <2>7, <2>9 DEF RunWellFormed
<1>6. pc[r] # "new" /\ pc[r] # "done"
  BY <1>3
<1>. QED
  BY <1>2, <1>3, <1>5, <1>6, RunMoves

(* A save is done: the store has all that was to come. *)
LEMMA SavedRequest ==
    ASSUME TranscriptTypes, RequestInv, NEW r \in Runs, pc[r] \in Saving, persisted[r] = Len(messages[r]),
           NEW l \in {"llm", "saveEnd", "done"}, pc' = [pc EXCEPT ![r] = l],
           UNCHANGED <<messages, persisted, conv, lost>>
    PROVE  RequestInv'
<1> DEFINE s == messages[r]
           p == persisted[r]
<1>1. r \in Active /\ l \in PCs /\ l \notin {"new", "tools"} /\ pc[r] \notin {"new", "done", "tools"}
  BY DEF Active, PCs, Saving
<1>2. pc'[r] = l /\ s \in Seq(Message) /\ conv \in Seq(Message)
  BY DEF TranscriptTypes
<1>3. Rest(s, p) = <<>> /\ conv \o <<>> = conv
  BY <1>2, RestEmpty, ConcatEmptySeq
<1>4. ASSUME StoreWhole' PROVE WellFormed(conv') /\ RunWellFormed(r)'
  <2>1. StoreWhole
    BY <1>4 DEF StoreWhole, Untrimmed, ReadWhole
  <2>2. WellFormed(s) /\ WellFormed(conv \o Rest(s, p))
    BY <1>1, <2>1, RunHas DEF RunWellFormed, Complete
  <2>3. WellFormed(conv) /\ WellFormed(Rest(s, p))
    BY <1>3, <2>2, WellFormedSmall
  <2>4. Complete(r)' = s /\ Rest(messages[r], persisted[r])' = Rest(s, p) /\ conv' = conv
    BY <1>1, <1>2 DEF Complete, Rest
  <2>5. Rest(Complete(r), persisted[r])' = Rest(s, p)
    BY <2>4 DEF Rest
  <2> HIDE DEF s, p
  <2>. QED
    BY <2>2, <2>3, <2>4, <2>5 DEF RunWellFormed
<1>. QED
  BY <1>1, <1>4, RunMoves

(* A run starts when no other one is under way. *)
LEMMA FetchRequest ==
    ASSUME TranscriptTypes, RequestInv, Concurrent = FALSE, NEW r \in Runs, FetchConversationMessages(r)
    PROVE  RequestInv'
<1> DEFINE m == UserMsg(r)
<1>1. Active = {} /\ pc' = [pc EXCEPT ![r] = "prefetch"] /\ UNCHANGED <<conv, lost>>
  BY DEF FetchConversationMessages, Go, Goto, storeVars
<1>2. PICK h \in {LastN(conv, ConversationSize), <<>>} :
        /\ messages' = [messages EXCEPT ![r] = Append(h, m)]
        /\ persisted' = [persisted EXCEPT ![r] = Len(h)]
  BY DEF FetchConversationMessages
<1>3. conv \in Seq(Message) /\ h \in Seq(Message) /\ (ReadWhole => h \in {conv, <<>>})
  <2>1. conv \in Seq(Message) /\ ConversationSize \in Nat
    BY LoopAssumption DEF TranscriptTypes
  <2>2. LastN(conv, ConversationSize) \in Seq(Message) /\ (ReadWhole => LastN(conv, ConversationSize) = conv)
    BY <2>1, LastNElements DEF ReadWhole
  <2>3. <<>> \in Seq(Message)
    BY EmptySeq
  <2>. QED
    BY <1>2, <2>1, <2>2, <2>3
<1>4. m \in Message /\ WellFormed(<<m>>) /\ <<m>> \in Seq(Message)
  <2>1. iter \in [Runs -> Nat] /\ 0 \in Nat
    BY DEF TranscriptTypes
  <2>2. m \in Message /\ m.role = "user"
    BY <2>1, Messages
  <2> HIDE DEF m
  <2>. QED
    BY <2>2, WellFormedSmall
<1>5. pc'[r] = "prefetch" /\ messages'[r] = Append(h, m) /\ persisted'[r] = Len(h)
  BY <1>1, <1>2 DEF TranscriptTypes
<1> HIDE DEF m
<1>6. Append(h, m) = h \o <<m>> /\ Rest(h \o <<m>>, Len(h)) = <<m>>
  BY <1>3, <1>4, AppendIsConcat, CutOf
<1>7. ASSUME StoreWhole' PROVE RunWellFormed(r)'
  <2>1. StoreWhole /\ ReadWhole
    BY <1>1, <1>7 DEF StoreWhole, Untrimmed, ReadWhole
  <2>2. WellFormed(conv) /\ WellFormed(h)
    BY <1>1, <1>3, <2>1, WellFormedSmall DEF RequestInv
  <2>3. WellFormed(h \o <<m>>)
    BY <1>3, <1>4, <2>2, WellFormedConcat
  <2>4. Complete(r)' = h \o <<m>>
    BY <1>5, <1>6 DEF Complete
  <2>5. Rest(Complete(r), persisted[r])' = <<m>>
    BY <1>5, <1>6, <2>4 DEF Rest
  <2>. QED
    BY <1>1, <1>4, <1>5, <2>2, <2>3, <2>4, <2>5 DEF RunWellFormed, Saving
<1>8. "prefetch" \in PCs
  BY DEF PCs
<1>. QED
  BY <1>1, <1>7, <1>8, RunMoves

LEMMA StillRequest ==
    ASSUME RequestInv, UNCHANGED <<pc, messages, persisted, conv, lost>>
    PROVE  RequestInv'
<1>1. Active' = Active /\ OneActive' /\ StoreWhole' = StoreWhole
  BY DEF RequestInv, Active, OneActive, StoreWhole, Untrimmed, ReadWhole
<1>2. \A r \in Runs : RunWellFormed(r)' <=> RunWellFormed(r)
  <2>1. SUFFICES ASSUME NEW r \in Runs PROVE RunWellFormed(r)' <=> RunWellFormed(r)
    OBVIOUS
  <2>2. Complete(r)' = Complete(r)
    BY DEF Complete, First
  <2>3. /\ Rest(messages[r], persisted[r])' = Rest(messages[r], persisted[r])
        /\ Rest(Complete(r), persisted[r])' = Rest(Complete(r), persisted[r])
    BY <2>2 DEF Rest
  <2>. QED
    BY <2>2, <2>3 DEF RunWellFormed
<1>. QED
  BY <1>1, <1>2 DEF RequestInv, Active

LEMMA LoopRequest ==
    ASSUME TranscriptInv, RequestInv, NEW r \in Runs, LoopStep(r)
    PROVE  RequestInv'
<1>T. TranscriptTypes
  BY DEF TranscriptInv
<1>1. ASSUME Prefetch(r) \/ LLMFails(r), NEW l \in Thinking \cup {"done"}, pc' = [pc EXCEPT ![r] = l]
      PROVE  RequestInv'
  <2>1. pc[r] \in Thinking /\ UNCHANGED <<messages, persisted, conv, lost>>
    BY <1>1 DEF Prefetch, LLMFails, invokeLLM, storeVars, Thinking
  <2>. QED
    BY <1>T, <1>1, <2>1, MoveRequest
<1>2. CASE Prefetch(r) \/ LLMFails(r)
  <2>1. \E l \in Thinking \cup {"done"} : pc' = [pc EXCEPT ![r] = l]
    BY <1>2 DEF Prefetch, LLMFails, Go, End, Goto, Thinking
  <2>. QED
    BY <1>1, <1>2, <2>1
<1>3. CASE LLMReturns(r)
  <2>1. pc[r] \in Thinking /\ UNCHANGED <<persisted, conv, lost>>
    BY <1>3 DEF LLMReturns, LLMResponds, invokeLLM, storeVars, Thinking
  <2>2. PICK k \in 0..MaxCalls :
          \/ BudgetStop(r) /\ UNCHANGED messages
          \/ k = 0 /\ Answer(r)
          \/ Go(r, "decide") /\ UNCHANGED messages
          \/ StartBatch(r, k)
    BY <1>3 DEF LLMReturns
  <2>3. CASE BudgetStop(r) /\ UNCHANGED messages
    BY <1>T, <2>1, <2>3, MoveRequest DEF BudgetStop, End, Goto
  <2>4. CASE k = 0 /\ Answer(r)
    BY <1>T, <2>1, <2>2, <2>4, ResponseRequest DEF Answer, Go, Goto
  <2>5. CASE Go(r, "decide") /\ UNCHANGED messages
    BY <1>T, <2>1, <2>5, MoveRequest DEF Go, Goto, Thinking
  <2>6. CASE StartBatch(r, k)
    BY <1>T, <2>1, <2>2, <2>6, ResponseRequest DEF StartBatch, Go, Goto
  <2>. QED
    BY <2>2, <2>3, <2>4, <2>5, <2>6
<1>4. CASE FinalLLMReturns(r)
  <2>1. pc[r] \in Thinking /\ UNCHANGED <<persisted, conv, lost>>
    BY <1>4 DEF FinalLLMReturns, invokeLLM, storeVars, Thinking
  <2>2. CASE BudgetStop(r) /\ UNCHANGED messages
    BY <1>T, <2>1, <2>2, MoveRequest DEF BudgetStop, End, Goto
  <2>3. CASE Answer(r)
    <3>1. 0 \in 0..MaxCalls
      BY LoopAssumption
    <3>. QED
      BY <1>T, <2>1, <2>3, <3>1, ResponseRequest DEF Answer, Go, Goto
  <2>. QED
    BY <1>4, <2>2, <2>3 DEF FinalLLMReturns
<1>5. CASE DecideMaxIterations(r)
  <2>1. pc[r] \in Thinking /\ UNCHANGED <<persisted, conv, lost>> /\ calls[r] \in 0..MaxCalls
    BY <1>5, <1>T DEF DecideMaxIterations, storeVars, Thinking, TranscriptTypes
  <2>2. CASE StartBatch(r, calls[r])
    BY <1>T, <2>1, <2>2, ResponseRequest DEF StartBatch, Go, Goto
  <2>3. CASE Go(r, "llm") /\ UNCHANGED messages
    BY <1>T, <2>1, <2>3, MoveRequest DEF Go, Goto, Thinking
  <2>. QED
    BY <1>5, <2>2, <2>3 DEF DecideMaxIterations
<1>6. CASE CollectResults(r)
  <2>1. /\ pc[r] = "tools" /\ UNCHANGED <<persisted, conv, lost>>
        /\ messages' = [messages EXCEPT ![r] = @ \o Results(r)]
    BY <1>6 DEF CollectResults, BatchOver, storeVars
  <2>2. \E l \in {"llm", "saveRound", "saveEnd", "done"} : pc' = [pc EXCEPT ![r] = l]
    BY <1>6 DEF CollectResults, BudgetStop, NextIteration, Go, End, Goto
  <2>. QED
    BY <2>1, <2>2, ResultsRequest
<1>7. CASE SaveMessage(r)
  BY <1>T, <1>7, SaveRequest
<1>8. CASE SaveRoundDone(r) \/ RunCompletes(r)
  <2>1. pc[r] \in Saving /\ persisted[r] = Len(messages[r]) /\ UNCHANGED <<messages, persisted, conv, lost>>
    BY <1>8 DEF SaveRoundDone, RunCompletes, storeVars, Saving
  <2>2. \E l \in {"llm", "saveEnd", "done"} : pc' = [pc EXCEPT ![r] = l]
    BY <1>8 DEF SaveRoundDone, RunCompletes, NextIteration, Go, End, Goto
  <2>. QED
    BY <1>T, <2>1, <2>2, SavedRequest
<1>. QED
  BY <1>2, <1>3, <1>4, <1>5, <1>6, <1>7, <1>8 DEF LoopStep

LEMMA NextRequest ==
    ASSUME Concurrent = FALSE
    PROVE  TranscriptInv /\ RequestInv /\ [Next]_vars => RequestInv'
<1> SUFFICES ASSUME TranscriptInv, RequestInv, [Next]_vars PROVE RequestInv'
  OBVIOUS
<1>1. CASE UNCHANGED vars
  BY <1>1, StillRequest DEF vars
<1>2. ASSUME NEW r \in Runs, FetchConversationMessages(r) \/ LoopStep(r) PROVE RequestInv'
  BY <1>2, FetchRequest, LoopRequest DEF TranscriptInv
<1>3. ASSUME NEW r \in Runs, NEW i \in 1..MaxCalls, ToolAction(r, i) PROVE RequestInv'
  BY <1>3, StillRequest DEF ToolAction, ToolStart, ToolAuthorize, ToolApproval, ToolExecute, ToolStep, storeVars
<1>. QED
  BY <1>1, <1>2, <1>3 DEF Next

LEMMA InitRequest == Init => RequestInv
<1> SUFFICES ASSUME Init PROVE RequestInv
  OBVIOUS
<1>1. Active = {} /\ conv = <<>>
  BY DEF Init, Active
<1>. QED
  BY <1>1, WellFormedSmall DEF RequestInv, OneActive

(* In a session of one run at a time, every LLM call is made with a         *)
(* well-formed transcript, however earlier runs ended and however rounds    *)
(* were saved, as long as the store has failed at nothing, dropped nothing, *)
(* and a run reads all of it (AgentLoop.RequestWellFormed).                 *)
THEOREM RequestsWellFormed ==
    ASSUME Concurrent = FALSE
    PROVE  Spec => [](Untrimmed /\ ReadWhole => RequestWellFormed)
<1>1. RequestInv => (Untrimmed /\ ReadWhole => RequestWellFormed)
  <2>1. SUFFICES ASSUME RequestInv, Untrimmed, ReadWhole, NEW r \in Runs, pc[r] \in {"llm", "fallback"}, lost = {}
                 PROVE  WellFormed(messages[r])
    BY DEF RequestWellFormed
  <2>2. RunWellFormed(r)
    BY <2>1, RunHas DEF StoreWhole
  <2>. QED
    BY <2>1, <2>2 DEF RunWellFormed, Complete
<1>2. Init => TranscriptInv /\ RequestInv
  BY InitTranscript, InitRequest
<1>3. (TranscriptInv /\ RequestInv) /\ [Next]_vars => (TranscriptInv /\ RequestInv)'
  BY NextTranscript, NextRequest
<1>. QED
  BY <1>1, <1>2, <1>3, PTL DEF Spec
=============================================================================
