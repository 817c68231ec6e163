---------------------------- MODULE RestateLoop -----------------------------
(***************************************************************************)
(* The agent loop as a Restate handler (internal/runtime/restate/          *)
(* agent_loop.go, subagent.go): one root run, at work in one attempt after *)
(* another. Every operation of the handler is an entry of the invocation's *)
(* journal; an attempt that starts over reads the entries of the one that  *)
(* died before it adds to them. The handler is written as the plan of the  *)
(* operations it still has to do, so that an attempt is a function of what *)
(* it read. External, as the code uses it: the journal, awakeables, timers *)
(* and the cancel signal, which fails the one operation that waits when it *)
(* arrives and leaves the others alone.                                    *)
(***************************************************************************)
EXTENDS BudgetTracker, ToolBreaker

CONSTANTS
    Usages,        \* usages an LLM call or a child's run can report, NoUsage
                   \* for one that reports none
    MaxCallTokens, \* most tokens of one such report
    MaxIter,       \* Limits.MaxIterations
    Extra,         \* ExtraIterations the hook grants; 0 = final call
    SubAttempts,   \* MaxAttempts of the sub-agent policy
    HasResolver,   \* WithToolsResolver
    HasFallback,   \* OnLLMFailure may ask for a resolvable fallback model
    MaxLoopFaults  \* bound: steps that fail, attempts that die, cancel requests

ASSUME RestateLoopAssumption ==
    /\ Usages \subseteq LLMUsage
    /\ MaxCallTokens \in Nat /\ \A u \in Usages : u.total <= MaxCallTokens
    /\ MaxIter \in Nat \ {0} /\ Extra \in Nat /\ SubAttempts \in Nat \ {0}
    /\ {HasResolver, HasFallback} \subseteq BOOLEAN
    /\ MaxLoopFaults \in Nat

(* The tools of the run: one that needs an approval, and a sub-agent. A     *)
(* model asks for none, for the first alone, or for both.                   *)
Native == "native"
Child == "child"
Batches == {"answer", "one", "both"}

VARIABLES
    journal,    \* the entries of the invocation
    pos,        \* entries the attempt has read or written
    loc,        \* locals of the attempt; loc.plan is what it still has to do
    ran,        \* result of a step's function that is not in the journal yet
    stashed,    \* rt.tools.stash has the run's entry
    status,     \* of the invocation
    cancel,     \* the cancel signal
    eventLog,   \* AgentEventLog of the run
    awk,        \* awk[n]: the n-th awakeable
    toolRuns, crashes

outside == <<stashed, status, toolRuns, crashes>>
loopVars == <<journal, pos, loc, ran, cancel, eventLog, awk, outside>>

None == "none"
Op(k, t) == <<k, t>>
Entry(l, v, u) == [op |-> Head(l.plan) \o <<l.iter>>, val |-> v, usage |-> u]

(* A result without usage charges nothing.                                  *)
NoUsage == [total |-> 0, prompt |-> 0, completion |-> 0]
Reported(v, good) == IF v \in good THEN Usages ELSE {NoUsage}

Iteration == <<Op("now", None), Op("llm", None)>>
RunEnd == <<Op("save", None), Op("store", None)>>
RoundEnd == <<Op("results", None), Op("cb", None), Op("save", None), Op("next", None)>>

NotStarted == [plan |-> <<Op("handle", None)>>, iter |-> 0]

(* AgentLoopInput and the locals of executeAgentLoop.                       *)
NewLoop(tools) ==
    [plan |-> <<Op("load", None), Op("prefetch", None)>> \o Iteration, iter |-> 0, max |-> MaxIter, extended |-> FALSE,
     fallback |-> FALSE, batch |-> "answer", tools |-> tools, now |-> 0, breaker |-> NewToolState,
     failed |-> {}, used |-> NoUsage, tries |-> 0, tracker |-> NewBudgetTracker]

LoopInit ==
    /\ journal = <<>> /\ pos = 0 /\ loc = NotStarted /\ ran = None
    /\ stashed = TRUE /\ status = "running" /\ cancel = 0 /\ eventLog = <<>> /\ awk = <<>>
    /\ toolRuns = 0 /\ crashes = 0

At(k) == status = "running" /\ loc.plan # <<>> /\ Head(loc.plan)[1] = k
T == Head(loc.plan)[2]
Then(l) == [l EXCEPT !.plan = Tail(@)]
Replaying == pos < Len(journal)

(* An operation of the handler: its entry is read, or a new one is written  *)
(* with one of the results S it can have now, the cancel signal among them, *)
(* and the usage u its result reports.                                      *)
JournaledWith(u, v, S) ==
    /\ pos' = pos + 1
    /\ \/ Replaying /\ journal[pos + 1] = Entry(loc, v, u) /\ UNCHANGED <<journal, cancel>>
       \/ /\ ~Replaying /\ v \in S \cup (IF cancel > 0 THEN {"cancelled"} ELSE {})
          /\ journal' = Append(journal, Entry(loc, v, u))
          /\ cancel' = IF v = "cancelled" THEN cancel - 1 ELSE cancel

Journaled(v, S) == JournaledWith(NoUsage, v, S)

Setbacks == {"error", "denied", "cancelled"}
Faults ==
    crashes + cancel + (IF ran = "error" THEN 1 ELSE 0)
    + Cardinality({i \in 1..Len(journal) : journal[i].val \in Setbacks})
May(S) == IF Faults < MaxLoopFaults THEN S ELSE {}

(* Mutant of emitEvent: published from the handler through the ingress.     *)
emitThroughIngress(e) ==
    /\ \E v \in {"ok", "cancelled"} : Journaled(v, {"ok"})
    /\ eventLog' = Append(eventLog, e)

(* emitEvent: the call of Publish is an entry like the others. Its failure  *)
(* is logged; whether the event got through before the signal is open.      *)
emitEvent(e) ==
    \E v \in {"ok", "cancelled"} :
       /\ Journaled(v, {"ok"})
       /\ eventLog' \in IF Replaying THEN {eventLog}
                   ELSE {Append(eventLog, e)} \cup (IF v = "cancelled" THEN {eventLog} ELSE {})

Fails(l, why) == [l EXCEPT !.plan = <<Op("fail", why)>>]
-----------------------------------------------------------------------------
(* Mutant of resolveTools: only the process that sent the run has tools.    *)
resolveStashed == IF stashed THEN {Native, Child} ELSE {}

(* The stash of the process that sent the run, else the resolver.           *)
resolveTools == IF stashed \/ HasResolver THEN {Native, Child} ELSE {}

handle ==
    /\ At("handle")
    /\ loc' = NewLoop(resolveTools) /\ pos' = 0
    /\ UNCHANGED <<journal, ran, cancel, eventLog, awk, outside>>

(* conversation-load: a failure is logged, the loop goes on without.        *)
FetchConversation ==
    /\ At("load")
    /\ \E v \in {"over", "cancelled"} : Journaled(v, {"over"})
    /\ loc' = Then(loc)
    /\ UNCHANGED <<ran, eventLog, awk, outside>>

(* memory-recall, retriever-prefetch: without them there is no run.         *)
Prefetch ==
    /\ At("prefetch")
    /\ \E v \in {"ok", "error", "cancelled"} :
          /\ Journaled(v, {"ok"} \cup May({"error"}))
          /\ loc' = IF v = "ok" THEN Then(loc) ELSE Fails(loc, "error")
    /\ UNCHANGED <<ran, eventLog, awk, outside>>

(* cb-now, message-id: the clock and the ids of an iteration are entries.   *)
(* Whether time passed matters only to a breaker that has tripped.          *)
IterationBegins ==
    /\ At("now")
    /\ \E v \in {"soon", "later", "cancelled"} :
          /\ Journaled(v, IF loc.breaker.tripped THEN {"soon", "later"} ELSE {"soon"})
          /\ loc' = IF v = "cancelled" THEN Fails(loc, "error")
                    ELSE [Then(loc) EXCEPT !.now = IF v = "later" THEN @ + ResetAfter ELSE @]
    /\ UNCHANGED <<ran, eventLog, awk, outside>>

(* A step's function: it runs before its entry is written, and runs again   *)
(* when the attempt dies in between. A streamed answer publishes its tokens *)
(* from inside the function, through the ingress.                           *)
LLMCalled ==
    /\ At("llm") \/ At("llm-fallback")
    /\ ~Replaying /\ ran = None
    /\ ran' \in (IF T = "final" THEN {"answer"} ELSE Batches) \cup May({"error"})
    /\ eventLog' = Append(eventLog, <<"token", None, loc.iter>>)
    /\ UNCHANGED <<journal, pos, loc, cancel, awk, outside>>

(* checkBudget: usage is added, and a breach makes the loop ask or stop.    *)
(* There is no check of ApprovalsExhausted.                                 *)
handleBudgetExceeded(l) ==
    IF OnExceeded = "wait_for_approval"
    THEN [l EXCEPT !.plan = <<Op("budget-ask", None), Op("budget-wait", None)>> \o @]
    ELSE Fails(l, "budget")

(* Mutant of checkBudget: the limit is looked at before the usage is added. *)
checkBudgetEarly(l, u) ==
    LET added == [l EXCEPT !.tracker = Add(@, u)]
    IN  IF checkLimits(l.tracker) THEN handleBudgetExceeded(added) ELSE added

checkBudget(l, u) ==
    LET added == [l EXCEPT !.tracker = Add(@, u)]
    IN  IF checkLimits(added.tracker) THEN handleBudgetExceeded(added) ELSE added

Skipped(l, t) == t \notin l.tools \/ (t = Native /\ IsTripped(l.breaker, l.now))
RunOps(t) ==
    IF t = Native THEN <<Op("exec", t)>>
    ELSE <<Op("step", t), Op("child-id", t), Op("delegate", t), Op("stepped", t)>>
AskOps(t) == IF t = Native THEN <<Op("ask", t), Op("wait", t)>> ELSE <<>>
End(t) == <<Op("end", t)>>

executeSingleTool(l, t) ==
    <<Op("start", t)>> \o (IF Skipped(l, t) THEN <<>> ELSE <<Op("auth", t)>> \o AskOps(t) \o RunOps(t))
        \o End(t)

(* Both tools: all starts, the ones that are skipped, the authorizations,   *)
(* the approvals, the native tool, and the sub-agent at the end.            *)
executeToolsParallel(l) ==
    LET Of(t, ops) == IF Skipped(l, t) THEN <<>> ELSE ops
        SkippedEnd(t) == IF Skipped(l, t) THEN End(t) ELSE <<>>
    IN  <<Op("start", Native), Op("start", Child)>> \o SkippedEnd(Native) \o SkippedEnd(Child)
        \o Of(Native, <<Op("auth", Native)>>) \o Of(Child, <<Op("auth", Child)>>)
        \o Of(Native, AskOps(Native) \o RunOps(Native) \o End(Native))
        \o Of(Child, RunOps(Child) \o End(Child))

Dispatch(l) ==
    [l EXCEPT !.plan = (IF l.batch = "one" THEN executeSingleTool(l, Native)
                        ELSE executeToolsParallel(l)) \o RoundEnd]

AfterLLM(l, b, u) ==
    LET c == [l EXCEPT !.batch = b]
    IN  checkBudget(IF b = "answer" THEN [c EXCEPT !.plan = RunEnd]
                    ELSE IF l.iter = l.max - 1 THEN [c EXCEPT !.plan = <<Op("max-iter", None)>>]
                    ELSE Dispatch(c), u)

After(l, b, u) ==
    IF T = "final" THEN checkBudget([l EXCEPT !.plan = RunEnd], u) ELSE AfterLLM(l, b, u)

(* executeLLMStepWithErrorControl, of an iteration and of the final call.   *)
(* The usage of the result is chosen with its entry: nothing reads it before. *)
executeLLMStep ==
    /\ At("llm") /\ (Replaying \/ ran # None \/ cancel > 0)
    /\ \E v \in Batches \cup {"error", "cancelled"} : \E u \in Reported(v, Batches) :
          /\ JournaledWith(u, v, {ran} \ {None})
          /\ loc' = IF v \in Batches THEN After(loc, v, u)
                    ELSE IF loc.fallback THEN Fails(loc, "error")
                    ELSE [loc EXCEPT !.plan = <<Op("llm-failure", T)>>]
    /\ ran' = None
    /\ UNCHANGED <<eventLog, awk, outside>>

DecideLLMFailure ==
    /\ At("llm-failure")
    /\ \E v \in {"abort", "fallback", "cancelled"} :
          /\ Journaled(v, IF HasFallback THEN {"abort", "fallback"} ELSE {"abort"})
          /\ loc' = IF v = "fallback" THEN [loc EXCEPT !.plan = <<Op("llm-fallback", T)>>]
                    ELSE Fails(loc, "error")
    /\ UNCHANGED <<ran, eventLog, awk, outside>>

FallbackStep ==
    /\ At("llm-fallback")
    /\ \E v \in Batches \cup {"error", "cancelled"} : \E u \in Reported(v, Batches) :
          /\ JournaledWith(u, v, {ran} \ {None})
          /\ loc' = IF v \in Batches THEN After([loc EXCEPT !.fallback = TRUE], v, u)
                    ELSE Fails(loc, "error")
    /\ ran' = None
    /\ UNCHANGED <<eventLog, awk, outside>>

(* One extension at most; otherwise a last call without tools.              *)
DecideMaxIterations ==
    /\ At("max-iter")
    /\ \E v \in {"extend", "final", "cancelled"} :
          /\ Journaled(v, IF loc.extended \/ Extra = 0 THEN {"final"} ELSE {"extend", "final"})
          /\ loc' = CASE v = "extend" -> Dispatch([loc EXCEPT !.max = @ + Extra, !.extended = TRUE])
                      [] v = "final"  -> [loc EXCEPT !.plan = <<Op("llm", "final")>>]
                      [] OTHER        -> Fails(loc, "error")
    /\ UNCHANGED <<ran, eventLog, awk, outside>>
-----------------------------------------------------------------------------
(* awaitBudgetApproval: an awakeable, its event, and the wait for it or for *)
(* the timer. Only an approval lets the run go on.                          *)
Ask(e) ==
    /\ emitEvent(e)
    /\ awk' = IF Replaying THEN awk ELSE Append(awk, "open")
    /\ loc' = Then(loc)
    /\ UNCHANGED <<ran, outside>>

Answers == {"timedOut"} \cup (IF awk # <<>> THEN {awk[Len(awk)]} \ {"open"} ELSE {})

awaitBudgetApproval ==
    \/ At("budget-ask") /\ Ask(<<"budget", None, Len(awk) + 1>>)
    \/ /\ At("budget-wait")
       /\ \E v \in {"approved", "rejected", "timedOut", "cancelled"} :
             /\ Journaled(v, Answers)
             /\ loc' = IF v = "approved" THEN [Then(loc) EXCEPT !.tracker = AdvanceWatermark(@)]
                       ELSE Fails(loc, "budget")
       /\ UNCHANGED <<ran, eventLog, awk, outside>>

emitToolStart ==
    /\ At("start") /\ emitEvent(<<"start", T, loc.iter>>)
    /\ loc' = Then(loc) /\ UNCHANGED <<ran, awk, outside>>

(* What is left to do without the operations of t.                          *)
Without(l, t) ==
    LET rest == Tail(l.plan)
        kept[i \in 0..Len(rest)] ==
            IF i = 0 THEN <<>>
            ELSE IF rest[i][2] # t THEN Append(kept[i - 1], rest[i]) ELSE kept[i - 1]
    IN  kept[Len(rest)]

(* writeResult of the parallel path: the tool is over, with its end event.  *)
writeResult(l, t, failed) ==
    [l EXCEPT !.plan = End(t) \o Without(l, t), !.failed = IF failed THEN @ \cup {t} ELSE @]

(* An error of the sequential path leaves the tool without its end event.   *)
ToolFails(l, t) ==
    IF l.batch = "one" THEN [l EXCEPT !.plan = Without(l, t), !.failed = @ \cup {t}]
    ELSE writeResult(l, t, TRUE)

AuthorizeTool ==
    /\ At("auth")
    /\ \E v \in {"allowed", "denied", "error", "cancelled"} :
          /\ Journaled(v, {"allowed"} \cup May({"denied", "error"}))
          /\ loc' = CASE v = "allowed" -> Then(loc)
                      [] v = "denied"  -> writeResult(loc, T, FALSE)
                      [] OTHER         -> ToolFails(loc, T)
    /\ UNCHANGED <<ran, eventLog, awk, outside>>

emitApprovalRequest == At("ask") /\ Ask(<<"ask", T, loc.iter>>)

awaitApproval ==
    /\ At("wait")
    /\ \E v \in {"approved", "rejected", "timedOut", "cancelled"} :
          /\ Journaled(v, Answers)
          /\ loc' = CASE v = "approved"  -> Then(loc)
                      [] v = "cancelled" -> ToolFails(loc, T)
                      [] OTHER           -> writeResult(loc, T, FALSE)
    /\ UNCHANGED <<ran, eventLog, awk, outside>>

(* ExecuteTool runs, and its result becomes an entry.                       *)
ToolCalled ==
    /\ At("exec") /\ ~Replaying /\ ran = None
    /\ ran' \in {"ok"} \cup May({"error"}) /\ toolRuns' = toolRuns + 1
    /\ UNCHANGED <<journal, pos, loc, cancel, eventLog, awk, stashed, status, crashes>>

ToolReturns ==
    /\ At("exec")
    /\ \E v \in {"ok", "error", "cancelled"} :
          /\ Journaled(v, {ran} \ {None})
          /\ loc' = [Then(loc) EXCEPT !.failed = IF v = "ok" THEN @ ELSE @ \cup {T}]
    /\ ran' = None
    /\ UNCHANGED <<eventLog, awk, outside>>

(* delegateToSubAgent: step events around one call after another of the     *)
(* child's service, each with a run id of its own, until one succeeds or    *)
(* the attempts are used up; a failure of the call is the content of the    *)
(* result, not an error of the tool. No pause between the attempts.         *)
StepEvent ==
    /\ \/ At("step") /\ emitEvent(<<"step", T, loc.iter>>)
       \/ At("stepped") /\ emitEvent(<<"stepped", T, loc.iter>>)
    /\ loc' = Then(loc)
    /\ UNCHANGED <<ran, awk, outside>>

ChildRunID ==
    /\ At("child-id")
    /\ \E v \in {"ok", "cancelled"} :
          /\ Journaled(v, {"ok"})
          /\ loc' = IF v = "ok" THEN Then(loc)
                    ELSE [loc EXCEPT !.plan = Tail(Tail(@)), !.failed = @ \cup {T}, !.tries = 0]
    /\ UNCHANGED <<ran, eventLog, awk, outside>>

delegateToSubAgent ==
    /\ At("delegate")
    /\ \E v \in {"ok", "error", "cancelled"} : \E u \in Reported(v, {"ok"}) :
          /\ JournaledWith(u, v, {"ok"} \cup May({"error"}))
          /\ loc' = IF v = "ok" THEN [Then(loc) EXCEPT !.used = u, !.tries = 0]
                    ELSE IF loc.tries + 1 < SubAttempts THEN [loc EXCEPT !.plan = <<Op("child-id", T)>> \o @, !.tries = @ + 1]
                    ELSE [Then(loc) EXCEPT !.tries = 0]
    /\ UNCHANGED <<ran, eventLog, awk, outside>>

emitToolComplete ==
    /\ At("end") /\ emitEvent(<<"end", T, loc.iter>>)
    /\ loc' = Then(loc) /\ UNCHANGED <<ran, awk, outside>>

(* The results in call order: the breaker, then the usage of a sub-agent.   *)
CollectResults ==
    /\ At("results")
    /\ LET counted == [Then(loc) EXCEPT
                          !.breaker = ApplyToolCircuitResult(AfterReset(@, loc.now), Native \in loc.tools,
                                                             1, Native \in loc.failed, loc.now),
                          !.failed = {}, !.used = NoUsage]
       IN  loc' = IF loc.used # NoUsage THEN checkBudget(counted, loc.used) ELSE counted
    /\ UNCHANGED <<journal, pos, ran, cancel, eventLog, awk, outside>>

BreakerSnapshot ==
    /\ At("cb")
    /\ \E v \in {"ok", "cancelled"} :
          /\ Journaled(v, {"ok"})
          /\ loc' = IF v = "ok" THEN Then(loc) ELSE Fails(loc, "error")
    /\ UNCHANGED <<ran, eventLog, awk, outside>>

(* persistConversationMessages and the run-end memory store: failures are   *)
(* logged.                                                                  *)
persistConversationMessages ==
    /\ At("save") \/ At("store")
    /\ \E v \in {"over", "cancelled"} : Journaled(v, {"over"})
    /\ loc' = Then(loc)
    /\ UNCHANGED <<ran, eventLog, awk, outside>>

NextIteration ==
    /\ At("next")
    /\ loc' = [loc EXCEPT !.plan = Iteration, !.iter = @ + 1]
    /\ UNCHANGED <<journal, pos, ran, cancel, eventLog, awk, outside>>

(* The handler returns. The stash entry of a run that failed for another    *)
(* reason than its budget stays.                                            *)
handleReturns ==
    /\ status = "running"
    /\ \/ loc.plan = <<>> /\ status' = "completed" /\ stashed' = FALSE
       \/ /\ At("fail") /\ status' = "failed"
          /\ stashed' = (stashed /\ T # "budget")
    /\ UNCHANGED <<journal, pos, loc, ran, cancel, eventLog, awk, toolRuns, crashes>>
-----------------------------------------------------------------------------
(* The attempt dies, with its process; another one takes the run up.        *)
AttemptDies ==
    /\ May({0}) # {} /\ status = "running" /\ loc # NotStarted
    /\ crashes' = crashes + 1
    /\ loc' = NotStarted /\ pos' = 0 /\ ran' = None /\ stashed' = FALSE
    /\ UNCHANGED <<journal, cancel, eventLog, awk, status, toolRuns>>

(* AgentLoop.Cancel.                                                        *)
CancelLoop ==
    /\ status = "running" /\ cancel = 0
    /\ May({0}) # {}
    /\ cancel' = 1
    /\ UNCHANGED <<journal, pos, loc, ran, eventLog, awk, outside>>

(* An awakeable is resolved once. The answer to one whose timer the handler *)
(* has seen is accepted too, and read by nobody: it is left out.            *)
Approve ==
    /\ At("wait") \/ At("budget-wait")
    /\ ~Replaying /\ awk[Len(awk)] = "open"
    /\ \E v \in {"approved", "rejected"} : awk' = [awk EXCEPT ![Len(awk)] = v]
    /\ UNCHANGED <<journal, pos, loc, ran, cancel, eventLog, outside>>

HandlerStep ==
    \/ handle \/ FetchConversation \/ Prefetch \/ IterationBegins \/ LLMCalled \/ executeLLMStep
    \/ DecideLLMFailure \/ FallbackStep \/ DecideMaxIterations
    \/ awaitBudgetApproval \/ emitToolStart \/ AuthorizeTool \/ emitApprovalRequest
    \/ awaitApproval \/ ToolCalled \/ ToolReturns \/ StepEvent \/ ChildRunID \/ delegateToSubAgent
    \/ emitToolComplete \/ CollectResults \/ BreakerSnapshot \/ persistConversationMessages
    \/ NextIteration \/ handleReturns

LoopNext == HandlerStep \/ AttemptDies \/ CancelLoop \/ Approve

(* The server invokes the handler until it returns; timers fire.            *)
LoopSpec == LoopInit /\ [][LoopNext]_loopVars /\ WF_loopVars(HandlerStep)
-----------------------------------------------------------------------------
(* An attempt that starts over asks for the operations the journal has, in  *)
(* its order, whichever process it runs in: nothing the handler decides by  *)
(* is from outside the journal and the request (handle, executeAgentLoop).  *)
ReplayDeterministic ==
    status = "running" /\ Replaying /\ loc # NotStarted /\ loc.plan # <<>> /\
    Head(loc.plan)[1] \notin {"results", "next"} =>
       journal[pos + 1].op = Head(loc.plan) \o <<loc.iter>>

Where(e) == {i \in 1..Len(eventLog) : eventLog[i] = e}

(* Whatever attempts die, an event the handler emits is in the log once and *)
(* a person is asked once for one approval; a tool call has its start, then *)
(* its request, then its end (emitEvent, emitApprovalRequest). Only tokens, *)
(* which are published from inside a step, can be there twice.              *)
EventsOnce ==
    \A i, j \in 1..Len(eventLog) :
       /\ eventLog[i] = eventLog[j] /\ eventLog[i][1] # "token" => i = j
       /\ eventLog[i][1] \in {"ask", "end"} =>
             LET t == eventLog[i][2] it == eventLog[i][3]
             IN  \/ \E s \in Where(<<"start", t, it>>) : s < i
                 \/ \E e \in 1..Len(journal) : journal[e].val = "cancelled"

(* A run that goes on is within its limit and spends one window, and one    *)
(* more for every grant in the journal, with what the report that used a    *)
(* window up went beyond it: AdvanceWatermark moves the mark to the total.   *)
(* After a crash too, where the tracker is built again from the entries     *)
(* (checkBudget, awaitBudgetApproval).                                      *)
Grants == Cardinality({i \in 1..pos :
                          journal[i].op[1] = "budget-wait" /\ journal[i].val = "approved"})
SpendGranted ==
    loc # NotStarted /\ status = "running" /\ ~At("budget-ask") /\ ~At("budget-wait") /\ ~At("fail")
        => /\ ~checkLimits(loc.tracker)
           /\ MaxTokens > 0 =>
                 loc.tracker.tokens < Grants * (tokenWindow + MaxCallTokens - 1) + tokenWindow

(* Every run ends, whatever dies and with nobody there to answer: waits     *)
(* have timers, iterations a limit.                                         *)
RunEnds == <>(status # "running")

=============================================================================
