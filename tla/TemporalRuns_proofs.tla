------------------------ MODULE TemporalRuns_proofs -------------------------
(***************************************************************************)
(* Proofs about TemporalRuns, for every number of handles, of faults and of*)
(* events: what a handle reports agrees with the workflow, and a client    *)
(* that reconnects misses nothing. ResultInv and ReconnectInv are the      *)
(* inductive invariants.                                                   *)
(***************************************************************************)
EXTENDS TemporalRuns, SequenceTheorems, TLAPS

Statuses == {"none", "running", "completed", "failed", "budget", "canceled", "terminated"}
RunHandle ==
    [life : {"none", "created", "live", "dead"}, ctx : {"ok", "canceled", "deadline"},
     stopCause : {"nil", "canceled", "deadline"}, cancelOnce : BOOLEAN,
     res : Statuses \cup {"deadline"}, done : BOOLEAN,
     driver : {"none", "watch", "stop", "grace", "stopped", "prompting", "gone"}]

(* A stop cause is the way the run context ended; a result was read from a  *)
(* closed workflow and goes with its status.                                *)
HandleAgrees(x, st) ==
    /\ x \in RunHandle
    /\ x.stopCause # "nil" => x.stopCause = x.ctx
    /\ x.res # None =>
          /\ st \notin {"none", "running"}
          /\ x.res = "completed" <=> st = "completed"
          /\ x.res = "deadline" => x.ctx = "deadline"
          /\ x.res = "canceled" => x.ctx = "canceled" \/ st = "canceled"

Subscriber == [st : {"off", "on", "final"}, h : Nat, pos : Nat, from : Nat, stale : BOOLEAN]
SubscriberOK == sub \in Subscriber /\ saved \in Nat /\ (sub.st # "off" => sub.h \in Slots)

ResultInv ==
    /\ status \in Statuses /\ DOMAIN handle = Slots /\ handle = [s \in Slots |-> handle[s]]
    /\ \A s \in Slots : HandleAgrees(handle[s], status)
    /\ SubscriberOK
    /\ told = "completed" => status = "completed"

LEMMA InitResult == Init => ResultInv
<1> SUFFICES ASSUME Init PROVE ResultInv
  OBVIOUS
<1>1. HandleAgrees(NewHandle, status)
  BY DEF HandleAgrees, NewHandle, RunHandle, Statuses, None
<1>2. SubscriberOK
  BY DEF Init, SubscriberOK, Subscriber, NoSub
<1>. QED
  BY <1>1, <1>2 DEF Init, ResultInv, Statuses, None

(* The status moves on only while no handle has a result. *)
LEMMA StatusMoves ==
    ASSUME ResultInv, ~Closed, NEW x, NEW st, \E s \in Slots : x = handle[s]
    PROVE  HandleAgrees(x, st)
BY DEF ResultInv, HandleAgrees, Closed

(* A step that leaves the handles but for s alone. *)
LEMMA ResultStep ==
    ASSUME ResultInv, NEW s \in Slots, NEW y, handle' = [handle EXCEPT ![s] = y],
           HandleAgrees(y, status), UNCHANGED <<status, told>>, SubscriberOK'
    PROVE  ResultInv'
<1>1. DOMAIN handle' = Slots /\ handle' = [t \in Slots |-> handle'[t]]
  BY DEF ResultInv
<1>2. \A t \in Slots : HandleAgrees(handle'[t], status)
  BY DEF ResultInv
<1>. QED
  BY <1>1, <1>2 DEF ResultInv

(* A step that leaves all of them alone. *)
LEMMA ResultStill ==
    ASSUME ResultInv, UNCHANGED handle, status' \in Statuses, UNCHANGED status \/ ~Closed,
           SubscriberOK',
           told' = "completed" => told = "completed" \/ status' = "completed"
    PROVE  ResultInv'
<1>1. \A t \in Slots : HandleAgrees(handle'[t], status')
  <2>1. CASE UNCHANGED status
    BY <2>1 DEF ResultInv
  <2>2. CASE ~Closed
    BY <2>2, StatusMoves
  <2>. QED
    BY <2>1, <2>2
<1>2. told' = "completed" => status' = "completed"
  BY DEF ResultInv, Closed
<1>. QED
  BY <1>1, <1>2 DEF ResultInv

(* The fields of a handle that no result depends on. *)
LEMMA HandleFields ==
    ASSUME NEW x, NEW y \in RunHandle, NEW st, HandleAgrees(x, st),
           y.ctx = x.ctx, y.stopCause = x.stopCause, y.res = x.res
    PROVE  HandleAgrees(y, st)
BY DEF HandleAgrees

LEMMA HandleResult ==
    ASSUME ResultInv, NEW s \in Slots,
           \/ Register(s) \/ awaitCompletion(s) \/ closeDone(s) \/ Cancel(s) \/ newDriveContext(s)
           \/ DriverDone(s) \/ setStopCause(s) \/ PromptHandler(s) \/ HandlerReturns(s) \/ Reattach(s)
    PROVE  ResultInv'
<1> DEFINE x == handle[s]
<1>1. x \in RunHandle /\ HandleAgrees(x, status)
  BY DEF ResultInv, HandleAgrees
<1>2. handle = [t \in Slots |-> handle[t]] /\ DOMAIN handle = Slots
  BY DEF ResultInv
<1>3. ASSUME NEW y, handle' = [handle EXCEPT ![s] = y], HandleAgrees(y, status), UNCHANGED <<status, told, sub, saved>>
      PROVE  ResultInv'
  <2>1. SubscriberOK'
    BY <1>3 DEF ResultInv, SubscriberOK
  <2>. QED
    BY <1>3, <2>1, ResultStep
<1>4. CASE Register(s)
  <2> DEFINE y == [x EXCEPT !.life = "live", !.driver = "watch"]
  <2>1. handle' = [handle EXCEPT ![s] = y] /\ UNCHANGED <<status, told, sub, saved>>
    BY <1>2, <1>4 DEF Register, server, reader
  <2>2. y \in RunHandle /\ y.ctx = x.ctx /\ y.stopCause = x.stopCause /\ y.res = x.res
    BY <1>1 DEF RunHandle
  <2> HIDE DEF x, y
  <2>. QED
    BY <1>1, <1>3, <2>1, <2>2, HandleFields
<1>5. CASE awaitCompletion(s)
  <2> DEFINE y == [x EXCEPT !.res = mapWorkflowError(s)]
  <2>1. handle' = [handle EXCEPT ![s] = y] /\ UNCHANGED <<status, told, sub, saved>> /\ Closed
    BY <1>2, <1>5 DEF awaitCompletion, server, reader
  <2>2. mapWorkflowError(s) \in Statuses \cup {"deadline"} /\ status \in Statuses
    BY <1>1 DEF mapWorkflowError, RunHandle, ResultInv, Statuses
  <2>3. y \in RunHandle /\ y.ctx = x.ctx /\ y.stopCause = x.stopCause /\ y.res = mapWorkflowError(s)
    BY <1>1, <2>2 DEF RunHandle
  <2>4. x.ctx \in {"ok", "canceled", "deadline"} /\ x.stopCause \in {"nil", "canceled", "deadline"}
    BY <1>1 DEF RunHandle
  <2>5. HandleAgrees(y, status)
    BY <1>1, <2>1, <2>2, <2>3, <2>4 DEF HandleAgrees, mapWorkflowError, Closed, Statuses
  <2>. QED
    BY <1>3, <2>1, <2>5
<1>6. CASE closeDone(s)
  <2> DEFINE y == [x EXCEPT !.cancelOnce = TRUE, !.done = TRUE]
  <2>1. handle' = [handle EXCEPT ![s] = y] /\ UNCHANGED <<status, told, sub, saved>>
    BY <1>2, <1>6 DEF closeDone, server, reader
  <2>2. y \in RunHandle /\ y.ctx = x.ctx /\ y.stopCause = x.stopCause /\ y.res = x.res
    BY <1>1 DEF RunHandle
  <2> HIDE DEF x, y
  <2>. QED
    BY <1>1, <1>3, <2>1, <2>2, HandleFields
<1>7. CASE Cancel(s)
  <2> DEFINE c == IF x.ctx = "ok" THEN "canceled" ELSE x.ctx
             y == [x EXCEPT !.cancelOnce = TRUE, !.ctx = c]
  <2>1. handle' = [handle EXCEPT ![s] = y] /\ UNCHANGED <<status, told, sub, saved>>
    BY <1>2, <1>7 DEF Cancel, server, reader
  <2>2. c \in {"ok", "canceled", "deadline"} /\ x.ctx \in {"ok", "canceled", "deadline"} /\ x.stopCause \in {"nil", "canceled", "deadline"}
    BY <1>1 DEF RunHandle
  <2>3. y \in RunHandle /\ y.ctx = c /\ y.stopCause = x.stopCause /\ y.res = x.res
    BY <1>1, <2>2 DEF RunHandle
  <2>4. HandleAgrees(y, status)
    BY <1>1, <2>2, <2>3 DEF HandleAgrees
  <2>. QED
    BY <1>3, <2>1, <2>4
<1>8. CASE newDriveContext(s)
  <2> DEFINE y == [x EXCEPT !.ctx = "deadline"]
  <2>1. handle' = [handle EXCEPT ![s] = y] /\ UNCHANGED <<status, told, sub, saved>> /\ x.ctx = "ok"
    BY <1>2, <1>8 DEF newDriveContext, server, reader
  <2>2. x.stopCause \in {"nil", "canceled", "deadline"}
    BY <1>1 DEF RunHandle
  <2>3. y \in RunHandle /\ y.ctx = "deadline" /\ y.stopCause = x.stopCause /\ y.res = x.res
    BY <1>1 DEF RunHandle
  <2>4. HandleAgrees(y, status)
    BY <1>1, <2>1, <2>2, <2>3 DEF HandleAgrees
  <2>. QED
    BY <1>3, <2>1, <2>4
<1>9. CASE DriverDone(s)
  <2> DEFINE y == [x EXCEPT !.driver = "gone"]
  <2>1. handle' = [handle EXCEPT ![s] = y] /\ UNCHANGED <<status, told, sub, saved>>
    BY <1>2, <1>9 DEF DriverDone, server, reader
  <2>2. y \in RunHandle /\ y.ctx = x.ctx /\ y.stopCause = x.stopCause /\ y.res = x.res
    BY <1>1 DEF RunHandle
  <2> HIDE DEF x, y
  <2>. QED
    BY <1>1, <1>3, <2>1, <2>2, HandleFields
<1>10. CASE setStopCause(s)
  <2> DEFINE c == IF x.stopCause = "nil" THEN x.ctx ELSE x.stopCause
             y == [x EXCEPT !.driver = "stop", !.stopCause = c]
  <2>1. handle' = [handle EXCEPT ![s] = y] /\ UNCHANGED <<status, told, sub, saved>> /\ x.ctx # "ok"
    BY <1>2, <1>10 DEF setStopCause, server, reader
  <2>2. x.ctx \in {"ok", "canceled", "deadline"} /\ x.stopCause \in {"nil", "canceled", "deadline"}
    BY <1>1 DEF RunHandle
  <2>3. c \in {"nil", "canceled", "deadline"} /\ c = x.ctx
    BY <1>1, <2>1, <2>2 DEF HandleAgrees
  <2>4. y \in RunHandle /\ y.ctx = x.ctx /\ y.stopCause = c /\ y.res = x.res
    BY <1>1, <2>3 DEF RunHandle
  <2>5. HandleAgrees(y, status)
    BY <1>1, <2>3, <2>4 DEF HandleAgrees
  <2>. QED
    BY <1>3, <2>1, <2>5
<1>11. CASE PromptHandler(s)
  <2> DEFINE y == [x EXCEPT !.driver = "prompting"]
  <2>1. handle' = [handle EXCEPT ![s] = y] /\ UNCHANGED <<status, told, sub, saved>>
    BY <1>2, <1>11 DEF PromptHandler, server, reader
  <2>2. y \in RunHandle /\ y.ctx = x.ctx /\ y.stopCause = x.stopCause /\ y.res = x.res
    BY <1>1 DEF RunHandle
  <2> HIDE DEF x, y
  <2>. QED
    BY <1>1, <1>3, <2>1, <2>2, HandleFields
<1>12. CASE HandlerReturns(s)
  <2> DEFINE y == [x EXCEPT !.driver = "watch"]
  <2>1. handle' = [handle EXCEPT ![s] = y] /\ UNCHANGED <<status, told, sub, saved>>
    BY <1>2, <1>12 DEF HandlerReturns, server, reader
  <2>2. y \in RunHandle /\ y.ctx = x.ctx /\ y.stopCause = x.stopCause /\ y.res = x.res
    BY <1>1 DEF RunHandle
  <2> HIDE DEF x, y
  <2>. QED
    BY <1>1, <1>3, <2>1, <2>2, HandleFields
<1>13. CASE Reattach(s)
  <2> DEFINE y == [x EXCEPT !.life = "created"]
  <2>1. handle' = [handle EXCEPT ![s] = y] /\ UNCHANGED <<status, told, sub, saved>>
    BY <1>2, <1>13 DEF Reattach, server, reader
  <2>2. y \in RunHandle /\ y.ctx = x.ctx /\ y.stopCause = x.stopCause /\ y.res = x.res
    BY <1>1 DEF RunHandle
  <2> HIDE DEF x, y
  <2>. QED
    BY <1>1, <1>3, <2>1, <2>2, HandleFields
<1>. QED
  BY <1>4, <1>5, <1>6, <1>7, <1>8, <1>9, <1>10, <1>11, <1>12, <1>13

(* The run starts, or the driver stops it: handle and status both move. *)
LEMMA StopResult ==
    ASSUME ResultInv, NEW s \in Slots, Start(s) \/ stopWorkflow(s) \/ GraceOver(s)
    PROVE  ResultInv'
<1> DEFINE x == handle[s]
<1>1. x \in RunHandle /\ HandleAgrees(x, status)
  BY DEF ResultInv, HandleAgrees
<1>2. handle = [t \in Slots |-> handle[t]] /\ DOMAIN handle = Slots
  BY DEF ResultInv
<1>3. UNCHANGED <<told, sub, saved>>
  BY DEF Start, stopWorkflow, GraceOver, reader
<1>4. status' \in Statuses /\ (UNCHANGED status \/ ~Closed)
  <2>1. status \in Statuses
    BY DEF ResultInv
  <2>2. CASE Start(s)
    BY <2>2 DEF Start, Statuses, Closed
  <2>3. CASE terminateWorkflow \/ cancelWorkflow
    BY <2>1, <2>3 DEF terminateWorkflow, cancelWorkflow, Terminated, server, Statuses, Closed, Running
  <2>. QED
    BY <2>2, <2>3 DEF stopWorkflow, GraceOver
<1>5. PICK y \in {[x EXCEPT !.life = "created"], [x EXCEPT !.driver = "stopped"], [x EXCEPT !.driver = "grace"]} :
        handle' = [handle EXCEPT ![s] = y]
  BY <1>2 DEF Start, stopWorkflow, GraceOver
<1>6. y \in RunHandle /\ y.ctx = x.ctx /\ y.stopCause = x.stopCause /\ y.res = x.res
  BY <1>1, <1>5 DEF RunHandle
<1> HIDE DEF x
<1>7. \A t \in Slots : HandleAgrees(handle[t], status')
  BY <1>4, StatusMoves DEF ResultInv
<1>8. HandleAgrees(y, status')
  BY <1>6, <1>7, HandleFields DEF x
<1>9. \A t \in Slots : HandleAgrees(handle'[t], status')
  BY <1>2, <1>5, <1>7, <1>8
<1>10. DOMAIN handle' = Slots /\ handle' = [t \in Slots |-> handle'[t]]
  BY <1>2, <1>5
<1>11. told' = "completed" => status' = "completed"
  BY <1>3, <1>4 DEF ResultInv, Closed
<1>12. SubscriberOK'
  BY <1>3 DEF ResultInv, SubscriberOK
<1>. QED
  BY <1>4, <1>9, <1>10, <1>11, <1>12 DEF ResultInv

(* The reader of a stream. *)
LEMMA ReaderResult ==
    ASSUME ResultInv,
           \/ \E s \in Slots : Events(s)
           \/ deliverEvents \/ SubscriptionEnds \/ EmitTerminal \/ Disconnect
    PROVE  ResultInv'
<1>1. UNCHANGED <<handle, status>> /\ status \in Statuses
  BY DEF Events, deliverEvents, SubscriptionEnds, EmitTerminal, Disconnect, server, ResultInv
<1>S. sub \in Subscriber /\ saved \in Nat /\ (sub.st # "off" => sub.h \in Slots)
  BY DEF ResultInv, SubscriberOK
<1>2. SubscriberOK'
  <2>1. ASSUME NEW s \in Slots, Events(s) PROVE SubscriberOK'
    <3>0. s \in Nat
      BY DEF Slots
    <3>1. saved' = saved
      BY <2>1 DEF Events
    <3>2. \/ UNCHANGED sub
          \/ sub' = [st |-> "on", h |-> s, pos |-> saved, from |-> saved, stale |-> FALSE]
      BY <2>1 DEF Events
    <3>3. sub' \in Subscriber
      <4>1. [st |-> "on", h |-> s, pos |-> saved, from |-> saved, stale |-> FALSE] \in Subscriber
        BY <1>S, <3>0 DEF Subscriber
      <4>. QED
        BY <1>S, <3>2, <4>1
    <3>4. sub'.st # "off" => sub'.h \in Slots
      BY <1>S, <3>2
    <3>. QED
      BY <1>S, <3>1, <3>3, <3>4 DEF SubscriberOK
  <2>2. CASE EmitTerminal \/ Disconnect
    <3>1. sub' = NoSub /\ saved' = saved
      BY <2>2 DEF EmitTerminal, Disconnect
    <3>. QED
      BY <1>S, <3>1 DEF NoSub, SubscriberOK, Subscriber
  <2>3. CASE deliverEvents
    <3>1. sub.st = "on" /\ sub.pos \in Nat
      BY <1>S, <2>3 DEF deliverEvents, Subscriber
    <3>2. saved' \in {saved, sub.pos}
      BY <2>3 DEF deliverEvents, Skip, Forward
    <3> DEFINE next == [sub EXCEPT !.pos = sub.pos + 1]
    <3>3. sub' \in {next, [next EXCEPT !.stale = TRUE], [next EXCEPT !.stale = FALSE]}
      BY <2>3 DEF deliverEvents, Skip, Forward
    <3>4. next \in Subscriber /\ next.h = sub.h
      BY <1>S, <3>1 DEF Subscriber
    <3> HIDE DEF next
    <3>5. sub' \in Subscriber /\ sub'.h = sub.h
      BY <3>3, <3>4 DEF Subscriber
    <3>. QED
      BY <1>S, <3>1, <3>2, <3>5 DEF SubscriberOK
  <2>4. CASE SubscriptionEnds
    BY <1>S, <2>4 DEF SubscriptionEnds, SubscriberOK, Subscriber
  <2>. QED
    BY <2>1, <2>2, <2>3, <2>4
<1>3. told' = "completed" => told = "completed" \/ status' = "completed"
  <2>1. CASE EmitTerminal
    <3>1. sub.h \in Slots /\ told' = handle[sub.h].res
      BY <1>S, <2>1 DEF EmitTerminal
    <3>2. HandleAgrees(handle[sub.h], status)
      BY <3>1 DEF ResultInv
    <3>. QED
      BY <1>1, <3>1, <3>2 DEF HandleAgrees, None
  <2>2. CASE \E s \in Slots : Events(s)
    BY <2>2 DEF Events
  <2>3. CASE deliverEvents \/ SubscriptionEnds \/ Disconnect
    BY <2>3 DEF deliverEvents, SubscriptionEnds, Disconnect
  <2>. QED
    BY <2>1, <2>2, <2>3
<1>. QED
  BY <1>1, <1>2, <1>3, ResultStill

(* The workflow, its workers and the approvals. *)
LEMMA WorkflowResult ==
    ASSUME ResultInv,
           \/ WorkflowStep \/ StopWorker \/ StartWorker \/ \E a \in Approvals : Approve(a)
           \/ \E s \in Slots : subscribeApprovalEvents(s)
           \/ \E s \in Slots, a \in Approvals : Respond(s, a) \/ ApproveResponse(s, a)
    PROVE  ResultInv'
<1>1. UNCHANGED <<handle, told, sub, saved>>
  BY DEF WorkflowStep, LLMEvent, WorkflowEnds, ContinueAsNew, RequestApproval, ApprovalTimesOut,
      ApprovalSeen,
         StopWorker, StartWorker, Approve, subscribeApprovalEvents, Respond, ApproveResponse, reader
<1>2. status' \in Statuses /\ (UNCHANGED status \/ ~Closed)
  <2>1. status \in Statuses
    BY DEF ResultInv
  <2>2. CASE WorkflowEnds
    BY <2>2 DEF WorkflowEnds, Statuses, Closed, Running
  <2>3. CASE ~WorkflowEnds
    <3>1. UNCHANGED status
      BY <2>3 DEF WorkflowStep, LLMEvent, ContinueAsNew, RequestApproval, ApprovalTimesOut,
          ApprovalSeen, approve,
             StopWorker, StartWorker, Approve, subscribeApprovalEvents, Respond, ApproveResponse, server
    <3>. QED
      BY <2>1, <3>1
  <2>. QED
    BY <2>2, <2>3
<1>3. SubscriberOK'
  BY <1>1 DEF ResultInv, SubscriberOK
<1>. QED
  BY <1>1, <1>2, <1>3, ResultStill

LEMMA CrashResult ==
    ASSUME ResultInv, Crash
    PROVE  ResultInv'
<1>1. /\ handle' = [s \in Slots |-> IF Live(s) THEN [NewHandle EXCEPT !.life = "dead"] ELSE handle[s]]
      /\ sub' = NoSub /\ UNCHANGED <<status, told, saved>>
  BY DEF Crash, server
<1>2. HandleAgrees([NewHandle EXCEPT !.life = "dead"], status)
  BY DEF HandleAgrees, NewHandle, RunHandle, Statuses, None
<1>3. \A s \in Slots : HandleAgrees(handle'[s], status)
  BY <1>1, <1>2 DEF ResultInv
<1>4. SubscriberOK'
  BY <1>1 DEF ResultInv, SubscriberOK, Subscriber, NoSub
<1>. QED
  BY <1>1, <1>3, <1>4 DEF ResultInv

LEMMA NextResult == ResultInv /\ [Next]_vars => ResultInv'
<1> SUFFICES ASSUME ResultInv, [Next]_vars PROVE ResultInv'
  OBVIOUS
<1>1. CASE UNCHANGED vars
  <2>1. UNCHANGED <<handle, status, sub, saved, told>>
    BY <1>1 DEF vars, server, reader
  <2>. QED
    BY <2>1 DEF ResultInv, SubscriberOK
<1>2. ASSUME NEW s \in Slots, Run(s) \/ Stream(s) \/ stopWorkflow(s) \/ GraceOver(s) PROVE ResultInv'
  BY <1>2, StopResult DEF Run, Stream
<1>3. ASSUME NEW s \in Slots,
             \/ GetRunHandle(s) \/ GetStreamHandle(s) \/ Cancel(s) \/ newDriveContext(s) \/ Register(s)
             \/ awaitCompletion(s) \/ closeDone(s) \/ DriverDone(s) \/ setStopCause(s) \/ HandlerReturns(s)
             \/ PromptHandler(s)
      PROVE  ResultInv'
  BY <1>3, HandleResult DEF GetRunHandle, GetStreamHandle
<1>4. CASE Next
  BY <1>2, <1>3, <1>4, ReaderResult, WorkflowResult, CrashResult DEF Next, HandleStep
<1>. QED
  BY <1>1, <1>4

(* What a handle and a stream report agrees with the workflow and with the  *)
(* run context of the handle, for every number of handles and of faults     *)
(* (TemporalRuns.ResultAgrees, awaitCompletion).                            *)
THEOREM ResultsAgree == Spec => []ResultAgrees
<1>1. ResultInv => ResultAgrees
  BY DEF ResultInv, HandleAgrees, ResultAgrees
<1>. QED
  BY <1>1, InitResult, NextResult, PTL DEF Spec
-----------------------------------------------------------------------------
(* The event log of a Temporal run and its readers.                         *)

LogItem == [kind : {"start", "retry", "content", "approval"}, id : Approvals \cup {None}, attempt : Nat]

(* What an item of the log says about the items before it: output comes     *)
(* after the start of its attempt, a further attempt starts after its retry *)
(* signal, and the retry signals count up.                                  *)
ItemOK(l, i, as) ==
    /\ l[i].kind = "content" => \E j \in 1..(i - 1) : l[j].kind = "start" /\ l[j].attempt = l[i].attempt
    /\ l[i].kind = "start" =>
          l[i].attempt = 1 \/ \E j \in 1..(i - 1) : l[j].kind = "retry" /\ l[j].attempt = l[i].attempt
    /\ l[i].kind = "retry" =>
          l[i].attempt > 1 /\ \A j \in 1..(i - 1) : l[j].kind = "retry" => l[j].attempt < l[i].attempt
    /\ l[i].kind = "approval" => l[i].id \in as

LogInv ==
    /\ log \in Seq(LogItem) /\ attempt \in Nat
    /\ \A i \in 1..Len(log) : ItemOK(log, i, asked) /\ (log[i].kind = "retry" => log[i].attempt <= attempt)
    /\ attempt > 1 => \E i \in 1..Len(log) : log[i].kind = "retry" /\ log[i].attempt = attempt

(* The workflow knows of every approval that is open. *)
ApprovalInv == open \subseteq pending /\ missed = {}

(* The client has, or may do without, all that lies before the offset it    *)
(* saved and before the place its subscription is at; a subscription that   *)
(* skips output has seen a retry signal and no start since.                 *)
Known(j) == j \in seen \/ Withheld(j + 1)
StaleSince(l, p, pos) == l[p].kind = "retry" /\ \A q \in (p + 1)..pos : l[q].kind # "start"
CaughtUpInv ==
    /\ saved <= Len(log) /\ \A j \in 0..(saved - 1) : Known(j)
    /\ \A i \in seen : i \in Nat /\ i <= saved
    /\ sub.st = "on" =>
          /\ saved <= sub.pos /\ sub.pos <= Len(log)
          /\ \A j \in 0..(sub.pos - 1) : Known(j)
          /\ sub.stale => \E p \in 1..sub.pos : StaleSince(log, p, sub.pos)

ReconnectInv == ResultInv /\ LogInv /\ ApprovalInv /\ CaughtUpInv

(* The log only grows, and no approval is opened a second time. *)
Grows ==
    /\ log' = log \/ \E e \in LogItem : log' = Append(log, e)
    /\ open' \cap asked \subseteq open

LEMMA Appended ==
    ASSUME NEW l \in Seq(LogItem), NEW e \in LogItem
    PROVE  /\ Append(l, e) \in Seq(LogItem) /\ Len(Append(l, e)) = Len(l) + 1 /\ Len(l) \in Nat
           /\ \A i \in 1..Len(l) : Append(l, e)[i] = l[i]
           /\ Append(l, e)[Len(l) + 1] = e
BY AppendProperties

(* What is said of an item still holds when the log grows. *)
LEMMA ItemStays ==
    ASSUME NEW l \in Seq(LogItem), NEW e \in LogItem, NEW i \in 1..Len(l), NEW as, NEW as2, as \subseteq as2,
           ItemOK(l, i, as)
    PROVE  ItemOK(Append(l, e), i, as2)
<1> DEFINE m == Append(l, e)
<1>1. m[i] = l[i] /\ \A j \in 1..(i - 1) : j \in 1..Len(l) /\ m[j] = l[j]
  BY Appended
<1> HIDE DEF m
<1>2. ItemOK(m, i, as2)
  BY <1>1 DEF ItemOK
<1>. QED
  BY <1>2 DEF m

(* An item is added, after which the whole log is in order. *)
LEMMA LogAppended ==
    ASSUME LogInv, NEW e \in LogItem, log' = Append(log, e), asked \subseteq asked', attempt' \in Nat,
           attempt <= attempt',
           ItemOK(Append(log, e), Len(log) + 1, asked'), e.kind = "retry" => e.attempt = attempt',
           attempt' # attempt => attempt' = 1 \/ (e.kind = "retry" /\ e.attempt = attempt')
    PROVE  LogInv'
<1>0. log \in Seq(LogItem) /\ attempt \in Nat
  BY DEF LogInv
<1>1. /\ log' \in Seq(LogItem) /\ Len(log') = Len(log) + 1 /\ Len(log) \in Nat
      /\ \A i \in 1..Len(log) : log'[i] = log[i]
      /\ log'[Len(log) + 1] = e
  BY <1>0, Appended
<1>2. \A i \in 1..Len(log') : ItemOK(log', i, asked')
  <2>1. \A i \in 1..Len(log) : ItemOK(log', i, asked')
    BY <1>0, ItemStays DEF LogInv
  <2>. QED
    BY <1>1, <2>1
<1>3. \A i \in 1..Len(log') : log'[i].kind = "retry" => log'[i].attempt <= attempt'
  <2>1. ASSUME NEW i \in 1..Len(log), log'[i].kind = "retry" PROVE log'[i].attempt <= attempt'
    <3>1. log[i] \in LogItem /\ log[i].attempt <= attempt /\ log'[i] = log[i]
      BY <1>0, <1>1, <2>1 DEF LogInv
    <3>2. log[i].attempt \in Nat
      BY <3>1 DEF LogItem
    <3>. QED
      BY <1>0, <3>1, <3>2
  <2>. QED
    BY <1>1, <2>1
<1>4. attempt' > 1 => \E i \in 1..Len(log') : log'[i].kind = "retry" /\ log'[i].attempt = attempt'
  <2>1. CASE attempt' = attempt
    BY <1>1, <2>1 DEF LogInv
  <2>2. CASE attempt' # attempt
    BY <1>1, <2>2
  <2>. QED
    BY <2>1, <2>2
<1>. QED
  BY <1>1, <1>2, <1>3, <1>4 DEF LogInv

LEMMA NextLog == LogInv /\ [Next]_vars => LogInv' /\ Grows
<1> SUFFICES ASSUME LogInv, [Next]_vars PROVE LogInv' /\ Grows
  OBVIOUS
<1>0. log \in Seq(LogItem) /\ attempt \in Nat /\ Len(log) \in Nat
  BY LenProperties DEF LogInv
<1>1. CASE LLMEvent
  <2>1. UNCHANGED <<open, asked>>
    BY <1>1 DEF LLMEvent
  <2>2. PICK e \in LogItem :
           /\ log' = Append(log, e) /\ attempt' \in Nat /\ attempt <= attempt'
           /\ e.kind = "content" => \E j \in 1..Len(log) : log[j].kind = "start" /\ log[j].attempt = e.attempt
           /\ e.kind = "start" =>
                 e.attempt = 1 \/ \E j \in 1..Len(log) : log[j].kind = "retry" /\ log[j].attempt = e.attempt
           /\ e.kind = "retry" =>
                 e.attempt > 1 /\ \A j \in 1..Len(log) : log[j].kind = "retry" => log[j].attempt < e.attempt
           /\ e.kind # "approval"
           /\ e.kind = "retry" => e.attempt = attempt'
           /\ attempt' # attempt => attempt' = 1 \/ (e.kind = "retry" /\ e.attempt = attempt')
    <3>0. ASSUME NEW k \in {"start", "retry", "content"}, NEW n \in Nat
          PROVE  Item(k, n) \in LogItem /\ Item(k, n).kind = k /\ Item(k, n).attempt = n
      BY DEF Item, LogItem
    <3>1. CASE attempt = 0 /\ attempt' = 1 /\ Write(Item("start", 1))
      <4>1. Item("start", 1) \in LogItem /\ Item("start", 1).kind = "start" /\ Item("start", 1).attempt = 1
        BY <3>0
      <4>. QED
        BY <3>1, <4>1 DEF Write
    <3>2. CASE attempt \in 1..(LLMAttempts - 1) /\ attempt' = attempt + 1 /\ Write(Item("retry", attempt + 1))
      <4>0. attempt + 1 \in Nat /\ attempt >= 1
        BY <1>0, <3>2
      <4> DEFINE e == Item("retry", attempt + 1)
      <4>1. e \in LogItem /\ e.kind = "retry" /\ e.attempt = attempt + 1
        BY <3>0, <4>0
      <4>2. ASSUME NEW j \in 1..Len(log), log[j].kind = "retry" PROVE log[j].attempt < attempt + 1
        <5>1. log[j].attempt <= attempt /\ log[j] \in LogItem
          BY <1>0, <4>2 DEF LogInv
        <5>2. log[j].attempt \in Nat
          BY <5>1 DEF LogItem
        <5>. QED
          BY <1>0, <5>1, <5>2
      <4>3. log' = Append(log, e)
        BY <3>2 DEF Write
      <4> HIDE DEF e
      <4>. QED
        BY <1>0, <3>2, <4>0, <4>1, <4>2, <4>3
    <3>3. CASE attempt > 1 /\ Write(Item("start", attempt)) /\ UNCHANGED attempt
      <4> DEFINE e == Item("start", attempt)
      <4>1. e \in LogItem /\ e.kind = "start" /\ e.attempt = attempt
        BY <1>0, <3>0
      <4>2. \E j \in 1..Len(log) : log[j].kind = "retry" /\ log[j].attempt = attempt
        BY <3>3 DEF LogInv
      <4>3. log' = Append(log, e)
        BY <3>3 DEF Write
      <4> HIDE DEF e
      <4>. QED
        BY <1>0, <3>3, <4>1, <4>2, <4>3
    <3>4. CASE (\E n \in {attempt, attempt - 1} \ {0} : Item("start", n) \in Logged /\ Write(Item("content", n)))
               /\ UNCHANGED attempt
      <4>1. PICK n \in {attempt, attempt - 1} \ {0} : Item("start", n) \in Logged /\ Write(Item("content", n))
        BY <3>4
      <4>2. PICK j \in 1..Len(log) : log[j] = Item("start", n)
        BY <4>1 DEF Logged
      <4>3. log[j] \in LogItem /\ log[j].kind = "start" /\ log[j].attempt = n
        BY <1>0, <4>2 DEF Item
      <4>4. n \in Nat
        BY <4>3 DEF LogItem
      <4> DEFINE e == Item("content", n)
      <4>5. e \in LogItem /\ e.kind = "content" /\ e.attempt = n
        BY <3>0, <4>4
      <4>6. log' = Append(log, e)
        BY <4>1 DEF Write
      <4> HIDE DEF e
      <4>. QED
        BY <1>0, <3>4, <4>3, <4>5, <4>6
    <3>. QED
      BY <1>1, <3>1, <3>2, <3>3, <3>4 DEF LLMEvent
  <2>3. ItemOK(Append(log, e), Len(log) + 1, asked')
    <3> DEFINE m == Append(log, e)
    <3>1. m[Len(log) + 1] = e /\ \A j \in 1..((Len(log) + 1) - 1) : j \in 1..Len(log) /\ m[j] = log[j]
      BY <1>0, <2>2, Appended
    <3>2. 1..((Len(log) + 1) - 1) = 1..Len(log)
      BY <1>0
    <3> HIDE DEF m
    <3>3. ItemOK(m, Len(log) + 1, asked')
      BY <2>2, <3>1, <3>2 DEF ItemOK
    <3>. QED
      BY <3>3 DEF m
  <2>4. LogInv'
    BY <2>1, <2>2, <2>3, LogAppended
  <2>. QED
    BY <2>1, <2>2, <2>4 DEF Grows
<1>2. ASSUME NEW a \in Approvals, RequestApproval(a) PROVE LogInv' /\ Grows
  <2> DEFINE e == [kind |-> "approval", id |-> a, attempt |-> 0]
  <2>1. log' = Append(log, e) /\ asked' = asked \cup {a} /\ a \notin asked /\ open' = open \cup {a} /\ attempt' = attempt
    BY <1>2 DEF RequestApproval, Write
  <2>2. e \in LogItem /\ e.kind = "approval" /\ e.id = a
    BY DEF LogItem
  <2> HIDE DEF e
  <2>3. ItemOK(Append(log, e), Len(log) + 1, asked')
    <3>1. Append(log, e)[Len(log) + 1] = e
      BY <1>0, <2>2, Appended
    <3>. QED
      BY <2>1, <2>2, <3>1 DEF ItemOK
  <2>4. LogInv'
    <3>1. attempt' \in Nat /\ attempt <= attempt' /\ asked \subseteq asked'
      BY <1>0, <2>1
    <3>2. e.kind # "retry" /\ attempt' = attempt
      BY <2>1, <2>2
    <3>3. log' = Append(log, e)
      BY <2>1
    <3>. QED
      BY <2>2, <2>3, <3>1, <3>2, <3>3, LogAppended
  <2>. QED
    BY <2>1, <2>2, <2>4 DEF Grows
<1>3. CASE UNCHANGED <<log, attempt, asked>> /\ open' \subseteq open
  BY <1>3 DEF LogInv, Grows
<1>4. CASE UNCHANGED vars
  BY <1>3, <1>4 DEF vars, server
<1>5. CASE WorkflowStep
  BY <1>1, <1>2, <1>3, <1>5 DEF WorkflowStep, WorkflowEnds, ContinueAsNew, ApprovalTimesOut,
      ApprovalSeen, approve
<1>6. ASSUME NEW s \in Slots, HandleStep(s) PROVE LogInv' /\ Grows
  <2>1. ASSUME terminateWorkflow \/ cancelWorkflow PROVE UNCHANGED <<log, attempt, asked>> /\ open' \subseteq open
    BY <2>1 DEF terminateWorkflow, cancelWorkflow, Terminated, server
  <2>2. CASE stopWorkflow(s) \/ GraceOver(s)
    BY <1>3, <2>1, <2>2 DEF stopWorkflow, GraceOver
  <2>3. CASE ~(stopWorkflow(s) \/ GraceOver(s))
    BY <1>3, <1>6, <2>3 DEF HandleStep, Register, awaitCompletion, closeDone, DriverDone,
        setStopCause, HandlerReturns, server
  <2>. QED
    BY <2>2, <2>3
<1>7. ASSUME NEW s \in Slots,
             \/ Run(s) \/ Stream(s) \/ GetRunHandle(s) \/ GetStreamHandle(s) \/ Cancel(s)
             \/ newDriveContext(s) \/ subscribeApprovalEvents(s) \/ PromptHandler(s) \/ Events(s)
      PROVE  LogInv' /\ Grows
  BY <1>3, <1>7 DEF Run, Stream, Start, GetRunHandle, GetStreamHandle, Reattach, Cancel,
      newDriveContext,
                    subscribeApprovalEvents, PromptHandler, Events, server
<1>8. ASSUME NEW s \in Slots, NEW a \in Approvals, Respond(s, a) \/ ApproveResponse(s, a) PROVE LogInv' /\ Grows
  BY <1>3, <1>8 DEF Respond, ApproveResponse, approve, server
<1>9. ASSUME \/ \E a \in Approvals : Approve(a)
             \/ deliverEvents \/ SubscriptionEnds \/ EmitTerminal \/ Disconnect
             \/ StopWorker \/ StartWorker \/ Crash
      PROVE  LogInv' /\ Grows
  BY <1>3, <1>9 DEF Approve, approve, deliverEvents, SubscriptionEnds, EmitTerminal, Disconnect,
      StopWorker,
                    StartWorker, Crash, server
<1>. QED
  BY <1>4, <1>5, <1>6, <1>7, <1>8, <1>9 DEF Next

(* A reader drops no approval that is open: the workflow would name it. *)
LEMMA NextApproval ==
    ASSUME Nested = {}, ApprovalInv, [Next]_vars
    PROVE  ApprovalInv'
<1>1. CASE UNCHANGED <<pending, missed>> /\ open' \subseteq open
  BY <1>1 DEF ApprovalInv
<1>2. CASE UNCHANGED vars
  BY <1>1, <1>2 DEF vars, server
<1>3. CASE LLMEvent \/ WorkflowEnds \/ ContinueAsNew \/ StopWorker \/ StartWorker
  BY <1>3 DEF LLMEvent, WorkflowEnds, ContinueAsNew, StopWorker, StartWorker, ApprovalInv
<1>4. ASSUME NEW a \in Approvals,
             \/ RequestApproval(a) \/ ApprovalTimesOut(a) \/ ApprovalSeen(a) \/ Approve(a)
             \/ \E s \in Slots : Respond(s, a) \/ ApproveResponse(s, a)
      PROVE  ApprovalInv'
  BY <1>4 DEF RequestApproval, ApprovalTimesOut, ApprovalSeen, Approve, Respond, ApproveResponse,
      approve, server,
              ApprovalInv
<1>5. ASSUME NEW a, MayDrop(a), Drop(a), UNCHANGED <<open, pending>> PROVE ApprovalInv'
  BY <1>5 DEF MayDrop, Drop, ApprovalInv
<1>6. ASSUME NEW s \in Slots, subscribeApprovalEvents(s) PROVE ApprovalInv'
  BY <1>1, <1>5, <1>6 DEF subscribeApprovalEvents, server
<1>7. CASE deliverEvents
  BY <1>1, <1>5, <1>7 DEF deliverEvents, Skip, Forward, server
<1>8. ASSUME NEW s \in Slots, HandleStep(s) PROVE ApprovalInv'
  <2>1. ASSUME terminateWorkflow \/ cancelWorkflow PROVE UNCHANGED pending /\ open' \subseteq open
    BY <2>1 DEF terminateWorkflow, cancelWorkflow, Terminated, server
  <2>2. CASE stopWorkflow(s) \/ GraceOver(s)
    BY <1>1, <2>1, <2>2 DEF stopWorkflow, GraceOver
  <2>3. CASE ~(stopWorkflow(s) \/ GraceOver(s))
    BY <1>1, <1>8, <2>3 DEF HandleStep, Register, awaitCompletion, closeDone, DriverDone,
        setStopCause, HandlerReturns, server
  <2>. QED
    BY <2>2, <2>3
<1>9. ASSUME NEW s \in Slots,
             \/ Run(s) \/ Stream(s) \/ GetRunHandle(s) \/ GetStreamHandle(s) \/ Cancel(s)
             \/ newDriveContext(s) \/ PromptHandler(s) \/ Events(s)
      PROVE  ApprovalInv'
  BY <1>1, <1>9 DEF Run, Stream, Start, GetRunHandle, GetStreamHandle, Reattach, Cancel,
      newDriveContext,
                    PromptHandler, Events, server
<1>10. CASE SubscriptionEnds \/ EmitTerminal \/ Disconnect \/ Crash
  BY <1>1, <1>10 DEF SubscriptionEnds, EmitTerminal, Disconnect, Crash, server
<1>. QED
  BY <1>2, <1>3, <1>4, <1>6, <1>7, <1>8, <1>9, <1>10 DEF Next, WorkflowStep

(* What may be left out now may be left out later. *)
LEMMA WithheldStays ==
    ASSUME LogInv, Grows, NEW i \in 1..Len(log), Withheld(i)
    PROVE  Withheld(i)'
<1>0. log \in Seq(LogItem) /\ Len(log) \in Nat
  BY LenProperties DEF LogInv
<1>1. Len(log) <= Len(log') /\ Len(log') \in Nat /\ \A j \in 1..Len(log) : log'[j] = log[j]
  BY <1>0, Appended DEF Grows
<1>2. CASE log[i].kind = "retry"
  BY <1>1, <1>2 DEF Withheld
<1>3. ASSUME log[i].kind = "content", NEW j \in 1..Len(log), log[j].kind = "retry", log[j].attempt > log[i].attempt
      PROVE  Withheld(i)'
  <2>1. j \in 1..Len(log') /\ log'[j] = log[j] /\ log'[i] = log[i]
    BY <1>0, <1>1
  <2>. QED
    BY <1>3, <2>1 DEF Withheld
<1>4. CASE log[i].kind = "approval" /\ log[i].id \notin open
  <2>1. log[i].id \in asked
    BY <1>4 DEF LogInv, ItemOK
  <2>2. log[i].id \notin open'
    BY <1>4, <2>1 DEF Grows
  <2>. QED
    BY <1>1, <1>4, <2>2 DEF Withheld
<1>. QED
  BY <1>2, <1>3, <1>4 DEF Withheld

LEMMA KnownStays ==
    ASSUME LogInv, Grows, seen \subseteq seen', NEW n \in Nat, n <= Len(log), \A j \in 0..(n - 1) : Known(j)
    PROVE  \A j \in 0..(n - 1) : Known(j)'
<1> SUFFICES ASSUME NEW j \in 0..(n - 1) PROVE Known(j)'
  OBVIOUS
<1>1. j + 1 \in 1..Len(log)
  BY LenProperties DEF LogInv
<1>2. Known(j)
  OBVIOUS
<1>. QED
  BY <1>1, <1>2, WithheldStays DEF Known

(* A reader that skips output still knows of the retry when the log grows. *)
LEMMA StaleStays ==
    ASSUME LogInv, Grows, NEW pos \in Nat, pos <= Len(log), NEW p \in 1..pos, StaleSince(log, p, pos)
    PROVE  StaleSince(log', p, pos)
<1>0. log \in Seq(LogItem) /\ Len(log) \in Nat
  BY LenProperties DEF LogInv
<1>1. \A j \in 1..Len(log) : log'[j] = log[j]
  BY <1>0, Appended DEF Grows
<1>2. p \in 1..Len(log) /\ \A q \in (p + 1)..pos : q \in 1..Len(log)
  BY <1>0
<1>. QED
  BY <1>1, <1>2 DEF StaleSince

(* Output that is skipped is that of an attempt that was retried. *)
LEMMA StaleIsWithheld ==
    ASSUME LogInv, NEW pos \in Nat, pos < Len(log), log[pos + 1].kind = "content",
           NEW p \in 1..pos, StaleSince(log, p, pos)
    PROVE  Withheld(pos + 1)
<1>0. log \in Seq(LogItem) /\ Len(log) \in Nat /\ pos + 1 \in 1..Len(log) /\ (pos + 1) - 1 = pos
  BY LenProperties DEF LogInv
<1>1. PICK q \in 1..pos : log[q].kind = "start" /\ log[q].attempt = log[pos + 1].attempt
  BY <1>0 DEF LogInv, ItemOK
<1>2. q \in 1..(p - 1) /\ p \in 1..Len(log) /\ q \in 1..Len(log)
  BY <1>0, <1>1 DEF StaleSince
<1>3. log[p].kind = "retry" /\ log[p].attempt > 1 /\ \A j \in 1..(p - 1) : log[j].kind = "retry" => log[j].attempt < log[p].attempt
  BY <1>2 DEF LogInv, ItemOK, StaleSince
<1>4. log[q].attempt \in Nat /\ log[p].attempt \in Nat
  <2>1. log[q] \in LogItem /\ log[p] \in LogItem
    BY <1>0, <1>2
  <2>. QED
    BY <2>1 DEF LogItem
<1>5. log[p].attempt > log[q].attempt
  <2>1. CASE log[q].attempt = 1
    BY <1>3, <1>4, <2>1
  <2>2. CASE log[q].attempt # 1
    <3>1. PICK j \in 1..(q - 1) : log[j].kind = "retry" /\ log[j].attempt = log[q].attempt
      BY <1>1, <1>2, <2>2 DEF LogInv, ItemOK
    <3>2. j \in 1..(p - 1)
      BY <1>2, <3>1
    <3>3. log[j].attempt < log[p].attempt
      BY <1>3, <3>1, <3>2
    <3>. QED
      BY <1>4, <3>1, <3>3
  <2>. QED
    BY <2>1, <2>2
<1>. QED
  BY <1>1, <1>2, <1>3, <1>5 DEF Withheld

(* A step that moves neither the subscription on nor the saved offset. *)
LEMMA ReaderStill ==
    ASSUME CaughtUpInv, LogInv, Grows, SubscriberOK, saved' = saved, seen' = seen,
           sub' = sub \/ sub'.st # "on"
    PROVE  CaughtUpInv'
<1>0. log \in Seq(LogItem) /\ Len(log) \in Nat /\ saved \in Nat
  BY LenProperties DEF LogInv, SubscriberOK
<1>1. Len(log) <= Len(log') /\ Len(log') \in Nat
  BY <1>0, Appended DEF Grows
<1>2. saved' <= Len(log') /\ \A j \in 0..(saved' - 1) : Known(j)'
  <2>1. saved <= Len(log) /\ \A j \in 0..(saved - 1) : Known(j)
    BY DEF CaughtUpInv
  <2>2. \A j \in 0..(saved - 1) : Known(j)'
    BY <1>0, <2>1, KnownStays
  <2>. QED
    BY <1>0, <1>1, <2>1, <2>2
<1>3. \A i \in seen' : i \in Nat /\ i <= saved'
  BY DEF CaughtUpInv
<1>4. ASSUME sub' = sub, sub.st = "on"
      PROVE  /\ saved' <= sub'.pos /\ sub'.pos <= Len(log')
             /\ \A j \in 0..(sub'.pos - 1) : Known(j)'
             /\ sub'.stale => \E p \in 1..sub'.pos : StaleSince(log', p, sub'.pos)
  <2>1. sub.pos \in Nat
    BY DEF SubscriberOK, Subscriber
  <2>2. /\ saved <= sub.pos /\ sub.pos <= Len(log) /\ \A j \in 0..(sub.pos - 1) : Known(j)
        /\ sub.stale => \E p \in 1..sub.pos : StaleSince(log, p, sub.pos)
    BY <1>4 DEF CaughtUpInv
  <2>3. \A j \in 0..(sub.pos - 1) : Known(j)'
    BY <2>1, <2>2, KnownStays
  <2>4. sub.stale => \E p \in 1..sub.pos : StaleSince(log', p, sub.pos)
    BY <2>1, <2>2, StaleStays
  <2>5. sub.pos <= Len(log')
    BY <1>0, <1>1, <2>1, <2>2
  <2>. QED
    BY <1>4, <2>2, <2>3, <2>4, <2>5
<1>. QED
  BY <1>2, <1>3, <1>4 DEF CaughtUpInv

(* A subscription that is resumed starts at the offset saved. *)
LEMMA ReaderResumes ==
    ASSUME CaughtUpInv, LogInv, SubscriberOK, NEW s \in Slots, Events(s)
    PROVE  CaughtUpInv'
<1>0. saved' = saved /\ seen' = seen /\ log' = log /\ open' = open
  BY DEF Events, server
<1>1. CASE UNCHANGED sub
  BY <1>0, <1>1, ReaderStill DEF Grows
<1>2. CASE sub' = [st |-> "on", h |-> s, pos |-> saved, from |-> saved, stale |-> FALSE]
  <2>1. sub'.pos = saved /\ ~sub'.stale
    BY <1>2
  <2>2. saved \in Nat /\ saved <= saved
    BY DEF SubscriberOK
  <2>3. \A j : Known(j)' <=> Known(j)
    BY <1>0 DEF Known, Withheld
  <2>. QED
    BY <1>0, <2>1, <2>2, <2>3 DEF CaughtUpInv
<1>. QED
  BY <1>1, <1>2 DEF Events

(* The subscription moves on by an item that is delivered or need not be. *)
LEMMA ReaderMoves ==
    ASSUME CaughtUpInv, LogInv, SubscriberOK, deliverEvents, Nested = {}, ApprovalInv
    PROVE  CaughtUpInv'
<1>n. PICK n \in Nat : n = sub.pos
  BY DEF SubscriberOK, Subscriber
<1>0. log \in Seq(LogItem) /\ Len(log) \in Nat /\ saved \in Nat /\ n \in Nat /\ n < Len(log) /\ sub \in Subscriber
  BY <1>n, LenProperties DEF LogInv, SubscriberOK, Subscriber, deliverEvents
<1>1. log' = log /\ open' = open /\ sub.st = "on"
  BY DEF deliverEvents, server
<1>2. /\ saved <= n /\ \A j \in 0..(n - 1) : Known(j)
      /\ sub.stale => \E p \in 1..n : StaleSince(log, p, n)
      /\ \A i \in seen : i \in Nat /\ i <= saved
  BY <1>n, <1>1 DEF CaughtUpInv
<1>3. sub'.pos = n + 1
  <2> DEFINE next == [sub EXCEPT !.pos = sub.pos + 1]
  <2>1. sub' \in {next, [next EXCEPT !.stale = TRUE], [next EXCEPT !.stale = FALSE]}
    BY DEF deliverEvents, Skip, Forward
  <2>. QED
    BY <1>0, <1>n, <2>1 DEF Subscriber
<1>4. \/ seen' = seen /\ saved' = saved
      \/ seen' = seen \cup {n} /\ saved' = n
  BY <1>n DEF deliverEvents, Skip, Forward
<1>5. Known(n)'
  <2>1. CASE n \in seen'
    BY <2>1 DEF Known
  <2>2. CASE n \notin seen'
    <3>1. \/ log[n + 1].kind = "retry"
          \/ log[n + 1].kind = "content" /\ sub.stale
          \/ log[n + 1].kind = "approval" /\ MayDrop(log[n + 1].id)
      BY <1>n, <2>2 DEF deliverEvents, Forward, SubItem
    <3>2. Withheld(n + 1)
      <4>1. CASE log[n + 1].kind = "retry"
        BY <4>1 DEF Withheld
      <4>2. CASE log[n + 1].kind = "content" /\ sub.stale
        BY <1>0, <1>2, <4>2, StaleIsWithheld
      <4>3. CASE log[n + 1].kind = "approval" /\ MayDrop(log[n + 1].id)
        BY <4>3 DEF Withheld, MayDrop, ApprovalInv
      <4>. QED
        BY <3>1, <4>1, <4>2, <4>3
    <3>. QED
      BY <1>1, <3>2 DEF Known, Withheld
  <2>. QED
    BY <2>1, <2>2
<1>6. \A j \in 0..(n - 1) : Known(j)'
  <2>1. seen \subseteq seen'
    BY <1>4
  <2>2. Grows
    BY <1>1 DEF Grows
  <2>. QED
    BY <1>0, <1>2, <2>1, <2>2, KnownStays
<1>7. \A j \in 0..n : Known(j)'
  BY <1>0, <1>5, <1>6
<1>8. sub'.stale => \E p \in 1..(n + 1) : StaleSince(log, p, n + 1)
  <2>1. CASE log[n + 1].kind = "retry"
    <3>1. StaleSince(log, n + 1, n + 1)
      BY <1>0, <2>1 DEF StaleSince
    <3>. QED
      BY <1>0, <3>1
  <2>2. CASE log[n + 1].kind = "start"
    <3>1. sub' = [[sub EXCEPT !.pos = sub.pos + 1] EXCEPT !.stale = FALSE]
      BY <1>n, <2>2 DEF deliverEvents, Forward, SubItem
    <3>2. ~sub'.stale
      BY <1>0, <3>1 DEF Subscriber
    <3>. QED
      BY <3>2
  <2>3. CASE log[n + 1].kind \notin {"retry", "start"}
    <3>1. sub' = [sub EXCEPT !.pos = sub.pos + 1]
      BY <1>n, <2>3 DEF deliverEvents, Forward, Skip, SubItem
    <3>2. sub'.stale = sub.stale
      BY <1>0, <3>1 DEF Subscriber
    <3>3. ASSUME NEW p \in 1..n, StaleSince(log, p, n) PROVE p \in 1..(n + 1) /\ StaleSince(log, p, n + 1)
      <4>1. \A q \in (p + 1)..(n + 1) : q \in (p + 1)..n \/ q = n + 1
        BY <1>0
      <4>. QED
        BY <1>0, <2>3, <3>3, <4>1 DEF StaleSince
    <3>. QED
      BY <1>2, <3>2, <3>3
  <2>. QED
    BY <2>1, <2>2, <2>3
<1>9. saved' \in Nat /\ saved' <= n /\ \A i \in seen' : i \in Nat /\ i <= saved'
  BY <1>0, <1>2, <1>4
<1>10. saved' <= Len(log') /\ (\A j \in 0..(saved' - 1) : Known(j)') /\ \A i \in seen' : i \in Nat /\ i <= saved'
  <2>1. saved' <= Len(log')
    BY <1>0, <1>1, <1>9
  <2>2. PICK m \in Nat : m = saved' /\ m <= n
    BY <1>9
  <2>3. \A j \in 0..(m - 1) : j \in 0..n
    <3>1. m <= n
      BY <2>2
    <3>. QED
      BY <3>1
  <2>4. \A j \in 0..(m - 1) : Known(j)'
    BY <1>7, <2>3
  <2>. QED
    BY <1>9, <2>1, <2>2, <2>4
<1>11. saved' <= sub'.pos /\ sub'.pos <= Len(log') /\ \A j \in 0..(sub'.pos - 1) : Known(j)'
  BY <1>0, <1>1, <1>3, <1>7, <1>9
<1>12. sub'.stale => \E p \in 1..sub'.pos : StaleSince(log', p, sub'.pos)
  BY <1>1, <1>3, <1>8
<1>. QED
  BY <1>10, <1>11, <1>12 DEF CaughtUpInv

LEMMA NextReader ==
    ASSUME Nested = {}, ReconnectInv, [Next]_vars
    PROVE  CaughtUpInv'
<1>1. LogInv /\ CaughtUpInv /\ ApprovalInv /\ SubscriberOK /\ Grows
  BY NextLog DEF ReconnectInv, ResultInv
<1>2. ASSUME NEW s \in Slots, Events(s) PROVE CaughtUpInv'
  BY <1>1, <1>2, ReaderResumes
<1>3. CASE deliverEvents
  BY <1>1, <1>3, ReaderMoves
<1>4. CASE saved' = saved /\ seen' = seen /\ (sub' = sub \/ sub'.st # "on")
  BY <1>1, <1>4, ReaderStill
<1>5. CASE SubscriptionEnds \/ EmitTerminal \/ Disconnect \/ Crash
  <2>1. saved' = saved /\ seen' = seen
    BY <1>5 DEF SubscriptionEnds, EmitTerminal, Disconnect, Crash
  <2>2. sub'.st # "on"
    BY <1>1, <1>5 DEF SubscriptionEnds, EmitTerminal, Disconnect, Crash, NoSub, SubscriberOK, Subscriber
  <2>. QED
    BY <1>4, <2>1, <2>2
<1>6. CASE UNCHANGED reader
  BY <1>4, <1>6 DEF reader
<1>7. CASE UNCHANGED vars
  BY <1>6, <1>7 DEF vars
<1>8. CASE WorkflowStep \/ StopWorker \/ StartWorker \/ \E a \in Approvals : Approve(a)
  BY <1>6, <1>8 DEF WorkflowStep, LLMEvent, WorkflowEnds, ContinueAsNew, RequestApproval,
      ApprovalTimesOut,
                    ApprovalSeen, StopWorker, StartWorker, Approve
<1>9. ASSUME NEW s \in Slots,
             \/ Run(s) \/ Stream(s) \/ GetRunHandle(s) \/ GetStreamHandle(s) \/ Cancel(s)
             \/ newDriveContext(s) \/ HandleStep(s) \/ subscribeApprovalEvents(s) \/ PromptHandler(s)
             \/ \E a \in Approvals : Respond(s, a) \/ ApproveResponse(s, a)
      PROVE  CaughtUpInv'
  BY <1>6, <1>9 DEF Run, Stream, Start, GetRunHandle, GetStreamHandle, Reattach, Cancel,
      newDriveContext,
                    HandleStep, Register, awaitCompletion, closeDone, DriverDone, setStopCause,
                    stopWorkflow,
                    GraceOver, HandlerReturns, subscribeApprovalEvents, PromptHandler, Respond,
                    ApproveResponse
<1>. QED
  BY <1>2, <1>3, <1>5, <1>7, <1>8, <1>9 DEF Next

LEMMA InitReconnect == Init => ReconnectInv
<1> SUFFICES ASSUME Init PROVE ReconnectInv
  OBVIOUS
<1>1. log = <<>> /\ attempt = 0 /\ open = {} /\ missed = {} /\ saved = 0 /\ seen = {} /\ sub.st = "off"
  BY DEF Init, NoSub
<1>2. log \in Seq(LogItem) /\ Len(log) = 0
  BY <1>1, EmptySeq
<1>3. LogInv
  BY <1>1, <1>2 DEF LogInv
<1>4. CaughtUpInv
  BY <1>1, <1>2 DEF CaughtUpInv
<1>. QED
  BY <1>1, <1>3, <1>4, InitResult DEF ReconnectInv, ApprovalInv

(* A client that reads on from the offset it saved, over any number of      *)
(* reconnects, crashes and handles, has no gaps in what it received, and no *)
(* reader drops an approval that is open (TemporalRuns.ReconnectComplete,   *)
(* deliverEvents, subscribeApprovalEvents). The root workflow is asked      *)
(* which approvals are open, so this is about those of the root: Nested is  *)
(* empty.                                                                   *)
THEOREM ReconnectsComplete ==
    ASSUME Nested = {}
    PROVE  Spec => []ReconnectComplete
<1>1. ReconnectInv /\ [Next]_vars => ReconnectInv'
  BY NextResult, NextLog, NextApproval, NextReader DEF ReconnectInv
<1>2. ReconnectInv => ReconnectComplete
  <2> SUFFICES ASSUME ReconnectInv, NEW i \in seen, NEW j \in 0..(i - 1) PROVE Known(j)
    BY DEF ReconnectInv, ReconnectComplete, ApprovalInv, Known
  <2>1. i \in Nat /\ i <= saved /\ saved \in Nat /\ \A k \in 0..(saved - 1) : Known(k)
    BY DEF ReconnectInv, CaughtUpInv, ResultInv, SubscriberOK
  <2>2. j \in 0..(saved - 1)
    BY <2>1
  <2>. QED
    BY <2>1, <2>2
<1>. QED
  BY <1>1, <1>2, InitReconnect, PTL DEF Spec
=============================================================================
