---------------------------- MODULE TemporalRuns ----------------------------
(***************************************************************************)
(* Run and stream handles of the Temporal runtime (internal/runtime/       *)
(* temporal/runtime.go, run_handle.go, stream_handle.go): one run, the     *)
(* handles that client processes hold on it, their drivers and the readers *)
(* of its event log. The workflow is seen from outside: a status on the    *)
(* server, a log it appends to and approvals it waits for; what it does    *)
(* between them is module TemporalWorkflow. A process can crash, workers   *)
(* can go away and be redeployed, calls to the server can fail.            *)
(***************************************************************************)
EXTENDS Naturals, Sequences, FiniteSets

CONSTANTS
    Modes,         \* {"run", "stream"}: started by Run, by Stream
    MaxHandles,    \* bound: handles that clients of the run come to hold
    Approvals,     \* approvals the run asks for
    Nested,        \* those asked for by a sub-agent's workflow
    HasTimeout,    \* Limits.Timeout is set
    LLMAttempts,   \* MaxAttempts of the LLM activity
    MaxLog,        \* bound: items of the event log
    MaxFaults      \* bound: crashes, failed calls to the server, worker changes

None == "none"
Slots == 1..MaxHandles

ASSUME RunsAssumption ==
    /\ Modes \subseteq {"run", "stream"} /\ Nested \subseteq Approvals
    /\ HasTimeout \in BOOLEAN /\ MaxHandles \in Nat \ {0}
    /\ LLMAttempts \in Nat \ {0} /\ MaxLog \in Nat /\ MaxFaults \in Nat

VARIABLES
    mode,
    status,           \* status of the workflow on the server
    cancelRequested,  \* the current execution has an unseen cancel request
    worker,           \* a worker polls the task queue
    sameConfig,       \* it has the fingerprint the run was started with
    log,              \* items of the workflow's stream; the offset of log[i] is i - 1
    attempt,          \* attempt of the LLM activity, 0 before its first event
    open,             \* approval activities the server holds open
    pending,          \* pendingApprovals of the root workflow
    asked,            \* approvals asked for so far
    active,           \* activeRuns / activeStreams of the process
    handle,           \* handle[s]
    feed,             \* feed[s]: the approval subscription of a Run handle
    sub,              \* the subscriber of Events
    seen,             \* offsets the client received, over all its subscriptions
    saved,            \* the offset the client resumes from
    told,             \* what the client was told about the end of the run
    missed,           \* approvals a reader of the log dropped while they were open
    faults,
    unstopped         \* a call to stop the workflow failed for good

server == <<status, cancelRequested, worker, sameConfig, log, attempt, open, pending, asked>>
reader == <<sub, seen, saved, told>>
vars == <<mode, server, active, handle, feed, reader, missed, faults, unstopped>>

Running == status = "running"
Closed == status \notin {"none", "running"}
NewHandle ==
    [life |-> "none", ctx |-> "ok", stopCause |-> "nil", cancelOnce |-> FALSE, res |-> None,
     done |-> FALSE, driver |-> "none"]
NewFeed == [pos |-> 0, queue |-> <<>>, prompted |-> {}, responses |-> {}]
NoSub == [st |-> "off", h |-> 0, pos |-> 0, from |-> 0, stale |-> FALSE]

TypeOK ==
    /\ mode \in Modes
    /\ status \in {"none", "running", "completed", "failed", "budget", "canceled", "terminated"}
    /\ {cancelRequested, worker, sameConfig, unstopped} \subseteq BOOLEAN
    /\ Len(log) <= MaxLog /\ attempt \in 0..LLMAttempts
    /\ open \subseteq asked /\ pending \subseteq asked /\ asked \subseteq Approvals
    /\ active \in 0..MaxHandles
    /\ seen \subseteq 0..MaxLog /\ saved \in 0..MaxLog /\ faults \in 0..MaxFaults

Init ==
    /\ mode \in Modes
    /\ status = "none" /\ cancelRequested = FALSE /\ worker = TRUE /\ sameConfig = TRUE
    /\ log = <<>> /\ attempt = 0 /\ open = {} /\ pending = {} /\ asked = {}
    /\ active = 0 /\ handle = [s \in Slots |-> NewHandle] /\ feed = [s \in Slots |-> NewFeed]
    /\ sub = NoSub /\ seen = {} /\ saved = 0 /\ told = None
    /\ missed = {} /\ faults = 0 /\ unstopped = FALSE

Fault == faults < MaxFaults /\ faults' = faults + 1
Live(s) == handle[s].life \in {"created", "live"}
-----------------------------------------------------------------------------
(* Run and Stream: the workflow is started and the handle created; its      *)
(* waiter runs from here on. Without a worker the poller check of a client  *)
(* with no worker of its own refuses, and nothing is started.               *)
Start(s) ==
    /\ status = "none" /\ worker /\ s = 1
    /\ status' = "running"
    /\ handle' = [handle EXCEPT ![s].life = "created"]
    /\ UNCHANGED <<mode, cancelRequested, worker, sameConfig, log, attempt, open, pending, asked,
                   active, feed, reader, missed, faults, unstopped>>

Run(s) == mode = "run" /\ Start(s)
Stream(s) == mode = "stream" /\ Start(s)

(* GetRunHandle and GetStreamHandle for a run that is open and has no       *)
(* handle in the process: a new handle. The handle is entered in the map    *)
(* only afterwards, so two callers can both come here. (With a handle in    *)
(* the map that one is returned, and a closed run is refused: no change.)   *)
(* The id of the run is known once Run or Stream returned.                  *)
Reattach(s) ==
    /\ Running /\ active = 0 /\ handle[1].life # "created"
    /\ handle[s].life = "none" /\ \A t \in 1..(s - 1) : handle[t].life # "none"
    /\ handle' = [handle EXCEPT ![s].life = "created"]
    /\ UNCHANGED <<mode, server, active, feed, reader, missed, faults, unstopped>>

GetRunHandle(s) == mode = "run" /\ Reattach(s)
GetStreamHandle(s) == mode = "stream" /\ Reattach(s)

(* The handle enters the map, and its driver starts.                        *)
Register(s) ==
    /\ handle[s].life = "created"
    /\ handle' = [handle EXCEPT ![s].life = "live", ![s].driver = "watch"]
    /\ active' = s
    /\ UNCHANGED <<mode, server, feed, reader, missed, faults, unstopped>>
-----------------------------------------------------------------------------
(* Mutant of mapWorkflowError: the stop cause is looked at before the error.*)
mapStopCauseFirst(s) ==
    IF handle[s].stopCause # "nil" THEN handle[s].stopCause ELSE status

(* What awaitCompletion keeps for Get.                                      *)
mapWorkflowError(s) ==
    IF status = "completed" THEN "completed"
    ELSE IF handle[s].stopCause # "nil" THEN handle[s].stopCause
    ELSE status

(* awaitCompletion: the result is stored under the mutex, and the entry of  *)
(* this workflow leaves the map, whosever it is.                            *)
awaitCompletion(s) ==
    /\ Live(s) /\ Closed /\ handle[s].res = None
    /\ handle' = [handle EXCEPT ![s].res = mapWorkflowError(s)]
    /\ active' = 0
    /\ UNCHANGED <<mode, server, feed, reader, missed, faults, unstopped>>

(* The deferred part: cancelOnce is spent, Done closes.                     *)
closeDone(s) ==
    /\ Live(s) /\ handle[s].res # None /\ ~handle[s].done
    /\ handle' = [handle EXCEPT ![s].cancelOnce = TRUE, ![s].done = TRUE]
    /\ UNCHANGED <<mode, server, active, feed, reader, missed, faults, unstopped>>

(* Cancel: the run context ends, once. (Later calls change nothing.)        *)
Cancel(s) ==
    /\ handle[s].life = "live" /\ ~handle[s].cancelOnce
    /\ handle' = [handle EXCEPT ![s].cancelOnce = TRUE,
                                ![s].ctx = IF @ = "ok" THEN "canceled" ELSE @]
    /\ UNCHANGED <<mode, server, active, feed, reader, missed, faults, unstopped>>

(* The run context of the drive runs into Limits.Timeout.                   *)
newDriveContext(s) ==
    /\ HasTimeout /\ Live(s) /\ handle[s].ctx = "ok" /\ ~handle[s].done
    /\ handle' = [handle EXCEPT ![s].ctx = "deadline"]
    /\ UNCHANGED <<mode, server, active, feed, reader, missed, faults, unstopped>>

Driver(s, at) == handle[s].life = "live" /\ handle[s].driver = at

(* The driver sees Done and returns; runCancel ends the context.            *)
DriverDone(s) ==
    /\ \E at \in {"watch", "grace", "stopped"} : Driver(s, at)
    /\ handle[s].done
    /\ handle' = [handle EXCEPT ![s].driver = "gone"]
    /\ UNCHANGED <<mode, server, active, feed, reader, missed, faults, unstopped>>

(* driveRun, driveStream: the context has ended; the reason is kept for the *)
(* waiter, which may already have stored its result.                        *)
setStopCause(s) ==
    /\ Driver(s, "watch") /\ handle[s].ctx # "ok"
    /\ handle' = [handle EXCEPT ![s].driver = "stop",
                                ![s].stopCause = IF @ = "nil" THEN handle[s].ctx ELSE @]
    /\ UNCHANGED <<mode, server, active, feed, reader, missed, faults, unstopped>>

Terminated ==
    /\ status' = (IF Running THEN "terminated" ELSE status)
    /\ open' = (IF Running THEN {} ELSE open)
    /\ cancelRequested' = FALSE
    /\ UNCHANGED <<worker, sameConfig, log, attempt, pending, asked>>

(* terminateWorkflow: the error of the call is dropped.                     *)
terminateWorkflow ==
    \/ Terminated /\ UNCHANGED <<faults, unstopped>>
    \/ Fault /\ unstopped' = TRUE /\ UNCHANGED server

(* cancelWorkflow: a cancel request, or Terminate when that call fails.     *)
cancelWorkflow ==
    \/ /\ cancelRequested' = Running
       /\ UNCHANGED <<status, worker, sameConfig, log, attempt, open, pending, asked>>
       /\ UNCHANGED <<faults, unstopped>>
    \/ Fault /\ Terminated /\ UNCHANGED unstopped

(* Mutant of stopWorkflow: a cancelled run is asked to end, and that is all.*)
stopWorkflowOnce(s) ==
    /\ Driver(s, "stop")
    /\ IF handle[s].stopCause = "deadline"
       THEN terminateWorkflow /\ handle' = [handle EXCEPT ![s].driver = "stopped"]
       ELSE cancelWorkflow /\ handle' = [handle EXCEPT ![s].driver = "stopped"]
    /\ UNCHANGED <<mode, active, feed, reader, missed>>

(* stopWorkflow: Terminate after a deadline; after a cancel a request       *)
(* first, then Terminate when the run is still open after three seconds.    *)
stopWorkflow(s) ==
    /\ Driver(s, "stop")
    /\ IF handle[s].stopCause = "deadline"
       THEN terminateWorkflow /\ handle' = [handle EXCEPT ![s].driver = "stopped"]
       ELSE cancelWorkflow /\ handle' = [handle EXCEPT ![s].driver = "grace"]
    /\ UNCHANGED <<mode, active, feed, reader, missed>>

GraceOver(s) ==
    /\ Driver(s, "grace") /\ ~handle[s].done
    /\ terminateWorkflow
    /\ handle' = [handle EXCEPT ![s].driver = "stopped"]
    /\ UNCHANGED <<mode, active, feed, reader, missed>>
-----------------------------------------------------------------------------
(* isPendingApproval: the query asks the root workflow, and a failed query  *)
(* counts as yes; a query needs a worker.                                   *)
MayForward(a) == a \in pending \/ ~worker \/ ~Running
MayDrop(a) == a \notin pending /\ worker

Drop(a) == missed' = missed \cup ({a} \cap open)

(* subscribeApprovalEvents: the log from its start, approvals only.         *)
FeedItem(s) == log[feed[s].pos + 1]
SubscribeRuns(s) ==
    /\ mode = "run" /\ Live(s) /\ handle[s].ctx = "ok" /\ handle[s].driver # "gone"
    /\ feed[s].pos < Len(log)

subscribeApprovalEvents(s) ==
    /\ SubscribeRuns(s)
    /\ LET next == [feed EXCEPT ![s].pos = @ + 1] IN
       \/ /\ FeedItem(s).kind # "approval"
          /\ feed' = next /\ UNCHANGED missed
       \/ /\ FeedItem(s).kind = "approval" /\ MayForward(FeedItem(s).id)
          /\ feed' = [next EXCEPT ![s].queue = Append(@, FeedItem(s).id)] /\ UNCHANGED missed
       \/ /\ FeedItem(s).kind = "approval" /\ MayDrop(FeedItem(s).id)
          /\ feed' = next /\ Drop(FeedItem(s).id)
    /\ UNCHANGED <<mode, server, active, handle, reader, faults, unstopped>>

(* driveRun takes an approval event and calls the handler, which keeps the  *)
(* driver busy until it returns.                                            *)
PromptHandler(s) ==
    /\ mode = "run" /\ Driver(s, "watch") /\ feed[s].queue # <<>>
    /\ feed' = [feed EXCEPT ![s].queue = Tail(@),
                            ![s].prompted = @ \cup {Head(feed[s].queue)}]
    /\ handle' = [handle EXCEPT ![s].driver = "prompting"]
    /\ UNCHANGED <<mode, server, active, reader, missed, faults, unstopped>>

HandlerReturns(s) ==
    /\ Driver(s, "prompting")
    /\ handle' = [handle EXCEPT ![s].driver = "watch"]
    /\ UNCHANGED <<mode, server, active, feed, reader, missed, faults, unstopped>>

(* Respond, from inside the handler or later.                               *)
Respond(s, a) ==
    /\ handle[s].life = "live" /\ a \in feed[s].prompted
    /\ feed' = [feed EXCEPT ![s].prompted = @ \ {a}, ![s].responses = @ \cup {a}]
    /\ UNCHANGED <<mode, server, active, handle, reader, missed, faults, unstopped>>

(* approve completes the approval activity; a call for one that is no       *)
(* longer open is answered ErrApprovalAlreadyResolved.                      *)
approve(a) ==
    /\ open' = open \ {a}
    /\ UNCHANGED <<status, cancelRequested, worker, sameConfig, log, attempt, pending, asked>>

ApproveResponse(s, a) ==
    /\ Driver(s, "watch") /\ a \in feed[s].responses /\ handle[s].ctx = "ok"
    /\ approve(a)
    /\ feed' = [feed EXCEPT ![s].responses = @ \ {a}]
    /\ UNCHANGED <<mode, active, handle, reader, missed, faults, unstopped>>

(* StreamHandle.Approve for an approval event the client has received.      *)
Approve(a) ==
    /\ mode = "stream" /\ a \in open
    /\ \E i \in seen : log[i + 1].kind = "approval" /\ log[i + 1].id = a
    /\ \E s \in Slots : Live(s)
    /\ approve(a)
    /\ UNCHANGED <<mode, active, handle, feed, reader, missed, faults, unstopped>>
-----------------------------------------------------------------------------
(* Mutant of Events: a new subscription begins at the end of the log.       *)
EventsFromNow(s) ==
    /\ mode = "stream" /\ handle[s].life = "live" /\ sub.st = "off" /\ told = None
    /\ \/ /\ Running
          /\ sub' = [st |-> "on", h |-> s, pos |-> Len(log), from |-> saved, stale |-> FALSE]
          /\ UNCHANGED told
       \/ Closed /\ told' = "already completed" /\ UNCHANGED sub
    /\ UNCHANGED <<mode, server, active, handle, feed, seen, saved, missed, faults, unstopped>>

(* Events: the status gate, then a subscription from the saved offset.      *)
Events(s) ==
    /\ mode = "stream" /\ handle[s].life = "live" /\ sub.st = "off" /\ told = None
    /\ \/ /\ Running
          /\ sub' = [st |-> "on", h |-> s, pos |-> saved, from |-> saved, stale |-> FALSE]
          /\ UNCHANGED told
       \/ Closed /\ told' = "already completed" /\ UNCHANGED sub
    /\ UNCHANGED <<mode, server, active, handle, feed, seen, saved, missed, faults, unstopped>>

SubItem == log[sub.pos + 1]
Forward(next) ==
    /\ sub' = next /\ seen' = seen \cup {sub.pos} /\ saved' = sub.pos /\ UNCHANGED missed
Skip(next) == sub' = next /\ UNCHANGED <<seen, saved, missed>>

(* deliverEvents: one item of the log.                                      *)
deliverEvents ==
    /\ sub.st = "on" /\ sub.pos < Len(log)
    /\ LET next == [sub EXCEPT !.pos = @ + 1] IN
       \/ SubItem.kind = "retry" /\ Skip([next EXCEPT !.stale = TRUE])
       \/ SubItem.kind = "content" /\ sub.stale /\ Skip(next)
       \/ SubItem.kind = "content" /\ ~sub.stale /\ Forward(next)
       \/ SubItem.kind = "start" /\ Forward([next EXCEPT !.stale = FALSE])
       \/ SubItem.kind = "approval" /\ (sub.from = 0 \/ MayForward(SubItem.id)) /\ Forward(next)
       \/ SubItem.kind = "approval" /\ sub.from > 0 /\ MayDrop(SubItem.id)
          /\ sub' = next /\ Drop(SubItem.id) /\ UNCHANGED <<seen, saved>>
    /\ UNCHANGED <<mode, server, active, handle, feed, told, faults, unstopped>>

(* The loop over the subscription ends: the run is done, or polling failed, *)
(* as it does once the workflow is closed. What is left of the log stays    *)
(* undelivered.                                                             *)
SubscriptionEnds ==
    /\ sub.st = "on"
    /\ \/ (handle[sub.h].done \/ Closed) /\ UNCHANGED faults
       \/ ~Closed /\ Fault
    /\ sub' = [sub EXCEPT !.st = "final"]
    /\ UNCHANGED <<mode, server, active, handle, feed, seen, saved, told, missed, unstopped>>

(* Get, and the synthetic last event: RUN_FINISHED or RUN_ERROR.            *)
EmitTerminal ==
    /\ sub.st = "final" /\ handle[sub.h].done
    /\ told' = handle[sub.h].res /\ sub' = NoSub
    /\ UNCHANGED <<mode, server, active, handle, feed, seen, saved, missed, faults, unstopped>>

(* The Events context ends: only this subscriber stops.                     *)
Disconnect ==
    /\ sub.st = "on" /\ Fault
    /\ sub' = NoSub
    /\ UNCHANGED <<mode, server, active, handle, feed, seen, saved, told, missed, unstopped>>
-----------------------------------------------------------------------------
(* The workflow, as the handles and the log show it.                        *)
Works == Running /\ worker /\ sameConfig
CanLog == Len(log) < MaxLog
Logged == {log[i] : i \in 1..Len(log)}
Write(e) == log' = Append(log, e)
Item(k, n) == [kind |-> k, id |-> None, attempt |-> n]

(* The stream of the LLM activity, which only Stream turns on. A further    *)
(* attempt first sends a retry signal; events of an earlier attempt may     *)
(* still come in after it.                                                  *)
LLMEvent ==
    /\ Works /\ CanLog /\ mode = "stream"
    /\ \/ attempt = 0 /\ attempt' = 1 /\ Write(Item("start", 1))
       \/ attempt \in 1..(LLMAttempts - 1) /\ attempt' = attempt + 1
          /\ Write(Item("retry", attempt + 1))
       \/ attempt > 1 /\ Item("start", attempt) \notin Logged
          /\ Write(Item("start", attempt)) /\ UNCHANGED attempt
       \/ /\ \E n \in {attempt, attempt - 1} \ {0} :
                Item("start", n) \in Logged /\ Write(Item("content", n))
          /\ UNCHANGED attempt
    /\ UNCHANGED <<mode, status, cancelRequested, worker, sameConfig, open, pending, asked, active,
                   handle, feed, reader, missed, faults, unstopped>>

(* A tool call asks: its workflow notes the call as pending, its activity   *)
(* is open on the server and writes the event to the root's log.            *)
RequestApproval(a) ==
    /\ Works /\ CanLog /\ a \notin asked
    /\ asked' = asked \cup {a} /\ open' = open \cup {a}
    /\ pending' = pending \cup ({a} \ Nested)
    /\ Write([kind |-> "approval", id |-> a, attempt |-> 0])
    /\ UNCHANGED <<mode, status, cancelRequested, worker, sameConfig, attempt, active, handle,
                   feed, reader, missed, faults, unstopped>>

(* The timeout of an approval activity.                                     *)
ApprovalTimesOut(a) ==
    /\ a \in open /\ approve(a)
    /\ UNCHANGED <<mode, active, handle, feed, reader, missed, faults, unstopped>>

(* The workflow learns that an approval is resolved.                        *)
ApprovalSeen(a) ==
    /\ Works /\ a \in pending \ open
    /\ pending' = pending \ {a}
    /\ UNCHANGED <<mode, status, cancelRequested, worker, sameConfig, log, attempt, open, asked,
                   active, handle, feed, reader, missed, faults, unstopped>>

(* The workflow ends: with an answer, with an error, or cancelled; at once  *)
(* with an error when the worker has another configuration.                 *)
WorkflowEnds ==
    /\ Running /\ worker
    /\ status' \in (IF ~sameConfig THEN {"failed"}
                    ELSE {"completed", "failed", "budget"}
                         \cup (IF cancelRequested THEN {"canceled"} ELSE {}))
    /\ cancelRequested' = FALSE /\ open' = {}
    /\ UNCHANGED <<mode, worker, sameConfig, log, attempt, pending, asked, active, handle, feed,
                   reader, missed, faults, unstopped>>

(* Continue-as-new: the next execution knows neither the cancel request nor *)
(* the approvals; it carries the log on.                                    *)
ContinueAsNew ==
    /\ Works /\ open = {} /\ (pending # {} \/ cancelRequested)
    /\ cancelRequested' = FALSE /\ pending' = {}
    /\ UNCHANGED <<mode, status, worker, sameConfig, log, attempt, open, asked, active, handle,
                   feed, reader, missed, faults, unstopped>>

(* Workers: Stop or Close, and a Start, maybe of another configuration.     *)
StopWorker ==
    /\ worker /\ status # "none" /\ Fault /\ worker' = FALSE
    /\ UNCHANGED <<mode, status, cancelRequested, sameConfig, log, attempt, open, pending, asked,
                   active, handle, feed, reader, missed, unstopped>>

StartWorker ==
    /\ ~worker /\ worker' = TRUE
    /\ sameConfig' \in BOOLEAN
    /\ UNCHANGED <<mode, status, cancelRequested, log, attempt, open, pending, asked, active,
                   handle, feed, reader, missed, faults, unstopped>>

(* The client process crashes: its handles, drivers and subscriber are gone,*)
(* the run is not.                                                          *)
Crash ==
    /\ Fault /\ \E s \in Slots : Live(s)
    /\ handle' = [s \in Slots |-> IF Live(s) THEN [NewHandle EXCEPT !.life = "dead"]
                                  ELSE handle[s]]
    /\ active' = 0 /\ sub' = NoSub
    /\ feed' = [s \in Slots |-> NewFeed]
    /\ UNCHANGED <<mode, server, seen, saved, told, missed, unstopped>>
-----------------------------------------------------------------------------
HandleStep(s) ==
    \/ Register(s) \/ awaitCompletion(s) \/ closeDone(s) \/ DriverDone(s) \/ setStopCause(s)
    \/ stopWorkflow(s) \/ GraceOver(s) \/ HandlerReturns(s)

WorkflowStep ==
    \/ LLMEvent \/ WorkflowEnds \/ ContinueAsNew
    \/ \E a \in Approvals : RequestApproval(a) \/ ApprovalTimesOut(a) \/ ApprovalSeen(a)

Next ==
    \/ \E s \in Slots :
          \/ Run(s) \/ Stream(s) \/ GetRunHandle(s) \/ GetStreamHandle(s) \/ Cancel(s)
          \/ newDriveContext(s) \/ HandleStep(s) \/ subscribeApprovalEvents(s)
          \/ PromptHandler(s) \/ Events(s)
          \/ \E a \in Approvals : Respond(s, a) \/ ApproveResponse(s, a)
    \/ \E a \in Approvals : Approve(a)
    \/ deliverEvents \/ SubscriptionEnds \/ EmitTerminal \/ Disconnect
    \/ WorkflowStep \/ StopWorker \/ StartWorker \/ Crash

(* The goroutines of a live process and their timers go on; workers, the    *)
(* workflow, people and further calls of clients need not.                  *)
Fairness ==
    /\ \A s \in Slots : WF_vars(HandleStep(s))
    /\ WF_vars(Closed /\ SubscriptionEnds) /\ WF_vars(EmitTerminal)

Spec == Init /\ [][Next]_vars /\ Fairness
-----------------------------------------------------------------------------
(* A handle reports success exactly when the workflow completed, whatever   *)
(* was cancelled or timed out meanwhile (run_handle.go awaitCompletion),    *)
(* and a cancellation or a timeout only if this handle's own run context    *)
(* ended that way; the last event of a stream says the same.                *)
ResultAgrees ==
    /\ \A s \in Slots : handle[s].res # None =>
          /\ (handle[s].res = "completed" <=> status = "completed")
          /\ handle[s].res = "deadline" => handle[s].ctx = "deadline"
          /\ handle[s].res = "canceled" => handle[s].ctx = "canceled" \/ status = "canceled"
    /\ told = "completed" => status = "completed"

(* Items of the log a reader may leave out: retry signals, output of an LLM *)
(* attempt that was retried, approvals that are no longer open.             *)
Withheld(i) ==
    \/ log[i].kind = "retry"
    \/ /\ log[i].kind = "content"
       /\ \E j \in 1..Len(log) : log[j].kind = "retry" /\ log[j].attempt > log[i].attempt
    \/ log[i].kind = "approval" /\ log[i].id \notin open

(* What a client received over all its subscriptions, each resumed from the *)
(* offset it saved, has no gaps: an earlier item it does not have is a      *)
(* retry signal, output of an LLM attempt that was retried, or an approval  *)
(* that is no longer open (deliverEvents). Nor does the approval feed of a  *)
(* handle drop one that is still open (subscribeApprovalEvents).            *)
ReconnectComplete ==
    /\ missed \cap open = {}
    /\ \A i \in seen : \A j \in 0..(i - 1) : j \in seen \/ Withheld(j + 1)

(* A run that is cancelled or times out ends for its handle, with or        *)
(* without a worker to notice: Done closes, unless the process crashes or   *)
(* the call to Terminate itself fails (stopWorkflow drops that error).      *)
StopsWhenAsked ==
    \A s \in Slots :
       (Live(s) /\ handle[s].ctx # "ok") ~> (handle[s].done \/ ~Live(s) \/ unstopped)

=============================================================================
