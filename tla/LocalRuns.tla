----------------------------- MODULE LocalRuns ------------------------------
(***************************************************************************)
(* Handles and drivers of the local runtime (internal/runtime/local/       *)
(* runtime.go, run_handle.go, stream_handle.go, durable_engine.go): one    *)
(* run, with or without durable execution. Durable: the loop is a task of  *)
(* the durable-go engine (external), its LLM calls, approvals and tool     *)
(* calls are steps whose results are on disk; after a crash a reattached   *)
(* handle drives the task again and recorded steps are not repeated. The   *)
(* loop itself is module AgentLoop; here it is the steps of one round.     *)
(***************************************************************************)
EXTENDS Naturals, Sequences, FiniteSets

CONSTANTS
    Durability,     \* subset of BOOLEAN: settings of LocalConfig.Durability
    MaxHandles,     \* bound: handles of the run
    MaxCrashes      \* bound: crashes of the process

ASSUME LocalRunsAssumption ==
    /\ Durability \subseteq BOOLEAN
    /\ MaxHandles \in Nat \ {0} /\ MaxCrashes \in Nat

Slots == 1..MaxHandles
None == "none"

(* One round of the loop: a model call, the approval of its tool call, the  *)
(* tool, and the call that answers.                                         *)
Script == <<"llm-0", "approval-0", "tool-0", "llm-1">>
StepIds == {Script[i] : i \in 1..Len(Script)}
Values(id) == CASE id = "approval-0" -> {"approved", "rejected"}
                [] id = "tool-0"     -> {"result"}
                [] OTHER             -> {"one", "another"}

VARIABLES
    durable,    \* rt.engine # nil
    disk,       \* the engine's record of the run
    step,       \* step[id]: the engine's record of a step
    exec,       \* the task body (or, not durable, the loop) at work
    driver,     \* liveDrivers
    handle,     \* handle[s]
    ends,       \* ends[s]: terminal events in the channel of s
    first,      \* first[id]: the result the loop first went on with
    toolRuns,   \* executions of the tool
    crashes

vars == <<durable, disk, step, exec, driver, handle, ends, first, toolRuns, crashes>>

NewHandle == [pc |-> "none", stream |-> FALSE, ctx |-> "ok", once |-> FALSE, status |-> "running",
              done |-> FALSE, target |-> 0, got |-> None]
Idle == [on |-> FALSE, at |-> 1, phase |-> "begin", ctx |-> "ok", value |-> None, prompted |-> FALSE,
         used |-> [id \in StepIds |-> None]]

TypeOK ==
    /\ durable \in Durability
    /\ disk.status \in {None, "running", "completed", "failed", "cancelled"}
    /\ disk.cancel \in BOOLEAN
    /\ exec.at \in 1..(Len(Script) + 1) /\ exec.ctx \in {"ok", "ended"}
    /\ driver \in 0..MaxHandles
    /\ \A s \in Slots : handle[s].target \in 0..MaxHandles /\ ends[s] \in 0..MaxHandles
    /\ toolRuns \in 0..(MaxCrashes + 1) /\ crashes \in 0..MaxCrashes

Init ==
    /\ durable \in Durability
    /\ disk = [status |-> None, cancel |-> FALSE]
    /\ step = [id \in StepIds |-> None]
    /\ exec = Idle /\ driver = 0
    /\ handle = [s \in Slots |-> NewHandle] /\ ends = [s \in Slots |-> 0]
    /\ first = [id \in StepIds |-> None] /\ toolRuns = 0 /\ crashes = 0

Live(s) == handle[s].pc \notin {"none", "dead"}
Ended == disk.status \in {"completed", "failed", "cancelled"}
-----------------------------------------------------------------------------
(* A new run: the handle, then the driver's goroutine.                      *)
Start(stream) ==
    /\ handle[1].pc = "none"
    /\ handle' = [handle EXCEPT ![1].pc = IF durable THEN "register" ELSE "drive",
                                ![1].stream = stream]
    /\ IF durable THEN UNCHANGED <<disk, exec>>
       ELSE /\ disk' = [disk EXCEPT !.status = "running"]
            /\ exec' = [exec EXCEPT !.on = TRUE]
    /\ UNCHANGED <<durable, step, driver, ends, first, toolRuns, crashes>>

Run == Start(FALSE)

(* Stream subscribes before anything is published.                          *)
Stream == Start(TRUE)

(* Reattachment: only durable, only while the record says the run is not    *)
(* over; the handle's context is the caller's.                              *)
Reattach(s, stream) ==
    /\ durable /\ disk.status = "running"
    /\ handle[s].pc = "none" /\ \A t \in 1..(s - 1) : handle[t].pc # "none"
    /\ handle' = [handle EXCEPT ![s].pc = "register", ![s].stream = stream]
    /\ UNCHANGED <<durable, disk, step, exec, driver, ends, first, toolRuns, crashes>>

GetRunHandle(s) == Reattach(s, FALSE)

GetStreamHandle(s) == Reattach(s, TRUE)

(* The driver of record starts the task, resumes it, or finds it over.      *)
startDurableRun ==
    /\ disk' = [disk EXCEPT !.status = IF @ = None THEN "running" ELSE @]
    /\ exec' = IF exec.on \/ Ended THEN exec
               ELSE [Idle EXCEPT !.on = TRUE, !.ctx = IF disk.cancel THEN "ended" ELSE "ok"]

registerDriver(s) ==
    /\ handle[s].pc = "register"
    /\ \/ /\ driver = 0
          /\ driver' = s /\ handle' = [handle EXCEPT ![s].pc = "drive"]
          /\ startDurableRun
       \/ /\ driver # 0
          /\ handle' = [handle EXCEPT ![s].pc = "attached", ![s].target = driver]
          /\ UNCHANGED <<disk, exec, driver>>
    /\ UNCHANGED <<durable, step, ends, first, toolRuns, crashes>>

(* Mutant of TaskGet: the driver takes the answer of the loop before the    *)
(* engine has recorded it.                                                  *)
TaskGetEarly(s, next) ==
    /\ \/ Ended /\ handle' = [handle EXCEPT ![s].pc = next, ![s].got = disk.status]
       \/ /\ exec.on /\ exec.at > Len(Script)
          /\ handle' = [handle EXCEPT ![s].pc = next, ![s].got = "completed"]
    /\ UNCHANGED <<durable, disk, step, exec, driver, ends, first, toolRuns, crashes>>

(* TaskRun.Get of the engine: the task is over, or the driver's own context *)
(* is; then the task goes on unattended.                                    *)
TaskGet(s, next) ==
    /\ \/ Ended /\ handle' = [handle EXCEPT ![s].pc = next, ![s].got = disk.status]
       \/ /\ handle[s].ctx # "ok"
          /\ handle' = [handle EXCEPT ![s].pc = next, ![s].got = "stopped"]
    /\ UNCHANGED <<durable, disk, step, exec, driver, ends, first, toolRuns, crashes>>

(* executeAgentLoop returns to the driver that called it.                   *)
LoopReturns(s, next) ==
    /\ Ended /\ handle' = [handle EXCEPT ![s].pc = next, ![s].got = disk.status]
    /\ UNCHANGED <<durable, disk, step, exec, driver, ends, first, toolRuns, crashes>>

Drives(s, stream) == handle[s].pc = "drive" /\ handle[s].stream = stream

driveRun(s) == ~durable /\ Drives(s, FALSE) /\ LoopReturns(s, "mark")

driveStream(s) == ~durable /\ Drives(s, TRUE) /\ LoopReturns(s, "publish")

driveDurableRun(s) == durable /\ Drives(s, FALSE) /\ TaskGet(s, "mark")

driveDurableStream(s) == durable /\ Drives(s, TRUE) /\ TaskGet(s, "publish")

Subscribed(s) ==
    /\ handle[s].stream
    /\ handle[s].pc \in {"register", "attached", "drive", "publish", "mark", "close", "done"}

(* RUN_FINISHED or RUN_ERROR, from the driver of a stream to every          *)
(* subscriber of the run's channel.                                         *)
publishLifecycleEvent(s) ==
    /\ handle[s].pc = "publish"
    /\ ends' = [t \in Slots |-> IF Subscribed(t) THEN ends[t] + 1 ELSE ends[t]]
    /\ handle' = [handle EXCEPT ![s].pc = "mark"]
    /\ UNCHANGED <<durable, disk, step, exec, driver, first, toolRuns, crashes>>

(* A handle attached to a live driver takes over its result.                *)
AttachedGet(s) ==
    /\ handle[s].pc = "attached"
    /\ \/ /\ handle[handle[s].target].done
          /\ handle' = [handle EXCEPT ![s].pc = "mark", ![s].got = handle[handle[s].target].got]
       \/ /\ handle[s].ctx # "ok"
          /\ handle' = [handle EXCEPT ![s].pc = "mark", ![s].got = "stopped"]
    /\ UNCHANGED <<durable, disk, step, exec, driver, ends, first, toolRuns, crashes>>

(* markDone: the status under the mutex, then cancelOnce, then Done. A      *)
(* context that was cancelled counts as cancelled, one past its deadline as *)
(* failed.                                                                  *)
markDone(s) ==
    /\ handle[s].pc = "mark"
    /\ \E st \in IF handle[s].got = "stopped" THEN {"cancelled", "failed"} ELSE {handle[s].got} :
          handle' = [handle EXCEPT ![s].pc = "close", ![s].status = st]
    /\ UNCHANGED <<durable, disk, step, exec, driver, ends, first, toolRuns, crashes>>

(* Mutant of closeDone: Done is closed inside cancelOnce.                   *)
closeDoneOnce(s) ==
    /\ handle[s].pc = "close"
    /\ handle' = [handle EXCEPT ![s].pc = "done", ![s].once = TRUE, ![s].done = ~handle[s].once]
    /\ UNCHANGED <<durable, disk, step, exec, driver, ends, first, toolRuns, crashes>>

closeDone(s) ==
    /\ handle[s].pc = "close"
    /\ handle' = [handle EXCEPT ![s].pc = "done", ![s].once = TRUE, ![s].done = TRUE]
    /\ UNCHANGED <<durable, disk, step, exec, driver, ends, first, toolRuns, crashes>>

(* The goroutine's deferred calls: the driver of record is released, the    *)
(* subscription closed.                                                     *)
DriverReturns(s) ==
    /\ handle[s].pc = "done"
    /\ driver' = (IF driver = s THEN 0 ELSE driver)
    /\ handle' = [handle EXCEPT ![s].pc = "gone"]
    /\ UNCHANGED <<durable, disk, step, exec, ends, first, toolRuns, crashes>>

(* Cancel. Durable: the engine keeps the request, however often it is made, *)
(* and may not know the run yet; the handle's context ends too. Otherwise   *)
(* only the context, once.                                                  *)
Cancel(s) ==
    /\ Live(s) /\ (durable \/ ~handle[s].once)
    /\ handle' = [handle EXCEPT ![s].once = TRUE, ![s].ctx = IF handle[s].once THEN @ ELSE "ended"]
    /\ \/ durable /\ disk.status # "running" /\ UNCHANGED <<disk, exec>>
       \/ /\ ~Ended
          /\ disk' = IF durable THEN [disk EXCEPT !.cancel = TRUE] ELSE disk
          /\ exec' = IF exec.on THEN [exec EXCEPT !.ctx = "ended"] ELSE exec
       \/ ~durable /\ Ended /\ UNCHANGED <<disk, exec>>
    /\ UNCHANGED <<durable, step, driver, ends, first, toolRuns, crashes>>

(* The context of the handle ends: Limits.Timeout, or the caller's context. *)
(* A durable task has a context of its own.                                 *)
ContextEnds(s) ==
    /\ Live(s) /\ handle[s].ctx = "ok"
    /\ handle' = [handle EXCEPT ![s].ctx = "ended"]
    /\ exec' = IF exec.on /\ ~durable THEN [exec EXCEPT !.ctx = "ended"] ELSE exec
    /\ UNCHANGED <<durable, disk, step, driver, ends, first, toolRuns, crashes>>

(* runOptions: the task has Limits.Timeout of its own, anew when resumed.   *)
RunTimeout ==
    /\ durable /\ exec.on /\ exec.ctx = "ok"
    /\ exec' = [exec EXCEPT !.ctx = "ended"]
    /\ UNCHANGED <<durable, disk, step, driver, handle, ends, first, toolRuns, crashes>>
-----------------------------------------------------------------------------
At == Script[exec.at]
Skipped(id) == id = "tool-0" /\ exec.used["approval-0"] \in {"rejected", "timedOut"}
Begins == exec.on /\ exec.ctx = "ok" /\ exec.at <= Len(Script) /\ exec.phase = "begin"

(* The loop goes on with result v of a step.                                *)
Use(id, v) ==
    /\ exec' = [exec EXCEPT !.at = @ + 1, !.phase = "begin", !.value = None, !.prompted = FALSE,
                            !.used[id] = v]
    /\ first' = [first EXCEPT ![id] = IF @ = None THEN v ELSE @]

Result(id) == durable /\ step[id] \notin {None, "waiting"}

(* runStep: a recorded result is replayed.                                  *)
ReplayStep ==
    /\ Begins /\ ~Skipped(At) /\ Result(At)
    /\ Use(At, step[At])
    /\ UNCHANGED <<durable, disk, step, driver, handle, ends, toolRuns, crashes>>

(* A step without a record: its function is called.                         *)
CallStep ==
    /\ Begins /\ ~Skipped(At) /\ ~Result(At) /\ At # "approval-0"
    /\ \E v \in Values(At) : exec' = [exec EXCEPT !.phase = "called", !.value = v]
    /\ toolRuns' = (IF At = "tool-0" THEN toolRuns + 1 ELSE toolRuns)
    /\ UNCHANGED <<durable, disk, step, driver, handle, ends, first, crashes>>

(* Mutant of RecordStep: the loop goes on, nothing is recorded.             *)
UseUnrecorded ==
    /\ exec.on /\ exec.phase = "called"
    /\ Use(At, exec.value)
    /\ UNCHANGED <<durable, disk, step, driver, handle, ends, toolRuns, crashes>>

(* Its result is recorded, and only then used.                              *)
RecordStep ==
    /\ exec.on /\ exec.phase = "called"
    /\ step' = (IF durable THEN [step EXCEPT ![At] = exec.value] ELSE step)
    /\ Use(At, exec.value)
    /\ UNCHANGED <<durable, disk, driver, handle, ends, toolRuns, crashes>>

SkipStep ==
    /\ Begins /\ Skipped(At)
    /\ exec' = [exec EXCEPT !.at = @ + 1]
    /\ UNCHANGED <<durable, disk, step, driver, handle, ends, first, toolRuns, crashes>>

(* durableApprovalWait: the event with the token is published and the step  *)
(* waits. A step found waiting after a crash may or may not be asked again. *)
durableApprovalWait ==
    /\ Begins /\ At = "approval-0" /\ ~Result(At)
    /\ exec' \in {[exec EXCEPT !.phase = "waiting", !.prompted = p] :
                     p \in IF step[At] = "waiting" THEN BOOLEAN ELSE {TRUE}}
    /\ step' = [step EXCEPT ![At] = "waiting"]
    /\ UNCHANGED <<durable, disk, driver, handle, ends, first, toolRuns, crashes>>

(* approve with the token: the first answer to a waiting step is kept.      *)
approve(v) ==
    /\ step["approval-0"] = "waiting" /\ ~Ended
    /\ step' = [step EXCEPT !["approval-0"] = v]
    /\ UNCHANGED <<durable, disk, exec, driver, handle, ends, first, toolRuns, crashes>>

Answered ==
    /\ exec.on /\ exec.phase = "waiting" /\ step[At] # "waiting"
    /\ Use(At, step[At])
    /\ UNCHANGED <<durable, disk, step, driver, handle, ends, toolRuns, crashes>>

(* The step's deadline. The loop first sees it, ...                         *)
ApprovalDeadline ==
    /\ exec.on /\ exec.phase = "waiting" /\ step[At] = "waiting"
    /\ exec' = [exec EXCEPT !.phase = IF exec.prompted THEN "expired" ELSE "failing"]
    /\ UNCHANGED <<durable, disk, step, driver, handle, ends, first, toolRuns, crashes>>

(* ... then resolves the step itself, unless an answer came in between, and *)
(* goes on as timed out in any case.                                        *)
ResolveExpired ==
    /\ exec.on /\ exec.phase = "expired"
    /\ step' = [step EXCEPT !["approval-0"] = IF @ = "waiting" THEN "timedOut" ELSE @]
    /\ Use("approval-0", "timedOut")
    /\ UNCHANGED <<durable, disk, driver, handle, ends, toolRuns, crashes>>

(* The task ends: the engine records how.                                   *)
Finish(o) ==
    /\ disk' = [disk EXCEPT !.status = o] /\ exec' = Idle
    /\ UNCHANGED <<durable, step, driver, handle, ends, first, toolRuns, crashes>>

durableExec ==
    /\ exec.on
    /\ \/ exec.at > Len(Script) /\ Finish("completed")
       \/ exec.phase \in {"called", "failing"} /\ Finish("failed")
       \/ exec.ctx = "ended" /\ (Finish("cancelled") \/ Finish("failed"))

(* The process ends; what the engine wrote stays.                           *)
Crash ==
    /\ crashes < MaxCrashes /\ \E s \in Slots : Live(s)
    /\ crashes' = crashes + 1
    /\ exec' = Idle /\ driver' = 0
    /\ handle' = [s \in Slots |-> IF Live(s) THEN [NewHandle EXCEPT !.pc = "dead"] ELSE handle[s]]
    /\ UNCHANGED <<durable, disk, step, ends, first, toolRuns>>
-----------------------------------------------------------------------------
HandleStep(s) ==
    \/ registerDriver(s) \/ driveRun(s) \/ driveStream(s) \/ driveDurableRun(s)
    \/ driveDurableStream(s) \/ publishLifecycleEvent(s) \/ AttachedGet(s)
    \/ markDone(s) \/ closeDone(s) \/ DriverReturns(s)

LoopStep ==
    \/ ReplayStep \/ CallStep \/ RecordStep \/ SkipStep \/ durableApprovalWait \/ Answered
    \/ ApprovalDeadline \/ ResolveExpired \/ durableExec

Next ==
    \/ Run \/ Stream \/ LoopStep \/ RunTimeout \/ Crash
    \/ \E s \in Slots : GetRunHandle(s) \/ GetStreamHandle(s) \/ Cancel(s) \/ ContextEnds(s) \/ HandleStep(s)
    \/ \E v \in {"approved", "rejected"} : approve(v)

(* The goroutines of a handle and of the loop go on. Callers and people     *)
(* need not; the timer of an approval is a step of the loop.                *)
Fairness == (\A s \in Slots : WF_vars(HandleStep(s))) /\ WF_vars(LoopStep)

Spec == Init /\ [][Next]_vars /\ Fairness
-----------------------------------------------------------------------------
Report(s) ==
    CASE handle[s].pc = "none" -> "none"
      [] handle[s].pc = "dead" -> "lost"
      [] handle[s].done        -> handle[s].got
      [] OTHER                 -> "waiting"

Contract == INSTANCE RunContract WITH
    Holders <- Slots,
    run <- IF disk.status = None THEN (IF handle[1].pc = "none" THEN "none" ELSE "open")
           ELSE IF disk.status = "running" THEN "open" ELSE disk.status,
    report <- [s \in Slots |-> Report(s)],
    ended <- {s \in Slots : \E t \in {s, handle[s].target} \ {0} : handle[t].ctx # "ok"}

(* The handles of the local runtime, durable or not, keep the contract of   *)
(* RunHandle: one end of the run, reported by every handle that waited for  *)
(* it, attached or driving, before or after a crash. A handle attached to   *)
(* the driver of another one also ends with that one's context.             *)
ImplementsContract == Contract!Spec

(* A resumed run goes on with the same results as the run before the crash: *)
(* what the loop took for a model's answer, a tool's result or a person's   *)
(* decision, it takes for it again (runStep, durableApprovalWait). Left out *)
(* is an approval that had timed out.                                       *)
ReplayAgrees ==
    \A id \in StepIds :
       exec.used[id] # None /\ first[id] # "timedOut" => exec.used[id] = first[id]

(* Every handle closes Done, or dies with its process: the driver's, one    *)
(* attached to the driver of another handle, one that resumed the run.      *)
(* Nobody has to answer an approval for that: it times out.                 *)
HandlesEnd == \A s \in Slots : Live(s) ~> (handle[s].done \/ ~Live(s))

=============================================================================
