-------------------------- MODULE LocalRuns_proofs --------------------------
(***************************************************************************)
(* Proofs about LocalRuns, for every number of handles and of crashes:     *)
(* the handles implement RunContract, a resumed run goes on with the       *)
(* results the run had before the crash, and the tool runs once in the     *)
(* life of a process. Each has an inductive invariant of its own over      *)
(* Types: HandleInv, ReplayInv, ToolInv.                                   *)
(***************************************************************************)
EXTENDS LocalRuns, TLAPS

Ends == {"completed", "failed", "cancelled"}
Pcs == {"none", "register", "drive", "attached", "publish", "mark", "close", "done", "gone", "dead"}
Phases == {"begin", "called", "waiting", "expired", "failing"}
Answers == {"approved", "rejected", "result", "one", "another"}
Vals == Answers \cup {None, "timedOut"}
Disk == [status : Ends \cup {None, "running"}, cancel : BOOLEAN]
Exec == [on : BOOLEAN, at : 1..5, phase : Phases, ctx : {"ok", "ended"}, value : Answers \cup {None},
         prompted : BOOLEAN, used : [StepIds -> Vals]]
Handle == [pc : Pcs, stream : BOOLEAN, ctx : {"ok", "ended"}, once : BOOLEAN,
           status : Ends \cup {"running"}, done : BOOLEAN, target : 0..MaxHandles,
           got : Ends \cup {None, "stopped"}]
Handles == [Slots -> Handle]

(* The type of every variable, the fields of the records included.          *)
Types ==
    /\ durable \in BOOLEAN /\ disk \in Disk
    /\ step \in [StepIds -> Vals \cup {"waiting"}] /\ first \in [StepIds -> Vals]
    /\ exec \in Exec /\ (exec.phase # "begin" => exec.at <= 4)
    /\ driver \in 0..MaxHandles /\ handle \in Handles
    /\ ends \in [Slots -> Nat] /\ toolRuns \in Nat /\ crashes \in 0..MaxCrashes

(* The run is begun by the first handle, and only a run at work has a loop. *)
RunBegun ==
    /\ disk.status # None => handle[1].pc # "none"
    /\ \A s \in Slots : handle[s].pc # "none" => handle[1].pc # "none"
    /\ exec.on => disk.status = "running"

(* A handle that waits for a driver waits for one that drives or has        *)
(* driven: it waits for nobody itself.                                      *)
Drove(s) == handle[s].pc \in {"drive", "publish", "mark", "close", "done", "gone"} /\ handle[s].target = 0
TargetDrives ==
    /\ driver # 0 => Drove(driver)
    /\ \A s \in Slots :
          /\ handle[s].target # 0 => Drove(handle[s].target)
          /\ handle[s].pc = "attached" => handle[s].target # 0
          /\ handle[s].pc \in {"register", "none", "dead"} => handle[s].target = 0

(* What a handle took for the result is the end of the run, or its own      *)
(* context, or that of the driver it waited for, has ended.                 *)
CtxEnded(s) == handle[s].ctx = "ended" \/ (handle[s].target # 0 /\ handle[handle[s].target].ctx = "ended")
GotRight ==
    \A s \in Slots :
       /\ handle[s].got \in Ends => disk.status = handle[s].got
       /\ handle[s].got = "stopped" => CtxEnded(s)
       /\ handle[s].pc \in {"publish", "mark", "close", "done", "gone"} <=> handle[s].got # None
       /\ handle[s].done <=> handle[s].pc \in {"done", "gone"}

HandleInv == Types /\ RunBegun /\ TargetDrives /\ GotRight

(* While a step is at work nobody went on with a result of it.              *)
StepOpen ==
    exec.on /\ exec.phase # "begin" =>
       /\ first[At] = None
       /\ exec.phase = "called" => At # "approval-0" /\ exec.value # None
       /\ exec.phase # "called" => At = "approval-0" /\ step[At] # None

(* What a durable run went on with is on disk; it is there unchanged,       *)
(* unless the deadline of the approval came first.                          *)
OnDisk ==
    durable => \A id \in StepIds :
                  /\ first[id] # None => step[id] \notin {None, "waiting"}
                  /\ first[id] \notin {None, "timedOut"} => step[id] = first[id]

(* A run that is not durable goes through the script once.                  *)
OneWay ==
    ~durable => /\ exec.on => \A i \in exec.at..4 : first[Script[i]] = None
                /\ handle[1].pc = "none" => exec.at = 1 /\ exec.phase = "begin" /\ \A id \in StepIds : first[id] = None
                /\ \A s \in Slots : handle[s].pc # "register"

ReplayInv ==
    /\ StepOpen /\ OnDisk /\ OneWay /\ ReplayAgrees
    /\ \A id \in StepIds : first[id] = None => exec.used[id] = None

(* The tool runs once in the life of a process, in the task that runs.      *)
ToolCalled == exec.at > 3 \/ (exec.at = 3 /\ exec.phase = "called")
ToolInv ==
    /\ toolRuns <= crashes + 1
    /\ ~Ended /\ ~(exec.on /\ ToolCalled) => toolRuns <= crashes
-----------------------------------------------------------------------------
(* The script of the loop, position by position.                            *)
LEMMA ScriptFacts ==
    /\ Len(Script) = 4 /\ StepIds = {"llm-0", "approval-0", "tool-0", "llm-1"}
    /\ Script[1] = "llm-0" /\ Script[2] = "approval-0" /\ Script[3] = "tool-0" /\ Script[4] = "llm-1"
    /\ \A i \in 1..4 : Script[i] \in StepIds
  <1>1. Len(Script) = 4
    BY DEF Script
  <1>2. Script[1] = "llm-0" /\ Script[2] = "approval-0" /\ Script[3] = "tool-0" /\ Script[4] = "llm-1"
    BY DEF Script
  <1>3. \A i \in 1..Len(Script) : i \in {1, 2, 3, 4}
    BY <1>1
  <1>4. StepIds = {"llm-0", "approval-0", "tool-0", "llm-1"}
    BY <1>1, <1>2, <1>3 DEF StepIds
  <1>5. QED
    BY <1>1, <1>2, <1>3, <1>4

(* What a step answers is an answer.                                        *)
LEMMA ValuesTyped == \A id \in StepIds : Values(id) \subseteq Answers
  BY DEF Values, Answers

LEMMA RecordsTyped ==
    /\ Idle \in Exec /\ Idle.on = FALSE /\ Idle.at = 1 /\ Idle.phase = "begin"
    /\ \A id \in StepIds : Idle.used[id] = None
    /\ NewHandle \in Handle /\ [NewHandle EXCEPT !.pc = "dead"] \in Handle
  <1>1. Idle \in Exec
    BY DEF Idle, Exec, Phases, Vals, None
  <1>2. Idle.on = FALSE /\ Idle.at = 1 /\ Idle.phase = "begin" /\ \A id \in StepIds : Idle.used[id] = None
    BY DEF Idle
  <1>3. NewHandle \in Handle
    BY LocalRunsAssumption DEF NewHandle, Handle, Ends, Pcs, None
  <1>4. [NewHandle EXCEPT !.pc = "dead"] \in Handle
    BY <1>3 DEF Handle, Pcs
  <1>5. QED
    BY <1>1, <1>2, <1>3, <1>4
-----------------------------------------------------------------------------
(* What a step does to one handle, in the fields the invariants speak of.   *)
Edit(s, pc, ctx, done, target, got) ==
    /\ handle' \in Handles
    /\ handle'[s].pc = pc /\ handle'[s].ctx = ctx /\ handle'[s].done = done
    /\ handle'[s].target = target /\ handle'[s].got = got
    /\ \A t \in Slots \ {s} : handle'[t] = handle[t]

LEMMA EditWhole ==
    ASSUME handle \in Handles, NEW s \in Slots, NEW r \in Handle, handle' = [handle EXCEPT ![s] = r]
    PROVE  Edit(s, r.pc, r.ctx, r.done, r.target, r.got)
  BY DEF Edit, Handles

LEMMA EditPc ==
    ASSUME handle \in Handles, NEW s \in Slots, NEW p \in Pcs, handle' = [handle EXCEPT ![s].pc = p]
    PROVE  Edit(s, p, handle[s].ctx, handle[s].done, handle[s].target, handle[s].got)
  BY DEF Handles, Handle, Edit

LEMMA EditPcStream ==
    ASSUME handle \in Handles, NEW s \in Slots, NEW p \in Pcs, NEW b \in BOOLEAN,
           handle' = [handle EXCEPT ![s].pc = p, ![s].stream = b]
    PROVE  Edit(s, p, handle[s].ctx, handle[s].done, handle[s].target, handle[s].got)
  BY ZenonT(60) DEF Handles, Handle, Edit

LEMMA EditPcTarget ==
    ASSUME handle \in Handles, NEW s \in Slots, NEW p \in Pcs, NEW d \in 0..MaxHandles,
           handle' = [handle EXCEPT ![s].pc = p, ![s].target = d]
    PROVE  Edit(s, p, handle[s].ctx, handle[s].done, d, handle[s].got)
  BY ZenonT(60) DEF Handles, Handle, Edit

LEMMA EditPcGot ==
    ASSUME handle \in Handles, NEW s \in Slots, NEW p \in Pcs, NEW g \in Ends \cup {None, "stopped"},
           handle' = [handle EXCEPT ![s].pc = p, ![s].got = g]
    PROVE  Edit(s, p, handle[s].ctx, handle[s].done, handle[s].target, g)
  BY ZenonT(60) DEF Handles, Handle, Edit

LEMMA EditPcStatus ==
    ASSUME handle \in Handles, NEW s \in Slots, NEW p \in Pcs, NEW st \in Ends,
           handle' = [handle EXCEPT ![s].pc = p, ![s].status = st]
    PROVE  Edit(s, p, handle[s].ctx, handle[s].done, handle[s].target, handle[s].got)
  <1> DEFINE r == [handle[s] EXCEPT !.pc = p, !.status = st]
  <1>1. r \in Handle /\ r.pc = p /\ r.ctx = handle[s].ctx /\ r.done = handle[s].done
         /\ r.target = handle[s].target /\ r.got = handle[s].got
    BY DEF Handles, Handle
  <1>2. handle' = [handle EXCEPT ![s] = r]
    BY DEF Handles
  <1>3. QED
    BY <1>1, <1>2, EditWhole

LEMMA EditPcDone ==
    ASSUME handle \in Handles, NEW s \in Slots, NEW p \in Pcs, NEW b \in BOOLEAN,
           handle' = [handle EXCEPT ![s].pc = p, ![s].once = TRUE, ![s].done = b]
    PROVE  Edit(s, p, handle[s].ctx, b, handle[s].target, handle[s].got)
  <1> DEFINE r == [handle[s] EXCEPT !.pc = p, !.once = TRUE, !.done = b]
  <1>1. r \in Handle /\ r.pc = p /\ r.ctx = handle[s].ctx /\ r.done = b
         /\ r.target = handle[s].target /\ r.got = handle[s].got
    BY ZenonT(60) DEF Handles, Handle
  <1>2. handle' = [handle EXCEPT ![s] = r]
    BY DEF Handles
  <1>3. QED
    BY <1>1, <1>2, EditWhole

LEMMA EditCtx ==
    ASSUME handle \in Handles, NEW s \in Slots, NEW c \in {"ok", "ended"}, handle' = [handle EXCEPT ![s].ctx = c]
    PROVE  Edit(s, handle[s].pc, c, handle[s].done, handle[s].target, handle[s].got)
  BY DEF Handles, Handle, Edit

LEMMA EditOnceCtx ==
    ASSUME handle \in Handles, NEW s \in Slots, NEW c \in {"ok", "ended"},
           handle' = [handle EXCEPT ![s].once = TRUE, ![s].ctx = c]
    PROVE  Edit(s, handle[s].pc, c, handle[s].done, handle[s].target, handle[s].got)
  <1> DEFINE r == [handle[s] EXCEPT !.once = TRUE, !.ctx = c]
  <1>1. r \in Handle /\ r.pc = handle[s].pc /\ r.ctx = c /\ r.done = handle[s].done
         /\ r.target = handle[s].target /\ r.got = handle[s].got
    BY DEF Handles, Handle
  <1>2. handle' = [handle EXCEPT ![s] = r]
    BY DEF Handles
  <1>3. QED
    BY <1>1, <1>2, EditWhole

(* The loop goes on with a result.                                          *)
LEMMA UseTyped ==
    ASSUME exec \in Exec, exec.at <= 4, first \in [StepIds -> Vals], NEW id \in StepIds, NEW v \in Vals, Use(id, v)
    PROVE  /\ exec' \in Exec /\ exec'.at = exec.at + 1 /\ exec'.phase = "begin" /\ exec'.on = exec.on
           /\ exec'.used = [exec.used EXCEPT ![id] = v]
           /\ first' \in [StepIds -> Vals]
  <1>1. exec' = [exec EXCEPT !.at = exec.at + 1, !.phase = "begin", !.value = None, !.prompted = FALSE,
                             !.used = [exec.used EXCEPT ![id] = v]]
    BY DEF Use
  <1> DEFINE u == [exec.used EXCEPT ![id] = v]
  <1>2. u \in [StepIds -> Vals] /\ exec.at + 1 \in 1..5
    BY DEF Exec
  <1>3. first' \in [StepIds -> Vals]
    BY DEF Use
  <1> HIDE DEF u
  <1>4. QED
    BY <1>1, <1>2, <1>3 DEF Exec, Phases, u
-----------------------------------------------------------------------------
(* Each operation in these terms.                                           *)
rest == <<durable, step, ends, first, toolRuns, crashes>>

LEMMA StartEffect ==
    ASSUME Types, NEW b \in BOOLEAN, Start(b)
    PROVE  /\ handle[1].pc = "none" /\ UNCHANGED <<rest, driver>>
           /\ Edit(1, IF durable THEN "register" ELSE "drive",
                   handle[1].ctx, handle[1].done, handle[1].target, handle[1].got)
           /\ disk' \in Disk /\ exec' \in Exec
           /\ durable => UNCHANGED <<disk, exec>>
           /\ ~durable => /\ disk'.status = "running" /\ exec'.on
                          /\ exec'.at = exec.at /\ exec'.phase = exec.phase /\ exec'.used = exec.used
                          /\ exec'.value = exec.value
  <1>1. 1 \in Slots
    BY LocalRunsAssumption DEF Slots
  <1>2. /\ handle' = [handle EXCEPT ![1].pc = IF durable THEN "register" ELSE "drive", ![1].stream = b]
        /\ handle[1].pc = "none" /\ UNCHANGED <<rest, driver>>
    BY DEF Start, rest
  <1>3. (IF durable THEN "register" ELSE "drive") \in Pcs
    BY DEF Pcs
  <1>4. Edit(1, IF durable THEN "register" ELSE "drive",
             handle[1].ctx, handle[1].done, handle[1].target, handle[1].got)
    BY <1>1, <1>2, <1>3, EditPcStream DEF Types
  <1>5. durable => UNCHANGED <<disk, exec>>
    BY DEF Start
  <1>6. ~durable => /\ disk' = [disk EXCEPT !.status = "running"]
                    /\ exec' = [exec EXCEPT !.on = TRUE]
    BY DEF Start
  <1>7. ~durable => disk' \in Disk /\ disk'.status = "running"
    BY <1>6 DEF Types, Disk
  <1>8. ~durable => /\ exec' \in Exec /\ exec'.on /\ exec'.value = exec.value
                    /\ exec'.at = exec.at /\ exec'.phase = exec.phase /\ exec'.used = exec.used
    BY <1>6, ZenonT(60) DEF Types, Exec
  <1>9. QED
    BY <1>2, <1>4, <1>5, <1>7, <1>8 DEF Types

LEMMA ReattachEffect ==
    ASSUME Types, NEW s \in Slots, NEW b \in BOOLEAN, Reattach(s, b)
    PROVE  /\ durable /\ disk.status = "running" /\ handle[s].pc = "none" /\ UNCHANGED <<rest, disk, exec, driver>>
           /\ Edit(s, "register", handle[s].ctx, handle[s].done, handle[s].target, handle[s].got)
  BY EditPcStream DEF Reattach, Types, Pcs, rest

LEMMA RegisterEffect ==
    ASSUME Types, NEW s \in Slots, registerDriver(s)
    PROVE  /\ handle[s].pc = "register" /\ UNCHANGED rest
           /\ disk' \in Disk /\ exec' \in Exec
           /\ \/ /\ driver = 0 /\ driver' = s
                 /\ Edit(s, "drive", handle[s].ctx, handle[s].done, handle[s].target, handle[s].got)
                 /\ disk'.status = IF disk.status = None THEN "running" ELSE disk.status
                 /\ \/ exec' = exec
                    \/ /\ ~exec.on /\ ~Ended
                       /\ exec'.at = 1 /\ exec'.phase = "begin" /\ exec'.used = [id \in StepIds |-> None]
              \/ /\ driver # 0 /\ UNCHANGED <<disk, exec, driver>>
                 /\ Edit(s, "attached", handle[s].ctx, handle[s].done, driver, handle[s].got)
  <1>1. handle[s].pc = "register" /\ UNCHANGED rest
    BY DEF registerDriver, rest
  <1>2. CASE driver = 0
    <2>1. driver' = s /\ handle' = [handle EXCEPT ![s].pc = "drive"] /\ startDurableRun
      BY <1>2 DEF registerDriver
    <2>2. Edit(s, "drive", handle[s].ctx, handle[s].done, handle[s].target, handle[s].got)
      BY <2>1, EditPc DEF Types, Pcs
    <2>3. disk' \in Disk /\ disk'.status = IF disk.status = None THEN "running" ELSE disk.status
      BY <2>1 DEF startDurableRun, Types, Disk
    <2>4. CASE exec.on \/ Ended
      BY <1>1, <1>2, <2>1, <2>2, <2>3, <2>4 DEF startDurableRun, Types
    <2>5. CASE ~(exec.on \/ Ended)
      <3>1. exec' = [Idle EXCEPT !.on = TRUE, !.ctx = IF disk.cancel THEN "ended" ELSE "ok"]
        BY <2>1, <2>5 DEF startDurableRun
      <3>2. /\ exec' \in Exec
            /\ exec'.at = Idle.at /\ exec'.phase = Idle.phase /\ exec'.used = Idle.used
        BY <3>1, RecordsTyped DEF Exec
      <3>3. Idle.used = [id \in StepIds |-> None]
        BY DEF Idle
      <3>4. QED
        BY <1>1, <1>2, <2>1, <2>2, <2>3, <2>5, <3>2, <3>3, RecordsTyped
    <2>6. QED
      BY <2>4, <2>5
  <1>3. CASE driver # 0
    BY <1>1, <1>3, EditPcTarget DEF registerDriver, Types, Pcs
  <1>4. QED
    BY <1>2, <1>3

LEMMA DriveEffect ==
    ASSUME Types, NEW s \in Slots,
           driveRun(s) \/ driveStream(s) \/ driveDurableRun(s) \/ driveDurableStream(s)
    PROVE  /\ handle[s].pc = "drive" /\ UNCHANGED <<rest, disk, exec, driver>>
           /\ \E p \in {"mark", "publish"}, g \in Ends \cup {"stopped"} :
                /\ Edit(s, p, handle[s].ctx, handle[s].done, handle[s].target, g)
                /\ g \in Ends => disk.status = g
                /\ g = "stopped" => handle[s].ctx = "ended"
  <1>1. PICK p \in {"mark", "publish"} : handle[s].pc = "drive" /\ (LoopReturns(s, p) \/ TaskGet(s, p))
    BY DEF driveRun, driveStream, driveDurableRun, driveDurableStream, Drives
  <1>2. UNCHANGED <<rest, disk, exec, driver>>
    BY <1>1 DEF LoopReturns, TaskGet, rest
  <1>3. PICK g \in Ends \cup {"stopped"} :
           /\ handle' = [handle EXCEPT ![s].pc = p, ![s].got = g]
           /\ g \in Ends => disk.status = g
           /\ g = "stopped" => handle[s].ctx # "ok"
    BY <1>1 DEF LoopReturns, TaskGet, Ended, Ends
  <1>4. handle[s].ctx \in {"ok", "ended"}
    BY DEF Types, Handles, Handle
  <1>5. Edit(s, p, handle[s].ctx, handle[s].done, handle[s].target, g)
    BY <1>3, EditPcGot DEF Types, Pcs
  <1>6. QED
    BY <1>1, <1>2, <1>3, <1>4, <1>5

LEMMA PublishEffect ==
    ASSUME Types, NEW s \in Slots, publishLifecycleEvent(s)
    PROVE  /\ handle[s].pc = "publish"
           /\ UNCHANGED <<durable, step, first, toolRuns, crashes, disk, exec, driver>>
           /\ ends' \in [Slots -> Nat]
           /\ Edit(s, "mark", handle[s].ctx, handle[s].done, handle[s].target, handle[s].got)
  <1>1. Edit(s, "mark", handle[s].ctx, handle[s].done, handle[s].target, handle[s].got)
    BY EditPc DEF publishLifecycleEvent, Types, Pcs
  <1>2. ends' \in [Slots -> Nat]
    BY DEF publishLifecycleEvent, Types
  <1>3. QED
    BY <1>1, <1>2 DEF publishLifecycleEvent

LEMMA AttachedEffect ==
    ASSUME Types, TargetDrives, NEW s \in Slots, AttachedGet(s)
    PROVE  /\ handle[s].pc = "attached" /\ handle[s].target \in Slots /\ UNCHANGED <<rest, disk, exec, driver>>
           /\ \E g \in Ends \cup {None, "stopped"} :
                /\ Edit(s, "mark", handle[s].ctx, handle[s].done, handle[s].target, g)
                /\ \/ handle[handle[s].target].done /\ g = handle[handle[s].target].got
                   \/ g = "stopped" /\ handle[s].ctx = "ended"
  <1>1. handle[s].pc = "attached" /\ UNCHANGED <<rest, disk, exec, driver>>
    BY DEF AttachedGet, rest
  <1>2. /\ handle[s].target \in Slots /\ handle[s].ctx \in {"ok", "ended"}
        /\ \A t \in Slots : handle[t].got \in Ends \cup {None, "stopped"}
    BY <1>1 DEF TargetDrives, Types, Handles, Handle, Slots
  <1>3. PICK g \in Ends \cup {None, "stopped"} :
           /\ handle' = [handle EXCEPT ![s].pc = "mark", ![s].got = g]
           /\ \/ handle[handle[s].target].done /\ g = handle[handle[s].target].got
              \/ g = "stopped" /\ handle[s].ctx = "ended"
    BY <1>2 DEF AttachedGet
  <1>4. Edit(s, "mark", handle[s].ctx, handle[s].done, handle[s].target, g)
    BY <1>3, EditPcGot DEF Types, Pcs
  <1>5. QED
    BY <1>1, <1>2, <1>3, <1>4

LEMMA MarkEffect ==
    ASSUME Types, GotRight, NEW s \in Slots, markDone(s)
    PROVE  /\ handle[s].pc = "mark" /\ UNCHANGED <<rest, disk, exec, driver>>
           /\ Edit(s, "close", handle[s].ctx, handle[s].done, handle[s].target, handle[s].got)
  <1>1. handle[s].pc = "mark" /\ UNCHANGED <<rest, disk, exec, driver>>
    BY DEF markDone, rest
  <1>2. handle[s].got \in Ends \cup {"stopped"}
    BY <1>1 DEF GotRight, Types, Handles, Handle, Slots
  <1>3. PICK st \in Ends : handle' = [handle EXCEPT ![s].pc = "close", ![s].status = st]
    BY <1>2 DEF markDone, Ends
  <1>4. QED
    BY <1>1, <1>3, EditPcStatus DEF Types, Pcs

LEMMA CloseEffect ==
    ASSUME Types, NEW s \in Slots, closeDone(s)
    PROVE  /\ handle[s].pc = "close" /\ UNCHANGED <<rest, disk, exec, driver>>
           /\ Edit(s, "done", handle[s].ctx, TRUE, handle[s].target, handle[s].got)
  BY EditPcDone DEF closeDone, Types, Pcs, rest

LEMMA ReturnEffect ==
    ASSUME Types, NEW s \in Slots, DriverReturns(s)
    PROVE  /\ handle[s].pc = "done" /\ UNCHANGED <<rest, disk, exec>>
           /\ driver' \in {0, driver} /\ driver' # s
           /\ Edit(s, "gone", handle[s].ctx, handle[s].done, handle[s].target, handle[s].got)
  <1>1. s # 0
    BY DEF Slots
  <1>2. QED
    BY <1>1, EditPc DEF DriverReturns, Types, Pcs, rest

LEMMA CancelEffect ==
    ASSUME Types, NEW s \in Slots, Cancel(s) \/ ContextEnds(s)
    PROVE  /\ Live(s) /\ UNCHANGED <<rest, driver>>
           /\ disk' \in Disk /\ disk'.status = disk.status
           /\ exec' \in Exec /\ exec'.on = exec.on /\ exec'.at = exec.at /\ exec'.phase = exec.phase
           /\ exec'.used = exec.used /\ exec'.value = exec.value
           /\ \E c \in {handle[s].ctx, "ended"} :
                 Edit(s, handle[s].pc, c, handle[s].done, handle[s].target, handle[s].got)
  <1>1. Live(s) /\ UNCHANGED <<rest, driver>>
    BY DEF Cancel, ContextEnds, rest
  <1>2. disk' = disk \/ disk' = [disk EXCEPT !.cancel = TRUE]
    BY DEF Cancel, ContextEnds
  <1>3. exec' = exec \/ exec' = [exec EXCEPT !.ctx = "ended"]
    BY DEF Cancel, ContextEnds
  <1>4. disk' \in Disk /\ disk'.status = disk.status
    BY <1>2 DEF Types, Disk
  <1>5. /\ exec' \in Exec /\ exec'.on = exec.on /\ exec'.at = exec.at /\ exec'.phase = exec.phase
        /\ exec'.used = exec.used /\ exec'.value = exec.value
    BY <1>3 DEF Types, Exec
  <1>6. handle[s].ctx \in {"ok", "ended"}
    BY DEF Types, Handles, Handle
  <1>7. CASE Cancel(s)
    <2>1. PICK c \in {handle[s].ctx, "ended"} : handle' = [handle EXCEPT ![s].once = TRUE, ![s].ctx = c]
      BY <1>7 DEF Cancel, Types, Handles
    <2>2. QED
      BY <1>1, <1>4, <1>5, <1>6, <2>1, EditOnceCtx DEF Types
  <1>8. CASE ContextEnds(s)
    BY <1>1, <1>4, <1>5, <1>6, <1>8, EditCtx DEF ContextEnds, Types
  <1>9. QED
    BY <1>7, <1>8

LEMMA FinishEffect ==
    ASSUME Types, durableExec
    PROVE  /\ exec.on /\ UNCHANGED <<rest, driver, handle>>
           /\ disk' \in Disk /\ disk'.status \in Ends /\ exec' = Idle
  BY DEF durableExec, Finish, Types, Disk, Ends, rest

LEMMA CrashEffect ==
    ASSUME Types, Crash
    PROVE  /\ UNCHANGED <<durable, step, ends, first, toolRuns, disk>>
           /\ crashes' = crashes + 1 /\ crashes' \in 0..MaxCrashes
           /\ exec' = Idle /\ driver' = 0 /\ handle' \in Handles
           /\ \A s \in Slots :
                 /\ handle[s].pc = "none" => handle'[s] = handle[s]
                 /\ handle[s].pc # "none" => handle'[s].pc = "dead"
                 /\ handle'[s] = handle[s] \/ handle'[s] = [NewHandle EXCEPT !.pc = "dead"]
                 /\ handle'[s].pc \in {"none", "dead"}
  <1>1. /\ UNCHANGED <<durable, step, ends, first, toolRuns, disk>>
        /\ crashes' = crashes + 1 /\ crashes' \in 0..MaxCrashes /\ exec' = Idle /\ driver' = 0
    BY LocalRunsAssumption DEF Crash, Types
  <1> DEFINE d == [NewHandle EXCEPT !.pc = "dead"]
  <1>2. d \in Handle /\ d.pc = "dead"
    BY RecordsTyped DEF NewHandle
  <1>3. handle' = [s \in Slots |-> IF handle[s].pc \notin {"none", "dead"} THEN d ELSE handle[s]]
    BY DEF Crash, Live
  <1> HIDE DEF d
  <1>4. handle' \in Handles
    BY <1>2, <1>3 DEF Types, Handles
  <1>5. QED
    BY <1>1, <1>2, <1>3, <1>4 DEF d

(* The steps of the loop. Those that go on with a result end in Use.        *)
loopRest == <<durable, disk, driver, handle, ends, crashes>>

LEMMA TimeoutEffect ==
    ASSUME Types, RunTimeout
    PROVE  /\ UNCHANGED <<loopRest, step, first, toolRuns>> /\ exec' \in Exec
           /\ exec'.on = exec.on /\ exec'.at = exec.at /\ exec'.phase = exec.phase
           /\ exec'.used = exec.used /\ exec'.value = exec.value
  <1>1. exec' = [exec EXCEPT !.ctx = "ended"] /\ UNCHANGED <<loopRest, step, first, toolRuns>>
    BY DEF RunTimeout, loopRest
  <1>2. QED
    BY <1>1 DEF Types, Exec

LEMMA CallEffect ==
    ASSUME Types, CallStep
    PROVE  /\ exec.on /\ exec.at \in 1..4 /\ exec.phase = "begin" /\ ~Result(At) /\ At # "approval-0"
           /\ UNCHANGED <<loopRest, step, first>>
           /\ exec' \in Exec /\ exec'.on = exec.on /\ exec'.at = exec.at /\ exec'.phase = "called"
           /\ exec'.used = exec.used /\ exec'.value # None
           /\ toolRuns' = IF exec.at = 3 THEN toolRuns + 1 ELSE toolRuns
  <1>1. /\ exec.on /\ exec.at \in 1..4 /\ exec.phase = "begin" /\ ~Result(At) /\ At # "approval-0"
        /\ UNCHANGED <<loopRest, step, first>>
    BY ScriptFacts DEF CallStep, Begins, Types, Exec, loopRest
  <1>2. At \in StepIds /\ (At = "tool-0" <=> exec.at = 3)
    BY <1>1, ScriptFacts DEF At
  <1>3. PICK v \in Answers : exec' = [exec EXCEPT !.phase = "called", !.value = v]
    BY <1>2, ValuesTyped DEF CallStep
  <1>4. /\ exec' \in Exec /\ exec'.on = exec.on /\ exec'.at = exec.at /\ exec'.phase = "called"
        /\ exec'.used = exec.used /\ exec'.value = v
    BY <1>3 DEF Types, Exec, Phases
  <1>5. v # None
    BY DEF Answers, None
  <1>6. toolRuns' = IF exec.at = 3 THEN toolRuns + 1 ELSE toolRuns
    BY <1>2 DEF CallStep
  <1>7. QED
    BY <1>1, <1>4, <1>5, <1>6

LEMMA SkipEffect ==
    ASSUME Types, SkipStep
    PROVE  /\ exec.on /\ exec.at = 3 /\ exec.phase = "begin" /\ UNCHANGED <<loopRest, step, first, toolRuns>>
           /\ exec' \in Exec /\ exec'.on = exec.on /\ exec'.at = exec.at + 1 /\ exec'.phase = "begin"
           /\ exec'.used = exec.used
  <1>1. /\ exec.on /\ exec.at \in 1..4 /\ exec.phase = "begin" /\ At = "tool-0"
        /\ exec' = [exec EXCEPT !.at = exec.at + 1] /\ UNCHANGED <<loopRest, step, first, toolRuns>>
    BY ScriptFacts DEF SkipStep, Begins, Skipped, Types, Exec, loopRest
  <1>2. exec.at = 3
    BY <1>1, ScriptFacts DEF At
  <1>3. exec' = [exec EXCEPT !.at = 4]
    BY <1>1, <1>2
  <1>4. /\ exec' \in Exec /\ exec'.on = exec.on /\ exec'.at = 4 /\ exec'.phase = exec.phase
        /\ exec'.used = exec.used
    BY <1>3 DEF Types, Exec
  <1>5. exec'.at = exec.at + 1
    BY <1>2, <1>4
  <1>6. QED
    BY <1>1, <1>2, <1>4, <1>5

LEMMA WaitEffect ==
    ASSUME Types, durableApprovalWait
    PROVE  /\ exec.on /\ exec.at = 2 /\ exec.phase = "begin" /\ ~Result("approval-0")
           /\ UNCHANGED <<loopRest, first, toolRuns>>
           /\ exec' \in Exec /\ exec'.on = exec.on /\ exec'.at = exec.at /\ exec'.phase = "waiting"
           /\ exec'.used = exec.used
           /\ step' = [step EXCEPT !["approval-0"] = "waiting"]
  <1>1. /\ Begins /\ At = "approval-0" /\ ~Result(At)
        /\ UNCHANGED <<loopRest, first, toolRuns>> /\ step' = [step EXCEPT ![At] = "waiting"]
    BY DEF durableApprovalWait, loopRest
  <1>6. exec.on /\ exec.at \in 1..4 /\ exec.phase = "begin"
    BY <1>1, ScriptFacts DEF Begins, Types, Exec
  <1>2. exec.at = 2
    BY <1>1, <1>6, ScriptFacts DEF At
  <1>3. PICK q \in BOOLEAN : exec' = [exec EXCEPT !.phase = "waiting", !.prompted = q]
    BY DEF durableApprovalWait
  <1>4. /\ exec' \in Exec /\ exec'.on = exec.on /\ exec'.at = exec.at /\ exec'.phase = "waiting"
        /\ exec'.used = exec.used
    BY <1>3 DEF Types, Exec, Phases
  <1>5. QED
    BY <1>1, <1>2, <1>4, <1>6 DEF Result

LEMMA DeadlineEffect ==
    ASSUME Types, ApprovalDeadline
    PROVE  /\ exec.on /\ exec.phase = "waiting" /\ UNCHANGED <<loopRest, step, first, toolRuns>>
           /\ exec' \in Exec /\ exec'.on = exec.on /\ exec'.at = exec.at /\ exec'.phase \in {"expired", "failing"}
           /\ exec'.used = exec.used
  <1>1. PICK q \in {"expired", "failing"} : exec' = [exec EXCEPT !.phase = q]
    BY DEF ApprovalDeadline
  <1>2. exec.on /\ exec.phase = "waiting" /\ UNCHANGED <<loopRest, step, first, toolRuns>>
    BY DEF ApprovalDeadline, loopRest
  <1>3. QED
    BY <1>1, <1>2 DEF Types, Exec, Phases

(* The loop goes on with v for the step it is at.                           *)
GoesOn(v) ==
    /\ exec.on /\ exec.at \in 1..4 /\ At \in StepIds /\ v \in Vals /\ Use(At, v)
    /\ exec' \in Exec /\ exec'.on = exec.on /\ exec'.at = exec.at + 1 /\ exec'.phase = "begin"
    /\ exec'.used = [exec.used EXCEPT ![At] = v]
    /\ first' \in [StepIds -> Vals] /\ UNCHANGED <<loopRest, toolRuns>>

LEMMA ReplayEffect ==
    ASSUME Types, ReplayStep
    PROVE  /\ exec.phase = "begin" /\ Result(At) /\ UNCHANGED step /\ GoesOn(step[At])
  <1>1. /\ exec.on /\ exec.at \in 1..4 /\ exec.phase = "begin" /\ Result(At) /\ UNCHANGED step
        /\ Use(At, step[At]) /\ UNCHANGED <<loopRest, toolRuns>>
    BY ScriptFacts DEF ReplayStep, Begins, Types, Exec, loopRest
  <1>2. At \in StepIds /\ step[At] \in Vals
    BY <1>1, ScriptFacts DEF At, Result, Types
  <1>3. PICK v \in Vals : v = step[At] /\ Use(At, v)
    BY <1>1, <1>2
  <1>4. exec \in Exec /\ exec.at <= 4 /\ first \in [StepIds -> Vals]
    BY <1>1 DEF Types
  <1>5. /\ exec' \in Exec /\ exec'.at = exec.at + 1 /\ exec'.phase = "begin" /\ exec'.on = exec.on
        /\ exec'.used = [exec.used EXCEPT ![At] = v] /\ first' \in [StepIds -> Vals]
    BY <1>2, <1>3, <1>4, UseTyped
  <1>6. QED
    BY <1>1, <1>2, <1>3, <1>5 DEF GoesOn

LEMMA RecordEffect ==
    ASSUME Types, RecordStep
    PROVE  /\ exec.phase = "called" /\ GoesOn(exec.value)
           /\ step' = IF durable THEN [step EXCEPT ![At] = exec.value] ELSE step
  <1>1. /\ exec.on /\ exec.phase = "called" /\ Use(At, exec.value) /\ UNCHANGED <<loopRest, toolRuns>>
        /\ step' = IF durable THEN [step EXCEPT ![At] = exec.value] ELSE step
    BY DEF RecordStep, loopRest
  <1>2. exec.at \in 1..4 /\ exec.value \in Vals
    BY <1>1 DEF Types, Exec, Vals
  <1>3. At \in StepIds
    BY <1>2, ScriptFacts DEF At
  <1>4. QED
    BY <1>1, <1>2, <1>3, UseTyped DEF GoesOn, Types

LEMMA AnsweredEffect ==
    ASSUME Types, Answered
    PROVE  /\ exec.phase = "waiting" /\ step[At] # "waiting" /\ UNCHANGED step /\ GoesOn(step[At])
  <1>1. /\ exec.on /\ exec.phase = "waiting" /\ step[At] # "waiting" /\ UNCHANGED step
        /\ Use(At, step[At]) /\ UNCHANGED <<loopRest, toolRuns>>
    BY DEF Answered, loopRest
  <1>2. exec.at \in 1..4
    BY <1>1 DEF Types, Exec
  <1>3. At \in StepIds /\ step[At] \in Vals
    BY <1>1, <1>2, ScriptFacts DEF At, Types
  <1>4. QED
    BY <1>1, <1>2, <1>3, UseTyped DEF GoesOn, Types

LEMMA ExpiredTyped ==
    ASSUME Types, ResolveExpired
    PROVE  /\ exec.on /\ exec.at <= 4 /\ exec.phase = "expired" /\ Use("approval-0", "timedOut")
           /\ step' = [step EXCEPT !["approval-0"] = IF @ = "waiting" THEN "timedOut" ELSE @]
           /\ exec' \in Exec /\ exec'.on = exec.on /\ exec'.at = exec.at + 1 /\ exec'.phase = "begin"
           /\ exec'.used = [exec.used EXCEPT !["approval-0"] = "timedOut"]
           /\ first' \in [StepIds -> Vals] /\ UNCHANGED <<loopRest, toolRuns>>
  <1>1. /\ exec.on /\ exec.phase = "expired" /\ Use("approval-0", "timedOut") /\ UNCHANGED <<loopRest, toolRuns>>
        /\ step' = [step EXCEPT !["approval-0"] = IF @ = "waiting" THEN "timedOut" ELSE @]
    BY DEF ResolveExpired, loopRest
  <1>2. exec \in Exec /\ exec.at <= 4 /\ first \in [StepIds -> Vals]
    BY <1>1 DEF Types
  <1>3. "approval-0" \in StepIds /\ "timedOut" \in Vals
    BY ScriptFacts DEF Vals
  <1>4. QED
    BY <1>1, <1>2, <1>3, UseTyped

LEMMA ExpiredEffect ==
    ASSUME Types, ResolveExpired, StepOpen
    PROVE  exec.phase = "expired" /\ At = "approval-0" /\ GoesOn("timedOut")
  <1>1. exec.phase = "expired" /\ exec.at \in 1..4 /\ At = "approval-0" /\ "timedOut" \in Vals
    BY ExpiredTyped DEF Types, Exec, StepOpen, Vals
  <1>2. At \in StepIds
    BY <1>1, ScriptFacts
  <1>3. QED
    BY <1>1, <1>2, ExpiredTyped DEF GoesOn
-----------------------------------------------------------------------------
LEMMA TypesInit == Init => Types
  <1> SUFFICES ASSUME Init PROVE Types
    OBVIOUS
  <1>1. durable \in BOOLEAN /\ crashes \in 0..MaxCrashes /\ driver \in 0..MaxHandles /\ toolRuns \in Nat
    BY LocalRunsAssumption DEF Init
  <1>2. disk \in Disk
    BY DEF Init, Disk, Ends
  <1>3. step \in [StepIds -> Vals \cup {"waiting"}] /\ first \in [StepIds -> Vals] /\ ends \in [Slots -> Nat]
    BY DEF Init, Vals
  <1>4. exec \in Exec /\ exec.phase = "begin" /\ handle \in Handles
    BY RecordsTyped DEF Init, Handles
  <1>5. QED
    BY <1>1, <1>2, <1>3, <1>4 DEF Types

(* Every step keeps the types.                                              *)
LEMMA TypesStep == HandleInv /\ [Next]_vars => Types'
  <1> SUFFICES ASSUME HandleInv, [Next]_vars PROVE Types'
    OBVIOUS
  <1>T. Types /\ TargetDrives /\ GotRight
    BY DEF HandleInv
  <1>1. ASSUME NEW b \in BOOLEAN, Start(b) PROVE Types'
    BY <1>1, <1>T, StartEffect DEF Types, Edit, rest
  <1>2. ASSUME NEW s \in Slots, NEW b \in BOOLEAN, Reattach(s, b) PROVE Types'
    BY <1>2, <1>T, ReattachEffect DEF Types, Edit, rest
  <1>3. ASSUME NEW s \in Slots, registerDriver(s) PROVE Types'
    BY <1>3, <1>T, RegisterEffect DEF Types, Edit, rest, Slots
  <1>4. ASSUME NEW s \in Slots, driveRun(s) \/ driveStream(s) \/ driveDurableRun(s) \/ driveDurableStream(s)
        PROVE Types'
    BY <1>4, <1>T, DriveEffect DEF Types, Edit, rest
  <1>5. ASSUME NEW s \in Slots, publishLifecycleEvent(s) PROVE Types'
    BY <1>5, <1>T, PublishEffect DEF Types, Edit
  <1>6. ASSUME NEW s \in Slots, AttachedGet(s) PROVE Types'
    BY <1>6, <1>T, AttachedEffect DEF Types, Edit, rest
  <1>7. ASSUME NEW s \in Slots, markDone(s) PROVE Types'
    BY <1>7, <1>T, MarkEffect DEF Types, Edit, rest
  <1>8. ASSUME NEW s \in Slots, closeDone(s) PROVE Types'
    BY <1>8, <1>T, CloseEffect DEF Types, Edit, rest
  <1>9. ASSUME NEW s \in Slots, DriverReturns(s) PROVE Types'
    BY <1>9, <1>T, LocalRunsAssumption, ReturnEffect DEF Types, Edit, rest
  <1>10. ASSUME NEW s \in Slots, Cancel(s) \/ ContextEnds(s) PROVE Types'
    BY <1>10, <1>T, CancelEffect DEF Types, Edit, rest
  <1>11. ASSUME RunTimeout PROVE Types'
    BY <1>11, <1>T, TimeoutEffect DEF Types, loopRest
  <1>12. ASSUME CallStep PROVE Types'
    BY <1>12, <1>T, CallEffect DEF Types, loopRest
  <1>13. ASSUME SkipStep PROVE Types'
    BY <1>13, <1>T, SkipEffect DEF Types, loopRest
  <1>14. ASSUME durableApprovalWait PROVE Types'
    BY <1>14, <1>T, WaitEffect DEF Types, loopRest
  <1>15. ASSUME ApprovalDeadline PROVE Types'
    BY <1>15, <1>T, DeadlineEffect DEF Types, loopRest
  <1>16. ASSUME ReplayStep PROVE Types'
    BY <1>16, <1>T, ReplayEffect DEF Types, loopRest, GoesOn
  <1>17. ASSUME RecordStep PROVE Types'
    BY <1>17, <1>T, RecordEffect DEF Types, loopRest, GoesOn
  <1>18. ASSUME Answered PROVE Types'
    BY <1>18, <1>T, AnsweredEffect DEF Types, loopRest, GoesOn
  <1>19. ASSUME ResolveExpired PROVE Types'
    BY <1>19, <1>T, ExpiredTyped DEF Types, loopRest, Vals
  <1>20. ASSUME NEW v \in {"approved", "rejected"}, approve(v) PROVE Types'
    BY <1>20, <1>T DEF approve, Types, Vals, Answers
  <1>21. ASSUME durableExec PROVE Types'
    BY <1>21, <1>T, FinishEffect, RecordsTyped DEF Types, rest
  <1>22. ASSUME Crash PROVE Types'
    BY <1>22, <1>T, CrashEffect, RecordsTyped, LocalRunsAssumption DEF Types
  <1>23. ASSUME UNCHANGED vars PROVE Types'
    BY <1>23, <1>T DEF vars, Types
  <1>24. QED
    BY <1>1, <1>2, <1>3, <1>4, <1>5, <1>6, <1>7, <1>8, <1>9, <1>10, <1>11, <1>12, <1>13, <1>14, <1>15, <1>16,
       <1>17, <1>18, <1>19, <1>20, <1>21, <1>22, <1>23
       DEF Next, Run, Stream, GetRunHandle, GetStreamHandle, HandleStep, LoopStep
-----------------------------------------------------------------------------
LEMMA HandleInit == Init => HandleInv
  <1> SUFFICES ASSUME Init PROVE HandleInv
    OBVIOUS
  <1>1. Types
    BY TypesInit
  <1>2. /\ \A s \in Slots : /\ handle[s].pc = "none" /\ handle[s].target = 0
                            /\ handle[s].got = None /\ handle[s].done = FALSE
        /\ driver = 0 /\ disk.status = None /\ exec.on = FALSE
    BY RecordsTyped DEF Init, NewHandle
  <1>3. QED
    BY <1>1, <1>2 DEF HandleInv, RunBegun, TargetDrives, GotRight, Ends, None

(* Every step keeps HandleInv.                                              *)
LEMMA HandleStepInv == HandleInv /\ [Next]_vars => HandleInv'
  <1> SUFFICES ASSUME HandleInv, [Next]_vars PROVE RunBegun' /\ TargetDrives' /\ GotRight'
    BY TypesStep DEF HandleInv
  <1>T. Types /\ RunBegun /\ TargetDrives /\ GotRight
    BY DEF HandleInv
  <1>S. 1 \in Slots /\ 0 \notin Slots /\ 0..MaxHandles = Slots \cup {0}
    BY LocalRunsAssumption DEF Slots
  <1>F. /\ \A s \in Slots : /\ handle[s].target \in Slots \cup {0} /\ handle[s].ctx \in {"ok", "ended"}
                            /\ handle[s].got \in Ends \cup {None, "stopped"}
        /\ driver \in Slots \cup {0}
    BY <1>T, <1>S DEF Types, Handles, Handle
  <1>1. ASSUME NEW b \in BOOLEAN, Start(b) PROVE RunBegun' /\ TargetDrives' /\ GotRight'
    <2>1. /\ handle[1].pc = "none" /\ UNCHANGED <<rest, driver>>
          /\ Edit(1, IF durable THEN "register" ELSE "drive",
                  handle[1].ctx, handle[1].done, handle[1].target, handle[1].got)
          /\ durable => UNCHANGED <<disk, exec>>
          /\ ~durable => disk'.status = "running" /\ exec'.on
      BY <1>1, <1>T, StartEffect
    <2>2. disk.status = None /\ ~exec.on /\ \A s \in Slots : handle[s].pc = "none"
      BY <1>T, <2>1 DEF RunBegun, None
    <2>3. RunBegun'
      BY <1>S, <2>1, <2>2 DEF Edit, RunBegun, None
    <2>4. TargetDrives'
      BY <1>T, <1>S, <1>F, <2>1, <2>2 DEF Edit, TargetDrives, Drove
    <2>5. GotRight'
      BY <1>T, <1>S, <1>F, <2>1, <2>2 DEF Edit, GotRight, CtxEnded, Ends, None
    <2>6. QED
      BY <2>3, <2>4, <2>5
  <1>2. ASSUME NEW s \in Slots, NEW b \in BOOLEAN, Reattach(s, b) PROVE RunBegun' /\ TargetDrives' /\ GotRight'
    <2>1. /\ disk.status = "running" /\ handle[s].pc = "none" /\ UNCHANGED <<rest, disk, exec, driver>>
          /\ Edit(s, "register", handle[s].ctx, handle[s].done, handle[s].target, handle[s].got)
      BY <1>2, <1>T, ReattachEffect
    <2>3. RunBegun'
      BY <1>T, <1>S, <2>1 DEF Edit, RunBegun, None
    <2>4. TargetDrives'
      BY <1>T, <1>S, <1>F, <2>1 DEF Edit, TargetDrives, Drove
    <2>5. GotRight'
      BY <1>T, <1>S, <1>F, <2>1 DEF Edit, GotRight, CtxEnded, TargetDrives, Drove
    <2>6. QED
      BY <2>3, <2>4, <2>5
  <1>3. ASSUME NEW s \in Slots, registerDriver(s) PROVE RunBegun' /\ TargetDrives' /\ GotRight'
    <2>1. handle[s].pc = "register" /\ handle[s].target = 0 /\ handle[s].got = None /\ UNCHANGED rest
      BY <1>3, <1>T, RegisterEffect DEF TargetDrives, GotRight
    <2>2. CASE driver = 0
      <3>1. /\ driver' = s
            /\ Edit(s, "drive", handle[s].ctx, handle[s].done, handle[s].target, handle[s].got)
            /\ disk'.status = IF disk.status = None THEN "running" ELSE disk.status
            /\ exec' = exec \/ ~Ended
        BY <1>3, <1>T, <2>2, RegisterEffect
      <3>2. disk.status \in Ends \cup {None, "running"}
        BY <1>T DEF Types, Disk
      <3>3. RunBegun'
        BY <1>T, <1>S, <2>1, <3>1, <3>2 DEF Edit, RunBegun, Ended, Ends, None
      <3>4. TargetDrives'
        BY <1>T, <1>S, <1>F, <2>1, <3>1 DEF Edit, TargetDrives, Drove
      <3>5. GotRight'
        BY <1>T, <1>S, <1>F, <2>1, <3>1 DEF Edit, GotRight, CtxEnded, Ends, None
      <3>6. QED
        BY <3>3, <3>4, <3>5
    <2>3. CASE driver # 0
      <3>1. /\ UNCHANGED <<disk, exec, driver>>
            /\ Edit(s, "attached", handle[s].ctx, handle[s].done, driver, handle[s].got)
        BY <1>3, <1>T, <2>3, RegisterEffect
      <3>2. RunBegun'
        BY <1>T, <1>S, <2>1, <3>1 DEF Edit, RunBegun
      <3>3. TargetDrives'
        BY <1>T, <1>S, <1>F, <2>1, <2>3, <3>1 DEF Edit, TargetDrives, Drove
      <3>4. GotRight'
        BY <1>T, <1>S, <1>F, <2>1, <3>1 DEF Edit, GotRight, CtxEnded, Ends, None
      <3>5. QED
        BY <3>2, <3>3, <3>4
    <2>4. QED
      BY <2>2, <2>3
  <1>4. ASSUME NEW s \in Slots, driveRun(s) \/ driveStream(s) \/ driveDurableRun(s) \/ driveDurableStream(s)
        PROVE RunBegun' /\ TargetDrives' /\ GotRight'
    <2>1. handle[s].pc = "drive" /\ UNCHANGED <<rest, disk, exec, driver>>
      BY <1>4, <1>T, DriveEffect
    <2>2. PICK p \in {"mark", "publish"}, g \in Ends \cup {"stopped"} :
             /\ Edit(s, p, handle[s].ctx, handle[s].done, handle[s].target, g)
             /\ g \in Ends => disk.status = g
             /\ g = "stopped" => handle[s].ctx = "ended"
      BY <1>4, <1>T, DriveEffect
    <2>3. RunBegun'
      BY <1>T, <1>S, <2>1, <2>2 DEF Edit, RunBegun
    <2>4. TargetDrives'
      BY <1>T, <1>S, <1>F, <2>1, <2>2 DEF Edit, TargetDrives, Drove
    <2>5. GotRight'
      BY <1>T, <1>S, <1>F, <2>1, <2>2 DEF Edit, GotRight, CtxEnded, Ends, None
    <2>6. QED
      BY <2>3, <2>4, <2>5
  <1>5. ASSUME NEW s \in Slots, NEW p \in {"close", "gone", "mark"},
               \/ handle[s].pc = "publish" /\ p = "mark"
               \/ handle[s].pc = "mark" /\ p = "close"
               \/ handle[s].pc = "done" /\ p = "gone",
               Edit(s, p, handle[s].ctx, handle[s].done, handle[s].target, handle[s].got),
               UNCHANGED <<disk, exec>>, driver' \in {0, driver}
        PROVE RunBegun' /\ TargetDrives' /\ GotRight'
    <2>3. RunBegun'
      BY <1>5, <1>T, <1>S DEF Edit, RunBegun
    <2>4. TargetDrives'
      BY <1>5, <1>T, <1>S, <1>F DEF Edit, TargetDrives, Drove
    <2>5. GotRight'
      BY <1>5, <1>T, <1>S, <1>F DEF Edit, GotRight, CtxEnded
    <2>6. QED
      BY <2>3, <2>4, <2>5
  <1>6. ASSUME NEW s \in Slots, AttachedGet(s) PROVE RunBegun' /\ TargetDrives' /\ GotRight'
    <2>1. handle[s].pc = "attached" /\ handle[s].target \in Slots /\ UNCHANGED <<rest, disk, exec, driver>>
      BY <1>6, <1>T, AttachedEffect
    <2>2. PICK g \in Ends \cup {None, "stopped"} :
             /\ Edit(s, "mark", handle[s].ctx, handle[s].done, handle[s].target, g)
             /\ \/ handle[handle[s].target].done /\ g = handle[handle[s].target].got
                \/ g = "stopped" /\ handle[s].ctx = "ended"
      BY <1>6, <1>T, AttachedEffect
    <2>3. /\ handle[handle[s].target].target = 0 /\ handle[s].target # s
          /\ g # None /\ (g \in Ends => disk.status = g)
          /\ g = "stopped" => CtxEnded(s)
      BY <1>T, <1>S, <2>1, <2>2 DEF TargetDrives, Drove, GotRight, CtxEnded, Ends, None
    <2>4. RunBegun'
      BY <1>T, <1>S, <2>1, <2>2 DEF Edit, RunBegun
    <2>5. TargetDrives'
      BY <1>T, <1>S, <1>F, <2>1, <2>2 DEF Edit, TargetDrives, Drove
    <2>6. GotRight'
      BY <1>T, <1>S, <1>F, <2>1, <2>2, <2>3 DEF Edit, GotRight, CtxEnded
    <2>7. QED
      BY <2>4, <2>5, <2>6
  <1>7. ASSUME NEW s \in Slots, closeDone(s) PROVE RunBegun' /\ TargetDrives' /\ GotRight'
    <2>1. /\ handle[s].pc = "close" /\ UNCHANGED <<rest, disk, exec, driver>>
          /\ Edit(s, "done", handle[s].ctx, TRUE, handle[s].target, handle[s].got)
      BY <1>7, <1>T, CloseEffect
    <2>3. RunBegun'
      BY <1>T, <1>S, <2>1 DEF Edit, RunBegun
    <2>4. TargetDrives'
      BY <1>T, <1>S, <1>F, <2>1 DEF Edit, TargetDrives, Drove
    <2>5. GotRight'
      BY <1>T, <1>S, <1>F, <2>1 DEF Edit, GotRight, CtxEnded
    <2>6. QED
      BY <2>3, <2>4, <2>5
  <1>8. ASSUME NEW s \in Slots, publishLifecycleEvent(s) \/ markDone(s) \/ DriverReturns(s)
        PROVE RunBegun' /\ TargetDrives' /\ GotRight'
    <2>1. CASE publishLifecycleEvent(s)
      BY <1>5, <1>T, <2>1, PublishEffect
    <2>2. CASE markDone(s)
      BY <1>5, <1>T, <2>2, MarkEffect
    <2>3. CASE DriverReturns(s)
      BY <1>5, <1>T, <2>3, ReturnEffect
    <2>4. QED
      BY <1>8, <2>1, <2>2, <2>3
  <1>9. ASSUME NEW s \in Slots, Cancel(s) \/ ContextEnds(s) PROVE RunBegun' /\ TargetDrives' /\ GotRight'
    <2>1. Live(s) /\ UNCHANGED <<rest, driver>> /\ disk'.status = disk.status /\ exec'.on = exec.on
      BY <1>9, <1>T, CancelEffect
    <2>2. PICK c \in {handle[s].ctx, "ended"} :
             Edit(s, handle[s].pc, c, handle[s].done, handle[s].target, handle[s].got)
      BY <1>9, <1>T, CancelEffect
    <2>3. RunBegun'
      BY <1>T, <1>S, <2>1, <2>2 DEF Edit, RunBegun
    <2>4. TargetDrives'
      BY <1>T, <1>S, <1>F, <2>1, <2>2 DEF Edit, TargetDrives, Drove
    <2>5. \A t \in Slots : /\ handle'[t].pc = handle[t].pc /\ handle'[t].done = handle[t].done
                           /\ handle'[t].target = handle[t].target /\ handle'[t].got = handle[t].got
                           /\ handle[t].ctx = "ended" => handle'[t].ctx = "ended"
      BY <2>2, <1>F DEF Edit
    <2>6. GotRight'
      BY <1>T, <1>F, <2>1, <2>5 DEF GotRight, CtxEnded
    <2>7. QED
      BY <2>3, <2>4, <2>6
  <1>10. ASSUME UNCHANGED <<handle, driver>>, disk'.status = disk.status, exec'.on => exec.on
         PROVE RunBegun' /\ TargetDrives' /\ GotRight'
    BY <1>10, <1>T DEF RunBegun, TargetDrives, Drove, GotRight, CtxEnded
  <1>11. ASSUME durableExec PROVE RunBegun' /\ TargetDrives' /\ GotRight'
    <2>1. exec.on /\ UNCHANGED <<driver, handle>> /\ exec'.on = FALSE
      BY <1>11, <1>T, FinishEffect, RecordsTyped
    <2>2. disk.status = "running"
      BY <1>T, <2>1 DEF RunBegun
    <2>3. QED
      BY <1>T, <2>1, <2>2 DEF RunBegun, TargetDrives, Drove, GotRight, CtxEnded, Ends, None
  <1>12. ASSUME Crash PROVE RunBegun' /\ TargetDrives' /\ GotRight'
    <2>1. /\ UNCHANGED disk /\ exec'.on = FALSE /\ driver' = 0
          /\ \A s \in Slots : /\ handle[s].pc = "none" => handle'[s] = handle[s]
                              /\ handle[s].pc # "none" => handle'[s].pc = "dead"
                              /\ handle'[s] = handle[s] \/ handle'[s] = [NewHandle EXCEPT !.pc = "dead"]
                              /\ handle'[s].pc \in {"none", "dead"}
      BY <1>12, <1>T, CrashEffect, RecordsTyped
    <2>2. /\ [NewHandle EXCEPT !.pc = "dead"].target = 0 /\ [NewHandle EXCEPT !.pc = "dead"].got = None
          /\ ~[NewHandle EXCEPT !.pc = "dead"].done
      BY DEF NewHandle
    <2>3. ASSUME NEW s \in Slots PROVE handle'[s].target = 0 /\ handle'[s].got = None /\ ~handle'[s].done
      <3>1. CASE handle'[s] = handle[s]
        <4>1. handle[s].pc \in {"none", "dead"}
          BY <2>1, <3>1
        <4>2. handle[s].target = 0 /\ handle[s].got = None /\ ~handle[s].done
          BY <1>T, <4>1 DEF TargetDrives, GotRight
        <4>3. QED
          BY <3>1, <4>2
      <3>2. CASE handle'[s] = [NewHandle EXCEPT !.pc = "dead"]
        BY <2>2, <3>2
      <3>3. QED
        BY <2>1, <3>1, <3>2
    <2>4. QED
      BY <1>T, <1>S, <2>1, <2>3 DEF RunBegun, TargetDrives, Drove, GotRight, Ends, None
  <1>13. ASSUME RunTimeout \/ CallStep \/ SkipStep \/ durableApprovalWait \/ ApprovalDeadline \/ ReplayStep
                \/ RecordStep \/ Answered
         PROVE RunBegun' /\ TargetDrives' /\ GotRight'
    <2>1. UNCHANGED loopRest /\ exec'.on = exec.on
      BY <1>13, <1>T, TimeoutEffect, CallEffect, SkipEffect, WaitEffect, DeadlineEffect, ReplayEffect, RecordEffect,
         AnsweredEffect DEF GoesOn
    <2>2. QED
      BY <1>10, <2>1 DEF loopRest
  <1>14. ASSUME ResolveExpired PROVE RunBegun' /\ TargetDrives' /\ GotRight'
    <2>1. UNCHANGED loopRest /\ exec'.on = exec.on
      BY <1>14, <1>T, ExpiredTyped
    <2>2. QED
      BY <1>10, <2>1 DEF loopRest
  <1>15. ASSUME NEW v \in {"approved", "rejected"}, approve(v) PROVE RunBegun' /\ TargetDrives' /\ GotRight'
    BY <1>10, <1>15 DEF approve
  <1>16. ASSUME UNCHANGED vars PROVE RunBegun' /\ TargetDrives' /\ GotRight'
    BY <1>10, <1>16 DEF vars
  <1>17. QED
    BY <1>1, <1>2, <1>3, <1>4, <1>6, <1>7, <1>8, <1>9, <1>11, <1>12, <1>13, <1>14, <1>15, <1>16
       DEF Next, Run, Stream, GetRunHandle, GetStreamHandle, HandleStep, LoopStep
-----------------------------------------------------------------------------
(* The refinement. The mapped variables, in the terms of Edit.              *)
RunState == IF disk.status = None THEN (IF handle[1].pc = "none" THEN "none" ELSE "open")
            ELSE IF disk.status = "running" THEN "open" ELSE disk.status
Reports == [s \in Slots |-> Report(s)]
EndedSet == {s \in Slots : \E t \in {s, handle[s].target} \ {0} : handle[t].ctx # "ok"}

(* A handle's report, and whether its context has ended, by its state.      *)
ReportIs(s) ==
    /\ handle[s].pc \in Pcs
    /\ handle[s].pc = "none" => Report(s) = "none"
    /\ handle[s].pc = "dead" => Report(s) = "lost"
    /\ handle[s].pc \in {"done", "gone"} => Report(s) = handle[s].got
    /\ handle[s].pc \in Pcs \ {"none", "dead", "done", "gone"} => Report(s) = "waiting"
    /\ s \in EndedSet <=> CtxEnded(s)

LEMMA ReportFacts == HandleInv => \A s \in Slots : ReportIs(s)
  <1> SUFFICES ASSUME HandleInv, NEW s \in Slots PROVE ReportIs(s)
    OBVIOUS
  <1>1. handle[s].pc \in Pcs /\ handle[s].target \in 0..MaxHandles /\ s # 0
    BY DEF HandleInv, Types, Handles, Handle, Slots
  <1>2. handle[s].done <=> handle[s].pc \in {"done", "gone"}
    BY DEF HandleInv, GotRight
  <1>3. \A t \in Slots : handle[t].ctx \in {"ok", "ended"}
    BY DEF HandleInv, Types, Handles, Handle
  <1>4. handle[s].target # 0 => handle[s].target \in Slots
    BY <1>1 DEF Slots
  <1>5. s \in EndedSet <=> CtxEnded(s)
    BY <1>1, <1>3, <1>4 DEF EndedSet, CtxEnded
  <1>6. QED
    BY <1>1, <1>2, <1>5 DEF ReportIs, Report, Pcs

LEMMA ReportFactsNext == HandleInv' => (\A s \in Slots : ReportIs(s))'
  BY ReportFacts, PTL

(* Only the reports and contexts of the handles that an operation edits,    *)
(* and of those that wait for them, can change.                             *)
LEMMA SameReports ==
    ASSUME HandleInv, HandleInv', NEW s \in Slots,
           \A t \in Slots \ {s} : handle'[t] = handle[t]
    PROVE  /\ \A t \in Slots \ {s} : Report(t)' = Report(t)
           /\ Report(s)' = Report(s) => Reports' = Reports
           /\ \A r : Report(s)' = r => Reports' = [Reports EXCEPT ![s] = r]
           /\ handle'[s].ctx = handle[s].ctx /\ handle'[s].target = handle[s].target => EndedSet' = EndedSet
           /\ /\ handle[s].ctx = "ended" => handle'[s].ctx = "ended"
              /\ handle'[s].target = handle[s].target \/ handle[s].target = 0
              => EndedSet \subseteq EndedSet'
  <1>1. ASSUME NEW t \in Slots \ {s} PROVE Report(t)' = Report(t)
    BY <1>1 DEF Report
  <1>2. ASSUME Report(s)' = Report(s) PROVE Reports' = Reports
    BY <1>1, <1>2 DEF Reports
  <1>3. ASSUME NEW r, Report(s)' = r PROVE Reports' = [Reports EXCEPT ![s] = r]
    BY <1>1, <1>3 DEF Reports
  <1>4. \A t \in Slots : (t \in EndedSet <=> CtxEnded(t)) /\ ((t \in EndedSet)' <=> CtxEnded(t)')
    BY ReportFacts, ReportFactsNext DEF ReportIs
  <1>5. \A t \in Slots : handle[t].target # 0 => handle[t].target \in Slots
    BY SMTT(60) DEF HandleInv, Types, Handles, Handle, Slots
  <1>6. EndedSet \subseteq Slots /\ EndedSet' \subseteq Slots
    BY DEF EndedSet
  <1>7. ASSUME handle'[s].ctx = handle[s].ctx, handle'[s].target = handle[s].target PROVE EndedSet' = EndedSet
    <2>1. \A t \in Slots : CtxEnded(t)' <=> CtxEnded(t)
      BY <1>5, <1>7 DEF CtxEnded
    <2>2. QED
      BY <1>4, <1>6, <2>1
  <1>8. ASSUME handle[s].ctx = "ended" => handle'[s].ctx = "ended",
               handle'[s].target = handle[s].target \/ handle[s].target = 0
        PROVE  EndedSet \subseteq EndedSet'
    <2>1. \A t \in Slots : CtxEnded(t) => CtxEnded(t)'
      BY <1>5, <1>8 DEF CtxEnded
    <2>2. QED
      BY <1>4, <1>6, <2>1
  <1>9. QED
    BY <1>1, <1>2, <1>3, <1>7, <1>8

LEMMA ContractInit == Init => Contract!Init
  <1> SUFFICES ASSUME Init PROVE Contract!Init
    OBVIOUS
  <1>1. HandleInv /\ \A s \in Slots : handle[s].pc = "none" /\ handle[s].ctx = "ok" /\ handle[s].target = 0
    BY HandleInit DEF Init, NewHandle
  <1>2. 1 \in Slots
    BY LocalRunsAssumption DEF Slots
  <1>3. RunState = "none"
    BY <1>1, <1>2 DEF RunState, Init
  <1>4. \A s \in Slots : Report(s) = "none" /\ s \notin EndedSet
    BY <1>1, ReportFacts DEF ReportIs, CtxEnded
  <1>5. Reports = [s \in Slots |-> "none"] /\ EndedSet = {}
    BY <1>4 DEF Reports, EndedSet
  <1>6. QED
    BY <1>3, <1>5 DEF Contract!Init, RunState, Reports, EndedSet

(* Every step of the handles is a step of the contract or none.             *)
LEMMA ContractStep == HandleInv /\ HandleInv' /\ [Next]_vars => [Contract!Next]_(Contract!vars)
  <1> SUFFICES ASSUME HandleInv, HandleInv', [Next]_vars PROVE [Contract!Next]_(Contract!vars)
    OBVIOUS
  <1>T. /\ Types /\ RunBegun /\ TargetDrives /\ GotRight
        /\ Types' /\ RunBegun' /\ TargetDrives' /\ GotRight'
    BY DEF HandleInv
  <1>R. \A s \in Slots : ReportIs(s) /\ ReportIs(s)'
    BY ReportFacts, ReportFactsNext
  <1>S. 1 \in Slots
    BY LocalRunsAssumption DEF Slots
  <1>P. Ends = Contract!Ends
    BY DEF Ends, Contract!Ends
  <1>Q. ASSUME RunState' = RunState, Reports' = Reports, EndedSet' = EndedSet PROVE [Contract!Next]_(Contract!vars)
    BY <1>Q DEF Contract!vars, RunState, Reports, EndedSet
  <1>E. ASSUME RunState' = RunState, Reports' = Reports, EndedSet \subseteq EndedSet'
        PROVE [Contract!Next]_(Contract!vars)
    <2>1. EndedSet' \subseteq Slots
      BY DEF EndedSet
    <2>2. Contract!EndContexts
      BY <1>E, <2>1 DEF Contract!EndContexts, RunState, Reports, EndedSet
    <2>3. QED
      BY <2>2 DEF Contract!Next
  <1>1. ASSUME NEW b \in BOOLEAN, Start(b) PROVE [Contract!Next]_(Contract!vars)
    <2>1. /\ handle[1].pc = "none"
          /\ Edit(1, IF durable THEN "register" ELSE "drive",
                  handle[1].ctx, handle[1].done, handle[1].target, handle[1].got)
          /\ durable => UNCHANGED disk
          /\ ~durable => disk'.status = "running"
      BY <1>1, <1>T, StartEffect
    <2>2. RunState = "none" /\ RunState' = "open"
      BY <1>T, <2>1 DEF RunBegun, RunState, Edit, None
    <2>3. Reports' = [Reports EXCEPT ![1] = "waiting"] /\ EndedSet' = EndedSet
      <3>1. Report(1)' = "waiting"
        BY <1>R, <1>S, <2>1 DEF ReportIs, Edit, Pcs
      <3>2. QED
        BY <1>S, <2>1, <3>1, SameReports DEF Edit
    <2>4. Contract!Begin(1)
      BY <2>2, <2>3 DEF Contract!Begin, RunState, Reports, EndedSet
    <2>5. QED
      BY <1>S, <2>4 DEF Contract!Next
  <1>2. ASSUME NEW s \in Slots, NEW b \in BOOLEAN, Reattach(s, b) PROVE [Contract!Next]_(Contract!vars)
    <2>1. /\ disk.status = "running" /\ handle[s].pc = "none" /\ UNCHANGED disk
          /\ Edit(s, "register", handle[s].ctx, handle[s].done, handle[s].target, handle[s].got)
      BY <1>2, <1>T, ReattachEffect
    <2>2. RunState = "open" /\ RunState' = "open"
      BY <2>1 DEF RunState, None
    <2>3. Reports[s] = "none" /\ Reports' = [Reports EXCEPT ![s] = "waiting"] /\ EndedSet' = EndedSet
      <3>1. Report(s) = "none" /\ Report(s)' = "waiting"
        BY <1>R, <2>1 DEF ReportIs, Edit, Pcs
      <3>2. QED
        BY <2>1, <3>1, SameReports DEF Edit, Reports
    <2>4. Contract!Attach(s)
      BY <2>2, <2>3 DEF Contract!Attach, RunState, Reports, EndedSet
    <2>5. QED
      BY <2>4 DEF Contract!Next
  <1>3. ASSUME NEW s \in Slots, registerDriver(s) PROVE [Contract!Next]_(Contract!vars)
    <2>1. /\ handle[s].pc = "register" /\ handle[s].target = 0
          /\ \A t \in Slots \ {s} : handle'[t] = handle[t]
          /\ handle'[s].pc \in {"drive", "attached"} /\ handle'[s].ctx = handle[s].ctx
          /\ disk'.status = disk.status \/ (disk.status = None /\ disk'.status = "running")
      BY <1>3, <1>T, RegisterEffect DEF Edit, TargetDrives
    <2>2. handle[1].pc # "none" /\ handle'[1].pc # "none"
      BY <1>T, <1>S, <2>1 DEF RunBegun
    <2>3. RunState' = RunState
      BY <2>1, <2>2 DEF RunState, None
    <2>4. Report(s)' = Report(s)
      BY <1>R, <2>1 DEF ReportIs, Pcs
    <2>5. Reports' = Reports /\ EndedSet \subseteq EndedSet'
      BY <2>1, <2>4, SameReports
    <2>6. QED
      BY <1>E, <2>3, <2>5
  <1>4. ASSUME NEW s \in Slots, NEW p \in {"publish", "mark", "close", "gone"}, NEW g,
               UNCHANGED disk, Edit(s, p, handle[s].ctx, handle[s].done, handle[s].target, g),
               \/ p = "gone" /\ handle[s].pc = "done" /\ g = handle[s].got
               \/ p # "gone" /\ handle[s].pc \in {"drive", "attached", "publish", "mark"}
        PROVE  [Contract!Next]_(Contract!vars)
    <2>1. handle[1].pc # "none" /\ handle'[1].pc # "none"
      BY <1>4, <1>T, <1>S DEF RunBegun, Edit
    <2>2. RunState' = RunState
      BY <1>4, <2>1 DEF RunState
    <2>3. Report(s)' = Report(s)
      BY <1>4, <1>R DEF ReportIs, Pcs, Edit
    <2>4. Reports' = Reports /\ EndedSet' = EndedSet
      BY <1>4, <2>3, SameReports DEF Edit
    <2>5. QED
      BY <1>Q, <2>2, <2>4
  <1>5. ASSUME NEW s \in Slots, driveRun(s) \/ driveStream(s) \/ driveDurableRun(s) \/ driveDurableStream(s)
        PROVE [Contract!Next]_(Contract!vars)
    BY <1>4, <1>5, <1>T, DriveEffect
  <1>6. ASSUME NEW s \in Slots, AttachedGet(s) PROVE [Contract!Next]_(Contract!vars)
    BY <1>4, <1>6, <1>T, AttachedEffect
  <1>7. ASSUME NEW s \in Slots, publishLifecycleEvent(s) PROVE [Contract!Next]_(Contract!vars)
    BY <1>4, <1>7, <1>T, PublishEffect
  <1>8. ASSUME NEW s \in Slots, markDone(s) PROVE [Contract!Next]_(Contract!vars)
    BY <1>4, <1>8, <1>T, MarkEffect
  <1>9. ASSUME NEW s \in Slots, DriverReturns(s) PROVE [Contract!Next]_(Contract!vars)
    BY <1>4, <1>9, <1>T, ReturnEffect
  <1>10. ASSUME NEW s \in Slots, closeDone(s) PROVE [Contract!Next]_(Contract!vars)
    <2>1. /\ handle[s].pc = "close" /\ UNCHANGED disk
          /\ Edit(s, "done", handle[s].ctx, TRUE, handle[s].target, handle[s].got)
      BY <1>10, <1>T, CloseEffect
    <2>2. handle[1].pc # "none" /\ handle'[1].pc # "none"
      BY <1>T, <1>S, <2>1 DEF RunBegun, Edit
    <2>3. RunState' = RunState
      BY <2>1, <2>2 DEF RunState
    <2>4. Report(s) = "waiting" /\ Report(s)' = handle[s].got
      BY <1>R, <2>1 DEF ReportIs, Edit, Pcs
    <2>5. /\ Reports[s] = "waiting" /\ Reports' = [Reports EXCEPT ![s] = handle[s].got]
          /\ EndedSet' = EndedSet
      BY <2>1, <2>4, SameReports DEF Edit, Reports
    <2>6. handle[s].got \in Ends \cup {"stopped"}
      BY <1>T, <2>1 DEF GotRight, Types, Handles, Handle
    <2>7. CASE handle[s].got \in Ends
      <3>1. RunState = handle[s].got
        BY <1>T, <2>7 DEF GotRight, RunState, Ends, None
      <3>2. Contract!Deliver(s)
        BY <1>P, <2>3, <2>5, <2>7, <3>1 DEF Contract!Deliver, RunState, Reports, EndedSet
      <3>3. QED
        BY <3>2 DEF Contract!Next
    <2>8. CASE handle[s].got = "stopped"
      <3>1. s \in EndedSet
        BY <1>R, <1>T, <2>8 DEF GotRight, ReportIs
      <3>2. Contract!GiveUp(s)
        BY <2>3, <2>5, <2>8, <3>1 DEF Contract!GiveUp, RunState, Reports, EndedSet
      <3>3. QED
        BY <3>2 DEF Contract!Next
    <2>9. QED
      BY <2>6, <2>7, <2>8
  <1>11. ASSUME NEW s \in Slots, Cancel(s) \/ ContextEnds(s) PROVE [Contract!Next]_(Contract!vars)
    <2>1. disk'.status = disk.status
      BY <1>11, <1>T, CancelEffect
    <2>2. PICK c \in {handle[s].ctx, "ended"} :
             Edit(s, handle[s].pc, c, handle[s].done, handle[s].target, handle[s].got)
      BY <1>11, <1>T, CancelEffect
    <2>3. handle'[1].pc = handle[1].pc
      BY <1>S, <2>2 DEF Edit
    <2>4. RunState' = RunState
      BY <2>1, <2>3 DEF RunState
    <2>5. Report(s)' = Report(s)
      BY <1>R, <2>2 DEF ReportIs, Edit, Pcs
    <2>6. Reports' = Reports /\ EndedSet \subseteq EndedSet'
      BY <2>2, <2>5, SameReports DEF Edit
    <2>7. QED
      BY <1>E, <2>4, <2>6
  <1>12. ASSUME durableExec PROVE [Contract!Next]_(Contract!vars)
    <2>1. exec.on /\ UNCHANGED handle /\ disk'.status \in Ends
      BY <1>12, <1>T, FinishEffect
    <2>2. RunState = "open" /\ RunState' \in Ends
      BY <1>T, <2>1 DEF RunBegun, RunState, Ends, None
    <2>3. Reports' = Reports /\ EndedSet' = EndedSet
      BY <2>1 DEF Reports, Report, EndedSet
    <2>4. Contract!Close
      BY <1>P, <2>2, <2>3 DEF Contract!Close, RunState, Reports, EndedSet
    <2>5. QED
      BY <2>4 DEF Contract!Next
  <1>13. ASSUME Crash PROVE [Contract!Next]_(Contract!vars)
    <2>1. /\ UNCHANGED disk
          /\ \A s \in Slots : /\ handle[s].pc = "none" => handle'[s].pc = "none"
                              /\ handle[s].pc # "none" => handle'[s].pc = "dead"
      BY <1>13, <1>T, CrashEffect
    <2>2. RunState' = RunState
      BY <1>S, <2>1 DEF RunState
    <2>3. \A s \in Slots : Report(s) = "none" <=> handle[s].pc = "none"
      BY <1>R, <1>T DEF ReportIs, GotRight, Types, Handles, Handle, Pcs, Ends, None
    <2>4. \A s \in Slots : Report(s)' = IF Report(s) = "none" THEN "none" ELSE "lost"
      BY <1>R, <2>1, <2>3 DEF ReportIs
    <2>5. Reports' = [s \in Slots |-> IF Reports[s] = "none" THEN "none" ELSE "lost"]
      BY <2>4 DEF Reports
    <2>6. EndedSet' \subseteq Slots
      BY DEF EndedSet
    <2>7. Contract!Lose
      BY <2>2, <2>5, <2>6 DEF Contract!Lose, RunState, Reports, EndedSet
    <2>8. QED
      BY <2>7 DEF Contract!Next
  <1>14. ASSUME UNCHANGED <<disk, handle>> PROVE [Contract!Next]_(Contract!vars)
    <2>1. RunState' = RunState /\ Reports' = Reports /\ EndedSet' = EndedSet
      BY <1>14 DEF RunState, Reports, Report, EndedSet
    <2>2. QED
      BY <1>Q, <2>1
  <1>15. ASSUME \/ RunTimeout \/ CallStep \/ SkipStep \/ durableApprovalWait \/ ApprovalDeadline \/ ReplayStep
                \/ RecordStep \/ Answered \/ ResolveExpired \/ UNCHANGED vars
                \/ \E v \in {"approved", "rejected"} : approve(v)
         PROVE [Contract!Next]_(Contract!vars)
    <2>1. UNCHANGED <<disk, handle>>
      BY <1>15 DEF RunTimeout, CallStep, SkipStep, durableApprovalWait, ApprovalDeadline, ReplayStep,
                   RecordStep, Answered, ResolveExpired, approve, vars
    <2>2. QED
      BY <1>14, <2>1
  <1>16. QED
    BY <1>1, <1>2, <1>3, <1>5, <1>6, <1>7, <1>8, <1>9, <1>10, <1>11, <1>12, <1>13, <1>15
       DEF Next, Run, Stream, GetRunHandle, GetStreamHandle, HandleStep, LoopStep

(* HandleInv holds of every run: what a handle took for the result of the   *)
(* run is the end of the run, unless a context ended (AttachedGet, TaskGet).*)
THEOREM HandlesSafe == Spec => []HandleInv
  BY HandleInit, HandleStepInv, PTL DEF Spec

(* The handles of the local runtime implement RunContract, whatever the     *)
(* number of handles and of crashes: one end of the run, reported by every  *)
(* handle that waited for it (registerDriver, markDone, closeDone).         *)
THEOREM ContractImplemented == Spec => ImplementsContract
  BY HandlesSafe, ContractInit, ContractStep, PTL DEF Spec, ImplementsContract, Contract!Spec
-----------------------------------------------------------------------------
LEMMA ReplayInit == Init => ReplayInv
  <1> SUFFICES ASSUME Init PROVE ReplayInv
    OBVIOUS
  <1>1. /\ exec.on = FALSE /\ exec.at = 1 /\ exec.phase = "begin" /\ \A id \in StepIds : exec.used[id] = None /\ first[id] = None
        /\ \A s \in Slots : handle[s].pc = "none"
    BY RecordsTyped DEF Init, NewHandle
  <1>2. QED
    BY <1>1 DEF ReplayInv, StepOpen, OnDisk, OneWay, ReplayAgrees

(* Every step keeps ReplayInv.                                              *)
LEMMA ReplayStepInv == HandleInv /\ ReplayInv /\ [Next]_vars => ReplayInv'
  <1> SUFFICES ASSUME HandleInv, ReplayInv, [Next]_vars PROVE ReplayInv'
    OBVIOUS
  <1>T. Types /\ RunBegun /\ TargetDrives /\ GotRight
    BY DEF HandleInv
  <1>I. /\ StepOpen /\ OnDisk /\ OneWay /\ ReplayAgrees
        /\ \A id \in StepIds : first[id] = None => exec.used[id] = None
    BY DEF ReplayInv
  <1>S. 1 \in Slots
    BY LocalRunsAssumption DEF Slots
  <1>F. exec.at \in 1..5 /\ exec.on \in BOOLEAN /\ (exec.phase # "begin" => exec.at <= 4)
    BY <1>T DEF Types, Exec
  (* Steps that leave the results and the place of the loop alone. *)
  <1>1. ASSUME UNCHANGED <<durable, step, first>>,
               exec'.at = exec.at, exec'.phase = exec.phase, exec'.used = exec.used, exec'.value = exec.value,
               exec'.on = exec.on,
               handle'[1].pc = "none" => handle[1].pc = "none",
               ~durable => \A s \in Slots : handle'[s].pc # "register"
        PROVE  ReplayInv'
    <2>1. At' = At
      BY <1>1 DEF At
    <2>2. StepOpen' /\ OnDisk'
      BY <1>1, <1>I, <2>1 DEF StepOpen, OnDisk
    <2>3. OneWay' /\ ReplayAgrees'
      BY <1>1, <1>I DEF OneWay, ReplayAgrees
    <2>4. QED
      BY <1>1, <1>I, <2>2, <2>3 DEF ReplayInv
  <1>2. ASSUME NEW b \in BOOLEAN, Start(b) PROVE ReplayInv'
    <2>1. /\ handle[1].pc = "none" /\ UNCHANGED <<durable, step, first>>
          /\ Edit(1, IF durable THEN "register" ELSE "drive",
                  handle[1].ctx, handle[1].done, handle[1].target, handle[1].got)
          /\ durable => UNCHANGED exec
          /\ ~durable => /\ exec'.at = exec.at /\ exec'.phase = exec.phase /\ exec'.used = exec.used
      BY <1>2, <1>T, StartEffect DEF rest
    <2>2. CASE durable
      BY <1>1, <2>1, <2>2 DEF Edit
    <2>3. CASE ~durable
      <3>1. \A id \in StepIds : first[id] = None
        BY <1>I, <2>1, <2>3 DEF OneWay
      <3>2. \A s \in Slots : handle'[s].pc # "register"
        BY <1>I, <2>1, <2>3 DEF OneWay, Edit
      <3>3. exec.at = 1 /\ exec'.at = 1 /\ exec'.phase = "begin"
        BY <1>I, <2>1, <2>3 DEF OneWay
      <3>4. StepOpen'
        BY <3>3 DEF StepOpen
      <3>5. OneWay'
        BY <1>S, <2>1, <2>3, <3>1, <3>2, <3>3, ScriptFacts DEF OneWay, Edit
      <3>6. QED
        BY <1>I, <2>1, <2>3, <3>1, <3>4, <3>5 DEF ReplayInv, OnDisk, ReplayAgrees
    <2>4. QED
      BY <2>2, <2>3
  <1>3. ASSUME NEW s \in Slots, NEW b \in BOOLEAN, Reattach(s, b) PROVE ReplayInv'
    <2>1. /\ durable /\ disk.status = "running" /\ UNCHANGED <<durable, step, first, exec>>
          /\ Edit(s, "register", handle[s].ctx, handle[s].done, handle[s].target, handle[s].got)
      BY <1>3, <1>T, ReattachEffect DEF rest
    <2>2. QED
      BY <1>1, <1>S, <2>1 DEF Edit
  <1>4. ASSUME NEW s \in Slots, registerDriver(s) PROVE ReplayInv'
    <2>1. /\ durable /\ UNCHANGED <<durable, step, first>>
          /\ handle'[1].pc = "none" => handle[1].pc = "none"
      BY <1>4, <1>T, <1>I, <1>S, RegisterEffect DEF rest, OneWay, Edit
    <2>2. CASE exec' = exec
      BY <1>1, <2>1, <2>2
    <2>3. CASE exec'.phase = "begin" /\ exec'.used = [id \in StepIds |-> None]
      BY <1>I, <2>1, <2>3 DEF ReplayInv, StepOpen, OnDisk, OneWay, ReplayAgrees
    <2>4. QED
      BY <1>4, <1>T, <2>2, <2>3, RegisterEffect
  <1>5. ASSUME NEW s \in Slots, NEW p \in Pcs \ {"none", "register"}, NEW c, NEW d, NEW t, NEW g,
               Edit(s, p, c, d, t, g), UNCHANGED <<durable, step, first, exec>>
        PROVE  ReplayInv'
    BY <1>1, <1>5, <1>I, <1>S DEF Edit, OneWay
  <1>6. ASSUME NEW s \in Slots, driveRun(s) \/ driveStream(s) \/ driveDurableRun(s) \/ driveDurableStream(s)
        PROVE ReplayInv'
    <2>1. "mark" \in Pcs \ {"none", "register"} /\ "publish" \in Pcs \ {"none", "register"}
      BY DEF Pcs
    <2>2. PICK p \in {"mark", "publish"}, g \in Ends \cup {"stopped"} :
             /\ Edit(s, p, handle[s].ctx, handle[s].done, handle[s].target, g)
             /\ UNCHANGED <<durable, step, first, exec>>
      BY <1>6, <1>T, DriveEffect DEF rest
    <2>3. QED
      BY <1>5, <2>1, <2>2
  <1>7. ASSUME NEW s \in Slots, AttachedGet(s) \/ publishLifecycleEvent(s) \/ markDone(s) PROVE ReplayInv'
    <2>1. "mark" \in Pcs \ {"none", "register"} /\ "close" \in Pcs \ {"none", "register"}
      BY DEF Pcs
    <2>2. UNCHANGED <<durable, step, first, exec>>
      BY <1>7 DEF AttachedGet, publishLifecycleEvent, markDone
    <2>3. CASE AttachedGet(s)
      BY <1>5, <1>T, <2>1, <2>2, <2>3, AttachedEffect
    <2>4. CASE publishLifecycleEvent(s)
      BY <1>5, <1>T, <2>1, <2>2, <2>4, PublishEffect
    <2>5. CASE markDone(s)
      BY <1>5, <1>T, <2>1, <2>2, <2>5, MarkEffect
    <2>6. QED
      BY <1>7, <2>3, <2>4, <2>5
  <1>8. ASSUME NEW s \in Slots, closeDone(s) \/ DriverReturns(s) PROVE ReplayInv'
    <2>1. "done" \in Pcs \ {"none", "register"} /\ "gone" \in Pcs \ {"none", "register"}
      BY DEF Pcs
    <2>2. UNCHANGED <<durable, step, first, exec>>
      BY <1>8 DEF closeDone, DriverReturns
    <2>3. CASE closeDone(s)
      BY <1>5, <1>T, <2>1, <2>2, <2>3, CloseEffect
    <2>4. CASE DriverReturns(s)
      BY <1>5, <1>T, <2>1, <2>2, <2>4, ReturnEffect
    <2>5. QED
      BY <1>8, <2>3, <2>4
  <1>9. ASSUME NEW s \in Slots, Cancel(s) \/ ContextEnds(s) PROVE ReplayInv'
    <2>1. /\ UNCHANGED <<durable, step, first>>
          /\ exec'.on = exec.on /\ exec'.at = exec.at /\ exec'.phase = exec.phase /\ exec'.used = exec.used
          /\ exec'.value = exec.value
          /\ \A t \in Slots : handle'[t].pc = handle[t].pc
      BY <1>9, <1>T, CancelEffect DEF rest, Edit
    <2>2. QED
      BY <1>1, <1>I, <1>S, <2>1 DEF OneWay
  <1>10. ASSUME RunTimeout PROVE ReplayInv'
    <2>1. /\ UNCHANGED <<durable, step, first, handle>>
          /\ exec'.on = exec.on /\ exec'.at = exec.at /\ exec'.phase = exec.phase /\ exec'.used = exec.used
          /\ exec'.value = exec.value
      BY <1>10, <1>T, TimeoutEffect DEF loopRest
    <2>2. QED
      BY <1>1, <1>I, <2>1 DEF OneWay
  (* A step begins: no result of it is on record, so nobody went on with one. *)
  <1>N. ASSUME exec.on, exec.at \in 1..4, ~Result(At) PROVE At \in StepIds /\ first[At] = None
    <2>1. At \in StepIds
      BY <1>N, ScriptFacts DEF At
    <2>2. CASE durable
      BY <1>N, <1>I, <2>1, <2>2 DEF OnDisk, Result
    <2>3. CASE ~durable
      <3>1. exec.at \in exec.at..4
        BY <1>N
      <3>2. QED
        BY <1>N, <1>I, <2>1, <2>3, <3>1 DEF OneWay, At
    <2>4. QED
      BY <2>1, <2>2, <2>3
  <1>11. ASSUME CallStep PROVE ReplayInv'
    <2>1. /\ exec.on /\ exec.at \in 1..4 /\ ~Result(At) /\ At # "approval-0"
          /\ UNCHANGED <<durable, handle, step, first>>
          /\ exec'.on = exec.on /\ exec'.at = exec.at /\ exec'.phase = "called"
          /\ exec'.used = exec.used /\ exec'.value # None
      BY <1>11, <1>T, CallEffect DEF loopRest
    <2>2. At' = At /\ first[At] = None
      BY <1>N, <2>1 DEF At
    <2>3. StepOpen'
      BY <2>1, <2>2 DEF StepOpen
    <2>4. handle[1].pc # "none"
      BY <1>T, <2>1 DEF RunBegun, None
    <2>5. QED
      BY <1>I, <2>1, <2>3, <2>4 DEF ReplayInv, OnDisk, OneWay, ReplayAgrees
  <1>12. ASSUME SkipStep PROVE ReplayInv'
    <2>1. /\ exec.on /\ exec.at = 3 /\ UNCHANGED <<durable, handle, step, first>>
          /\ exec'.on = exec.on /\ exec'.at = exec.at + 1 /\ exec'.phase = "begin" /\ exec'.used = exec.used
      BY <1>12, <1>T, SkipEffect DEF loopRest
    <2>2. OneWay'
      BY <1>I, <1>T, <2>1 DEF OneWay, RunBegun
    <2>3. QED
      BY <1>I, <2>1, <2>2 DEF ReplayInv, StepOpen, OnDisk, ReplayAgrees
  <1>13. ASSUME durableApprovalWait PROVE ReplayInv'
    <2>1. /\ exec.on /\ exec.at = 2 /\ ~Result("approval-0") /\ UNCHANGED <<durable, handle, first>>
          /\ exec'.on = exec.on /\ exec'.at = exec.at /\ exec'.phase = "waiting" /\ exec'.used = exec.used
          /\ step' = [step EXCEPT !["approval-0"] = "waiting"]
      BY <1>13, <1>T, WaitEffect DEF loopRest
    <2>2. At = "approval-0" /\ At' = "approval-0" /\ "approval-0" \in StepIds
      BY <2>1, ScriptFacts DEF At
    <2>3. first["approval-0"] = None
      BY <1>N, <2>1, <2>2 DEF Result
    <2>4. /\ step'["approval-0"] = "waiting"
          /\ \A id \in StepIds \ {"approval-0"} : step'[id] = step[id]
      BY <1>T, <2>1, <2>2 DEF Types
    <2>5. StepOpen'
      BY <2>1, <2>2, <2>3, <2>4 DEF StepOpen, None
    <2>6. OnDisk'
      BY <1>I, <2>1, <2>3, <2>4 DEF OnDisk, None
    <2>7. OneWay' /\ ReplayAgrees'
      BY <1>I, <1>T, <2>1 DEF OneWay, ReplayAgrees, RunBegun
    <2>8. QED
      BY <1>I, <2>1, <2>5, <2>6, <2>7 DEF ReplayInv
  <1>14. ASSUME ApprovalDeadline PROVE ReplayInv'
    <2>1. /\ exec.on /\ exec.phase = "waiting" /\ UNCHANGED <<durable, handle, step, first>>
          /\ exec'.on = exec.on /\ exec'.at = exec.at /\ exec'.phase \in {"expired", "failing"}
          /\ exec'.used = exec.used
      BY <1>14, <1>T, DeadlineEffect DEF loopRest
    <2>2. At' = At
      BY <2>1 DEF At
    <2>3. StepOpen'
      BY <1>I, <2>1, <2>2 DEF StepOpen
    <2>4. QED
      BY <1>I, <1>T, <2>1, <2>3 DEF ReplayInv, OnDisk, OneWay, ReplayAgrees, RunBegun
  (* The loop goes on with v: the first result, or the one on record.         *)
  <1>15. ASSUME NEW v \in Vals, GoesOn(v),
                \/ first[At] = None
                \/ durable /\ step[At] = v,
                \A id \in StepIds \ {At} : step'[id] = step[id],
                durable => step'[At] \notin {None, "waiting"} /\ step'[At] \in {v, step[At]},
                durable => v = "timedOut" \/ step'[At] = v,
                v # None
         PROVE  ReplayInv'
    <2>1. /\ exec.on /\ exec.at \in 1..4 /\ At \in StepIds /\ UNCHANGED <<durable, handle>>
          /\ exec'.on = exec.on /\ exec'.at = exec.at + 1 /\ exec'.phase = "begin"
          /\ exec'.used = [exec.used EXCEPT ![At] = v]
          /\ first' = [first EXCEPT ![At] = IF @ = None THEN v ELSE @]
      BY <1>15 DEF GoesOn, loopRest, Use
    <2>2. /\ exec'.used[At] = v /\ \A id \in StepIds \ {At} : exec'.used[id] = exec.used[id]
          /\ first'[At] = (IF first[At] = None THEN v ELSE first[At])
          /\ \A id \in StepIds \ {At} : first'[id] = first[id]
      BY <1>T, <2>1 DEF Types, Exec
    <2>3. first[At] # None => durable /\ step[At] = v /\ (first[At] = "timedOut" \/ first[At] = v)
      BY <1>15, <1>I, <2>1 DEF OnDisk
    <2>4. StepOpen'
      BY <2>1 DEF StepOpen
    <2>5. OnDisk'
      BY <1>15, <1>I, <2>1, <2>2, <2>3 DEF OnDisk
    <2>6. OneWay'
      <3>1. SUFFICES ASSUME ~durable PROVE OneWay'
        BY <2>1 DEF OneWay
      <3>2. \A i \in exec'.at..4 : Script[i] \in StepIds \ {At} /\ i \in exec.at..4
        BY <2>1, ScriptFacts DEF At
      <3>3. \A i \in exec.at..4 : first[Script[i]] = None
        BY <1>I, <2>1, <3>1 DEF OneWay
      <3>4. \A i \in exec'.at..4 : first'[Script[i]] = None
        BY <2>2, <3>2, <3>3
      <3>5. handle[1].pc # "none"
        BY <1>T, <2>1 DEF RunBegun, None
      <3>6. QED
        BY <1>I, <2>1, <3>1, <3>4, <3>5 DEF OneWay
    <2>7. ReplayAgrees' /\ \A id \in StepIds : first'[id] = None => exec'.used[id] = None
      BY <1>15, <1>I, <2>1, <2>2, <2>3 DEF ReplayAgrees
    <2>8. QED
      BY <2>4, <2>5, <2>6, <2>7 DEF ReplayInv
  <1>16. ASSUME ReplayStep PROVE ReplayInv'
    <2>1. Result(At) /\ UNCHANGED step /\ GoesOn(step[At])
      BY <1>16, <1>T, ReplayEffect
    <2>2. step[At] \in Vals /\ durable /\ step[At] \notin {None, "waiting"}
      BY <2>1 DEF GoesOn, Result
    <2>3. QED
      BY <1>15, <2>1, <2>2
  <1>17. ASSUME RecordStep PROVE ReplayInv'
    <2>1. /\ exec.phase = "called" /\ GoesOn(exec.value)
          /\ step' = IF durable THEN [step EXCEPT ![At] = exec.value] ELSE step
      BY <1>17, <1>T, RecordEffect
    <2>2. exec.on /\ At \in StepIds /\ exec.value \in Vals
      BY <2>1 DEF GoesOn
    <2>3. first[At] = None /\ exec.value # None /\ exec.value # "waiting"
      BY <1>I, <2>1, <2>2 DEF StepOpen, Vals, Answers, None
    <2>4. /\ durable => step'[At] = exec.value
          /\ \A id \in StepIds \ {At} : step'[id] = step[id]
      BY <1>T, <2>1, <2>2 DEF Types
    <2>5. QED
      BY <1>15, <2>1, <2>2, <2>3, <2>4
  <1>18. ASSUME Answered PROVE ReplayInv'
    <2>1. exec.phase = "waiting" /\ step[At] # "waiting" /\ UNCHANGED step /\ GoesOn(step[At])
      BY <1>18, <1>T, AnsweredEffect
    <2>2. exec.on /\ At \in StepIds /\ step[At] \in Vals
      BY <2>1 DEF GoesOn
    <2>3. first[At] = None /\ step[At] # None
      BY <1>I, <2>1, <2>2 DEF StepOpen
    <2>4. QED
      BY <1>15, <2>1, <2>2, <2>3
  <1>19. ASSUME ResolveExpired PROVE ReplayInv'
    <2>1. /\ exec.phase = "expired" /\ At = "approval-0" /\ GoesOn("timedOut")
          /\ step' = [step EXCEPT !["approval-0"] = IF @ = "waiting" THEN "timedOut" ELSE @]
      BY <1>19, <1>T, <1>I, ExpiredEffect, ExpiredTyped
    <2>2. exec.on /\ At \in StepIds /\ "timedOut" \in Vals /\ "timedOut" # None
      BY <2>1 DEF GoesOn, None
    <2>3. first[At] = None /\ step[At] # None
      BY <1>I, <2>1, <2>2 DEF StepOpen
    <2>4. /\ step'[At] = (IF step[At] = "waiting" THEN "timedOut" ELSE step[At])
          /\ \A id \in StepIds \ {At} : step'[id] = step[id]
      BY <1>T, <2>1, <2>2 DEF Types
    <2>5. QED
      BY <1>15, <2>1, <2>2, <2>3, <2>4
  <1>20. ASSUME NEW v \in {"approved", "rejected"}, approve(v) PROVE ReplayInv'
    <2>1. /\ step["approval-0"] = "waiting" /\ step' = [step EXCEPT !["approval-0"] = v]
          /\ UNCHANGED <<durable, exec, first, handle>> /\ v \notin {None, "waiting"}
      BY <1>20 DEF approve, None
    <2>2. "approval-0" \in StepIds
      BY ScriptFacts
    <2>3. step'["approval-0"] = v /\ \A id \in StepIds \ {"approval-0"} : step'[id] = step[id]
      BY <1>T, <2>1, <2>2 DEF Types
    <2>4. OnDisk'
      BY <1>I, <2>1, <2>2, <2>3 DEF OnDisk
    <2>5. At' = At
      BY <2>1 DEF At
    <2>6. StepOpen'
      BY <1>I, <2>1, <2>3, <2>5 DEF StepOpen
    <2>7. QED
      BY <1>I, <2>1, <2>4, <2>6 DEF ReplayInv, OneWay, ReplayAgrees
  <1>21. ASSUME exec' = Idle, UNCHANGED <<durable, step, first>>,
                \A s \in Slots : /\ handle'[s].pc # "register" \/ handle'[s].pc = handle[s].pc
                                 /\ handle'[s].pc = "none" => handle[s].pc = "none"
         PROVE  ReplayInv'
    BY <1>21, <1>I, <1>S, RecordsTyped DEF ReplayInv, StepOpen, OnDisk, OneWay, ReplayAgrees
  <1>22. ASSUME durableExec PROVE ReplayInv'
    BY <1>21, <1>22, <1>T, FinishEffect DEF rest
  <1>23. ASSUME Crash PROVE ReplayInv'
    BY <1>21, <1>23, <1>T, CrashEffect
  <1>24. ASSUME UNCHANGED vars PROVE ReplayInv'
    BY <1>1, <1>24, <1>I DEF vars, OneWay
  <1>25. QED
    BY <1>2, <1>3, <1>4, <1>6, <1>7, <1>8, <1>9, <1>10, <1>11, <1>12, <1>13, <1>14, <1>16, <1>17, <1>18, <1>19,
       <1>20, <1>22, <1>23, <1>24
       DEF Next, Run, Stream, GetRunHandle, GetStreamHandle, HandleStep, LoopStep

(* A resumed run goes on with the results the run before the crash went on  *)
(* with (runStep, durableApprovalWait), whatever the number of crashes.     *)
THEOREM ReplayIsFaithful == Spec => []ReplayAgrees
  <1>1. ReplayInv => ReplayAgrees
    BY DEF ReplayInv
  <1>2. QED
    BY <1>1, HandlesSafe, ReplayInit, ReplayStepInv, PTL DEF Spec
-----------------------------------------------------------------------------
(* The tool's executions: only CallStep makes one, and a process goes       *)
(* through the script once.                                                 *)
LEMMA ToolStepInv == HandleInv /\ ToolInv /\ [Next]_vars => ToolInv'
  <1> SUFFICES ASSUME HandleInv, ToolInv, [Next]_vars PROVE ToolInv'
    OBVIOUS
  <1>T. Types /\ RunBegun /\ TargetDrives /\ GotRight /\ Types'
    BY TypesStep DEF HandleInv
  <1>F. /\ exec.at \in 1..5 /\ exec'.at \in 1..5 /\ toolRuns \in Nat /\ crashes \in Nat
        /\ disk.status \in Ends \cup {None, "running"} /\ disk'.status \in Ends \cup {None, "running"}
        /\ exec.phase # "begin" => exec.at <= 4
    BY <1>T, LocalRunsAssumption DEF Types, Exec, Disk
  <1>I. /\ toolRuns <= crashes + 1
        /\ ~Ended /\ ~(exec.on /\ ToolCalled) => toolRuns <= crashes
    BY DEF ToolInv
  (* Steps that call no tool, start no task anew and leave the end alone. *)
  <1>1. ASSUME UNCHANGED <<toolRuns, crashes>>, exec.on => exec'.on, Ended => Ended',
               exec.on /\ ToolCalled => ToolCalled'
        PROVE  ToolInv'
    BY <1>1, <1>I, <1>F DEF ToolInv
  <1>2. ASSUME NEW b \in BOOLEAN, Start(b) PROVE ToolInv'
    <2>1. ~exec.on /\ UNCHANGED <<toolRuns, crashes>>
      BY <1>2, <1>T, StartEffect DEF RunBegun, rest, None
    <2>2. ~Ended
      BY <1>2, <1>T, StartEffect DEF RunBegun, Ended, None
    <2>3. QED
      BY <1>F, <1>I, <2>1, <2>2 DEF ToolInv
  <1>3. ASSUME NEW s \in Slots, registerDriver(s) PROVE ToolInv'
    <2>1. /\ UNCHANGED <<toolRuns, crashes>> /\ (Ended => Ended')
          /\ exec' = exec \/ ~exec.on
      BY <1>3, <1>T, RegisterEffect DEF rest, Ended, None
    <2>2. exec' = exec => ToolCalled' = ToolCalled
      BY DEF ToolCalled
    <2>3. QED
      BY <1>1, <2>1, <2>2
  <1>4. ASSUME \/ \E s \in Slots : \/ GetRunHandle(s) \/ GetStreamHandle(s)
                                   \/ driveRun(s) \/ driveStream(s) \/ driveDurableRun(s) \/ driveDurableStream(s)
                                   \/ publishLifecycleEvent(s) \/ AttachedGet(s) \/ markDone(s) \/ closeDone(s)
                                   \/ DriverReturns(s)
               \/ \E v \in {"approved", "rejected"} : approve(v)
               \/ UNCHANGED vars
        PROVE  ToolInv'
    <2>1. UNCHANGED <<toolRuns, crashes, exec, disk>>
      BY <1>4, Zenon DEF GetRunHandle, GetStreamHandle, Reattach, driveRun, driveStream, driveDurableRun,
                  driveDurableStream, LoopReturns, TaskGet, publishLifecycleEvent, AttachedGet, markDone,
                  closeDone, DriverReturns, approve, vars
    <2>2. QED
      BY <1>1, <2>1 DEF ToolCalled, Ended
  <1>5. ASSUME NEW s \in Slots, Cancel(s) \/ ContextEnds(s) PROVE ToolInv'
    <2>1. /\ UNCHANGED <<toolRuns, crashes>> /\ disk'.status = disk.status
          /\ exec'.on = exec.on /\ exec'.at = exec.at /\ exec'.phase = exec.phase
      BY <1>5, <1>T, CancelEffect DEF rest
    <2>2. QED
      BY <1>1, <2>1 DEF ToolCalled, Ended
  <1>6. ASSUME RunTimeout \/ durableApprovalWait \/ ApprovalDeadline PROVE ToolInv'
    <2>1. /\ UNCHANGED <<toolRuns, crashes, disk>>
          /\ exec'.on = exec.on /\ exec'.at = exec.at
          /\ exec'.phase = exec.phase \/ exec.phase # "called"
      BY <1>6, <1>T, TimeoutEffect, WaitEffect, DeadlineEffect DEF loopRest
    <2>2. QED
      BY <1>1, <1>F, <2>1 DEF ToolCalled, Ended
  <1>7. ASSUME SkipStep \/ ReplayStep \/ RecordStep \/ Answered \/ ResolveExpired PROVE ToolInv'
    <2>1. /\ UNCHANGED <<toolRuns, crashes, disk>> /\ exec'.on = exec.on /\ exec'.at = exec.at + 1
      BY <1>7, <1>T, SkipEffect, ReplayEffect, RecordEffect, AnsweredEffect, ExpiredTyped DEF loopRest, GoesOn
    <2>2. QED
      BY <1>1, <1>F, <2>1 DEF ToolCalled, Ended
  <1>8. ASSUME CallStep PROVE ToolInv'
    <2>1. /\ exec.on /\ exec.phase = "begin" /\ UNCHANGED <<crashes, disk>>
          /\ exec'.on = exec.on /\ exec'.at = exec.at /\ exec'.phase = "called"
          /\ toolRuns' = IF exec.at = 3 THEN toolRuns + 1 ELSE toolRuns
      BY <1>8, <1>T, CallEffect DEF loopRest
    <2>2. CASE exec.at # 3
      BY <1>1, <1>F, <2>1, <2>2 DEF ToolCalled, Ended
    <2>3. CASE exec.at = 3
      <3>1. ~ToolCalled /\ ToolCalled' /\ exec'.on
        BY <2>1, <2>3 DEF ToolCalled
      <3>2. ~Ended
        BY <1>T, <2>1 DEF RunBegun, Ended
      <3>3. toolRuns <= crashes
        BY <1>I, <3>1, <3>2
      <3>4. QED
        BY <1>F, <2>1, <2>3, <3>1, <3>3 DEF ToolInv
    <2>4. QED
      BY <2>2, <2>3
  <1>9. ASSUME durableExec PROVE ToolInv'
    <2>1. UNCHANGED <<toolRuns, crashes>> /\ Ended'
      BY <1>9, <1>T, FinishEffect DEF rest, Ended, Ends
    <2>2. QED
      BY <1>I, <2>1 DEF ToolInv
  <1>10. ASSUME Crash PROVE ToolInv'
    <2>1. UNCHANGED toolRuns /\ crashes' = crashes + 1
      BY <1>10, <1>T, CrashEffect
    <2>2. QED
      BY <1>F, <1>I, <2>1 DEF ToolInv
  <1>11. QED
    BY <1>2, <1>3, <1>4, <1>5, <1>6, <1>7, <1>8, <1>9, <1>10 DEF Next, Run, Stream, HandleStep, LoopStep

(* The tool of a durable run is executed at most once more than the process *)
(* crashed: what a crash can repeat is the call whose result was not yet on *)
(* disk (runStep), and nothing else repeats it.                             *)
THEOREM ToolRunsBounded == Spec => [](toolRuns <= crashes + 1)
  <1>1. Init => ToolInv
    BY RecordsTyped DEF Init, ToolInv
  <1>2. ToolInv => toolRuns <= crashes + 1
    BY DEF ToolInv
  <1>3. QED
    BY <1>1, <1>2, HandlesSafe, ToolStepInv, PTL DEF Spec
=============================================================================
