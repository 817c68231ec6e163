---------------------------- MODULE RestateRuns -----------------------------
(***************************************************************************)
(* A run seen from outside in the Restate runtime (internal/runtime/       *)
(* restate: runtime.go, ingress.go, run_handle.go, stream_handle.go,       *)
(* event_log.go, server.go): it is sent through the ingress with retries,  *)
(* the event log is a virtual object that clients poll, a handle attaches  *)
(* to the invocation once, a process that lost its handles looks the run   *)
(* up again and resumes the stream at the offset it saved. The handler is  *)
(* reduced to what the outside sees of it (RestateLoop has the rest).      *)
(***************************************************************************)
EXTENDS Naturals, Sequences, FiniteSets

CONSTANTS
    Holders,       \* handles the processes of the application may hold
    Starter,       \* the one that sends the run
    Attempts,      \* Ingress.HTTPMaxAttempts
    DrainPeeks,    \* pubsubDrainEmptyPeeks
    MaxLog,        \* bound: messages published
    MaxFaults      \* bound: calls that fail, processes that die, callers that leave

ASSUME RestateRunsAssumption ==
    /\ Starter \in Holders
    /\ Attempts \in Nat \ {0} /\ DrainPeeks \in Nat \ {0}
    /\ MaxLog \in Nat /\ MaxFaults \in Nat

VARIABLES
    boot,      \* the endpoint of the process and its registration
    mode,      \* "run" (a driver asks for approvals), "stream" (a reader of the
               \* SDK), or "poll" (a stream that only a long-polling client reads)
    inv,       \* the invocation
    stash,     \* rt.tools.stash has the run
    hs,        \* what the handler waits for
    cancelReq, \* the cancel signal is there; it fails one operation
    log, head, \* AgentEventLog: messages by offset from 0, and the first kept
    sends,     \* tokens sent to the log and not there yet
    subs,      \* offsets of the registered subscriptions
    poller,    \* a client of the log that long-polls (PullRequest.Wait)
    h,         \* h[p]: a run handle
    rd,        \* the reader of the stream: one at a time
    got, saved,\* what the application has seen, and the offset it kept
    driver,    \* runApprovalLoop: [on, off, prompts]
    faults

server == <<inv, hs, cancelReq, log, head, sends, subs>>
client == <<boot, mode, stash, h, rd, got, saved, driver>>
vars == <<server, client, poller, faults>>

Tail0 == Len(log)                     \* meta.Tail
Kind(o) == log[o + 1]
Offsets == 0..(Len(log) - 1)
Fault == faults < MaxFaults /\ faults' = faults + 1
NoFault == UNCHANGED faults

NoHandle == [st |-> "none", tries |-> 0, once |-> "fresh", flag |-> FALSE,
             broken |-> FALSE, out |-> "none"]
NoReader == [st |-> "off", p |-> "none", from |-> 0, off |-> 0, done |-> FALSE,
             empties |-> 0, broken |-> FALSE, left |-> FALSE]
(* What is kept of a reader whose channel is closed.                        *)
Closed == [NoReader EXCEPT !.st = "closed", !.p = rd.p, !.from = rd.from, !.broken = rd.broken, !.left = rd.left]

Init ==
    /\ boot = [st |-> "new", tries |-> 0] /\ mode \in {"run", "stream", "poll"} /\ inv = "none" /\ stash = FALSE
    /\ hs = "free" /\ cancelReq = FALSE
    /\ log = <<>> /\ head = 0 /\ sends = 0 /\ subs = {} /\ poller = [st |-> "idle", off |-> 0]
    /\ h = [p \in Holders |-> NoHandle] /\ rd = NoReader /\ got = {} /\ saved = 0
    /\ driver = [on |-> FALSE, off |-> 0, prompts |-> [o \in 0..(MaxLog - 1) |-> 0]]
    /\ faults = 0
-----------------------------------------------------------------------------
(* NewRestateRuntime: listen, then register, three attempts in all. A       *)
(* runtime that could not register is closed and not handed out.            *)
startEndpoint ==
    /\ boot.st = "new" /\ boot' = [boot EXCEPT !.st = "listening"]
    /\ UNCHANGED <<server, poller, mode, stash, h, rd, got, saved, driver, faults>>

registerDeployment ==
    /\ boot.st = "listening"
    /\ \/ boot' = [st |-> "ready", tries |-> 0] /\ NoFault
       \/ boot' = [st |-> IF boot.tries = 2 THEN "failed" ELSE "listening", tries |-> boot.tries + 1] /\ Fault
    /\ UNCHANGED <<server, poller, mode, stash, h, rd, got, saved, driver>>

-----------------------------------------------------------------------------
(* sendAgentLoop: the run is staged, then sent with the run id as the key   *)
(* of idempotency: of several attempts that get through one invocation      *)
(* comes. When no answer came back the staged run is dropped, and the       *)
(* caller has an error although the run may be at work.                     *)
sendAgentLoop(p) ==
    /\ boot.st = "ready" /\ inv = "none"
    /\ p = Starter /\ h[p].st = "none"
    /\ stash' = TRUE
    /\ h' = [h EXCEPT ![p].st = "sending"]
    /\ UNCHANGED <<server, poller, boot, mode, rd, got, saved, driver, faults>>

Accepted == inv' = (IF inv = "none" THEN "running" ELSE inv)

withIngressRetry(p) ==
    /\ h[p].st = "sending"
    /\ \/ /\ Accepted /\ NoFault /\ UNCHANGED stash          \* Send.Id()
          /\ h' = [h EXCEPT ![p].st = "open", ![p].tries = 0]
          /\ driver' = [driver EXCEPT !.on = (mode = "run")]
       \/ /\ (UNCHANGED inv \/ Accepted) /\ Fault            \* the request or the answer is lost
          /\ h' = [h EXCEPT ![p].st = IF @ = "sending" /\ h[p].tries + 1 = Attempts THEN "error" ELSE @,
                            ![p].tries = @ + 1]
          /\ stash' = (stash /\ h[p].tries + 1 # Attempts)
          /\ UNCHANGED driver
    /\ UNCHANGED <<hs, cancelReq, log, head, sends, subs, poller, boot, mode, rd, got, saved>>

(* GetRunHandle, GetStreamHandle: the run is probed and, while it is at     *)
(* work, looked up; it may be over when the handle is made. No approval     *)
(* driver goes with the handle.                                             *)
resolveRunningInvocation(p) ==
    /\ h[p].st = "none" /\ inv = "running"
    /\ h' = [h EXCEPT ![p].st = "probed"]
    /\ UNCHANGED <<server, poller, boot, mode, stash, rd, got, saved, driver, faults>>

lookupInvocationID(p) ==
    /\ h[p].st = "probed"
    /\ \/ h' = [h EXCEPT ![p].st = "open"] /\ NoFault
       \/ h' = [h EXCEPT ![p].st = "none"] /\ Fault
    /\ UNCHANGED <<server, poller, boot, mode, stash, rd, got, saved, driver>>

(* Mutant of awaitCompletion: Attach is a probe.                            *)
awaitProbe(p) ==
    /\ h[p].st = "open" /\ inv # "none"
    /\ h' = [h EXCEPT ![p].st = "done", ![p].out = IF inv = "failed" THEN "failed" ELSE "completed"]
    /\ UNCHANGED <<server, poller, boot, mode, stash, rd, got, saved, driver, faults>>

(* One Attach without retry: its failure closes Done with an error.         *)
awaitCompletion(p) ==
    /\ h[p].st = "open"
    /\ \/ /\ inv \in {"completed", "failed"} /\ ~h[p].broken
          /\ h' = [h EXCEPT ![p].st = "done",
                            ![p].out = IF inv = "failed" /\ h[p].flag THEN "stopped" ELSE inv]
       \/ /\ h[p].broken
          /\ h' = [h EXCEPT ![p].st = "done", ![p].out = "stopped"]
    /\ UNCHANGED <<server, poller, boot, mode, stash, rd, got, saved, driver, faults>>

(* The connection of an Attach ends before the run does.                    *)
AttachBreaks(p) ==
    /\ h[p].st = "open" /\ ~h[p].broken /\ Fault
    /\ h' = [h EXCEPT ![p].broken = TRUE]
    /\ UNCHANGED <<server, poller, boot, mode, stash, rd, got, saved, driver>>

(* Cancel: the call is made inside a sync.Once, which a failure uses up     *)
(* too; the flag is set after the call, maybe after the run has ended.      *)
Cancel(p) ==
    /\ h[p].st \in {"open", "done"} /\ h[p].once = "fresh"
    /\ h' = [h EXCEPT ![p].once = "calling"]
    /\ cancelReq' = TRUE /\ Fault
    /\ UNCHANGED <<inv, hs, log, head, sends, subs, poller, boot, mode, stash, rd, got, saved, driver>>

cancelInvocation(p) ==
    /\ h[p].once = "calling"
    /\ \/ h' = [h EXCEPT ![p].once = "used", ![p].flag = TRUE] /\ NoFault
       \/ h' = [h EXCEPT ![p].once = "used"] /\ Fault
    /\ UNCHANGED <<server, poller, boot, mode, stash, rd, got, saved, driver>>

(* The process of the application dies with its handles; it kept what it    *)
(* saved, and the run goes on.                                              *)
Crash ==
    /\ Fault /\ \E p \in Holders : h[p].st \notin {"none", "lost"}
    /\ h' = [p \in Holders |-> IF h[p].st = "none" THEN h[p]
                               ELSE [NoHandle EXCEPT !.st = IF h[p].st \in {"open", "done", "lost"} THEN "lost" ELSE "error"]]
    /\ stash' = FALSE /\ rd' = NoReader /\ driver' = [driver EXCEPT !.on = FALSE]
    /\ UNCHANGED <<server, poller, boot, mode, got, saved>>
-----------------------------------------------------------------------------
(* AgentEventLog. Publish appends and answers whoever is registered.        *)
Publish(kind) ==
    /\ log' = Append(log, kind)
    /\ subs' = {}
    /\ poller' = IF poller.st = "registered" /\ poller.off \in subs
                 THEN [st |-> "idle", off |-> Len(log) + 1] ELSE poller

(* Pull with Wait: what is there, else a subscription by a call of its own. *)
PullWait ==
    /\ mode = "poll" /\ poller.st = "idle" /\ inv # "none" /\ poller.off >= head
    /\ poller' = IF poller.off < Tail0 THEN [poller EXCEPT !.off = Tail0]
                 ELSE [poller EXCEPT !.st = "asked"]
    /\ UNCHANGED <<server, client, faults>>

(* Subscribe looks at the log again: it may have grown, or been cleared,    *)
(* since Pull read it.                                                      *)
Subscribe ==
    /\ poller.st = "asked"
    /\ \/ /\ poller.off < head /\ poller' = [poller EXCEPT !.st = "rejected"] /\ UNCHANGED subs
       \/ /\ poller.off >= head /\ poller.off < Tail0
          /\ poller' = [st |-> "idle", off |-> Tail0] /\ UNCHANGED subs
       \/ /\ poller.off >= Tail0
          /\ subs' = subs \cup {poller.off} /\ poller' = [poller EXCEPT !.st = "registered"]
    /\ UNCHANGED <<inv, hs, cancelReq, log, head, sends, client, faults>>

PullTimeout ==
    /\ poller.st = "registered" /\ poller' = [poller EXCEPT !.st = "idle"]
    /\ UNCHANGED <<server, client, faults>>

(* Clear, once, EventLog.TTL after a run that succeeded.                    *)
Clear ==
    /\ inv = "completed" /\ head = 0 /\ log # <<>>
    /\ head' = Tail0 /\ subs' = {}
    /\ poller' = IF poller.st = "registered" /\ poller.off < Tail0
                 THEN [poller EXCEPT !.st = "rejected"] ELSE poller
    /\ UNCHANGED <<inv, hs, cancelReq, log, sends, client, faults>>
-----------------------------------------------------------------------------
(* The handler. An event is a call of Publish that the handler waits for    *)
(* (publishAgentEventJSON); an approval request is one, and then a wait for *)
(* its awakeable or the timer. Tokens are sent from inside a step, by       *)
(* emitEventIngress, and nobody waits for them. To a reader a request is an *)
(* event like others: it is told apart in a run with a driver.              *)
HandlerEmits(kind) ==
    /\ inv = "running" /\ hs = "free" /\ Len(log) + sends < MaxLog
    /\ hs' = kind
    /\ UNCHANGED <<inv, cancelReq, log, head, sends, subs, client, poller, faults>>

publishAgentEventJSON ==
    /\ hs \in {"event", "ask"}
    /\ \/ /\ Publish(hs) /\ hs' = (IF hs = "ask" THEN "waiting" ELSE "free")
          /\ UNCHANGED cancelReq
       \/ cancelReq /\ cancelReq' = FALSE /\ hs' = "free" /\ UNCHANGED <<log, subs, poller>>
    /\ UNCHANGED <<inv, head, sends, client, faults>>

(* An answer through approve, by whoever holds the token, or the timer.     *)
AwakeableOrTimer ==
    /\ hs = "waiting" /\ hs' = "free"
    /\ UNCHANGED <<inv, cancelReq, log, head, sends, subs, client, poller, faults>>

emitEventIngress ==
    /\ mode = "stream" /\ inv = "running" /\ hs = "free" /\ Len(log) + sends < MaxLog
    /\ sends' = sends + 1
    /\ UNCHANGED <<inv, hs, cancelReq, log, head, subs, client, poller, faults>>

TokenArrives ==
    /\ sends > 0 /\ sends' = sends - 1 /\ Publish("token")
    /\ UNCHANGED <<inv, hs, cancelReq, head, client, faults>>

(* Mutant of HandlerEnds: events are sent, not awaited.                     *)
EndsUnawaited ==
    /\ inv = "running" /\ hs # "waiting"
    /\ inv' \in {"completed", "failed"}
    /\ stash' = (stash /\ inv' = "failed")
    /\ UNCHANGED <<hs, cancelReq, log, head, sends, subs, poller, boot, mode, h, rd, got, saved, driver, faults>>

HandlerEnds ==
    /\ inv = "running" /\ hs = "free"
    /\ inv' \in {"completed", "failed"}
    /\ stash' = (stash /\ inv' = "failed")
    /\ UNCHANGED <<hs, cancelReq, log, head, sends, subs, poller, boot, mode, h, rd, got, saved, driver, faults>>
-----------------------------------------------------------------------------
(* What the handle knows, else what the server answers.                     *)
Status(p) == IF h[p].flag THEN "cancelled" ELSE inv

(* Events: not for a run that is over; the offset is 0 or one that came     *)
(* with an event.                                                           *)
Events(p) ==
    /\ mode = "stream" /\ h[p].st \in {"open", "done"} /\ Status(p) = "running"
    /\ rd.st \in {"off", "closed"}
    /\ \E from \in {0, saved} : rd' = [NoReader EXCEPT !.st = "top", !.p = p, !.from = from, !.off = from]
    /\ UNCHANGED <<server, poller, boot, mode, stash, h, got, saved, driver, faults>>

(* The caller's context ends. A reader that does not know yet that the run  *)
(* is over unsubscribes, without a terminal event.                          *)
CallerLeaves ==
    /\ rd.st \in {"top", "pull"} /\ ~rd.left /\ Fault
    /\ rd' = [rd EXCEPT !.left = TRUE]
    /\ UNCHANGED <<server, poller, boot, mode, stash, h, got, saved, driver>>

Leaving == rd.left /\ ~rd.done

(* The top of runPullLoop: is the run over, as far as this handle knows?    *)
(* The goroutine that says so ends with the caller's context.               *)
channelReady ==
    /\ rd.st = "top"
    /\ \/ Leaving /\ rd' = Closed
       \/ /\ Leaving => h[rd.p].st = "done"
          /\ rd' = [rd EXCEPT !.st = "pull", !.done = @ \/ h[rd.p].st = "done"]
    /\ UNCHANGED <<server, poller, boot, mode, stash, h, got, saved, driver, faults>>

(* A batch: its messages go out, each with an offset to resume from. The    *)
(* offsets are counted from NextOffset, the end of the batch. When the      *)
(* caller has left, a run that goes on is left at some message; the last    *)
(* events of one that is over are dropped where the buffer is full.         *)
OffsetOf(i) == Tail0 + (i - rd.off)
Batch == rd.off..(Tail0 - 1)

Sent(S) ==
    /\ got' = got \cup S
    /\ \/ S = {} /\ UNCHANGED saved
       \/ \E i \in S : saved' = OffsetOf(i) /\ \A o \in S : o <= i

runPullLoop ==
    /\ rd.st = "pull" /\ rd.off >= head /\ rd.off < Tail0
    /\ \/ /\ rd' = [rd EXCEPT !.st = "top", !.off = Tail0, !.empties = 0]
          /\ \E S \in SUBSET Batch : (S # Batch => rd.left /\ rd.done) /\ Sent(S)
       \/ /\ Leaving /\ rd' = Closed
          /\ \E i \in Batch : Sent(rd.off..(i - 1))
    /\ UNCHANGED <<server, poller, boot, mode, stash, h, driver, faults>>

(* Mutant of EmptyPeek: the looks are not counted.                          *)
EmptyPeekResets ==
    /\ rd.st = "pull" /\ rd.off >= Tail0
    /\ rd' = [rd EXCEPT !.st = "top", !.empties = 0]
    /\ UNCHANGED <<server, poller, boot, mode, stash, h, got, saved, driver, faults>>

(* Nothing there: another look later, or, once the run is over, the end     *)
(* after DrainPeeks looks, or after this one when the caller has left.      *)
EmptyPeek ==
    /\ rd.st = "pull" /\ rd.off >= Tail0
    /\ \/ Leaving /\ rd' = Closed
       \/ /\ Leaving => h[rd.p].st = "done"
          /\ rd' = [rd EXCEPT !.empties = IF rd.done THEN @ + 1 ELSE @,
                               !.st = IF rd.done /\ (rd.left \/ rd.empties + 1 >= DrainPeeks) THEN "ending"
                                      ELSE "top"]
    /\ UNCHANGED <<server, poller, boot, mode, stash, h, got, saved, driver, faults>>

(* The log was cleared, or the call failed: no more events, the end only.   *)
(* The call of a caller that leaves fails with its context.                 *)
PullError ==
    /\ rd.st = "pull"
    /\ \/ Leaving /\ rd' = Closed /\ NoFault
       \/ /\ ((rd.off < head /\ NoFault) \/ Fault)
          /\ ~Leaving /\ rd' = [rd EXCEPT !.st = "ending", !.broken = TRUE]
    /\ UNCHANGED <<server, poller, boot, mode, stash, h, got, saved, driver>>

(* deliverEvents: Get blocks until Done, whatever the caller's context, then *)
(* the terminal event, which the application has to make room for.           *)
deliverEvents ==
    /\ rd.st = "ending" /\ h[rd.p].st = "done"
    /\ rd' = Closed
    /\ UNCHANGED <<server, poller, boot, mode, stash, h, got, saved, driver, faults>>
-----------------------------------------------------------------------------

PromptBatch(off) ==
    [driver EXCEPT !.off = Tail0,
                   !.prompts = [o \in DOMAIN @ |-> IF o \in off..(Tail0 - 1) /\ Kind(o) = "ask" THEN @[o] + 1 ELSE @[o]]]

(* runApprovalLoop of a Run: it polls from offset 0 until Done, prompts for *)
(* every request, and passes the answers on.                                *)
runApprovalLoop ==
    /\ driver.on
    /\ \/ /\ \E p \in Holders : h[p].st = "done"
          /\ driver' = [driver EXCEPT !.on = FALSE] /\ NoFault
       \/ driver.off < head /\ driver' = [driver EXCEPT !.on = FALSE] /\ NoFault
       \/ driver.off >= head /\ driver.off < Tail0 /\ driver' = PromptBatch(driver.off) /\ NoFault
    /\ UNCHANGED <<server, poller, boot, mode, stash, h, rd, got, saved>>
-----------------------------------------------------------------------------
ServerStep ==
    \/ HandlerEmits(IF mode = "run" THEN "ask" ELSE "event")
    \/ publishAgentEventJSON \/ AwakeableOrTimer \/ emitEventIngress \/ TokenArrives
    \/ Clear \/ Subscribe

ReaderStep == channelReady \/ runPullLoop \/ EmptyPeek \/ PullError \/ deliverEvents

Next ==
    \/ startEndpoint \/ registerDeployment \/ Crash \/ CallerLeaves
    \/ ServerStep \/ HandlerEnds \/ PullWait \/ PullTimeout \/ ReaderStep \/ runApprovalLoop
    \/ \E p \in Holders :
          \/ sendAgentLoop(p) \/ withIngressRetry(p) \/ resolveRunningInvocation(p) \/ lookupInvocationID(p)
          \/ awaitCompletion(p) \/ AttachBreaks(p) \/ Cancel(p) \/ cancelInvocation(p) \/ Events(p)

(* The server ends the run (RestateLoop) and answers; goroutines go on.     *)
Fairness ==
    /\ WF_vars(publishAgentEventJSON) /\ WF_vars(AwakeableOrTimer) /\ WF_vars(HandlerEnds)
    /\ WF_vars(ReaderStep)
    /\ \A p \in Holders : WF_vars(awaitCompletion(p))

Spec == Init /\ [][Next]_vars /\ Fairness
-----------------------------------------------------------------------------
(* What RunContract says of handles. A handle whose Attach broke, or that   *)
(* was told that Cancel went through, may report that it was stopped.       *)
Contract == INSTANCE RunContract WITH
    run    <- CASE inv = "none" -> "none" [] inv = "running" -> "open" [] OTHER -> inv,
    report <- [p \in Holders |-> CASE h[p].st = "open" -> "waiting" [] h[p].st = "done" -> h[p].out
                                   [] h[p].st = "lost" -> "lost" [] OTHER -> "none"],
    ended  <- {p \in Holders : h[p].flag \/ h[p].broken}

(* No handle reports an end the run did not have, and no two differ.        *)
ImplementsContract == Contract!Spec

(* A reader whose caller stayed and that met no failure has been given, when *)
(* it ends, every event the handler published from its offset on (tokens are *)
(* not awaited: publishAgentEventJSON, runPullLoop).                         *)
ReaderComplete ==
    rd.st = "closed" /\ ~rd.left /\ ~rd.broken /\ ~h[rd.p].broken =>
       \A o \in Offsets : o >= rd.from /\ Kind(o) # "token" => o \in got

(* A reader's channel is closed in the end, also after a failed pull.       *)
ReadersEnd == rd.st = "top" ~> rd.st \in {"closed", "off"}

=============================================================================
