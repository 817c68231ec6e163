---------------------------- MODULE ToolApproval ----------------------------
(***************************************************************************)
(* Human approvals of the local runtime without durability                 *)
(* (internal/runtime/local/agent_loop.go and runtime.go): a tool call, a   *)
(* delegation or a budget pause registers a token with a one-slot channel, *)
(* tells the approver (a CUSTOM event on a stream, a handler call, or      *)
(* both) and waits for an answer, its timer or the end of the run context. *)
(* Answers are Respond calls of the handler and Approve calls on the       *)
(* stream handle, which belongs to the runtime of the root agent. A        *)
(* delegation waits the way a tool does, so it is one here. Event          *)
(* payloads, tool arguments and messages are left out.                     *)
(***************************************************************************)
EXTENDS Naturals, Sequences, FiniteSets

CONSTANTS
    Requests,      \* approval requests, of parallel tool calls and of other runs
    BudgetKind,    \* those that are budget pauses; the others are tool calls
    Runtimes, Root,
    Owner,         \* Owner[c]: the runtime whose loop makes request c
    Answers,       \* Respond and Approve calls
    Handled,       \* requests of runs whose input has an ApprovalHandler
    Streamed,      \* requests of runs with an event channel
    RespondsOnce   \* handlers call Respond at most once per request

ASSUME ApprovalAssumption ==
    /\ BudgetKind \subseteq Requests
    /\ Root \in Runtimes /\ Owner \in [Requests -> Runtimes]
    /\ Handled \subseteq Requests /\ Streamed \subseteq Requests
    /\ RespondsOnce \in BOOLEAN

Statuses == {"approved", "rejected"}

VARIABLES
    wait,     \* wait[c]: control state of the goroutine that made request c
    pending,  \* pending[rt]: tokens in rt.pendingApprovals
    ch,       \* ch[c]: resultCh, capacity 1
    expired,  \* requests whose timer has fired
    runDone,  \* the run context is done
    outcome,  \* what the wait of c ended with
    ans       \* ans[a]: an answer call

waitVars == <<wait, outcome>>
approvalVars == <<wait, pending, ch, expired, runDone, outcome, ans>>

NoCall == [req |-> {}, status |-> "none", via |-> "none", pc |-> "idle"]
Of(a, c) == ans[a].req = {c}

ApprovalInit ==
    /\ wait = [c \in Requests |-> "idle"]
    /\ pending = [rt \in Runtimes |-> {}]
    /\ ch = [c \in Requests |-> <<>>]
    /\ expired = {}
    /\ runDone = FALSE
    /\ outcome = [c \in Requests |-> "none"]
    /\ ans = [a \in Answers |-> NoCall]
-----------------------------------------------------------------------------
(* The side that waits *)

(* The token is stored before the event goes out and the handler is called, *)
(* so nobody can know it earlier. Without an approver nobody waits.         *)
Ask(c) ==
    /\ wait[c] = "idle"
    /\ IF c \in Handled \cup Streamed
       THEN /\ pending' = [pending EXCEPT ![Owner[c]] = @ \cup {c}]
            /\ wait' = [wait EXCEPT ![c] = IF c \in Handled THEN "handler" ELSE "select"]
            /\ UNCHANGED outcome
       ELSE /\ outcome' = [outcome EXCEPT ![c] = "unavailable"]
            /\ wait' = [wait EXCEPT ![c] = "over"]
            /\ UNCHANGED pending
    /\ UNCHANGED <<ch, expired, runDone, ans>>

\* The handler is called inline: a Respond it makes itself has to return first.
HandlerReturns(c) ==
    /\ wait[c] = "handler"
    /\ \A a \in Answers : Of(a, c) /\ ans[a].via = "inline" => ans[a].pc = "ok"
    /\ wait' = [wait EXCEPT ![c] = "select"]
    /\ UNCHANGED <<pending, ch, expired, runDone, outcome, ans>>

Resolve(c, status) ==
    /\ wait[c] = "select"
    /\ outcome' = [outcome EXCEPT ![c] = status]
    /\ wait' = [wait EXCEPT ![c] = "leaving"]
    /\ UNCHANGED <<pending, expired, runDone, ans>>

\* Mutant of SelectAnswer: the status stays in the channel and counts as consent.
SelectAnswerAny(c) == ch[c] # <<>> /\ Resolve(c, "approved") /\ UNCHANGED ch

SelectAnswer(c) ==
    /\ ch[c] # <<>>
    /\ Resolve(c, Head(ch[c]))
    /\ ch' = [ch EXCEPT ![c] = Tail(@)]

SelectTimeout(c) == c \in expired /\ Resolve(c, "timedOut") /\ UNCHANGED ch

\* A budget wait takes the end of the context for a rejection.
SelectDone(c) ==
    /\ runDone
    /\ Resolve(c, IF c \in BudgetKind THEN "rejected" ELSE "cancelled")
    /\ UNCHANGED ch

\* Mutant of Leave: the token is not deleted.
LeaveKeepsToken(c) ==
    /\ wait[c] = "leaving"
    /\ wait' = [wait EXCEPT ![c] = "over"]
    /\ UNCHANGED <<pending, ch, expired, runDone, outcome, ans>>

\* The deferred Delete; an approved tool has run before it.
Leave(c) ==
    /\ wait[c] = "leaving"
    /\ wait' = [wait EXCEPT ![c] = "over"]
    /\ pending' = [pending EXCEPT ![Owner[c]] = @ \ {c}]
    /\ UNCHANGED <<ch, expired, runDone, outcome, ans>>

\* Tool calls have a timer, which runs from the registration on.
TimerFires(c) ==
    /\ c \notin BudgetKind /\ wait[c] \in {"handler", "select"} /\ c \notin expired
    /\ expired' = expired \cup {c}
    /\ UNCHANGED <<waitVars, pending, ch, runDone, ans>>

RunDone ==
    /\ ~runDone
    /\ runDone' = TRUE
    /\ UNCHANGED <<waitVars, pending, ch, expired, ans>>
-----------------------------------------------------------------------------
(* The side that answers *)

Call(a, c, s, v, p) ==
    /\ ans[a] = NoCall
    /\ ans' = [ans EXCEPT ![a] = [req |-> {c}, status |-> s, via |-> v, pc |-> p]]

\* The handler, or a goroutine it has left behind, calls Respond.
Respond(a, c, s) ==
    /\ c \in Handled /\ wait[c] # "idle"
    /\ RespondsOnce => \A b \in Answers : Of(b, c) => ans[b].via = "approve"
    /\ \E v \in {"inline", "later"} :
        /\ v = "inline" => wait[c] = "handler"
        /\ Call(a, c, s, v, "send")
    /\ UNCHANGED <<waitVars, pending, ch, expired, runDone>>

\* Mutant of ApproveCall: Load instead of LoadAndDelete.
ApproveLoads(a, c, s) ==
    /\ c \in Streamed /\ wait[c] # "idle"
    /\ Call(a, c, s, "approve", IF c \in pending[Root] THEN "send" ELSE "refused")
    /\ UNCHANGED <<waitVars, pending, ch, expired, runDone>>

\* StreamHandle.Approve: LoadAndDelete decides who may send.
ApproveCall(a, c, s) ==
    /\ c \in Streamed /\ wait[c] # "idle"
    /\ Call(a, c, s, "approve", IF c \in pending[Root] THEN "send" ELSE "refused")
    /\ pending' = [pending EXCEPT ![Root] = @ \ {c}]
    /\ UNCHANGED <<waitVars, ch, expired, runDone>>

\* Mutant of Send: the channel has no slot, a sender needs a receiver.
SendUnbuffered(a) ==
    \E c \in Requests :
        /\ ans[a].pc = "send" /\ Of(a, c)
        /\ wait[c] = "select" /\ ch[c] = <<>>
        /\ ch' = [ch EXCEPT ![c] = <<ans[a].status>>]
        /\ ans' = [ans EXCEPT ![a].pc = "ok"]
        /\ UNCHANGED <<waitVars, pending, expired, runDone>>

\* resultCh <- status. Respond of a budget request drops what does not fit.
Send(a) ==
    \E c \in Requests :
        /\ ans[a].pc = "send" /\ Of(a, c)
        /\ \/ ch[c] = <<>> /\ ch' = [ch EXCEPT ![c] = <<ans[a].status>>]
           \/ ch[c] # <<>> /\ c \in BudgetKind /\ ans[a].via # "approve" /\ UNCHANGED ch
        /\ ans' = [ans EXCEPT ![a].pc = "ok"]
        /\ UNCHANGED <<waitVars, pending, expired, runDone>>
-----------------------------------------------------------------------------
Select(c) == SelectAnswer(c) \/ SelectTimeout(c) \/ SelectDone(c)

ApprovalNext ==
    \/ \E c \in Requests :
         Ask(c) \/ HandlerReturns(c) \/ Select(c) \/ Leave(c) \/ TimerFires(c)
    \/ \E a \in Answers, c \in Requests, s \in Statuses : Respond(a, c, s) \/ ApproveCall(a, c, s)
    \/ \E a \in Answers : Send(a)
    \/ RunDone

(* Goroutines that can run do, timers fire and handlers return; nobody has  *)
(* to ask, to answer or to cancel.                                          *)
ApprovalFairness ==
    /\ \A c \in Requests :
         WF_approvalVars(HandlerReturns(c)) /\ WF_approvalVars(Select(c)) /\ WF_approvalVars(Leave(c))
         /\ WF_approvalVars(TimerFires(c))
    /\ \A a \in Answers : WF_approvalVars(Send(a))

ApprovalSpec == ApprovalInit /\ [][ApprovalNext]_approvalVars /\ ApprovalFairness
-----------------------------------------------------------------------------
Calls ==
    {NoCall} \cup [req : {{c} : c \in Requests}, status : Statuses,
                  via : {"inline", "later", "approve"}, pc : {"send", "ok", "refused"}]

ApprovalTypeOK ==
    /\ wait \in [Requests -> {"idle", "handler", "select", "leaving", "over"}]
    /\ pending \in [Runtimes -> SUBSET Requests]
    /\ ch \in [Requests -> {<<>>} \cup {<<s>> : s \in Statuses}]
    /\ expired \in SUBSET (Requests \ BudgetKind)
    /\ runDone \in BOOLEAN
    /\ outcome \in [Requests -> Statuses \cup {"none", "timedOut", "cancelled", "unavailable"}]
    /\ ans \in [Answers -> Calls]

Accepted(a, c) == Of(a, c) /\ ans[a].pc \in {"send", "ok"}

(* Requests that are answered one way: on a stream, or by a handler that    *)
(* calls Respond once. With both, the two may each take the one slot.       *)
OneWay == {c \in Requests : c \notin Handled \/ (RespondsOnce /\ c \notin Streamed)}

(* "Respond (and stream Approve) succeed once per approval token": however  *)
(* callers race, at most one call for a request returns without an error.   *)
OneAnswerSucceeds ==
    \A c \in OneWay : \A a, b \in Answers :
        Of(a, c) /\ Of(b, c) /\ ans[a].pc = "ok" /\ ans[b].pc = "ok" => a = b

(* The wait ends with the status of an answer that was given to it; an      *)
(* accepted answer is the outcome, unless the timer or the context was      *)
(* there too, in which case the answer may be lost although its call        *)
(* succeeded.                                                               *)
AcceptedAgrees ==
    /\ \A a \in Answers, c \in Requests :
         Of(a, c) /\ ans[a].pc = "ok" /\ wait[c] = "over" =>
             outcome[c] = ans[a].status \/ c \in expired \/ runDone
    /\ \A c \in Requests :
         outcome[c] \in Statuses =>
             \/ \E a \in Answers : Of(a, c) /\ ans[a].pc = "ok" /\ ans[a].status = outcome[c]
             \/ c \in BudgetKind /\ runDone

(* ErrApprovalAlreadyResolved means "already answered or timed out": no     *)
(* Approve is refused while its request is open and unanswered.             *)
RefusedMeansResolved ==
    \A a \in Answers, c \in Requests :
        Of(a, c) /\ ans[a].pc = "refused" =>
            wait[c] = "over" \/ \E b \in Answers : Accepted(b, c)

(* A request that is over leaves no token behind, and no caller is stuck on *)
(* its channel.                                                             *)
NothingLeftBehind ==
    \A c \in Requests : wait[c] = "over" =>
        /\ \A rt \in Runtimes : c \notin pending[rt]
        /\ c \in OneWay =>
             \A a \in Answers : Of(a, c) /\ ans[a].pc = "send" => ch[c] = <<>>

(* Every Respond and every Approve that was accepted returns: in the end    *)
(* no caller is on its way to the channel of a request.                     *)
AnswersReturn == <>[](\A a \in Answers : ans[a].pc # "send")

(* The parts of the inductive invariant behind OneAnswerSucceeds and        *)
(* NothingLeftBehind. A token is registered with its owner only, while its  *)
(* request waits, and nobody answers what was not asked.                    *)
TokenHome ==
    \A c \in Requests, rt \in Runtimes :
        c \in pending[rt] => rt = Owner[c] /\ wait[c] \in {"handler", "select", "leaving"}

AnswersAsked == \A a \in Answers, c \in Requests : Of(a, c) => wait[c] # "idle"

(* Approve is a call of a stream's consumer, Respond one of a handler. *)
ViaKnown ==
    \A a \in Answers, c \in Requests : Of(a, c) =>
        IF ans[a].via = "approve" THEN c \in Streamed ELSE c \in Handled

(* LoadAndDelete has taken the token of every accepted Approve, nobody      *)
(* else's, and the slot is free until the one accepted answer is sent.      *)
TokenTaken ==
    \A a \in Answers, c \in OneWay \ Handled : Accepted(a, c) => c \notin pending[Root]

SlotFree ==
    \A c \in OneWay :
        /\ \/ wait[c] = "idle"
           \/ c \in pending[Root] \ Handled
           \/ \A a \in Answers : ~Accepted(a, c)
           => ch[c] = <<>>
        /\ \A a \in Answers : Of(a, c) /\ ans[a].pc = "send" => ch[c] = <<>>

OneTaker ==
    \A c \in OneWay : \A a, b \in Answers : Accepted(a, c) /\ Accepted(b, c) => a = b

(* The inductive invariant. *)
TokenInv ==
    /\ ApprovalTypeOK /\ TokenHome /\ AnswersAsked /\ ViaKnown
    /\ TokenTaken /\ SlotFree /\ OneTaker
=============================================================================
