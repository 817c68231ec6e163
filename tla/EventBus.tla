------------------------------ MODULE EventBus ------------------------------
(***************************************************************************)
(* The process-local pub/sub of internal/eventbus/inmem.go together with   *)
(* the typed forwarder that the local runtime puts behind every            *)
(* subscription (runtime.go subscribeToAgentEvents). Publishers are the    *)
(* goroutines of the agent loops, subscribers the stream handles. Go's     *)
(* sync.RWMutex is modelled with its writer preference: a pending Lock     *)
(* stops new RLocks, and Unlock lets the readers that waited in first.     *)
(* The subscriber slice of a channel is a set: Publish may visit it in any *)
(* order.                                                                  *)
(***************************************************************************)
EXTENDS Naturals, Sequences, FiniteSets

CONSTANTS
    Publishers, Subscribers,
    Channels,
    PubChannel,     \* the channel each publisher publishes on
    SubChannel,     \* the channel each subscriber listens on
    Cancelable,     \* publishers whose context can end (the run context);
                    \* lifecycle events use context.Background()
    Readers,        \* subscribers whose consumer never stops reading
    BufCap,         \* capacity of a subscriber channel (64)
    OutCap,         \* capacity of the forwarder's channel (64)
    MaxMessages,    \* bound: events each publisher publishes
    closer,         \* the goroutine that calls Close
    NoWriter        \* no writer has called Lock

ASSUME BusAssumption ==
    /\ IsFiniteSet(Publishers) /\ IsFiniteSet(Subscribers)
    /\ PubChannel \in [Publishers -> Channels]
    /\ SubChannel \in [Subscribers -> Channels]
    /\ Cancelable \subseteq Publishers /\ Readers \subseteq Subscribers
    /\ BufCap \in Nat \ {0} /\ OutCap \in Nat \ {0} /\ MaxMessages \in [Publishers -> Nat]
    /\ closer \notin Subscribers /\ NoWriter \notin Subscribers \cup {closer}
    /\ Publishers \cap (Subscribers \cup {closer}) = {}

Writers == Subscribers \cup {closer}
Message == Publishers \X Nat
RWMutex == [writer : Writers \cup {NoWriter},
            readers : SUBSET Publishers, waiting : SUBSET Publishers]

VARIABLES
    rw,        \* sync.RWMutex: pending or holding writer, and the readers
    subs,      \* subs[c]: open subscriptions of channel c
    closed,    \* Inmem.closed
    pub,       \* publisher control state
    seq,       \* messages publisher p has started to publish
    targets,   \* subscribers the current Publish of p still has to reach
    pubDone,   \* publishers whose context is done
    sub,       \* subscriber control state
    cls,       \* control state of the goroutine that calls Close
    chan,      \* chan[s]: buffered payloads and whether the channel is closed
    fwd,       \* forwarder of s: the event in hand, its outCh, outCh closed
    got        \* got[s]: events the consumer of s has read

lockVars == <<rw, closed, subs>>
pubVars  == <<pub, seq, targets, pubDone>>
subVars  == <<sub, cls>>
dataVars == <<chan, fwd, got>>
busVars == <<rw, subs, closed, pub, seq, targets, pubDone, sub, cls, chan, fwd, got>>

BusInit ==
    /\ rw = [writer |-> NoWriter, readers |-> {}, waiting |-> {}]
    /\ subs = [c \in Channels |-> {}]
    /\ closed = FALSE
    /\ pub = [p \in Publishers |-> "idle"]
    /\ seq = [p \in Publishers |-> 0]
    /\ targets = [p \in Publishers |-> {}]
    /\ pubDone = {}
    /\ sub = [s \in Subscribers |-> "new"]
    /\ cls = "idle"
    /\ chan = [s \in Subscribers |-> [buf |-> <<>>, closed |-> FALSE]]
    /\ fwd = [s \in Subscribers |-> [hand |-> <<>>, out |-> <<>>, closed |-> FALSE]]
    /\ got = [s \in Subscribers |-> <<>>]
-----------------------------------------------------------------------------
(* sync.RWMutex. A critical section of a writer is one step: nobody else is *)
(* inside while it runs.                                                    *)

RLock(p) ==
    rw' = IF rw.writer = NoWriter
          THEN [rw EXCEPT !.readers = @ \cup {p}]
          ELSE [rw EXCEPT !.waiting = @ \cup {p}]

RUnlock(p) == rw' = [rw EXCEPT !.readers = @ \ {p}]

\* Lock announces the writer: new readers wait from now on.
LockAnnounce(w) ==
    /\ rw.writer = NoWriter
    /\ rw' = [rw EXCEPT !.writer = w]

\* It returns once the readers that were in have left.
Locked(w) == rw.writer = w /\ rw.readers = {}

Unlock == rw' = [writer |-> NoWriter, readers |-> rw.waiting, waiting |-> {}]
-----------------------------------------------------------------------------
(* Publish *)

PublishCall(p) ==
    /\ pub[p] = "idle" /\ seq[p] < MaxMessages[p]
    /\ RLock(p)
    /\ pub' = [pub EXCEPT ![p] = "rlock"]
    /\ seq' = [seq EXCEPT ![p] = @ + 1]
    /\ UNCHANGED <<subs, closed, targets, pubDone, subVars, dataVars>>

\* Mutant of PublishLocked: the lock covers only the snapshot of the list.
PublishSnapshotOnly(p) ==
    /\ pub[p] = "rlock" /\ p \in rw.readers
    /\ RUnlock(p)
    /\ IF closed
       THEN pub' = [pub EXCEPT ![p] = "idle"] /\ UNCHANGED targets
       ELSE /\ pub' = [pub EXCEPT ![p] = "send"]
            /\ targets' = [targets EXCEPT ![p] = subs[PubChannel[p]]]
    /\ UNCHANGED <<subs, closed, seq, pubDone, subVars, dataVars>>

\* ErrClosed on a closed bus, else the subscribers of the channel.
PublishLocked(p) ==
    /\ pub[p] = "rlock" /\ p \in rw.readers
    /\ IF closed
       THEN pub' = [pub EXCEPT ![p] = "idle"] /\ RUnlock(p) /\ UNCHANGED targets
       ELSE /\ pub' = [pub EXCEPT ![p] = "send"]
            /\ targets' = [targets EXCEPT ![p] = subs[PubChannel[p]]]
            /\ UNCHANGED rw
    /\ UNCHANGED <<subs, closed, seq, pubDone, subVars, dataVars>>

\* Mutant of PublishSend: an event that does not fit is dropped.
PublishSendDrops(p) ==
    /\ pub[p] = "send"
    /\ \E s \in targets[p] :
        /\ chan' = IF Len(chan[s].buf) < BufCap
                   THEN [chan EXCEPT ![s].buf = Append(@, <<p, seq[p]>>)] ELSE chan
        /\ targets' = [targets EXCEPT ![p] = @ \ {s}]
    /\ UNCHANGED <<lockVars, pub, seq, pubDone, subVars, fwd, got>>

\* case ch <- payload. A send on a closed channel panics.
PublishSend(p) ==
    /\ pub[p] = "send"
    /\ \E s \in targets[p] :
        IF chan[s].closed
        THEN /\ pub' = [pub EXCEPT ![p] = "panic"]
             /\ UNCHANGED <<targets, chan>>
        ELSE /\ Len(chan[s].buf) < BufCap
             /\ chan' = [chan EXCEPT ![s].buf = Append(@, <<p, seq[p]>>)]
             /\ targets' = [targets EXCEPT ![p] = @ \ {s}]
             /\ UNCHANGED pub
    /\ UNCHANGED <<lockVars, seq, pubDone, subVars, fwd, got>>

\* case <-ctx.Done(): the remaining subscribers do not get the event.
PublishCancelled(p) ==
    /\ pub[p] = "send" /\ targets[p] # {} /\ p \in pubDone
    /\ pub' = [pub EXCEPT ![p] = "idle"]
    /\ targets' = [targets EXCEPT ![p] = {}]
    /\ RUnlock(p)
    /\ UNCHANGED <<subs, closed, seq, pubDone, subVars, dataVars>>

PublishReturn(p) ==
    /\ pub[p] = "send" /\ targets[p] = {}
    /\ pub' = [pub EXCEPT ![p] = "idle"]
    /\ RUnlock(p)
    /\ UNCHANGED <<subs, closed, seq, targets, pubDone, subVars, dataVars>>

PublisherDone(p) ==
    /\ p \in Cancelable \ pubDone
    /\ pubDone' = pubDone \cup {p}
    /\ UNCHANGED <<lockVars, pub, seq, targets, subVars, dataVars>>
-----------------------------------------------------------------------------
(* Subscribe, the closeFn it returns, and Close *)

SubscribeCall(s) ==
    /\ sub[s] = "new"
    /\ LockAnnounce(s)
    /\ sub' = [sub EXCEPT ![s] = "subscribing"]
    /\ UNCHANGED <<subs, closed, pubVars, cls, dataVars>>

Subscribe(s) ==
    /\ sub[s] = "subscribing" /\ Locked(s)
    /\ IF closed
       THEN sub' = [sub EXCEPT ![s] = "refused"] /\ UNCHANGED subs
       ELSE /\ sub' = [sub EXCEPT ![s] = "open"]
            /\ subs' = [subs EXCEPT ![SubChannel[s]] = @ \cup {s}]
    /\ Unlock
    /\ UNCHANGED <<closed, pubVars, cls, dataVars>>

CloseFnCall(s) ==
    /\ sub[s] = "open"
    /\ LockAnnounce(s)
    /\ sub' = [sub EXCEPT ![s] = "closing"]
    /\ UNCHANGED <<subs, closed, pubVars, cls, dataVars>>

\* Mutant of CloseFn: the subscription is removed and its channel left open.
CloseFnLeavesOpen(s) ==
    /\ sub[s] = "closing" /\ Locked(s)
    /\ subs' = [subs EXCEPT ![SubChannel[s]] = @ \ {s}]
    /\ sub' = [sub EXCEPT ![s] = "done"]
    /\ Unlock
    /\ UNCHANGED <<closed, pubVars, cls, dataVars>>

\* After Close the channels are closed already and closeFn does nothing.
CloseFn(s) ==
    /\ sub[s] = "closing" /\ Locked(s)
    /\ IF closed \/ s \notin subs[SubChannel[s]]
       THEN UNCHANGED <<subs, chan>>
       ELSE /\ subs' = [subs EXCEPT ![SubChannel[s]] = @ \ {s}]
            /\ chan' = [chan EXCEPT ![s].closed = TRUE]
    /\ sub' = [sub EXCEPT ![s] = "done"]
    /\ Unlock
    /\ UNCHANGED <<closed, pubVars, cls, fwd, got>>

CloseCall ==
    /\ cls = "idle"
    /\ LockAnnounce(closer)
    /\ cls' = "closing"
    /\ UNCHANGED <<subs, closed, pubVars, sub, dataVars>>

Close ==
    /\ cls = "closing" /\ Locked(closer)
    /\ closed' = TRUE
    /\ chan' = [s \in Subscribers |->
                  IF s \in UNION {subs[c] : c \in Channels}
                  THEN [chan[s] EXCEPT !.closed = TRUE] ELSE chan[s]]
    /\ subs' = [c \in Channels |-> {}]
    /\ cls' = "done"
    /\ Unlock
    /\ UNCHANGED <<pubVars, sub, fwd, got>>
-----------------------------------------------------------------------------
(* The forwarder goroutine of subscribeToAgentEvents and the consumer *)

ForwardTake(s) ==
    /\ fwd[s].hand = <<>> /\ chan[s].buf # <<>>
    /\ fwd' = [fwd EXCEPT ![s].hand = <<Head(chan[s].buf)>>]
    /\ chan' = [chan EXCEPT ![s].buf = Tail(@)]
    /\ UNCHANGED <<lockVars, pubVars, subVars, got>>

ForwardSend(s) ==
    /\ fwd[s].hand # <<>> /\ Len(fwd[s].out) < OutCap
    /\ fwd' = [fwd EXCEPT ![s].out = @ \o fwd[s].hand, ![s].hand = <<>>]
    /\ UNCHANGED <<lockVars, pubVars, subVars, chan, got>>

\* range rawCh ends when the channel is closed and drained.
ForwardEnd(s) ==
    /\ chan[s].closed /\ chan[s].buf = <<>> /\ fwd[s].hand = <<>> /\ ~fwd[s].closed
    /\ fwd' = [fwd EXCEPT ![s].closed = TRUE]
    /\ UNCHANGED <<lockVars, pubVars, subVars, chan, got>>

ConsumerRead(s) ==
    /\ fwd[s].out # <<>>
    /\ got' = [got EXCEPT ![s] = Append(@, Head(fwd[s].out))]
    /\ fwd' = [fwd EXCEPT ![s].out = Tail(@)]
    /\ UNCHANGED <<lockVars, pubVars, subVars, chan>>
-----------------------------------------------------------------------------
PublishStep(p) ==
    PublishLocked(p) \/ PublishSend(p) \/ PublishCancelled(p) \/ PublishReturn(p)

BusNext ==
    \/ \E p \in Publishers : PublishCall(p) \/ PublishStep(p) \/ PublisherDone(p)
    \/ \E s \in Subscribers :
         \/ SubscribeCall(s) \/ Subscribe(s) \/ CloseFnCall(s) \/ CloseFn(s)
         \/ ForwardTake(s) \/ ForwardSend(s) \/ ForwardEnd(s) \/ ConsumerRead(s)
    \/ CloseCall \/ Close

(* Every goroutine inside a call keeps running, the forwarders run, and the *)
(* consumers in Readers read on. A new call is never forced.                *)
BusFairness ==
    /\ \A p \in Publishers : WF_busVars(PublishStep(p))
    /\ \A s \in Subscribers :
         /\ WF_busVars(Subscribe(s)) /\ WF_busVars(CloseFn(s))
         /\ WF_busVars(ForwardTake(s)) /\ WF_busVars(ForwardSend(s)) /\ WF_busVars(ForwardEnd(s))
    /\ \A s \in Readers : WF_busVars(ConsumerRead(s))
    /\ WF_busVars(Close)

BusSpec == BusInit /\ [][BusNext]_busVars /\ BusFairness
-----------------------------------------------------------------------------
BusTypeOK ==
    /\ rw \in RWMutex
    /\ subs \in [Channels -> SUBSET Subscribers]
    /\ closed \in BOOLEAN
    /\ pub \in [Publishers -> {"idle", "rlock", "send", "panic"}]
    /\ seq \in [Publishers -> Nat]
    /\ targets \in [Publishers -> SUBSET Subscribers]
    /\ pubDone \in SUBSET Publishers
    /\ sub \in [Subscribers -> {"new", "subscribing", "open", "closing", "done", "refused"}]
    /\ cls \in {"idle", "closing", "done"}
    /\ chan \in [Subscribers -> [buf : Seq(Message), closed : BOOLEAN]]
    /\ fwd \in [Subscribers -> [hand : Seq(Message), out : Seq(Message), closed : BOOLEAN]]
    /\ got \in [Subscribers -> Seq(Message)]
    /\ \A s \in Subscribers :
         Len(chan[s].buf) <= BufCap /\ Len(fwd[s].hand) <= 1 /\ Len(fwd[s].out) <= OutCap

(* A Publish never sends on a channel that an unsubscribe or Close has      *)
(* closed: the panic the RWMutex is there to rule out.                      *)
NoSendOnClosed == \A p \in Publishers : pub[p] # "panic"

(* Everything that was sent to s, in the order of the sends. *)
Stream(s) == got[s] \o fwd[s].out \o fwd[s].hand \o chan[s].buf

(* However many publishers, subscriptions and closes interleave, a          *)
(* subscriber sees the events of a publisher in the order they were         *)
(* published, none of them twice; and from the first one it sees, none is   *)
(* missing, up to the latest one while its subscription is open, unless the *)
(* publisher's context has ended. A consumer that finds its stream ended    *)
(* has been given everything, and its subscription is out of the bus.       *)
DeliveredInOrder ==
    \A s \in Subscribers :
        LET st == Stream(s)
            seen == {st[i] : i \in 1..Len(st)}
        IN  /\ \A i, j \in 1..Len(st) : i < j /\ st[i][1] = st[j][1] => st[i][2] < st[j][2]
            /\ \A e, f \in seen :
                 e[1] = f[1] /\ e[1] \notin pubDone =>
                    \A k \in e[2]..f[2] : <<e[1], k>> \in seen
            /\ \A e \in seen :
                 s \in subs[SubChannel[s]] /\ e[1] \notin pubDone /\ pub[e[1]] = "idle" =>
                    <<e[1], seq[e[1]]>> \in seen
            /\ fwd[s].closed =>
                 chan[s].buf = <<>> /\ fwd[s].hand = <<>> /\ s \notin subs[SubChannel[s]]

(* As long as consumers read, every unsubscribe gets the lock, which takes  *)
(* every Publish that holds or awaits it to return, and ends its stream (a  *)
(* subscription is closed by its consumer once).                            *)
CloseEndsStream ==
    <>[](\A s \in Subscribers :
           sub[s] # "closing" /\ (sub[s] = "done" => fwd[s].closed))
-----------------------------------------------------------------------------
(* The inductive invariant behind NoSendOnClosed. *)

(* The part of the type invariant the argument needs. *)
LockTypes ==
    /\ rw \in RWMutex
    /\ subs \in [Channels -> SUBSET Subscribers]
    /\ pub \in [Publishers -> {"idle", "rlock", "send", "panic"}]
    /\ targets \in [Publishers -> SUBSET Subscribers]
    /\ chan \in [Subscribers -> [buf : Seq(Message), closed : BOOLEAN]]
    /\ seq \in [Publishers -> Nat]
    /\ sub \in [Subscribers -> {"new", "subscribing", "open", "closing", "done", "refused"}]

(* A Publish holds the read lock during its whole send loop. *)
SendHoldsRLock == \A p \in Publishers : pub[p] = "send" => p \in rw.readers

(* What it still has to reach is in the list, not only in a snapshot. *)
TargetsSubscribed ==
    \A p \in Publishers : pub[p] = "send" => targets[p] \subseteq subs[PubChannel[p]]

(* A channel in the list is open, and listed under its own name only. *)
ListedOpen ==
    \A c \in Channels : \A s \in subs[c] : c = SubChannel[s] /\ ~chan[s].closed

(* A channel is not closed before its subscription is registered, which is  *)
(* when it enters the list.                                                 *)
FreshOpen ==
    \A s \in Subscribers : sub[s] \in {"new", "subscribing"} =>
        ~chan[s].closed /\ \A c \in Channels : s \notin subs[c]

LockInv ==
    /\ LockTypes /\ NoSendOnClosed
    /\ SendHoldsRLock /\ TargetsSubscribed /\ ListedOpen /\ FreshOpen
=============================================================================
