-------------------------- MODULE RedisConversation --------------------------
(***************************************************************************)
(* The Redis conversation store (pkg/conversation/redis/conversation.go).  *)
(*                                                                         *)
(* Agent and workers share one list.  AddMessage is RPUSH and LLEN in a    *)
(* pipeline, which is not a transaction, then LTRIM and EXPIRE; a request  *)
(* of another process may come between any two, and each may fail with     *)
(* what was done before left in place.  ListMessages computes the indices  *)
(* of LRANGE from an earlier LLEN.  Messages are numbered as pushed.       *)
(***************************************************************************)
EXTENDS Naturals, Sequences

CONSTANTS
  Adders,     \* concurrent callers of AddMessage
  MaxSize,    \* the window
  ReadLimit,  \* the limit the loop lists with
  MaxAdds,    \* bound: messages pushed
  MaxDrops    \* bound: Clear calls and expiries

ASSUME HistoryAssumption == MaxSize \in Nat \ {0} /\ ReadLimit \in Nat \ {0}

VARIABLES
  list,        \* the Redis list
  ttl,         \* whether its key has a time to live
  add,         \* Adders -> [step, msg, n]: n is the answer of LLEN
  reader,      \* [step, n, seen, out]: seen is history, the newest acknowledged message at the start
  pushed,      \* history: messages pushed
  first,       \* history: the first message pushed since the list was last dropped
  newest,      \* history: the newest acknowledged message, 0 if it was dropped
  crossed,     \* history: two AddMessage calls were in progress at once
  broken,      \* history: an AddMessage returned an error after its push
  drops        \* history: Clear calls and expiries

historyVars == <<list, ttl, add, reader, pushed, first, newest, crossed, broken, drops>>

Resting == [step |-> "idle", msg |-> 0, n |-> 0]
NotReading == [step |-> "idle", n |-> 0, seen |-> 0, out |-> <<>>]

HistoryInit ==
  /\ list = <<>> /\ ttl = FALSE
  /\ add = [a \in Adders |-> Resting] /\ reader = NotReading
  /\ pushed = 0 /\ first = 1 /\ newest = 0
  /\ crossed = FALSE /\ broken = FALSE /\ drops = 0

Adding(a) == add[a].step # "idle"
Larger(x, y) == IF x > y THEN x ELSE y

-----------------------------------------------------------------------------
(* AddMessage.                                                              *)

\* RPUSH, the first command of the pipeline.
RPush(a) ==
  /\ ~Adding(a) /\ pushed < MaxAdds
  /\ pushed' = pushed + 1
  /\ list' = Append(list, pushed + 1)
  /\ add' = [add EXCEPT ![a] = [step |-> "len", msg |-> pushed + 1, n |-> 0]]
  /\ crossed' = (crossed \/ \E b \in Adders : Adding(b))
  /\ UNCHANGED <<ttl, reader, first, newest, broken, drops>>

\* LLEN, the second.
LLen(a) ==
  /\ add[a].step = "len"
  /\ add' = [add EXCEPT ![a] = [@ EXCEPT !.step = "trim", !.n = Len(list)]]
  /\ UNCHANGED <<list, ttl, reader, pushed, first, newest, crossed, broken, drops>>

\* Mutant: the length is taken as it was before the push.
TrimBeforePush(n) == n - 1 - MaxSize

\* How many messages LTRIM drops from the front.
TrimCount(n) == n - MaxSize

LTrim(a) ==
  /\ add[a].step = "trim"
  /\ list' = IF add[a].n > MaxSize THEN SubSeq(list, TrimCount(add[a].n) + 1, Len(list)) ELSE list
  /\ ttl' = (ttl /\ list' # <<>>)
  /\ add' = [add EXCEPT ![a].step = "expire"]
  /\ UNCHANGED <<reader, pushed, first, newest, crossed, broken, drops>>

\* EXPIRE, and AddMessage returns.
AddMessage(a) ==
  /\ add[a].step = "expire"
  /\ ttl' = (list # <<>>)
  /\ add' = [add EXCEPT ![a] = Resting]
  /\ newest' = IF add[a].msg >= first THEN Larger(newest, add[a].msg) ELSE newest
  /\ UNCHANGED <<list, reader, pushed, first, crossed, broken, drops>>

\* A request fails: AddMessage returns its error, the message stays.
AddFails(a) ==
  /\ Adding(a)
  /\ add' = [add EXCEPT ![a] = Resting] /\ broken' = TRUE
  /\ UNCHANGED <<list, ttl, reader, pushed, first, newest, crossed, drops>>

-----------------------------------------------------------------------------
(* ListMessages, Clear, expiry.                                             *)

BeginList ==
  /\ reader.step = "idle"
  /\ reader' = [step |-> "range", n |-> Len(list), seen |-> newest, out |-> <<>>]
  /\ UNCHANGED <<list, ttl, add, pushed, first, newest, crossed, broken, drops>>

\* LRANGE start end-1, with the length read before; an index past the end is cut.
ListMessages ==
  LET n == reader.n
      start == IF n > ReadLimit THEN n - ReadLimit ELSE 0
      stop == IF n > Len(list) THEN Len(list) ELSE n
  IN /\ reader.step = "range"
     /\ reader' = [reader EXCEPT !.step = "done", !.out = IF start >= n THEN <<>> ELSE SubSeq(list, start + 1, stop)]
     /\ UNCHANGED <<list, ttl, add, pushed, first, newest, crossed, broken, drops>>

\* The messages are the caller's, or the request failed.
ListReturns ==
  /\ reader.step # "idle" /\ reader' = NotReading
  /\ UNCHANGED <<list, ttl, add, pushed, first, newest, crossed, broken, drops>>

\* The list is gone: what was acknowledged before is not owed to readers.
Dropped ==
  /\ drops < MaxDrops /\ drops' = drops + 1
  /\ list' = <<>> /\ ttl' = FALSE
  /\ first' = pushed + 1 /\ newest' = 0
  /\ reader' = [reader EXCEPT !.seen = 0]
  /\ UNCHANGED <<add, pushed, crossed, broken>>

ClearConversation == Dropped
KeyExpires == ttl /\ Dropped

HistoryNext ==
  \/ \E a \in Adders : RPush(a) \/ LLen(a) \/ LTrim(a) \/ AddMessage(a) \/ AddFails(a)
  \/ BeginList \/ ListMessages \/ ListReturns
  \/ ClearConversation \/ KeyExpires

HistorySpec == HistoryInit /\ [][HistoryNext]_historyVars

-----------------------------------------------------------------------------
(* Properties.                                                              *)

\* The list is the end of what was pushed since it was last dropped: requests
\* of concurrent AddMessage calls take away old messages only, never one from
\* the middle or the end before older ones.  At rest it fits the window, unless
\* an AddMessage failed half-way; and calls that did not overlap leave a full
\* window.  A listing that races with AddMessage calls that do not overlap has
\* the newest message acknowledged before it began, or newer ones: its stale
\* length costs old messages only, if it asks for 2 or more.
HistoryWindow ==
  LET owed == pushed + 1 - first
  IN /\ Len(list) <= owed /\ \A i \in DOMAIN list : list[i] = pushed - Len(list) + i
     /\ (\A a \in Adders : ~Adding(a)) /\ ~broken => Len(list) <= MaxSize
     /\ ~crossed => Len(list) >= (IF owed < MaxSize THEN owed ELSE MaxSize)
     /\ reader.step = "done" /\ reader.seen > 0 /\ ~crossed /\ ~broken /\ ReadLimit >= 2 =>
          reader.out # <<>> /\ reader.out[Len(reader.out)] >= reader.seen
=============================================================================
