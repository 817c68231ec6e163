----------------------- MODULE BaseOperations_proofs -----------------------
(***************************************************************************)
(* Proofs about the operations of base.Runtime, for any configuration:     *)
(* retried tool calls act once, a conversation in Redis is the end of what *)
(* was pushed, the memories of one scope neither reach nor displace those  *)
(* of another, what a call has shown is what it returns, and the request   *)
(* that reaches a vendor holds the exchange of the history.                *)
(***************************************************************************)
EXTENDS BaseOperations, Integers, WellFoundedInduction, SequenceTheorems, TLAPS

USE DEF llmVars, memoryVars, callVars, historyVars

-----------------------------------------------------------------------------
(* Tool calls.                                                              *)

CallSteps == {"authorize", "execute", "denied", "failed", "unknown", "retrieve", "run", "after", "done", "gone"}
CallState == [step : CallSteps, attempt : Nat, failed : BOOLEAN]

(* The ids the model gave the native calls of a turn are distinct. *)
DistinctIds ==
  \A c, d \in Calls : KindOf(c) = "native" /\ KindOf(d) = "native"
                        /\ IdempotencyKey(c) = IdempotencyKey(d) => c = d

(* The service has the key of every native call it acted for, and no other  *)
(* call's action stands for it.                                             *)
KeysServed ==
  \A c \in Calls : KindOf(c) = "native" =>
    /\ effects[c] \in {0, 1}
    /\ effects[c] = 1 => IdempotencyKey(c) \in served
    /\ DistinctIds => (IdempotencyKey(c) \in served => effects[c] = 1)

OnlyRetrieversRetrieve == \A c \in Calls : call[c].step = "retrieve" => KindOf(c) = "retriever"

SuccessActed ==
  \A c \in Calls :
    KindOf(c) = "native" /\ call[c].step \in {"after", "done"} /\ ~call[c].failed => IdempotencyKey(c) \in served

ToolInv ==
  /\ call \in [Calls -> CallState]
  /\ effects \in [Calls -> Nat]
  /\ KeysServed /\ OnlyRetrieversRetrieve /\ SuccessActed

(* A step of one call that leaves the service alone. *)
LEMMA CallMoves ==
  ASSUME ToolInv, NEW c \in Calls, NEW r \in CallState, call' = [call EXCEPT ![c] = r],
         UNCHANGED <<served, effects>>,
         r.step = "retrieve" => KindOf(c) = "retriever",
         KindOf(c) = "native" /\ r.step \in {"after", "done"} /\ ~r.failed => IdempotencyKey(c) \in served
  PROVE  ToolInv'
<1>1. call' \in [Calls -> CallState] /\ call'[c] = r /\ \A d \in Calls \ {c} : call'[d] = call[d]
  BY DEF ToolInv
<1>2. KeysServed' /\ effects' \in [Calls -> Nat]
  BY DEF ToolInv, KeysServed
<1>3. OnlyRetrieversRetrieve'
  BY <1>1 DEF ToolInv, OnlyRetrieversRetrieve
<1>4. SuccessActed'
  BY <1>1 DEF ToolInv, SuccessActed
<1>. QED
  BY <1>1, <1>2, <1>3, <1>4 DEF ToolInv

(* Goto of a step that is no success, or the success of a call that returned. *)
LEMMA GotoKeeps ==
  ASSUME ToolInv, NEW c \in Calls, NEW step \in CallSteps, Goto(c, step),
         UNCHANGED <<served, effects>>,
         step = "retrieve" => KindOf(c) = "retriever",
         step # "after",
         step = "done" => KindOf(c) # "native" \/ call[c].step = "after"
  PROVE  ToolInv'
<1> DEFINE r == [call[c] EXCEPT !.step = step]
<1>1. r \in CallState /\ r.step = step /\ r.failed = call[c].failed
  BY DEF ToolInv, CallState
<1>2. call' = [call EXCEPT ![c] = r]
  BY DEF Goto, ToolInv
<1> HIDE DEF r
<1>3. KindOf(c) = "native" /\ r.step \in {"after", "done"} /\ ~r.failed => IdempotencyKey(c) \in served
  BY <1>1 DEF ToolInv, SuccessActed
<1>. QED
  BY <1>1, <1>2, <1>3, CallMoves

(* The tool's own step: it reaches the service or fails before. *)
LEMMA ExecuteKeeps ==
  ASSUME ToolInv, NEW c \in Calls, Execute(c)
  PROVE  ToolInv'
<1> DEFINE r(f) == [call[c] EXCEPT !.step = "after", !.failed = f]
<1>1. \A f \in BOOLEAN : r(f) \in CallState /\ r(f).step = "after" /\ r(f).failed = f
  BY DEF ToolInv, CallState, CallSteps
<1>2. PICK f \in BOOLEAN : /\ call' = [call EXCEPT ![c] = r(f)]
                           /\ \/ KindOf(c) = "native" /\ NativeToolExecute(c)
                              \/ /\ KindOf(c) # "native" /\ served' = served
                                 /\ effects' = [effects EXCEPT ![c] = @ + 1]
                              \/ f = TRUE /\ UNCHANGED <<served, effects>>
  BY Zenon DEF Execute, NativeToolExecute, A2AToolExecute, MCPToolExecute, Returns
<1>3. PICK q \in CallState : q = r(f)
  BY <1>1
<1> HIDE DEF r
<1>4. /\ q.step = "after" /\ q.failed = f /\ call' = [call EXCEPT ![c] = q]
      /\ call' \in [Calls -> CallState] /\ call'[c] = q
      /\ \A d \in Calls \ {c} : call'[d] = call[d]
  BY <1>1, <1>2, <1>3 DEF ToolInv
<1>5. OnlyRetrieversRetrieve'
  BY <1>4 DEF ToolInv, OnlyRetrieversRetrieve
<1>6. CASE KindOf(c) = "native" /\ NativeToolExecute(c)
  <2>1. /\ served' = served \cup {IdempotencyKey(c)}
        /\ effects' = IF IdempotencyKey(c) \in served THEN effects ELSE [effects EXCEPT ![c] = @ + 1]
    BY <1>6 DEF NativeToolExecute
  <2>2. SuccessActed'
    BY <1>4, <2>1 DEF ToolInv, SuccessActed
  <2>3. CASE IdempotencyKey(c) \in served
    <3>1. effects' = effects /\ served' = served
      BY <2>1, <2>3
    <3>2. KeysServed' /\ effects' \in [Calls -> Nat]
      BY <3>1 DEF ToolInv, KeysServed
    <3>. QED
      BY <1>4, <1>5, <2>2, <3>2 DEF ToolInv
  <2>4. CASE IdempotencyKey(c) \notin served
    <3>1. effects[c] = 0
      BY <1>6, <2>4 DEF ToolInv, KeysServed
    <3>2. /\ effects' \in [Calls -> Nat] /\ effects'[c] = 1
          /\ \A d \in Calls \ {c} : effects'[d] = effects[d]
      BY <2>1, <2>4, <3>1 DEF ToolInv
    <3>3. ASSUME NEW d \in Calls, KindOf(d) = "native"
          PROVE  /\ effects'[d] \in {0, 1}
                 /\ effects'[d] = 1 => IdempotencyKey(d) \in served'
                 /\ DistinctIds => (IdempotencyKey(d) \in served' => effects'[d] = 1)
      <4>1. CASE d = c
        BY <2>1, <3>2, <4>1
      <4>2. CASE d # c
        <5>1. DistinctIds => IdempotencyKey(d) # IdempotencyKey(c)
          BY <1>6, <3>3, <4>2 DEF DistinctIds
        <5>. QED
          BY <2>1, <3>2, <3>3, <4>2, <5>1 DEF ToolInv, KeysServed
      <4>. QED
        BY <4>1, <4>2
    <3>4. KeysServed'
      BY <3>3 DEF KeysServed
    <3>. QED
      BY <1>4, <1>5, <2>2, <3>2, <3>4 DEF ToolInv
  <2>. QED
    BY <2>3, <2>4
<1>7. CASE KindOf(c) # "native" /\ served' = served /\ effects' = [effects EXCEPT ![c] = @ + 1]
  <2>1. /\ effects' \in [Calls -> Nat]
        /\ \A d \in Calls \ {c} : effects'[d] = effects[d]
    BY <1>7 DEF ToolInv
  <2>2. KeysServed' /\ SuccessActed'
    BY <1>4, <1>7, <2>1 DEF ToolInv, KeysServed, SuccessActed
  <2>. QED
    BY <1>4, <1>5, <2>1, <2>2 DEF ToolInv
<1>8. CASE f = TRUE /\ UNCHANGED <<served, effects>>
  BY <1>4, <1>8, CallMoves
<1>. QED
  BY <1>2, <1>6, <1>7, <1>8

LEMMA InitToolInv == ToolInit => ToolInv
<1> SUFFICES ASSUME ToolInit PROVE ToolInv
  OBVIOUS
<1> DEFINE r == [step |-> "authorize", attempt |-> 1, failed |-> FALSE]
<1>1. r \in CallState /\ r.step = "authorize"
  BY DEF CallState, CallSteps
<1>2. call = [c \in Calls |-> r] /\ effects = [c \in Calls |-> 0]
  BY DEF ToolInit
<1> HIDE DEF r
<1>3. KeysServed /\ OnlyRetrieversRetrieve /\ SuccessActed
  BY <1>1, <1>2 DEF ToolInit, KeysServed, OnlyRetrieversRetrieve, SuccessActed
<1>. QED
  BY <1>1, <1>2, <1>3 DEF ToolInv

LEMMA NextToolInv == ToolInv /\ [Next]_vars => ToolInv'
<1> SUFFICES ASSUME ToolInv, [Next]_vars PROVE ToolInv'
  OBVIOUS
<1>1. CASE UNCHANGED <<call, served, effects>>
  BY <1>1 DEF ToolInv, KeysServed, OnlyRetrieversRetrieve, SuccessActed
<1>2. ASSUME NEW c \in Calls, AuthorizeTool(c) PROVE ToolInv'
  <2>1. PICK o \in {"execute", "denied", "failed"} : Goto(c, o)
    BY <1>2 DEF AuthorizeTool
  <2>. QED
    BY <1>2, <2>1, GotoKeeps DEF AuthorizeTool, CallSteps
<1>3. ASSUME NEW c \in Calls, executeTool(c) PROVE ToolInv'
  <2>1. PICK o \in {"unknown", "failed", "retrieve", "run"} :
          Goto(c, o) /\ (o = "retrieve" => KindOf(c) = "retriever")
    BY <1>3 DEF executeTool, RunBeforeTool
  <2>. QED
    BY <1>3, <2>1, GotoKeeps DEF executeTool, CallSteps
<1>4. ASSUME NEW c \in Calls, executeRetrieverTool(c) PROVE ToolInv'
  <2>1. KindOf(c) = "retriever"
    BY <1>4 DEF executeRetrieverTool, At, ToolInv, OnlyRetrieversRetrieve
  <2>2. PICK o \in {"failed", "done"} : Goto(c, o)
    BY <1>4 DEF executeRetrieverTool
  <2>. QED
    BY <1>4, <2>1, <2>2, GotoKeeps DEF executeRetrieverTool, CallSteps
<1>5. ASSUME NEW c \in Calls, RunAfterTool(c) PROVE ToolInv'
  <2>1. PICK o \in {"failed", "done"} : Goto(c, o)
    BY <1>5 DEF RunAfterTool, AfterHooks
  <2>. QED
    BY <1>5, <2>1, GotoKeeps DEF RunAfterTool, At, CallSteps
<1>6. ASSUME NEW c \in Calls, Retry(c) PROVE ToolInv'
  <2> DEFINE r == [step |-> "execute", attempt |-> call[c].attempt + 1, failed |-> FALSE]
  <2>1. r \in CallState /\ r.step = "execute"
    BY DEF ToolInv, CallState, CallSteps
  <2>2. call' = [call EXCEPT ![c] = r] /\ UNCHANGED <<served, effects>>
    BY <1>6 DEF Retry, ToolInv
  <2> HIDE DEF r
  <2>. QED
    BY <2>1, <2>2, CallMoves
<1>7. CASE NextTurn
  <2> DEFINE r == [step |-> "gone", attempt |-> 1, failed |-> FALSE]
  <2>1. r \in CallState /\ r.step = "gone"
    BY DEF CallState, CallSteps
  <2>2. /\ call' = [c \in Calls |-> IF c[1] = turn THEN r ELSE call[c]]
        /\ UNCHANGED <<served, effects>>
    BY <1>7 DEF NextTurn
  <2> HIDE DEF r
  <2>3. call' \in [Calls -> CallState] /\ \A c \in Calls : call'[c] \in {r, call[c]}
    BY <2>1, <2>2 DEF ToolInv
  <2>4. OnlyRetrieversRetrieve' /\ SuccessActed'
    BY <2>1, <2>2, <2>3 DEF ToolInv, OnlyRetrieversRetrieve, SuccessActed
  <2>5. KeysServed' /\ effects' \in [Calls -> Nat]
    BY <2>2 DEF ToolInv, KeysServed
  <2>. QED
    BY <2>3, <2>4, <2>5 DEF ToolInv
<1>8. CASE ToolNext
  <2>1. CASE \/ \E i \in Searchers : RunBeforeRetrieve(i) \/ Search(i) \/ RunAfterRetrieve(i)
             \/ ExecuteRetrievers \/ TakeContext \/ (Finished /\ UNCHANGED callVars)
    <3>1. UNCHANGED <<call, served, effects>>
      BY <2>1 DEF RunBeforeRetrieve, Search, RunAfterRetrieve, ExecuteRetrievers, TakeContext, toolVars
    <3>. QED
      BY <1>1, <3>1
  <2>. QED
    BY <1>2, <1>3, <1>4, <1>5, <1>6, <1>7, <1>8, <2>1, ExecuteKeeps DEF ToolNext
<1>. QED
  BY <1>1, <1>8 DEF Next, vars

(* A native tool that forwards its key never acts twice for a call, however *)
(* often the operation is retried and whatever ids the model gave.          *)
THEOREM NeverTwice == Spec => [](\A c \in Calls : KindOf(c) = "native" => effects[c] <= 1)
<1>1. ToolInv => \A c \in Calls : KindOf(c) = "native" => effects[c] <= 1
  BY DEF ToolInv, KeysServed
<1>2. Init => ToolInv
  BY InitToolInv DEF Init
<1>. QED
  BY <1>1, <1>2, NextToolInv, PTL DEF Spec

(* With distinct ids in a turn it acts exactly once for a call that         *)
(* reported success.                                                        *)
THEOREM EffectsOnce ==
  ASSUME DistinctIds
  PROVE  Spec => []EffectOnce
<1>1. ToolInv => EffectOnce
  BY DEF ToolInv, KeysServed, SuccessActed, EffectOnce
<1>2. Init => ToolInv
  BY InitToolInv DEF Init
<1>. QED
  BY <1>1, <1>2, NextToolInv, PTL DEF Spec

-----------------------------------------------------------------------------
(* The Redis conversation.                                                  *)

AddState == [step : {"idle", "len", "trim", "expire"}, msg : Nat, n : Nat]
ReadState == [step : {"idle", "range", "done"}, n : Nat, seen : Nat, out : Seq(Nat)]
Owed == pushed + 1 - first

HistoryTypes ==
  /\ list \in Seq(Nat) /\ add \in [Adders -> AddState] /\ reader \in ReadState
  /\ pushed \in Nat /\ first \in Nat /\ newest \in Nat
  /\ crossed \in BOOLEAN /\ broken \in BOOLEAN

(* The list is the end of what was pushed since it was dropped. *)
Suffix ==
  /\ first <= pushed + 1 /\ Len(list) <= Owed
  /\ \A i \in 1..Len(list) : list[i] = pushed - Len(list) + i

(* What is acknowledged was pushed, and since the list was dropped. *)
Acknowledged ==
  /\ newest <= pushed /\ (newest = 0 \/ first <= newest)
  /\ \A a \in Adders : add[a].msg <= pushed

Alone == ~crossed => \A a, b \in Adders : Adding(a) /\ Adding(b) => a = b

(* A list that is too long has an AddMessage on its way that will trim it.  *)
TrimComes ==
  ~broken /\ Len(list) > MaxSize =>
    \E a \in Adders : add[a].step = "len" \/ (add[a].step = "trim" /\ Len(list) <= add[a].n)

(* Calls that do not overlap trim by the length the list has. *)
TrimExact ==
  ~crossed => \A a \in Adders : add[a].step = "trim" => add[a].n = Len(list) \/ Owed = 0

Window ==
  /\ ~crossed => Len(list) >= (IF Owed < MaxSize THEN Owed ELSE MaxSize)
  /\ ~crossed /\ ~broken => Len(list) <= MaxSize + 1

(* Between LLEN and LRANGE of a listing the list loses old messages only.   *)
Listing ==
  reader.step = "range" /\ reader.seen > 0 =>
    /\ reader.seen <= pushed /\ reader.seen <= pushed - Len(list) + reader.n
    /\ ~crossed /\ ~broken => 1 <= reader.n /\ reader.n <= MaxSize + 1 /\ reader.n <= Owed

Listed ==
  reader.step = "done" /\ reader.seen > 0 /\ ~crossed /\ ~broken /\ ReadLimit >= 2 =>
    reader.out # <<>> /\ reader.out[Len(reader.out)] >= reader.seen

HistoryInv ==
  /\ HistoryTypes /\ Suffix /\ Acknowledged /\ Alone /\ TrimComes /\ TrimExact
  /\ Window /\ Listing /\ Listed

(* Dropping from the front leaves the rest. *)
LEMMA DropFront ==
  ASSUME NEW s \in Seq(Nat), NEW k \in Nat
  PROVE  /\ SubSeq(s, k + 1, Len(s)) \in Seq(Nat)
         /\ Len(SubSeq(s, k + 1, Len(s))) = (IF k < Len(s) THEN Len(s) - k ELSE 0)
         /\ \A i \in 1..Len(SubSeq(s, k + 1, Len(s))) : SubSeq(s, k + 1, Len(s))[i] = s[k + i]
<1> DEFINE m == k + 1
           n == Len(s)
<1>1. m \in Int /\ n \in Int /\ n \in Nat /\ \A i \in m..n : s[i] \in Nat
  OBVIOUS
<1>2. /\ SubSeq(s, m, n) \in Seq(Nat)
      /\ Len(SubSeq(s, m, n)) = (IF m <= n THEN n - m + 1 ELSE 0)
      /\ \A i \in 1..(n - m + 1) : SubSeq(s, m, n)[i] = s[m + i - 1]
  <2> HIDE DEF m, n
  <2>. QED
    BY <1>1, SubSeqProperties, SMTT(60)
<1>. QED
  BY <1>1, <1>2

LEMMA InitHistoryInv == HistoryInit => HistoryInv
<1> SUFFICES ASSUME HistoryInit PROVE HistoryInv
  OBVIOUS
<1>1. Resting \in AddState /\ Resting.step = "idle" /\ Resting.msg = 0
  BY DEF Resting, AddState
<1>2. NotReading \in ReadState /\ NotReading.step = "idle"
  BY DEF NotReading, ReadState
<1>3. add = [a \in Adders |-> Resting] /\ reader = NotReading /\ list = <<>> /\ Len(list) = 0
      /\ pushed = 0 /\ first = 1 /\ newest = 0 /\ crossed = FALSE /\ broken = FALSE
  BY DEF HistoryInit
<1>4. \A a \in Adders : add[a].step = "idle" /\ add[a].msg = 0
  BY <1>1, <1>3
<1>5. HistoryTypes
  <2>1. list \in Seq(Nat)
    BY <1>3
  <2>2. add \in [Adders -> AddState] /\ reader \in ReadState
    BY <1>1, <1>2, <1>3
  <2>3. pushed \in Nat /\ first \in Nat /\ newest \in Nat
    BY <1>3
  <2>4. crossed \in BOOLEAN /\ broken \in BOOLEAN
    BY <1>3
  <2>. QED
    BY <2>1, <2>2, <2>3, <2>4 DEF HistoryTypes
<1>. QED
  BY <1>2, <1>3, <1>4, <1>5, HistoryAssumption
  DEF HistoryInv, Suffix, Acknowledged, Alone, Adding, TrimComes, TrimExact, Window, Listing, Listed, Owed

(* What the arithmetic of the other steps needs to know of an AddMessage    *)
(* step: the caller's record, and the rest as it was.                       *)
LEMMA AddMoves ==
  ASSUME HistoryTypes, NEW a \in Adders, NEW r \in AddState, add' = [add EXCEPT ![a] = r]
  PROVE  /\ add' \in [Adders -> AddState] /\ add'[a] = r
         /\ \A b \in Adders \ {a} : add'[b] = add[b]
BY DEF HistoryTypes

LEMMA RPushKeeps ==
  ASSUME HistoryInv, NEW a \in Adders, RPush(a)
  PROVE  HistoryInv'
<1> USE HistoryAssumption
<1> DEFINE r == [step |-> "len", msg |-> pushed + 1, n |-> 0]
<1>T. HistoryTypes
  BY DEF HistoryInv
<1>1. r \in AddState /\ r.step = "len" /\ r.msg = pushed + 1
  BY <1>T DEF HistoryTypes, AddState
<1>2. add' = [add EXCEPT ![a] = r]
  BY DEF RPush
<1> HIDE DEF r
<1>3. /\ add' \in [Adders -> AddState] /\ add'[a] = r
      /\ \A b \in Adders \ {a} : add'[b] = add[b]
  BY <1>T, <1>1, <1>2, AddMoves
<1>4. /\ pushed' = pushed + 1 /\ list' = Append(list, pushed + 1) /\ ~Adding(a)
      /\ UNCHANGED <<reader, first, newest, broken>>
  BY DEF RPush
<1>5. PICK c \in BOOLEAN : crossed' = c /\ (~c <=> ~crossed /\ \A b \in Adders : ~Adding(b))
  BY <1>T DEF RPush, HistoryTypes
<1>6. /\ list' \in Seq(Nat) /\ Len(list') = Len(list) + 1 /\ Len(list) \in Nat
      /\ \A i \in 1..Len(list) : list'[i] = list[i]
      /\ list'[Len(list) + 1] = pushed + 1
  BY <1>T, <1>4 DEF HistoryTypes
<1>7. HistoryTypes'
  BY <1>T, <1>3, <1>4, <1>5, <1>6 DEF HistoryTypes
<1>8. Suffix'
  <2>1. first' <= pushed' + 1 /\ Len(list') <= Owed'
    BY <1>T, <1>4, <1>6 DEF HistoryInv, HistoryTypes, Suffix, Owed
  <2>2. ASSUME NEW i \in 1..(Len(list) + 1)
        PROVE  list'[i] = (pushed + 1) - (Len(list) + 1) + i
    <3>1. CASE i = Len(list) + 1
      BY <1>T, <1>6, <3>1 DEF HistoryTypes
    <3>2. CASE i # Len(list) + 1
      <4>1. i \in 1..Len(list)
        BY <1>6, <3>2
      <4>2. list'[i] = pushed - Len(list) + i
        BY <1>6, <4>1 DEF HistoryInv, Suffix
      <4>. QED
        BY <1>T, <1>6, <4>2 DEF HistoryTypes
    <3>. QED
      BY <3>1, <3>2
  <2>. QED
    BY <1>4, <1>6, <2>1, <2>2 DEF Suffix
<1>9. Acknowledged'
  <2>1. \A b \in Adders : add[b].msg \in Nat /\ add[b].msg <= pushed
    BY <1>T DEF HistoryInv, HistoryTypes, Acknowledged, AddState
  <2>2. \A b \in Adders : add'[b].msg <= pushed + 1
    BY <1>T, <1>1, <1>3, <2>1 DEF HistoryTypes
  <2>. QED
    BY <1>T, <1>4, <2>2 DEF HistoryInv, HistoryTypes, Acknowledged
<1>10. Alone'
  BY <1>1, <1>3, <1>5 DEF Alone, Adding
<1>11. TrimComes'
  BY <1>1, <1>3 DEF TrimComes
<1>12. TrimExact'
  BY <1>1, <1>3, <1>5 DEF TrimExact, Adding
<1>13. Window'
  <2>1. ~c /\ ~broken => Len(list) <= MaxSize
    BY <1>T, <1>5, <1>6 DEF HistoryInv, TrimComes, Adding
  <2>. QED
    BY <1>T, <1>4, <1>5, <1>6, <2>1 DEF HistoryInv, HistoryTypes, Window, Owed
<1>14. Listing'
  <2>1. reader.seen \in Nat /\ reader.n \in Nat /\ pushed \in Nat /\ Owed \in Int
    BY <1>T DEF HistoryTypes, ReadState, Owed
  <2>2. reader' = reader /\ broken' = broken /\ pushed' = pushed + 1 /\ Owed' = Owed + 1
        /\ Len(list') = Len(list) + 1 /\ (~crossed' => ~crossed)
    BY <1>T, <1>4, <1>5, <1>6 DEF HistoryTypes, Owed
  <2>3. ASSUME reader.step = "range", reader.seen > 0
        PROVE  /\ reader.seen <= pushed /\ reader.seen <= pushed - Len(list) + reader.n
               /\ ~crossed /\ ~broken => 1 <= reader.n /\ reader.n <= MaxSize + 1 /\ reader.n <= Owed
    BY <2>3 DEF HistoryInv, Listing
  <2>4. ASSUME reader.step = "range", reader.seen > 0
        PROVE  reader.seen <= pushed + 1 /\ reader.seen <= (pushed + 1) - (Len(list) + 1) + reader.n
    BY <1>6, <2>1, <2>3, <2>4
  <2>5. ASSUME reader.step = "range", reader.seen > 0, ~crossed', ~broken
        PROVE  1 <= reader.n /\ reader.n <= MaxSize + 1 /\ reader.n <= Owed + 1
    BY <2>1, <2>2, <2>3, <2>5
  <2>. QED
    BY <2>2, <2>4, <2>5 DEF Listing
<1>15. Listed'
  BY <1>T, <1>4, <1>5 DEF HistoryInv, HistoryTypes, Listed
<1>. QED
  BY <1>7, <1>8, <1>9, <1>10, <1>11, <1>12, <1>13, <1>14, <1>15 DEF HistoryInv

LEMMA LLenKeeps ==
  ASSUME HistoryInv, NEW a \in Adders, LLen(a)
  PROVE  HistoryInv'
<1> USE HistoryAssumption
<1> DEFINE r == [add[a] EXCEPT !.step = "trim", !.n = Len(list)]
<1>T. HistoryTypes
  BY DEF HistoryInv
<1>1. /\ Len(list) \in Nat /\ add[a].step = "len"
      /\ UNCHANGED <<list, reader, pushed, first, newest, crossed, broken>>
  BY <1>T DEF HistoryTypes, LLen
<1>2. r \in AddState /\ r.step = "trim" /\ r.msg = add[a].msg /\ r.n = Len(list)
  BY <1>T, <1>1 DEF HistoryTypes, AddState
<1>3. add' = [add EXCEPT ![a] = r]
  BY DEF LLen
<1> HIDE DEF r
<1>4. /\ add' \in [Adders -> AddState] /\ add'[a] = r
      /\ \A b \in Adders \ {a} : add'[b] = add[b]
  BY <1>T, <1>2, <1>3, AddMoves
<1>5. HistoryTypes'
  BY <1>T, <1>1, <1>4 DEF HistoryTypes
<1>6. Suffix' /\ Window' /\ Listing' /\ Listed'
  BY <1>1 DEF HistoryInv, Suffix, Window, Listing, Listed, Owed
<1>7. Acknowledged' /\ Alone'
  BY <1>1, <1>2, <1>4 DEF HistoryInv, Acknowledged, Alone, Adding
<1>8. TrimComes'
  <2>1. Len(list)' = Len(list) /\ add'[a].step = "trim" /\ Len(list) <= add'[a].n
    BY <1>1, <1>2, <1>4
  <2>. QED
    BY <2>1 DEF TrimComes
<1>9. TrimExact'
  BY <1>1, <1>2, <1>4 DEF HistoryInv, TrimExact, Owed
<1>. QED
  BY <1>5, <1>6, <1>7, <1>8, <1>9 DEF HistoryInv

(* LTRIM drops from the front, at most what the length it knows allows.     *)
LEMMA LTrimDrops ==
  ASSUME HistoryInv, NEW a \in Adders, LTrim(a)
  PROVE  \E d \in Nat :
           /\ d <= Len(list) /\ list' \in Seq(Nat) /\ Len(list') = Len(list) - d
           /\ \A i \in 1..Len(list') : list'[i] = list[d + i]
           /\ d = (IF add[a].n <= MaxSize THEN 0
                   ELSE IF add[a].n - MaxSize < Len(list) THEN add[a].n - MaxSize ELSE Len(list))
<1> USE HistoryAssumption
<1>1. list \in Seq(Nat) /\ Len(list) \in Nat /\ add[a].n \in Nat
  BY DEF HistoryInv, HistoryTypes, AddState
<1> DEFINE Drops(d) ==
             /\ d <= Len(list) /\ list' \in Seq(Nat) /\ Len(list') = Len(list) - d
             /\ \A i \in 1..Len(list') : list'[i] = list[d + i]
             /\ d = (IF add[a].n <= MaxSize THEN 0
                     ELSE IF add[a].n - MaxSize < Len(list) THEN add[a].n - MaxSize ELSE Len(list))
<1>2. CASE add[a].n > MaxSize
  <2> DEFINE k == TrimCount(add[a].n)
  <2>1. k \in Nat /\ k = add[a].n - MaxSize
    BY <1>1, <1>2 DEF TrimCount
  <2>2. list' = SubSeq(list, k + 1, Len(list))
    BY <1>2, Zenon DEF LTrim
  <2> HIDE DEF k
  <2>3. /\ list' \in Seq(Nat) /\ Len(list') = (IF k < Len(list) THEN Len(list) - k ELSE 0)
        /\ \A i \in 1..Len(list') : list'[i] = list[k + i]
    BY <1>1, <2>1, <2>2, DropFront
  <2>4. CASE k < Len(list)
    <3>1. k <= Len(list) /\ Len(list') = Len(list) - k
      BY <1>1, <2>1, <2>3, <2>4
    <3>2. k = (IF add[a].n <= MaxSize THEN 0
               ELSE IF add[a].n - MaxSize < Len(list) THEN add[a].n - MaxSize ELSE Len(list))
      BY <1>1, <1>2, <2>1, <2>4
    <3>3. Drops(k)
      BY <2>3, <3>1, <3>2
    <3>. QED
      BY <2>1, <3>3
  <2>5. CASE ~(k < Len(list))
    <3>1. Len(list') = 0 /\ Len(list') = Len(list) - Len(list) /\ Len(list) <= Len(list)
      BY <1>1, <2>3, <2>5
    <3>2. Len(list) = (IF add[a].n <= MaxSize THEN 0
                       ELSE IF add[a].n - MaxSize < Len(list) THEN add[a].n - MaxSize ELSE Len(list))
      BY <1>1, <1>2, <2>1, <2>5
    <3>3. \A i \in 1..Len(list') : list'[i] = list[Len(list) + i]
      BY <3>1
    <3>4. Drops(Len(list))
      BY <2>3, <3>1, <3>2, <3>3
    <3>. QED
      BY <1>1, <3>4
  <2>. QED
    BY <2>4, <2>5
<1>3. CASE ~(add[a].n > MaxSize)
  <2>1. list' = list
    BY <1>3 DEF LTrim
  <2>2. \A i \in 1..Len(list') : list'[i] = list[0 + i]
    BY <2>1
  <2>3. Drops(0)
    BY <1>1, <1>3, <2>1, <2>2
  <2>. QED
    BY <2>3
<1>. QED
  BY <1>2, <1>3

LEMMA LTrimKeeps ==
  ASSUME HistoryInv, NEW a \in Adders, LTrim(a)
  PROVE  HistoryInv'
<1> USE HistoryAssumption
<1> DEFINE r == [add[a] EXCEPT !.step = "expire"]
<1>T. HistoryTypes
  BY DEF HistoryInv
<1>1. /\ Len(list) \in Nat /\ add[a].step = "trim" /\ add[a].n \in Nat
      /\ UNCHANGED <<reader, pushed, first, newest, crossed, broken>>
  BY <1>T DEF HistoryTypes, LTrim, AddState
<1>2. r \in AddState /\ r.step = "expire" /\ r.msg = add[a].msg
  BY <1>T DEF HistoryTypes, AddState
<1>3. add' = [add EXCEPT ![a] = r]
  BY DEF LTrim
<1> HIDE DEF r
<1>4. /\ add' \in [Adders -> AddState] /\ add'[a] = r
      /\ \A b \in Adders \ {a} : add'[b] = add[b]
  BY <1>T, <1>2, <1>3, AddMoves
<1>5. PICK d \in Nat :
        /\ d <= Len(list) /\ list' \in Seq(Nat) /\ Len(list') = Len(list) - d
        /\ \A i \in 1..Len(list') : list'[i] = list[d + i]
        /\ d = (IF add[a].n <= MaxSize THEN 0
                ELSE IF add[a].n - MaxSize < Len(list) THEN add[a].n - MaxSize ELSE Len(list))
  BY LTrimDrops
<1>L. d \in Nat /\ d <= Len(list) /\ Len(list) \in Nat /\ Len(list') = Len(list) - d /\ pushed \in Nat
  BY <1>T, <1>1, <1>5 DEF HistoryTypes
<1>6. HistoryTypes'
  BY <1>T, <1>1, <1>4, <1>5 DEF HistoryTypes
<1>7. Suffix'
  <2>1. ASSUME NEW i \in 1..Len(list') PROVE list'[i] = pushed - Len(list') + i
    <3>1. d + i \in 1..Len(list)
      BY <1>L
    <3>2. list[d + i] = pushed - Len(list) + (d + i)
      BY <3>1 DEF HistoryInv, Suffix
    <3>3. list'[i] = list[d + i]
      BY <1>5
    <3>. QED
      BY <1>L, <3>2, <3>3
  <2>2. first <= pushed + 1 /\ Len(list') <= Owed
    BY <1>T, <1>1, <1>5 DEF HistoryInv, HistoryTypes, Suffix, Owed
  <2>. QED
    BY <1>1, <2>1, <2>2 DEF Suffix, Owed
<1>8. Acknowledged'
  BY <1>1, <1>2, <1>4 DEF HistoryInv, Acknowledged
<1>9. Alone'
  BY <1>1, <1>2, <1>4 DEF HistoryInv, Alone, Adding
<1>10. TrimComes'
  <2> SUFFICES ASSUME ~broken, Len(list') > MaxSize
               PROVE  \E b \in Adders : \/ add'[b].step = "len"
                                        \/ add'[b].step = "trim" /\ Len(list') <= add'[b].n
    BY <1>1 DEF TrimComes
  <2>1. Len(list) > MaxSize
    BY <1>1, <1>5
  <2>2. PICK b \in Adders : add[b].step = "len" \/ (add[b].step = "trim" /\ Len(list) <= add[b].n)
    BY <2>1 DEF HistoryInv, TrimComes
  <2>3. b # a
    BY <1>1, <1>5, <2>1, <2>2
  <2>4. add[b].n \in Nat
    BY <1>T DEF HistoryTypes, AddState
  <2>. QED
    BY <1>1, <1>4, <1>5, <2>2, <2>3, <2>4, SMTT(30)
<1>11. TrimExact'
  <2>1. ~crossed => \A b \in Adders \ {a} : add[b].step # "trim"
    BY <1>1 DEF HistoryInv, Alone, Adding
  <2>. QED
    BY <1>1, <1>2, <1>4, <2>1 DEF TrimExact
<1>12. Window'
  <2>1. ~crossed => add[a].n = Len(list) \/ Owed = 0
    BY <1>1 DEF HistoryInv, TrimExact
  <2>2. Owed \in Int /\ Len(list) <= Owed /\ Owed' = Owed
    BY <1>T, <1>1 DEF HistoryInv, HistoryTypes, Suffix, Owed
  <2>3. ~crossed => Len(list') >= (IF Owed < MaxSize THEN Owed ELSE MaxSize)
    BY <1>1, <1>5, <2>1, <2>2, SMTT(60) DEF HistoryInv, Window
  <2>4. ~crossed /\ ~broken => Len(list') <= MaxSize + 1
    BY <1>1, <1>5 DEF HistoryInv, Window
  <2>. QED
    BY <1>1, <2>2, <2>3, <2>4 DEF Window
<1>13. Listing'
  <2>1. reader.seen \in Nat /\ reader.n \in Nat /\ Owed' = Owed
    BY <1>T, <1>1 DEF HistoryTypes, ReadState, Owed
  <2>2. pushed - Len(list) + reader.n <= pushed - Len(list') + reader.n
    BY <1>L, <2>1
  <2>. QED
    BY <1>1, <1>L, <2>1, <2>2, SMTT(30) DEF HistoryInv, Listing
<1>14. Listed'
  BY <1>1 DEF HistoryInv, Listed
<1>. QED
  BY <1>6, <1>7, <1>8, <1>9, <1>10, <1>11, <1>12, <1>13, <1>14 DEF HistoryInv

(* AddMessage returns, acknowledging its message or with an error. *)
LEMMA AddReturns ==
  ASSUME HistoryInv, NEW a \in Adders, AddMessage(a) \/ AddFails(a)
  PROVE  HistoryInv'
<1> USE HistoryAssumption
<1>T. HistoryTypes
  BY DEF HistoryInv
<1>1. /\ UNCHANGED <<list, reader, pushed, first, crossed>> /\ Len(list) \in Nat
      /\ add' = [add EXCEPT ![a] = Resting]
      /\ newest' \in {newest, add[a].msg} /\ (newest' = newest \/ first <= newest')
  BY <1>T DEF AddMessage, AddFails, Larger, HistoryTypes, AddState
<1>2. /\ broken' \in BOOLEAN
      /\ ~broken' => ~broken /\ add[a].step = "expire"
  BY <1>T DEF AddMessage, AddFails, HistoryTypes
<1>3. Resting \in AddState /\ Resting.step = "idle" /\ Resting.msg = 0
  BY DEF Resting, AddState
<1>4. /\ add' \in [Adders -> AddState] /\ add'[a] = Resting
      /\ \A b \in Adders \ {a} : add'[b] = add[b]
  BY <1>T, <1>1, <1>3, AddMoves
<1>5. add[a].msg \in Nat /\ add[a].msg <= pushed
  BY <1>T DEF HistoryInv, HistoryTypes, Acknowledged, AddState
<1>6. HistoryTypes'
  BY <1>T, <1>1, <1>2, <1>4, <1>5 DEF HistoryTypes
<1>7. Suffix'
  BY <1>1 DEF HistoryInv, Suffix, Owed
<1>8. Acknowledged'
  BY <1>T, <1>1, <1>3, <1>4, <1>5 DEF HistoryInv, HistoryTypes, Acknowledged
<1>9. Alone' /\ TrimExact'
  BY <1>1, <1>3, <1>4 DEF HistoryInv, Alone, TrimExact, Adding, Owed
<1>10. TrimComes'
  BY <1>1, <1>2, <1>4 DEF HistoryInv, TrimComes
<1>11. Window' /\ Listing' /\ Listed'
  BY <1>1, <1>2 DEF HistoryInv, Window, Listing, Listed, Owed
<1>. QED
  BY <1>6, <1>7, <1>8, <1>9, <1>10, <1>11 DEF HistoryInv

(* Only the reader moves. *)
LEMMA ReaderMoves ==
  ASSUME HistoryInv, NEW r \in ReadState, reader' = r,
         UNCHANGED <<list, add, pushed, first, newest, crossed, broken>>,
         r.step = "range" /\ r.seen > 0 =>
           /\ r.seen <= pushed /\ r.seen <= pushed - Len(list) + r.n
           /\ ~crossed /\ ~broken => 1 <= r.n /\ r.n <= MaxSize + 1 /\ r.n <= Owed,
         r.step = "done" /\ r.seen > 0 /\ ~crossed /\ ~broken /\ ReadLimit >= 2 =>
           r.out # <<>> /\ r.out[Len(r.out)] >= r.seen
  PROVE  HistoryInv'
<1>1. HistoryTypes' /\ Suffix' /\ Acknowledged'
  BY DEF HistoryInv, HistoryTypes, Suffix, Acknowledged, Owed
<1>2. Alone' /\ TrimComes' /\ TrimExact' /\ Window'
  BY DEF HistoryInv, Alone, Adding, TrimComes, TrimExact, Window, Owed
<1>3. Listing' /\ Listed'
  BY DEF Listing, Listed, Owed
<1>. QED
  BY <1>1, <1>2, <1>3 DEF HistoryInv

(* LRANGE with the length of the earlier LLEN. *)
LEMMA ListMessagesKeeps ==
  ASSUME HistoryInv, ListMessages
  PROVE  HistoryInv'
<1> USE HistoryAssumption
<1> DEFINE n == reader.n
           start == IF n > ReadLimit THEN n - ReadLimit ELSE 0
           stop == IF n > Len(list) THEN Len(list) ELSE n
           out == IF start >= n THEN <<>> ELSE SubSeq(list, start + 1, stop)
           r == [reader EXCEPT !.step = "done", !.out = out]
<1>T. /\ list \in Seq(Nat) /\ Len(list) \in Nat /\ reader \in ReadState /\ n \in Nat /\ reader.seen \in Nat
      /\ pushed \in Nat /\ Owed \in Int /\ reader.step = "range"
      /\ start \in Nat /\ stop \in Nat /\ stop <= Len(list)
  BY DEF HistoryInv, HistoryTypes, ReadState, Owed, ListMessages
<1>1. reader' = r /\ UNCHANGED <<list, add, pushed, first, newest, crossed, broken>>
  BY DEF ListMessages
<1>S. PICK b, e \in Nat : b = start + 1 /\ e = stop
  BY <1>T
<1>2. PICK q \in Seq(Nat) :
        /\ q = SubSeq(list, b, e)
        /\ Len(q) = (IF b <= e THEN e - b + 1 ELSE 0)
        /\ \A i \in 1..(e - b + 1) : q[i] = list[b + i - 1]
  <2>1. b \in Int /\ e \in Int /\ \A i \in b..e : list[i] \in Nat
    BY <1>T, <1>S, SMTT(30)
  <2>2. /\ SubSeq(list, b, e) \in Seq(Nat)
        /\ Len(SubSeq(list, b, e)) = (IF b <= e THEN e - b + 1 ELSE 0)
        /\ \A i \in 1..(e - b + 1) : SubSeq(list, b, e)[i] = list[b + i - 1]
    BY <2>1, SubSeqProperties
  <2>. QED
    BY <2>2, Zenon
<1>Q. /\ Len(q) = (IF b <= e THEN e - b + 1 ELSE 0)
      /\ \A i \in 1..(e - b + 1) : q[i] = list[b + i - 1]
  BY <1>2
<1>3. out \in Seq(Nat) /\ (start < n => out = q)
  <2>1. out = IF start >= n THEN <<>> ELSE q
    BY <1>S, <1>2, Zenon
  <2> HIDE DEF out, start, n
  <2>. QED
    BY <1>T, <2>1
<1>4. ASSUME reader.seen > 0, ~crossed, ~broken, ReadLimit >= 2
      PROVE  out # <<>> /\ out[Len(out)] >= reader.seen
  <2>1. /\ reader.seen <= pushed /\ reader.seen <= pushed - Len(list) + n
        /\ 1 <= n /\ n <= MaxSize + 1 /\ n <= Owed
    BY <1>T, <1>4 DEF HistoryInv, Listing
  <2>2. Len(list) >= (IF Owed < MaxSize THEN Owed ELSE MaxSize)
    BY <1>4 DEF HistoryInv, Window
  <2>3. n <= Len(list) + 1 /\ 1 <= Len(list)
    BY <1>T, <2>1, <2>2, SMTT(60)
  <2>4. start < n /\ start + 1 <= stop /\ 1 <= stop /\ (stop = n \/ stop = Len(list))
    BY <1>T, <1>4, <2>1, <2>3, SMTT(30)
  <2> HIDE DEF out, start, stop, n
  <2>5. b <= e /\ e \in 1..Len(list) /\ out = q /\ (e = n \/ e = Len(list))
    BY <1>T, <1>S, <1>3, <2>4
  <2>6. e - b + 1 \in 1..(e - b + 1) /\ b + (e - b + 1) - 1 = e
    BY <1>S, <2>5
  <2>7. Len(q) = e - b + 1 /\ q[e - b + 1] = list[b + (e - b + 1) - 1]
    BY <1>Q, <2>5, <2>6
  <2>8. q[Len(q)] = list[e] /\ Len(q) > 0
    BY <2>6, <2>7
  <2>9. list[e] = pushed - Len(list) + e
    BY <2>5 DEF HistoryInv, Suffix
  <2>10. list[e] >= reader.seen
    BY <1>T, <1>S, <2>1, <2>5, <2>9
  <2>11. q # <<>>
    BY <2>8
  <2>. QED
    BY <2>5, <2>8, <2>10, <2>11
<1> HIDE DEF n, start, stop, out
<1>5. r \in ReadState /\ r.step = "done" /\ r.seen = reader.seen /\ r.out = out
  BY <1>T, <1>3 DEF ReadState
<1> HIDE DEF r
<1>. QED
  BY <1>1, <1>4, <1>5, ReaderMoves

(* The rest of the reader's steps, and the end of the list. *)
LEMMA ReadKeeps ==
  ASSUME HistoryInv, BeginList \/ ListReturns
  PROVE  HistoryInv'
<1> USE HistoryAssumption
<1>T. /\ list \in Seq(Nat) /\ Len(list) \in Nat /\ newest \in Nat /\ pushed \in Nat /\ first \in Nat
      /\ newest <= pushed /\ (newest = 0 \/ first <= newest) /\ Len(list) <= Owed /\ Owed = pushed + 1 - first
  BY DEF HistoryInv, HistoryTypes, Acknowledged, Suffix, Owed
<1>1. CASE BeginList
  <2> DEFINE r == [step |-> "range", n |-> Len(list), seen |-> newest, out |-> <<>>]
  <2>1. r \in ReadState /\ r.step = "range" /\ r.n = Len(list) /\ r.seen = newest
    BY <1>T DEF ReadState
  <2>2. reader' = r /\ UNCHANGED <<list, add, pushed, first, newest, crossed, broken>>
    BY <1>1 DEF BeginList
  <2> HIDE DEF r
  <2>3. ~crossed => Len(list) >= (IF Owed < MaxSize THEN Owed ELSE MaxSize)
    BY DEF HistoryInv, Window
  <2>4. ~crossed /\ ~broken => Len(list) <= MaxSize + 1
    BY DEF HistoryInv, Window
  <2>5. newest > 0 /\ ~crossed => 1 <= Len(list)
    BY <1>T, <2>3
  <2>. QED
    BY <1>T, <2>1, <2>2, <2>4, <2>5, ReaderMoves
<1>2. CASE ListReturns
  <2>1. NotReading \in ReadState /\ NotReading.step = "idle"
    BY DEF NotReading, ReadState
  <2>2. reader' = NotReading /\ UNCHANGED <<list, add, pushed, first, newest, crossed, broken>>
    BY <1>2 DEF ListReturns
  <2>. QED
    BY <2>1, <2>2, ReaderMoves
<1>. QED
  BY <1>1, <1>2

LEMMA DroppedKeeps ==
  ASSUME HistoryInv, Dropped
  PROVE  HistoryInv'
<1> USE HistoryAssumption
<1> DEFINE r == [reader EXCEPT !.seen = 0]
<1>T. HistoryTypes
  BY DEF HistoryInv
<1>1. r \in ReadState /\ r.seen = 0
  BY <1>T DEF HistoryTypes, ReadState
<1>2. /\ list' = <<>> /\ first' = pushed + 1 /\ newest' = 0 /\ reader' = r
      /\ UNCHANGED <<add, pushed, crossed, broken>>
  BY DEF Dropped
<1> HIDE DEF r
<1>3. list' \in Seq(Nat) /\ Len(list') = 0 /\ Owed' = 0
  BY <1>T, <1>2 DEF HistoryTypes, Owed
<1>4. HistoryTypes'
  BY <1>T, <1>1, <1>2, <1>3 DEF HistoryTypes
<1>5. Suffix' /\ Acknowledged'
  BY <1>T, <1>2, <1>3 DEF HistoryInv, HistoryTypes, Suffix, Acknowledged
<1>6. Alone' /\ TrimComes' /\ TrimExact'
  BY <1>2, <1>3 DEF HistoryInv, Alone, Adding, TrimComes, TrimExact
<1>7. Window' /\ Listing' /\ Listed'
  BY <1>1, <1>2, <1>3 DEF Window, Listing, Listed
<1>. QED
  BY <1>4, <1>5, <1>6, <1>7 DEF HistoryInv

LEMMA NextHistoryInv == HistoryInv /\ [Next]_vars => HistoryInv'
<1> SUFFICES ASSUME HistoryInv, [Next]_vars PROVE HistoryInv'
  OBVIOUS
<1>1. CASE UNCHANGED historyVars
  BY <1>1 DEF HistoryInv, HistoryTypes, Suffix, Acknowledged, Alone, Adding, TrimComes, TrimExact,
              Window, Listing, Listed, Owed
<1>2. CASE HistoryNext
  BY <1>2, RPushKeeps, LLenKeeps, LTrimKeeps, AddReturns, ReadKeeps, ListMessagesKeeps, DroppedKeeps
  DEF HistoryNext, ClearConversation, KeyExpires
<1>. QED
  BY <1>1, <1>2 DEF Next, vars

(* However AddMessage calls, listings, Clear and expiry interleave, the     *)
(* list is the end of what was pushed, fits the window at rest, is full     *)
(* when no two calls overlapped, and shows a listing the newest message it  *)
(* was owed.                                                                *)
THEOREM ConversationWindow == Spec => []HistoryWindow
<1>1. ASSUME HistoryInv PROVE HistoryWindow
  <2>1. DOMAIN list = 1..Len(list) /\ Len(list) \in Nat
    BY <1>1 DEF HistoryInv, HistoryTypes
  <2>2. Len(list) <= Owed /\ \A i \in DOMAIN list : list[i] = pushed - Len(list) + i
    BY <1>1, <2>1 DEF HistoryInv, Suffix
  <2>3. (\A a \in Adders : ~Adding(a)) /\ ~broken => Len(list) <= MaxSize
    BY <1>1, <2>1, HistoryAssumption DEF HistoryInv, TrimComes, Adding
  <2>4. ~crossed => Len(list) >= (IF Owed < MaxSize THEN Owed ELSE MaxSize)
    BY <1>1 DEF HistoryInv, Window
  <2>. QED
    BY <1>1, <2>2, <2>3, <2>4 DEF HistoryInv, Listed, HistoryWindow, Owed
<1>2. Init => HistoryInv
  BY InitHistoryInv DEF Init
<1>. QED
  BY <1>1, <1>2, NextHistoryInv, PTL DEF Spec

-----------------------------------------------------------------------------
(* Long-term memory.                                                        *)

(* The before-store hooks of different scopes set different ids. *)
OwnHookIDs == \A s, t \in Scopes : HookIDs[s] \cap HookIDs[t] # {} => s = t

Writing(w) == Storing(w) /\ op[w].step = "write" /\ op[w].id # NoID

(* An entry has the scope of its writer, and a hook's id is of its scope. *)
EntriesOwned ==
  \A i \in Ids : Present(i) =>
    /\ table[i].scope \in Scopes /\ table[i].by = table[i].scope
    /\ \A s \in Scopes : i \in HookIDs[s] => table[i].scope = s

(* Between the look-up and the write of a store nobody else gets its id. *)
WritesOwned ==
  \A w \in Workers : Writing(w) =>
    /\ op[w].id \in Ids
    /\ Present(op[w].id) => table[op[w].id].scope = op[w].scope
    /\ \A s \in Scopes : op[w].id \in HookIDs[s] => op[w].scope = s
    /\ \A v \in Workers : Writing(v) /\ op[v].id = op[w].id => op[v].scope = op[w].scope

OpOK(r) ==
  \/ r = Idle
  \/ /\ r.kind = "store" /\ {"kind", "scope", "step"} \subseteq DOMAIN r /\ r.scope \in Scopes
     /\ r.step = "dedup" => "id" \in DOMAIN r
  \/ /\ r.kind = "recall" /\ {"kind", "scope", "step", "found"} \subseteq DOMAIN r /\ r.scope \in Scopes

OpsTyped == \A w \in Workers : OpOK(op[w])

AckedKept ==
  \A a \in acked : a.id \in Ids /\ Present(a.id) /\ table[a.id].scope = a.scope

FoundOwn == \A w \in Workers : op[w].kind = "recall" => \A f \in op[w].found : f.by = op[w].scope

MemoryInv ==
  /\ backend \in Backends
  /\ DOMAIN table = Ids /\ DOMAIN op = Workers
  /\ OpsTyped /\ EntriesOwned /\ WritesOwned /\ AckedKept /\ FoundOwn

(* The fields of the scope of a top-level run and of a delegated one. *)
LEMMA TopScope ==
  ASSUME Identified, NEW x \in Contexts
  PROVE  \A p : p \in ScopeMetadata(Resolve(x)) <=> \E k \in DefaultKeys \cup ExtraKeys : p = <<k, x[k]>>
<1>1. \A k \in DefaultKeys \cup ExtraKeys : x[k] # ""
  BY DEF Identified
<1>2. DefaultKeys = {"tenant_id", "user_id", "agent_id"}
  BY DEF DefaultKeys
<1> DEFINE s == Resolve(x)
<1>3. /\ s.tenant = x["tenant_id"] /\ s.user = x["user_id"] /\ s.agent = x["agent_id"]
      /\ s.tags = {<<k, x[k]>> : k \in {y \in ExtraKeys : x[y] # ""}}
  BY DEF Resolve
<1> HIDE DEF s
<1>4. \A p : p \in s.tags <=> \E k \in ExtraKeys : p = <<k, x[k]>>
  BY <1>1, <1>3
<1>5. \A p : p \in ScopeMetadata(s) <=>
        \/ p \in {<<"tenant_id", s.tenant>>, <<"user_id", s.user>>, <<"agent_id", s.agent>>} /\ p[2] # ""
        \/ p \in s.tags /\ p[1] \notin DefaultKeys
  BY DEF ScopeMetadata
<1>6. \A p : p \in ScopeMetadata(s) => \E k \in DefaultKeys \cup ExtraKeys : p = <<k, x[k]>>
  BY <1>2, <1>3, <1>4, <1>5
<1>7. ASSUME NEW k \in DefaultKeys \cup ExtraKeys PROVE <<k, x[k]>> \in ScopeMetadata(s)
  <2>1. CASE k \in DefaultKeys
    <3>1. <<k, x[k]>> \in {<<"tenant_id", s.tenant>>, <<"user_id", s.user>>, <<"agent_id", s.agent>>}
      BY <1>2, <1>3, <2>1
    <3>. QED
      BY <1>1, <1>5, <3>1
  <2>2. CASE k \notin DefaultKeys
    <3>1. <<k, x[k]>> \in s.tags /\ <<k, x[k]>>[1] = k
      BY <1>4, <2>2
    <3>. QED
      BY <1>5, <2>2, <3>1
  <2>. QED
    BY <2>1, <2>2
<1>. QED
  BY <1>6, <1>7 DEF s

LEMMA SubScope ==
  ASSUME Identified, NEW x \in Contexts, NEW id \in SubAgents
  PROVE  \A p : p \in ScopeMetadata(SubAgentScope(Resolve(x), id)) <=>
           \/ p \in {<<"tenant_id", x["tenant_id"]>>, <<"user_id", x["user_id"]>>, <<"agent_id", id>>,
                     <<"parent_agent_id", x["agent_id"]>>}
           \/ \E k \in ExtraKeys \ (DefaultKeys \cup {"parent_agent_id"}) : p = <<k, x[k]>>
<1>1. (\A k \in DefaultKeys \cup ExtraKeys : x[k] # "") /\ id # ""
  BY DEF Identified
<1>2. DefaultKeys = {"tenant_id", "user_id", "agent_id"}
  BY DEF DefaultKeys
<1> DEFINE r == Resolve(x)
           s == SubAgentScope(r, id)
<1>3. /\ r.tenant = x["tenant_id"] /\ r.user = x["user_id"] /\ r.agent = x["agent_id"]
      /\ r.tags = {<<k, x[k]>> : k \in {y \in ExtraKeys : x[y] # ""}}
  BY DEF Resolve
<1> HIDE DEF r
<1>4. \A p : p \in r.tags <=> \E k \in ExtraKeys : p = <<k, x[k]>>
  BY <1>1, <1>3
<1>5. r.agent # ""
  BY <1>1, <1>2, <1>3
<1>6. /\ s.tenant = x["tenant_id"] /\ s.user = x["user_id"] /\ s.agent = id
      /\ s.tags = {p \in r.tags : p[1] # "parent_agent_id"} \cup {<<"parent_agent_id", r.agent>>}
  BY <1>3, <1>5 DEF SubAgentScope
<1> HIDE DEF s
<1>7. \A p : p \in s.tags <=> \/ p = <<"parent_agent_id", x["agent_id"]>>
                              \/ \E k \in ExtraKeys \ {"parent_agent_id"} : p = <<k, x[k]>>
  BY <1>3, <1>4, <1>6
<1>8. \A p : p \in ScopeMetadata(s) <=>
        \/ p \in {<<"tenant_id", s.tenant>>, <<"user_id", s.user>>, <<"agent_id", s.agent>>} /\ p[2] # ""
        \/ p \in s.tags /\ p[1] \notin DefaultKeys
  BY DEF ScopeMetadata
<1>9. s.tenant # "" /\ s.user # "" /\ s.agent # ""
  BY <1>1, <1>2, <1>6
<1>10. \A p : p \in s.tags /\ p[1] \notin DefaultKeys <=>
         \/ p = <<"parent_agent_id", x["agent_id"]>>
         \/ \E k \in ExtraKeys \ (DefaultKeys \cup {"parent_agent_id"}) : p = <<k, x[k]>>
  BY <1>2, <1>7
<1>11. \A p : (p \in {<<"tenant_id", s.tenant>>, <<"user_id", s.user>>, <<"agent_id", s.agent>>} /\ p[2] # "") <=>
          p \in {<<"tenant_id", x["tenant_id"]>>, <<"user_id", x["user_id"]>>, <<"agent_id", id>>}
  <2> DEFINE T == {<<"tenant_id", s.tenant>>, <<"user_id", s.user>>, <<"agent_id", s.agent>>}
  <2>1. T = {<<"tenant_id", x["tenant_id"]>>, <<"user_id", x["user_id"]>>, <<"agent_id", id>>}
    BY <1>6
  <2>2. ASSUME NEW p \in T PROVE p[2] # ""
    <3>1. CASE p = <<"tenant_id", s.tenant>>
      BY <1>9, <3>1
    <3>2. CASE p = <<"user_id", s.user>>
      BY <1>9, <3>2
    <3>3. CASE p = <<"agent_id", s.agent>>
      BY <1>9, <3>3
    <3>. QED
      BY <3>1, <3>2, <3>3
  <2> HIDE DEF T
  <2>3. \A p : (p \in T /\ p[2] # "") <=> p \in T
    BY <2>2
  <2>. QED
    BY <2>1, <2>3 DEF T
<1>12. \A p : p \in ScopeMetadata(s) <=>
           \/ p \in {<<"tenant_id", x["tenant_id"]>>, <<"user_id", x["user_id"]>>, <<"agent_id", id>>}
           \/ p = <<"parent_agent_id", x["agent_id"]>>
           \/ \E k \in ExtraKeys \ (DefaultKeys \cup {"parent_agent_id"}) : p = <<k, x[k]>>
  BY <1>8, <1>10, <1>11
<1>. QED
  BY <1>12 DEF s, r

(* No scope is part of another. *)
LEMMA ScopesApart ==
  ASSUME Identified, NEW s \in Scopes, NEW t \in Scopes, s \subseteq t
  PROVE  s = t
<1> DEFINE P == "parent_agent_id"
           K == DefaultKeys \cup ExtraKeys
           IsTop(u) == \E x \in Contexts : u = ScopeMetadata(Resolve(x))
           IsSub(u) == \E x \in Contexts, id \in SubAgents : u = ScopeMetadata(SubAgentScope(Resolve(x), id))
           Keys(u, k) == \E v : <<k, v>> \in u
           Single(u) == \A k, v, w : <<k, v>> \in u /\ <<k, w>> \in u => v = w
           Pairs(u) == \A p \in u : \E k, v : p = <<k, v>>
<1>1. \A u \in Scopes : IsTop(u) \/ IsSub(u)
  BY DEF Scopes, Resolved
<1>D. DefaultKeys = {"tenant_id", "user_id", "agent_id"}
  BY DEF DefaultKeys
<1>2. ASSUME NEW u \in Scopes, IsTop(u)
      PROVE  Single(u) /\ Pairs(u) /\ (\A k : Keys(u, k) <=> k \in K)
             /\ \E x \in Contexts : <<"agent_id", x["agent_id"]>> \in u
  <2>1. PICK x \in Contexts : u = ScopeMetadata(Resolve(x))
    BY <1>2
  <2>2. \A p : p \in u <=> \E k \in K : p = <<k, x[k]>>
    BY <2>1, TopScope
  <2>3. Single(u) /\ Pairs(u)
    BY <2>2
  <2>4. \A k : Keys(u, k) <=> k \in K
    <3>1. ASSUME NEW k, Keys(u, k) PROVE k \in K
      BY <2>2, <3>1
    <3>2. ASSUME NEW k \in K PROVE Keys(u, k)
      <4>1. <<k, x[k]>> \in u
        BY <2>2
      <4>. QED
        BY <4>1
    <3>. QED
      BY <3>1, <3>2
  <2>5. <<"agent_id", x["agent_id"]>> \in u
    BY <1>D, <2>2
  <2>. QED
    BY <2>3, <2>4, <2>5
<1>3. ASSUME NEW u \in Scopes, IsSub(u)
      PROVE  Single(u) /\ Pairs(u) /\ (\A k : Keys(u, k) <=> k \in K \cup {P})
             /\ \E id \in SubAgents : <<"agent_id", id>> \in u
  <2>1. PICK x \in Contexts, id \in SubAgents : u = ScopeMetadata(SubAgentScope(Resolve(x), id))
    BY <1>3
  <2>2. \A p : p \in u <=>
           \/ p = <<"tenant_id", x["tenant_id"]>> \/ p = <<"user_id", x["user_id"]>>
           \/ p = <<"agent_id", id>> \/ p = <<P, x["agent_id"]>>
           \/ \E k \in ExtraKeys \ (DefaultKeys \cup {P}) : p = <<k, x[k]>>
    BY <2>1, SubScope
  <2>3. Single(u) /\ Pairs(u)
    BY <1>D, <2>2
  <2>4. \A k : Keys(u, k) <=> k \in K \cup {P}
    <3>1. ASSUME NEW k, Keys(u, k) PROVE k \in K \cup {P}
      BY <1>D, <2>2, <3>1
    <3>2. ASSUME NEW k \in K \cup {P} PROVE Keys(u, k)
      <4>1. \/ k = "tenant_id" \/ k = "user_id" \/ k = "agent_id" \/ k = P
            \/ k \in ExtraKeys \ (DefaultKeys \cup {P})
        BY <1>D, <3>2
      <4>2. CASE k = "tenant_id" \/ k = "user_id" \/ k = "agent_id" \/ k = P
        BY <2>2, <4>2
      <4>3. CASE k \in ExtraKeys \ (DefaultKeys \cup {P})
        <5>1. <<k, x[k]>> \in u
          BY <2>2, <4>3
        <5>. QED
          BY <5>1
      <4>. QED
        BY <4>1, <4>2, <4>3
    <3>. QED
      BY <3>1, <3>2
  <2>5. <<"agent_id", id>> \in u
    BY <2>2
  <2>. QED
    BY <2>3, <2>4, <2>5
<1>4. Single(s) /\ Single(t) /\ Pairs(s) /\ Pairs(t)
  BY <1>1, <1>2, <1>3
<1>5. (\A k : Keys(t, k) => Keys(s, k)) => s = t
  <2> SUFFICES ASSUME \A k : Keys(t, k) => Keys(s, k), NEW p \in t PROVE p \in s
    OBVIOUS
  <2>1. PICK k, v : p = <<k, v>>
    BY <1>4
  <2>2. PICK w : <<k, w>> \in s
    BY <2>1
  <2>3. v = w
    BY <1>4, <2>1, <2>2
  <2>. QED
    BY <2>1, <2>2, <2>3
<1>6. \A k : Keys(s, k) => Keys(t, k)
  OBVIOUS
<1>7. CASE IsTop(s) /\ IsSub(t)
  <2>1. PICK x \in Contexts : <<"agent_id", x["agent_id"]>> \in t
    BY <1>2, <1>7
  <2>2. PICK id \in SubAgents : <<"agent_id", id>> \in t
    BY <1>3, <1>7
  <2>3. x["agent_id"] = id
    BY <1>4, <2>1, <2>2
  <2>. QED
    BY <2>3 DEF Identified
<1>8. CASE (IsTop(s) /\ IsTop(t)) \/ (IsSub(s) /\ IsSub(t))
  <2>1. \A k : Keys(t, k) => Keys(s, k)
    <3>1. CASE IsTop(s) /\ IsTop(t)
      <4>1. (\A k : Keys(s, k) <=> k \in K) /\ (\A k : Keys(t, k) <=> k \in K)
        BY <1>2, <3>1
      <4> HIDE DEF Keys
      <4>. QED
        BY <4>1
    <3>2. CASE IsSub(s) /\ IsSub(t)
      <4>1. (\A k : Keys(s, k) <=> k \in K \cup {P}) /\ (\A k : Keys(t, k) <=> k \in K \cup {P})
        BY <1>3, <3>2
      <4> HIDE DEF Keys
      <4>. QED
        BY <4>1
    <3>. QED
      BY <1>8, <3>1, <3>2
  <2>. QED
    BY <1>5, <2>1
<1>9. CASE IsSub(s) /\ IsTop(t)
  <2> HIDE DEF Keys
  <2>1. \A k : Keys(s, k) <=> k \in K \cup {P}
    BY <1>3, <1>9
  <2>2. \A k : Keys(t, k) <=> k \in K
    BY <1>2, <1>9
  <2>. QED
    BY <1>5, <1>6, <2>1, <2>2
<1>. QED
  BY <1>1, <1>7, <1>8, <1>9

(* What a back end returns is in the scope it was asked for. *)
LEMMA LoadInScope ==
  ASSUME backend \in Backends, NEW scope, NEW q, NEW kinds, NEW limit, NEW S \in Load(scope, q, kinds, limit)
  PROVE  S \subseteq Ids /\ \A i \in S : Present(i) /\ scope \subseteq table[i].scope
<1>1. backend \in {"pgvector", "weaviate", "inmem"}
  BY MemoryAssumption
<1>2. \A i : InScope(scope, table[i]) => scope \subseteq table[i].scope
  BY <1>1 DEF InScope, buildScopeArgs, scopeWhere, scopeMatches
<1>3. CASE backend = "pgvector"
  <2>1. S \in pgvectorLoad(scope, q, kinds, limit)
    BY <1>3 DEF Load
  <2>. QED
    BY <1>2, <2>1 DEF pgvectorLoad, Top
<1>4. CASE backend = "weaviate"
  <2>1. S \in weaviateLoad(scope, q, kinds, limit)
    BY <1>4 DEF Load
  <2>. QED
    BY <1>2, <2>1 DEF weaviateLoad, Top
<1>5. CASE backend = "inmem"
  <2>1. S \in inmemLoad(scope, q, kinds, limit)
    BY <1>5 DEF Load
  <2>. QED
    BY <1>2, <2>1 DEF inmemLoad, Top
<1>. QED
  BY <1>1, <1>3, <1>4, <1>5

(* A step of one operation that leaves the table alone. *)
LEMMA OpMoves ==
  ASSUME MemoryInv, NEW w \in Workers, NEW r, op' = [op EXCEPT ![w] = r], OpOK(r),
         UNCHANGED <<backend, table, acked>>,
         r.kind = "store" /\ r.step = "write" /\ r.id # NoID =>
           /\ r.id \in Ids
           /\ Present(r.id) => table[r.id].scope = r.scope
           /\ \A s \in Scopes : r.id \in HookIDs[s] => r.scope = s
           /\ \A v \in Workers \ {w} : Writing(v) /\ op[v].id = r.id => op[v].scope = r.scope,
         r.kind = "recall" => \A f \in r.found : f.by = r.scope
  PROVE  MemoryInv'
<1>1. DOMAIN op' = Workers /\ op'[w] = r /\ \A v \in Workers \ {w} : op'[v] = op[v]
  BY DEF MemoryInv
<1>2. OpsTyped'
  BY <1>1 DEF MemoryInv, OpsTyped
<1>3. EntriesOwned' /\ AckedKept'
  BY DEF MemoryInv, EntriesOwned, AckedKept, Present
<1>4. FoundOwn'
  BY <1>1 DEF MemoryInv, FoundOwn
<1>5. WritesOwned'
  <2>1. \A v \in Workers \ {w} : Writing(v)' <=> Writing(v)
    BY <1>1 DEF Writing, Storing
  <2>2. Writing(w)' <=> r.kind = "store" /\ r.step = "write" /\ r.id # NoID
    BY <1>1 DEF Writing, Storing
  <2>3. \A i : Present(i)' <=> Present(i)
    BY DEF Present
  <2>. QED
    BY <1>1, <2>1, <2>2, <2>3 DEF MemoryInv, WritesOwned
<1>. QED
  BY <1>1, <1>2, <1>3, <1>4, <1>5 DEF MemoryInv

LEMMA IdleOK == OpOK(Idle) /\ Idle.kind = "idle"
BY DEF OpOK, Idle

(* The operation ends, or goes on with the next record. *)
LEMMA FailKeeps ==
  ASSUME MemoryInv, NEW w \in Workers, Fail(w), UNCHANGED <<backend, table, acked>>
  PROVE  MemoryInv'
BY IdleOK, OpMoves DEF Fail

LEMMA StoreOpOK ==
  ASSUME NEW scope \in Scopes, NEW recs
  PROVE  OpOK(StoreOp(scope, recs)) /\ StoreOp(scope, recs).kind = "store" /\ StoreOp(scope, recs).step = "next"
BY DEF OpOK, StoreOp

LEMMA NextRecordIs ==
  ASSUME MemoryInv, NEW w \in Workers, Storing(w), NextRecord(w)
  PROVE  \E r : /\ op' = [op EXCEPT ![w] = r] /\ OpOK(r) /\ r.kind \in {"idle", "store"}
                /\ r.kind = "store" => r.step = "next"
<1>1. op[w].scope \in Scopes
  <2>1. OpOK(op[w])
    BY DEF MemoryInv, OpsTyped
  <2>. QED
    BY <2>1, IdleOK DEF OpOK, Storing
<1>2. CASE Len(op[w].recs) = 1
  <2>1. op' = [op EXCEPT ![w] = Idle]
    BY <1>2 DEF NextRecord
  <2>. QED
    BY <2>1, IdleOK
<1>3. CASE Len(op[w].recs) # 1
  <2> DEFINE r == StoreOp(op[w].scope, Tail(op[w].recs))
  <2>1. op' = [op EXCEPT ![w] = r]
    BY <1>3 DEF NextRecord
  <2>2. OpOK(r) /\ r.kind = "store" /\ r.step = "next"
    BY <1>1, StoreOpOK
  <2>. QED
    BY <2>1, <2>2
<1>. QED
  BY <1>2, <1>3

(* A new operation. *)
LEMMA BeginKeeps ==
  ASSUME MemoryInv, NEW w \in Workers,
         executeSaveMemoryTool(w) \/ ExecuteMemoryStore(w) \/ BeginRecall(w)
  PROVE  MemoryInv'
<1>1. ASSUME NEW scope \in Scopes, NEW recs, BeginStore(w, scope, recs) PROVE MemoryInv'
  <2> DEFINE r == StoreOp(scope, recs)
  <2>1. OpOK(r) /\ r.kind = "store" /\ r.step = "next"
    BY StoreOpOK
  <2>2. op' = [op EXCEPT ![w] = r] /\ UNCHANGED <<backend, table, acked>>
    BY <1>1 DEF BeginStore, Begin
  <2> HIDE DEF r
  <2>. QED
    BY <2>1, <2>2, OpMoves
<1>2. CASE BeginRecall(w)
  <2>1. PICK scope \in Scopes, q \in Texts \cup {""}, kinds \in Filters :
          Begin(w, [kind |-> "recall", step |-> "load", scope |-> scope, query |-> q, kinds |-> kinds, found |-> {}])
    BY <1>2 DEF BeginRecall
  <2> DEFINE r == [kind |-> "recall", step |-> "load", scope |-> scope, query |-> q, kinds |-> kinds, found |-> {}]
  <2>2. OpOK(r) /\ r.kind = "recall" /\ r.found = {}
    BY DEF OpOK
  <2>3. op' = [op EXCEPT ![w] = r] /\ UNCHANGED <<backend, table, acked>>
    BY <2>1 DEF Begin
  <2> HIDE DEF r
  <2>. QED
    BY <2>2, <2>3, OpMoves
<1>3. CASE executeSaveMemoryTool(w)
  <2>1. PICK scope \in Scopes, t \in Texts \cup {""}, k \in Kinds \cup {""} :
          BeginStore(w, scope, parseSaveMemoryToolArgs([text |-> t, kind |-> k]))
    BY <1>3 DEF executeSaveMemoryTool
  <2>. QED
    BY <1>1, <2>1
<1>4. CASE ExecuteMemoryStore(w)
  <2>1. PICK scope \in Scopes, msgs \in Talks, reply \in Replies :
          BeginStore(w, scope, extractMemoriesWithLLM(msgs, reply))
    BY <1>4 DEF ExecuteMemoryStore
  <2>. QED
    BY <1>1, <2>1
<1>. QED
  BY <1>2, <1>3, <1>4

LEMMA StoringScope ==
  ASSUME MemoryInv, NEW w \in Workers, Storing(w)
  PROVE  /\ op[w].kind = "store" /\ op[w].scope \in Scopes
         /\ {"kind", "scope", "step"} \subseteq DOMAIN op[w]
         /\ op[w].step = "dedup" => "id" \in DOMAIN op[w]
<1>1. OpOK(op[w])
  BY DEF MemoryInv, OpsTyped
<1>. QED
  BY <1>1, IdleOK DEF OpOK, Storing

(* The hooks and the kind of a record: an id that a hook sets is of the scope. *)
LEMMA RecordKeeps ==
  ASSUME OwnHookIDs, MemoryInv, NEW w \in Workers, storeRecord(w)
  PROVE  MemoryInv'
<1>1. Storing(w) /\ UNCHANGED <<backend, table, acked>>
  BY DEF storeRecord
<1>2. op[w].scope \in Scopes
  BY <1>1, StoringScope
<1>3. CASE Fail(w)
  BY <1>1, <1>3, FailKeeps
<1>4. CASE NextRecord(w)
  BY <1>1, <1>4, NextRecordIs, OpMoves
<1>5. ASSUME NEW id \in HookIDs[op[w].scope] \cup {NoID}, NEW step, NEW rec,
             step = (IF id = NoID THEN "dedup" ELSE "write"),
             op' = [op EXCEPT ![w] = [kind |-> "store", scope |-> op[w].scope, recs |-> op[w].recs, id |-> id,
                                      step |-> step, rec |-> rec]]
      PROVE  MemoryInv'
  <2> DEFINE r == [kind |-> "store", scope |-> op[w].scope, recs |-> op[w].recs, id |-> id, step |-> step, rec |-> rec]
  <2>1. r.kind = "store" /\ r.scope = op[w].scope /\ r.step = step /\ r.id = id /\ OpOK(r)
    BY <1>2 DEF OpOK
  <2>2. op' = [op EXCEPT ![w] = r]
    BY <1>5
  <2> HIDE DEF r
  <2>3. CASE id = NoID
    BY <1>1, <2>1, <2>2, <2>3, OpMoves
  <2>4. CASE id # NoID
    <3>1. id \in HookIDs[r.scope] /\ r.scope \in Scopes /\ id \in Ids
      BY <1>2, <1>5, <2>1, <2>4, MemoryAssumption
    <3>2. Present(id) => table[id].scope = r.scope
      BY <3>1 DEF MemoryInv, EntriesOwned
    <3>3. \A s \in Scopes : id \in HookIDs[s] => r.scope = s
      BY <3>1 DEF OwnHookIDs
    <3>4. \A v \in Workers \ {w} : Writing(v) /\ op[v].id = id => op[v].scope = r.scope
      BY <3>1 DEF MemoryInv, WritesOwned
    <3>. QED
      BY <1>1, <2>1, <2>2, <3>1, <3>2, <3>3, <3>4, OpMoves
  <2>. QED
    BY <2>3, <2>4
<1>. QED
  <2>1. SUFFICES ASSUME NEW h \in RunBeforeMemoryStore(op[w].scope), ~h.blank,
                        op' = [op EXCEPT ![w] = [kind |-> "store", scope |-> op[w].scope, recs |-> op[w].recs, id |-> h.id,
                                  step |-> IF h.id = NoID THEN "dedup" ELSE "write",
                                  rec |-> [text |-> Head(op[w].recs).text, kind |-> ResolveKind(Head(op[w].recs).kind)]]]
                 PROVE  MemoryInv'
    BY <1>3, <1>4 DEF storeRecord
  <2>2. h.id \in HookIDs[op[w].scope] \cup {NoID}
    BY <2>1 DEF RunBeforeMemoryStore
  <2>. QED
    BY <1>5, <2>1, <2>2

(* The look-up for a near duplicate: the entry it finds has the scope. *)
LEMMA DedupKeeps ==
  ASSUME Identified, MemoryInv, NEW w \in Workers, dedupStoreOptions(w)
  PROVE  MemoryInv'
<1>1. Storing(w) /\ op[w].step = "dedup" /\ UNCHANGED <<backend, table, acked>>
  BY DEF dedupStoreOptions
<1>2. /\ op[w].kind = "store" /\ op[w].scope \in Scopes /\ "id" \in DOMAIN op[w]
      /\ {"kind", "scope", "step"} \subseteq DOMAIN op[w]
  BY <1>1, StoringScope
<1>3. CASE Fail(w)
  BY <1>1, <1>3, FailKeeps
<1>4. ASSUME NEW S \in dedupLookup(op[w]), NEW id, id = (IF S = {} THEN NoID ELSE CHOOSE i \in S : TRUE),
             op' = [op EXCEPT ![w] = [op[w] EXCEPT !.step = "write", !.id = id]]
      PROVE  MemoryInv'
  <2> DEFINE r == [op[w] EXCEPT !.step = "write", !.id = id]
  <2>1. r.kind = "store" /\ r.scope = op[w].scope /\ r.step = "write" /\ r.id = id /\ DOMAIN r = DOMAIN op[w]
    BY <1>2
  <2>2. op' = [op EXCEPT ![w] = r]
    BY <1>4
  <2> HIDE DEF r
  <2>3. OpOK(r)
    BY <1>2, <2>1 DEF OpOK
  <2>4. CASE id = NoID
    BY <1>1, <2>1, <2>2, <2>3, <2>4, OpMoves
  <2>5. CASE id # NoID
    <3>1. id \in S
      BY <1>4, <2>5
    <3>2. id \in Ids /\ Present(id) /\ op[w].scope \subseteq table[id].scope
      BY <1>4, <3>1, LoadInScope DEF dedupLookup, MemoryInv
    <3>3. table[id].scope \in Scopes /\ \A s \in Scopes : id \in HookIDs[s] => table[id].scope = s
      BY <3>2 DEF MemoryInv, EntriesOwned
    <3>4. table[id].scope = r.scope
      BY <1>2, <2>1, <3>2, <3>3, ScopesApart
    <3>5. \A v \in Workers \ {w} : Writing(v) /\ op[v].id = id => op[v].scope = r.scope
      BY <3>2, <3>4 DEF MemoryInv, WritesOwned
    <3>. QED
      BY <1>1, <2>1, <2>2, <2>3, <3>2, <3>3, <3>4, <3>5, OpMoves
  <2>. QED
    BY <2>4, <2>5
<1>. QED
  BY <1>3, <1>4 DEF dedupStoreOptions

(* A recall's loads: what they find was written in the recall's scope. *)
LEMMA RecallKeeps ==
  ASSUME Identified, MemoryInv, NEW w \in Workers, RecallLoad(w) \/ RecallRecency(w) \/ RecallDone(w)
  PROVE  MemoryInv'
<1>1. op[w].kind = "recall" /\ UNCHANGED <<backend, table, acked>>
  BY DEF RecallLoad, RecallRecency, RecallDone
<1>2. op[w].scope \in Scopes /\ {"kind", "scope", "step", "found"} \subseteq DOMAIN op[w]
  <2>1. OpOK(op[w])
    BY DEF MemoryInv, OpsTyped
  <2>. QED
    BY <1>1, <2>1, IdleOK DEF OpOK
<1>3. CASE Fail(w)
  BY <1>1, <1>3, FailKeeps
<1>4. ASSUME NEW q, NEW kinds, NEW S \in Load(op[w].scope, q, kinds, Limit), NEW step,
             op' = [op EXCEPT ![w] = [op[w] EXCEPT !.step = step, !.found = FormatMemoryEntries(S)]]
      PROVE  MemoryInv'
  <2> DEFINE F == FormatMemoryEntries(S)
             r == [op[w] EXCEPT !.step = step, !.found = F]
  <2>1. ASSUME NEW f \in F PROVE f.by = op[w].scope
    <3>1. PICK i \in S : f = [text |-> table[i].text, by |-> table[i].by]
      BY DEF FormatMemoryEntries
    <3>2. i \in Ids /\ Present(i) /\ op[w].scope \subseteq table[i].scope
      BY LoadInScope DEF MemoryInv
    <3>3. table[i].scope \in Scopes /\ table[i].by = table[i].scope
      BY <3>2 DEF MemoryInv, EntriesOwned
    <3>4. table[i].scope = op[w].scope
      BY <1>2, <3>2, <3>3, ScopesApart
    <3>. QED
      BY <3>1, <3>3, <3>4
  <2> HIDE DEF F
  <2>2. r.kind = "recall" /\ r.scope = op[w].scope /\ r.found = F /\ DOMAIN r = DOMAIN op[w]
    BY <1>1, <1>2
  <2>3. op' = [op EXCEPT ![w] = r]
    BY <1>4 DEF F
  <2> HIDE DEF r
  <2>4. OpOK(r)
    BY <1>2, <2>2 DEF OpOK
  <2>. QED
    BY <1>1, <2>1, <2>2, <2>3, <2>4, OpMoves
<1>5. CASE RecallLoad(w)
  BY <1>3, <1>4, <1>5, Zenon DEF RecallLoad, loadOptionsFromCall
<1>6. CASE RecallRecency(w)
  BY <1>3, <1>4, <1>6 DEF RecallRecency, RecencyLoadOptions
<1>. QED
  BY <1>3, <1>5, <1>6 DEF RecallDone

(* What a store writes has the writer's scope: the fields Weaviate keeps from *)
(* the object it merges into are none, since that object had the same scope.  *)
LEMMA WrittenScope ==
  ASSUME backend \in Backends, NEW id, NEW scope, NEW rec, Present(id) => table[id].scope = scope
  PROVE  LET e == Written(id, scope, rec) IN e.scope = scope /\ e.by = scope /\ e # NoEntry
<1>1. backend \in {"pgvector", "weaviate", "inmem"}
  BY MemoryAssumption
<1>2. CASE backend = "pgvector"
  <2>1. Written(id, scope, rec) = pgvectorStore(id, scope, rec)
    BY <1>2 DEF Written
  <2>. QED
    BY <2>1 DEF pgvectorStore, NoEntry
<1>3. CASE backend = "inmem"
  <2>1. Written(id, scope, rec) = inmemStore(id, scope, rec)
    BY <1>3 DEF Written
  <2>. QED
    BY <2>1 DEF inmemStore, NoEntry
<1>4. CASE backend = "weaviate"
  <2>1. Written(id, scope, rec) = buildProperties(id, scope, rec)
    BY <1>4 DEF Written
  <2> DEFINE keys == {p[1] : p \in scope}
             kept == IF Present(id) THEN {p \in table[id].scope : p[1] \notin keys} ELSE {}
  <2>2. scope \cup kept = scope
    OBVIOUS
  <2>3. \E x : buildProperties(id, scope, rec) =
                 [text |-> rec.text, kind |-> rec.kind, scope |-> scope \cup kept, updated |-> clock, by |-> scope,
                  expires |-> x]
    BY DEF buildProperties
  <2> HIDE DEF kept
  <2>. QED
    BY <2>1, <2>2, <2>3 DEF NoEntry
<1>. QED
  BY <1>1, <1>2, <1>3, <1>4

(* The write of a store, at an id no other scope has or is about to write. *)
LEMMA WriteKeeps ==
  ASSUME MemoryInv, NEW w \in Workers, NEW id \in Ids, NEW scope \in Scopes, NEW e, NEW r,
         e.scope = scope, e.by = scope, e # NoEntry,
         Present(id) => table[id].scope = scope,
         \A s \in Scopes : id \in HookIDs[s] => scope = s,
         \A v \in Workers : Writing(v) /\ op[v].id = id => op[v].scope = scope,
         OpOK(r), r.kind \in {"idle", "store"}, r.kind = "store" => r.step = "next",
         op' = [op EXCEPT ![w] = r], table' = [table EXCEPT ![id] = e],
         acked' = acked \cup {[scope |-> scope, id |-> id]}, UNCHANGED backend
  PROVE  MemoryInv'
<1>1. DOMAIN op' = Workers /\ op'[w] = r /\ \A v \in Workers \ {w} : op'[v] = op[v]
  BY DEF MemoryInv
<1>2. DOMAIN table' = Ids /\ table'[id] = e /\ \A i \in Ids \ {id} : table'[i] = table[i]
  BY DEF MemoryInv
<1>3. Present(id)' /\ \A i \in Ids \ {id} : Present(i)' <=> Present(i)
  BY <1>2 DEF Present
<1>4. ~Writing(w)' /\ \A v \in Workers \ {w} : Writing(v)' <=> Writing(v)
  BY <1>1 DEF Writing, Storing
<1>5. OpsTyped'
  BY <1>1 DEF MemoryInv, OpsTyped
<1>6. EntriesOwned'
  BY <1>2, <1>3 DEF MemoryInv, EntriesOwned
<1>7. FoundOwn'
  BY <1>1 DEF MemoryInv, FoundOwn
<1>8. AckedKept'
  <2>1. SUFFICES ASSUME NEW a \in acked' PROVE a.id \in Ids /\ Present(a.id)' /\ table'[a.id].scope = a.scope
    BY DEF AckedKept
  <2>2. CASE a = [scope |-> scope, id |-> id]
    BY <1>2, <1>3, <2>2
  <2>3. CASE a \in acked
    <3>1. a.id \in Ids /\ Present(a.id) /\ table[a.id].scope = a.scope
      BY <2>3 DEF MemoryInv, AckedKept
    <3>2. CASE a.id = id
      BY <1>2, <1>3, <3>1, <3>2
    <3>3. CASE a.id # id
      BY <1>2, <1>3, <3>1, <3>3
    <3>. QED
      BY <3>2, <3>3
  <2>. QED
    BY <2>1, <2>2, <2>3
<1>9. WritesOwned'
  <2>1. SUFFICES ASSUME NEW v \in Workers, Writing(v)'
                 PROVE  /\ op'[v].id \in Ids
                        /\ Present(op[v].id)' => table'[op'[v].id].scope = op'[v].scope
                        /\ \A s \in Scopes : op'[v].id \in HookIDs[s] => op'[v].scope = s
                        /\ \A u \in Workers : Writing(u)' /\ op'[u].id = op'[v].id => op'[u].scope = op'[v].scope
    BY DEF WritesOwned
  <2>2. v # w /\ op'[v] = op[v] /\ Writing(v)
    BY <1>1, <1>4, <2>1
  <2>3. /\ op[v].id \in Ids
        /\ Present(op[v].id) => table[op[v].id].scope = op[v].scope
        /\ \A s \in Scopes : op[v].id \in HookIDs[s] => op[v].scope = s
        /\ \A u \in Workers : Writing(u) /\ op[u].id = op[v].id => op[u].scope = op[v].scope
    BY <2>2 DEF MemoryInv, WritesOwned
  <2>4. Present(op[v].id)' => table'[op[v].id].scope = op[v].scope
    BY <1>2, <1>3, <2>2, <2>3
  <2>5. \A u \in Workers : Writing(u)' /\ op'[u].id = op[v].id => op'[u].scope = op[v].scope
    BY <1>1, <1>4, <2>3
  <2>. QED
    BY <2>2, <2>3, <2>4, <2>5
<1>. QED
  BY <1>1, <1>2, <1>5, <1>6, <1>7, <1>8, <1>9 DEF MemoryInv

LEMMA StoreKeeps ==
  ASSUME MemoryInv, NEW w \in Workers, Store(w)
  PROVE  MemoryInv'
<1>1. Storing(w) /\ op[w].step = "write" /\ UNCHANGED backend
  BY DEF Store
<1>2. op[w].scope \in Scopes
  BY <1>1, StoringScope
<1>3. CASE Fail(w) /\ UNCHANGED <<table, acked>>
  BY <1>1, <1>3, FailKeeps
<1>4. ASSUME NEW id \in IF op[w].id = NoID THEN NewID ELSE {op[w].id},
             table' = [table EXCEPT ![id] = Written(id, op[w].scope, op[w].rec)],
             acked' = acked \cup {[scope |-> op[w].scope, id |-> id]},
             RunAfterMemoryStore(w)
      PROVE  MemoryInv'
  <2>1. /\ id \in Ids
        /\ Present(id) => table[id].scope = op[w].scope
        /\ \A s \in Scopes : id \in HookIDs[s] => op[w].scope = s
        /\ \A v \in Workers : Writing(v) /\ op[v].id = id => op[v].scope = op[w].scope
    <3>1. CASE op[w].id = NoID
      <4>1. id \in Fresh
        BY <1>4, <3>1 DEF NewID
      <4>2. id \in Ids /\ id \notin HookGiven /\ ~Present(id) /\ \A v \in Workers : Writing(v) => op[v].id # id
        BY <4>1 DEF Fresh, Writing
      <4>. QED
        BY <4>2 DEF HookGiven
    <3>2. CASE op[w].id # NoID
      <4>1. id = op[w].id /\ Writing(w)
        BY <1>1, <1>4, <3>2 DEF Writing
      <4>. QED
        BY <4>1 DEF MemoryInv, WritesOwned
    <3>. QED
      BY <3>1, <3>2
  <2> DEFINE e == Written(id, op[w].scope, op[w].rec)
  <2>2. e.scope = op[w].scope /\ e.by = op[w].scope /\ e # NoEntry
    BY <2>1, WrittenScope DEF MemoryInv
  <2>3. table' = [table EXCEPT ![id] = e]
    BY <1>4
  <2> HIDE DEF e
  <2>4. PICK r : /\ op' = [op EXCEPT ![w] = r] /\ OpOK(r) /\ r.kind \in {"idle", "store"}
                 /\ r.kind = "store" => r.step = "next"
    <3>1. CASE Fail(w)
      BY <3>1, IdleOK DEF Fail
    <3>2. CASE NextRecord(w)
      BY <1>1, <3>2, NextRecordIs
    <3>. QED
      BY <1>4, <3>1, <3>2 DEF RunAfterMemoryStore
  <2>. QED
    <3>1. PICK scope \in Scopes : scope = op[w].scope
      BY <1>2
    <3>2. acked' = acked \cup {[scope |-> scope, id |-> id]}
      BY <1>4, <3>1
    <3>3. e.scope = scope /\ e.by = scope /\ (Present(id) => table[id].scope = scope)
      BY <2>1, <2>2, <3>1
    <3>4. /\ \A s \in Scopes : id \in HookIDs[s] => scope = s
          /\ \A v \in Workers : Writing(v) /\ op[v].id = id => op[v].scope = scope
      BY <2>1, <3>1
    <3>. QED
      BY <1>1, <2>1, <2>2, <2>3, <2>4, <3>2, <3>3, <3>4, WriteKeeps
<1>. QED
  BY <1>3, <1>4 DEF Store

(* Clearing a scope takes away the entries of that scope and their memories. *)
LEMMA ClearKeeps ==
  ASSUME MemoryInv, NEW scope, Clear(scope)
  PROVE  MemoryInv'
<1> DEFINE Gone(i) == Present(i) /\ InScope(scope, table[i])
<1>1. /\ UNCHANGED <<backend, op>>
      /\ table' = [i \in Ids |-> IF Gone(i) THEN NoEntry ELSE table[i]]
      /\ acked' = {a \in acked : ~Gone(a.id)}
  BY DEF Clear
<1> HIDE DEF Gone
<1>2. DOMAIN table' = Ids /\ \A i \in Ids : table'[i] = IF Gone(i) THEN NoEntry ELSE table[i]
  BY <1>1
<1>3. \A i \in Ids : Present(i)' => Present(i) /\ table'[i] = table[i]
  BY <1>2 DEF Present
<1>4. EntriesOwned'
  BY <1>3 DEF MemoryInv, EntriesOwned
<1>5. AckedKept'
  BY <1>1, <1>2 DEF MemoryInv, AckedKept, Present
<1>6. OpsTyped' /\ FoundOwn'
  BY <1>1 DEF MemoryInv, OpsTyped, FoundOwn
<1>7. WritesOwned'
  <2>1. \A v \in Workers : Writing(v)' <=> Writing(v)
    BY <1>1 DEF Writing, Storing
  <2>. QED
    BY <1>1, <1>3, <2>1 DEF MemoryInv, WritesOwned
<1>. QED
  BY <1>1, <1>2, <1>4, <1>5, <1>6, <1>7 DEF MemoryInv

LEMMA MemoryUnchanged ==
  ASSUME MemoryInv, UNCHANGED <<backend, table, op, acked>>
  PROVE  MemoryInv'
BY DEF MemoryInv, OpsTyped, EntriesOwned, WritesOwned, AckedKept, FoundOwn, Writing, Storing, Present

LEMMA InitMemoryInv == MemoryInit => MemoryInv
<1> SUFFICES ASSUME MemoryInit PROVE MemoryInv
  OBVIOUS
<1>1. backend \in Backends /\ acked = {} /\ table = [i \in Ids |-> NoEntry] /\ op = [w \in Workers |-> Idle]
  BY DEF MemoryInit
<1>2. \A i \in Ids : ~Present(i)
  BY <1>1 DEF Present
<1>3. \A w \in Workers : op[w] = Idle /\ op[w].kind = "idle"
  BY <1>1, IdleOK
<1>4. \A w \in Workers : ~Writing(w)
  BY <1>3 DEF Writing, Storing
<1>. QED
  BY <1>1, <1>2, <1>3, <1>4 DEF MemoryInv, OpsTyped, OpOK, EntriesOwned, WritesOwned, AckedKept, FoundOwn

LEMMA NextMemoryInv ==
  ASSUME Identified, OwnHookIDs, MemoryInv, [Next]_vars
  PROVE  MemoryInv'
<1>1. CASE MemoryNext
  <2>1. CASE Tick
    BY <2>1, MemoryUnchanged DEF Tick
  <2>2. CASE \E s \in Scopes : Clear(s)
    BY <2>2, ClearKeeps
  <2>3. ASSUME NEW w \in Workers,
               \/ executeSaveMemoryTool(w) \/ ExecuteMemoryStore(w)
               \/ storeRecord(w) \/ dedupStoreOptions(w) \/ Store(w)
               \/ BeginRecall(w) \/ RecallLoad(w) \/ RecallRecency(w) \/ RecallDone(w)
        PROVE  MemoryInv'
    BY <2>3, BeginKeeps, RecordKeeps, DedupKeeps, StoreKeeps, RecallKeeps
  <2>. QED
    BY <1>1, <2>1, <2>2, <2>3 DEF MemoryNext
<1>2. CASE UNCHANGED memoryVars
  BY <1>2, MemoryUnchanged DEF memoryVars
<1>. QED
  BY <1>1, <1>2 DEF Next, vars

(* A memory whose store succeeded stays recallable in its scope until the    *)
(* scope clears it, for every back end, number of concurrent stores and      *)
(* recalls, context and policy, when hooks of different scopes set different *)
(* ids (AgentMemory.OwnMemoriesKept; base/memory.go dedupStoreOptions and    *)
(* the back ends' Store).                                                    *)
THEOREM MemoriesKept ==
  ASSUME OwnHookIDs
  PROVE  Spec => []OwnMemoriesKept
<1> DEFINE IInv == Identified => MemoryInv
<1>1. Init => IInv
  BY InitMemoryInv DEF Init
<1>2. IInv /\ [Next]_vars => IInv'
  <2>1. Identified' <=> Identified
    BY DEF Identified, DefaultKeys
  <2>. QED
    BY <2>1, NextMemoryInv
<1>3. IInv => OwnMemoriesKept
  <2>1. SUFFICES ASSUME Identified, MemoryInv, NEW a \in acked PROVE Present(a.id) /\ InScope(a.scope, table[a.id])
    BY DEF OwnMemoriesKept
  <2>2. Present(a.id) /\ table[a.id].scope = a.scope
    BY <2>1 DEF MemoryInv, AckedKept
  <2>3. backend \in {"pgvector", "weaviate", "inmem"}
    BY <2>1, MemoryAssumption DEF MemoryInv
  <2>4. a.scope \subseteq table[a.id].scope
    BY <2>2
  <2>. QED
    BY <2>2, <2>3, <2>4 DEF InScope, buildScopeArgs, scopeWhere, scopeMatches
<1> HIDE DEF IInv
<1>. QED
  BY <1>1, <1>2, <1>3, PTL DEF Spec

(* What a recall puts into the prompt was written in the recall's own scope, *)
(* under the same hypothesis (AgentMemory.PromptIsolated; base/runtime.go    *)
(* ExecuteMemoryRecall with its recency fallback).                           *)
THEOREM PromptsIsolated ==
  ASSUME OwnHookIDs
  PROVE  Spec => []PromptIsolated
<1> DEFINE IInv == Identified => MemoryInv
<1>1. Init => IInv
  BY InitMemoryInv DEF Init
<1>2. IInv /\ [Next]_vars => IInv'
  <2>1. Identified' <=> Identified
    BY DEF Identified, DefaultKeys
  <2>. QED
    BY <2>1, NextMemoryInv
<1>3. IInv => PromptIsolated
  BY DEF PromptIsolated, MemoryInv, FoundOwn
<1> HIDE DEF IInv
<1>. QED
  BY <1>1, <1>2, <1>3, PTL DEF Spec

-----------------------------------------------------------------------------
(* LLM calls: what was shown is what the run goes on with.                  *)

(* A set of numbers that is not empty has a least one. *)
LEMMA LeastNat ==
  ASSUME NEW S, S \subseteq Nat, S # {}
  PROVE  \E x \in S : \A y \in S : ~(y < x)
<1>1. PICK R : R = OpToRel(<, Nat)
  OBVIOUS
<1>2. IsWellFoundedOn(OpToRel(<, Nat), Nat)
  BY NatLessThanWellFounded
<1>3. IsWellFoundedOn(R, Nat)
  BY <1>1, <1>2
<1>4. \E x \in S : \A y \in S : ~(<<y, x>> \in R)
  BY <1>3, WFMin
<1>5. \A x, y \in Nat : y < x => <<y, x>> \in R
  BY <1>1 DEF OpToRel
<1>. QED
  BY <1>4, <1>5

(* Induction up to a bound, on a set. *)
LEMMA UpTo ==
  ASSUME NEW n \in Nat, NEW S, 1 \in S \/ n = 0, \A i \in 1..n : i < n /\ i \in S => i + 1 \in S
  PROVE  \A i \in 1..n : i \in S
<1>1. SUFFICES ASSUME (1..n) \ S # {} PROVE FALSE
  OBVIOUS
<1>2. PICK x \in (1..n) \ S : \A y \in (1..n) \ S : ~(y < x)
  <2>1. PICK M : M = (1..n) \ S
    OBVIOUS
  <2>2. M \subseteq Nat /\ M # {}
    BY <1>1, <2>1
  <2>3. \E x \in M : \A y \in M : ~(y < x)
    BY <2>2, LeastNat
  <2>. QED
    BY <2>1, <2>3
<1>3. x # 1 /\ x - 1 \in 1..n /\ x - 1 < x /\ x - 1 < n /\ (x - 1) + 1 = x
  BY <1>2
<1>. QED
  BY <1>2, <1>3

(* What FlattenSeq makes of the first i pieces. *)
Joins(s, F, i) == IF i = 1 THEN s[i] ELSE F[i - 1] \o s[i]
Flattens(s, F) == F = [i \in 1..Len(s) |-> Joins(s, F, i)]

(* The function FlattenSeq is defined by exists, so CHOOSE finds it. *)
LEMMA FlattenExists ==
  ASSUME NEW A, NEW s \in Seq(A)
  PROVE  \E F : Flattens(s, F)
<1> DEFINE n == Len(s)
           Part(k, G) == \A i \in 1..k : G[i] = Joins(s, G, i)
           S == {k \in 1..n : \E G : Part(k, G)}
<1>1. n \in Nat
  OBVIOUS
<1>2. 1 \in S \/ n = 0
  <2> DEFINE G == [i \in {1} |-> s[1]]
  <2>1. Part(1, G)
    BY DEF Joins
  <2> HIDE DEF Part
  <2>. QED
    BY <2>1, <1>1
<1>3. ASSUME NEW k \in 1..n, k < n, k \in S
      PROVE  k + 1 \in S
  <2>1. PICK G : Part(k, G)
    BY <1>3
  <2> DEFINE H == [i \in 1..(k + 1) |-> IF i <= k THEN G[i] ELSE Joins(s, G, i)]
  <2>2. \A i \in 1..k : H[i] = G[i]
    OBVIOUS
  <2>3. H[k + 1] = Joins(s, G, k + 1)
    OBVIOUS
  <2> HIDE DEF H
  <2>4. ASSUME NEW i \in 1..(k + 1) PROVE H[i] = Joins(s, H, i)
    <3>1. Joins(s, G, i) = Joins(s, H, i)
      <4>1. i = 1 \/ (i - 1 \in 1..k)
        OBVIOUS
      <4>. QED
        BY <4>1, <2>2 DEF Joins
    <3>2. CASE i = k + 1
      BY <3>1, <3>2, <2>3
    <3>3. CASE i \in 1..k
      BY <3>1, <3>3, <2>1, <2>2
    <3>. QED
      BY <3>2, <3>3
  <2>5. Part(k + 1, H)
    BY <2>4
  <2>6. k + 1 \in 1..n
    BY <1>1, <1>3
  <2> HIDE DEF Part
  <2>. QED
    BY <2>5, <2>6
<1> HIDE DEF S
<1>4. n = 0 \/ n \in S
  <2>1. \A k \in 1..n : k < n /\ k \in S => k + 1 \in S
    BY <1>3
  <2> HIDE DEF n
  <2>2. \A k \in 1..n : k \in S
    BY <1>1, <1>2, <2>1, UpTo
  <2>. QED
    BY <1>1, <2>2
<1>5. \E G : Part(n, G)
  <2>1. n = 0 => Part(n, s)
    OBVIOUS
  <2>. QED
    BY <1>4, <2>1 DEF S
<1>6. PICK G : Part(n, G)
  BY <1>5
<1> DEFINE F == [i \in 1..n |-> G[i]]
<1>7. \A i \in 1..n : Joins(s, G, i) = Joins(s, F, i)
  BY <1>1 DEF Joins
<1>8. F = [i \in 1..n |-> Joins(s, F, i)]
  <2>1. \A i \in 1..n : F[i] = Joins(s, F, i)
    BY <1>6, <1>7
  <2> HIDE DEF F
  <2>2. F = [i \in 1..n |-> F[i]]
    BY DEF F
  <2>. QED
    BY <2>1, <2>2
<1>. QED
  BY <1>8 DEF Flattens

(* FlattenSeq is its last value. *)
LEMMA FlattenIs ==
  ASSUME NEW A, NEW s \in Seq(A), Len(s) # 0
  PROVE  \E F : Flattens(s, F) /\ FlattenSeq(s) = F[Len(s)]
<1> DEFINE G == CHOOSE F : Flattens(s, F)
<1>1. Flattens(s, G)
  BY FlattenExists
<1>2. FlattenSeq(s) = G[Len(s)]
  BY DEF FlattenSeq, Flattens, Joins
<1>. QED
  BY <1>1, <1>2

(* One piece more. *)
LEMMA FlattenAppend ==
  ASSUME NEW T, NEW s \in Seq(Seq(T)), NEW x \in Seq(T)
  PROVE  FlattenSeq(Append(s, x)) = FlattenSeq(s) \o x
<1> DEFINE n == Len(s)
           u == Append(s, x)
<1>1. n \in Nat /\ u \in Seq(Seq(T)) /\ Len(u) = n + 1 /\ u[n + 1] = x /\ \A i \in 1..n : u[i] = s[i]
  OBVIOUS
<1> HIDE DEF u
<1>2. PICK G : Flattens(u, G) /\ FlattenSeq(u) = G[n + 1]
  BY <1>1, FlattenIs
<1>3. \A i \in 1..(n + 1) : G[i] = Joins(u, G, i)
  BY <1>1, <1>2 DEF Flattens
<1>4. CASE n = 0
  <2>1. FlattenSeq(s) = <<>>
    BY <1>4 DEF FlattenSeq
  <2>2. G[1] = x
    BY <1>1, <1>3, <1>4 DEF Joins
  <2>3. <<>> \o x = x
    OBVIOUS
  <2>. QED
    BY <1>2, <1>4, <2>1, <2>2, <2>3 DEF u
<1>5. CASE n # 0
  <2>1. PICK F : Flattens(s, F) /\ FlattenSeq(s) = F[n]
    BY <1>5, FlattenIs
  <2>2. \A i \in 1..n : F[i] = Joins(s, F, i)
    BY <2>1 DEF Flattens
  <2> DEFINE S == {i \in 1..n : F[i] = G[i]}
  <2>3. 1 \in S
    <3>1. 1 \in 1..n /\ 1 \in 1..(n + 1)
      BY <1>1, <1>5
    <3>. QED
      BY <1>1, <1>3, <2>2, <3>1 DEF Joins
  <2>4. ASSUME NEW i \in 1..n, i < n, i \in S PROVE i + 1 \in S
    <3>1. i + 1 \in 1..n /\ i + 1 \in 1..(n + 1) /\ i + 1 # 1 /\ (i + 1) - 1 = i
      BY <1>1, <2>4, SMTT(60)
    <3>. QED
      BY <1>1, <1>3, <2>2, <2>4, <3>1 DEF Joins
  <2> HIDE DEF S
  <2>5. \A i \in 1..n : i \in S
    <3> HIDE DEF n
    <3>. QED
      BY <1>1, <2>3, <2>4, UpTo
  <2>6. F[n] = G[n]
    BY <1>1, <1>5, <2>5 DEF S
  <2>7. n + 1 \in 1..(n + 1) /\ n + 1 # 1 /\ (n + 1) - 1 = n
    BY <1>1, <1>5
  <2>8. G[n + 1] = G[n] \o x
    BY <1>1, <1>3, <2>7 DEF Joins
  <2>. QED
    BY <1>2, <2>1, <2>6, <2>8 DEF u
<1>. QED
  BY <1>4, <1>5

(* The parser state after the first i events. *)
Stage(es, F, i) == IF i = 0 THEN Unopened ELSE Grammar(F[i - 1], es[i])
Parses(es, F) == F = [i \in 0..Len(es) |-> Stage(es, F, i)]

(* The function Parse is defined by exists. *)
LEMMA ParseExists ==
  ASSUME NEW A, NEW es \in Seq(A)
  PROVE  \E F : Parses(es, F)
<1> DEFINE n == Len(es)
           To(k, G) == \A i \in 0..k : G[i] = Stage(es, G, i)
           S == {k \in 1..n : \E G : To(k, G)}
<1>1. n \in Nat
  OBVIOUS
<1>2. 1 \in S \/ n = 0
  <2> DEFINE G == [i \in {0, 1} |-> IF i = 0 THEN Unopened ELSE Grammar(Unopened, es[1])]
  <2>1. G[0] = Stage(es, G, 0) /\ G[1] = Stage(es, G, 1)
    BY DEF Stage
  <2> HIDE DEF G
  <2>2. To(1, G)
    BY <2>1
  <2> HIDE DEF To
  <2>. QED
    BY <2>2, <1>1
<1>3. ASSUME NEW k \in 1..n, k < n, k \in S
      PROVE  k + 1 \in S
  <2>1. PICK G : To(k, G)
    BY <1>3
  <2> DEFINE H == [i \in 0..(k + 1) |-> IF i <= k THEN G[i] ELSE Stage(es, G, i)]
  <2>2. \A i \in 0..k : H[i] = G[i]
    OBVIOUS
  <2>3. H[k + 1] = Stage(es, G, k + 1)
    OBVIOUS
  <2> HIDE DEF H
  <2>4. ASSUME NEW i \in 0..(k + 1) PROVE H[i] = Stage(es, H, i)
    <3>1. Stage(es, G, i) = Stage(es, H, i)
      <4>1. i = 0 \/ (i - 1 \in 0..k)
        OBVIOUS
      <4>. QED
        BY <4>1, <2>2 DEF Stage
    <3>2. CASE i = k + 1
      BY <3>1, <3>2, <2>3
    <3>3. CASE i \in 0..k
      BY <3>1, <3>3, <2>1, <2>2
    <3>. QED
      BY <3>2, <3>3
  <2>5. To(k + 1, H)
    BY <2>4
  <2>6. k + 1 \in 1..n
    BY <1>1, <1>3
  <2> HIDE DEF To
  <2>. QED
    BY <2>5, <2>6
<1> HIDE DEF S
<1>4. n = 0 \/ n \in S
  <2>1. \A k \in 1..n : k < n /\ k \in S => k + 1 \in S
    BY <1>3
  <2> HIDE DEF n
  <2>2. \A k \in 1..n : k \in S
    BY <1>1, <1>2, <2>1, UpTo
  <2>. QED
    BY <1>1, <2>2
<1>5. \E G : To(n, G)
  <2> DEFINE G == [i \in {0} |-> Unopened]
  <2>1. n = 0 => To(n, G)
    BY DEF Stage
  <2>. QED
    BY <1>4, <2>1 DEF S
<1>6. PICK G : To(n, G)
  BY <1>5
<1> DEFINE F == [i \in 0..n |-> G[i]]
<1>7. \A i \in 0..n : Stage(es, G, i) = Stage(es, F, i)
  <2>1. \A i \in 0..n : i = 0 \/ i - 1 \in 0..n
    BY <1>1
  <2>. QED
    BY <2>1 DEF Stage
<1>8. F = [i \in 0..n |-> Stage(es, F, i)]
  <2>1. \A i \in 0..n : F[i] = Stage(es, F, i)
    BY <1>6, <1>7
  <2> HIDE DEF F
  <2>2. F = [i \in 0..n |-> F[i]]
    BY DEF F
  <2>. QED
    BY <2>1, <2>2
<1>. QED
  BY <1>8 DEF Parses

(* Parse is its last value. *)
LEMMA ParseIs ==
  ASSUME NEW A, NEW es \in Seq(A)
  PROVE  \E F : Parses(es, F) /\ Parse(es) = F[Len(es)]
<1> DEFINE G == CHOOSE F : Parses(es, F)
<1>1. Parses(es, G)
  BY ParseExists
<1>2. Parse(es) = G[Len(es)]
  BY DEF Parse, Parses, Stage
<1>. QED
  BY <1>1, <1>2

(* One event more. *)
LEMMA ParseAppend ==
  ASSUME NEW A, NEW s \in Seq(A), NEW x \in A
  PROVE  Parse(Append(s, x)) = Grammar(Parse(s), x)
<1> DEFINE n == Len(s)
           u == Append(s, x)
<1>1. n \in Nat /\ u \in Seq(A) /\ Len(u) = n + 1 /\ u[n + 1] = x /\ \A i \in 1..n : u[i] = s[i]
  OBVIOUS
<1> HIDE DEF u
<1>2. PICK G : Parses(u, G) /\ Parse(u) = G[n + 1]
  BY <1>1, ParseIs
<1>3. \A i \in 0..(n + 1) : G[i] = Stage(u, G, i)
  BY <1>1, <1>2 DEF Parses
<1>4. PICK F : Parses(s, F) /\ Parse(s) = F[n]
  BY ParseIs
<1>5. \A i \in 0..n : F[i] = Stage(s, F, i)
  BY <1>4 DEF Parses
<1> DEFINE S == {i \in 1..n : F[i] = G[i]}
<1>6. F[0] = G[0]
  <2>1. 0 \in 0..n /\ 0 \in 0..(n + 1)
    BY <1>1
  <2>. QED
    BY <1>3, <1>5, <2>1 DEF Stage
<1>7. 1 \in S \/ n = 0
  <2> SUFFICES ASSUME n # 0 PROVE 1 \in S
    OBVIOUS
  <2>1. 1 \in 1..n /\ 1 \in 0..n /\ 1 \in 0..(n + 1) /\ 1 - 1 = 0
    BY <1>1
  <2>. QED
    BY <1>1, <1>3, <1>5, <1>6, <2>1 DEF Stage
<1>8. ASSUME NEW i \in 1..n, i < n, i \in S PROVE i + 1 \in S
  <2>1. i + 1 \in 1..n /\ i + 1 \in 0..n /\ i + 1 \in 0..(n + 1) /\ i + 1 # 0 /\ (i + 1) - 1 = i
    BY <1>1, <1>8
  <2>. QED
    BY <1>1, <1>3, <1>5, <1>8, <2>1 DEF Stage
<1> HIDE DEF S
<1>9. \A i \in 1..n : i \in S
  <2>1. \A i \in 1..n : i < n /\ i \in S => i + 1 \in S
    BY <1>8
  <2> HIDE DEF n
  <2>. QED
    BY <1>1, <1>7, <2>1, UpTo
<1>10. F[n] = G[n]
  <2>1. n = 0 \/ n \in 1..n
    BY <1>1
  <2>. QED
    BY <1>6, <1>9, <2>1 DEF S
<1>11. n + 1 \in 0..(n + 1) /\ n + 1 # 0 /\ (n + 1) - 1 = n
  BY <1>1
<1>12. G[n + 1] = Grammar(G[n], x)
  BY <1>1, <1>3, <1>11 DEF Stage
<1>. QED
  BY <1>2, <1>4, <1>10, <1>12 DEF u

LEMMA ParseNone == Parse(<<>>) = Unopened
<1>0. <<>> \in Seq(Nat)
  OBVIOUS
<1>1. PICK es \in Seq(Nat) : es = <<>>
  BY <1>0
<1>2. PICK F : Parses(es, F) /\ Parse(es) = F[Len(es)]
  BY ParseIs
<1>3. Len(es) = 0 /\ 0 \in 0..0
  BY <1>1
<1>. QED
  BY <1>1, <1>2, <1>3 DEF Parses, Stage

(* The events of a call. *)
Tags == {"TEXT_START", "TEXT_CONTENT", "TEXT_END", "REASONING_START", "REASONING_MESSAGE_START",
         "REASONING_CONTENT", "REASONING_MESSAGE_END", "REASONING_END"}
Event == [t : Tags, d : Seq(Nat)]
State(tx, re) == [ok |-> TRUE, text |-> tx, reasoning |-> re]

(* Events that parse to the state st and carry the text sh. *)
Reads(es, st, sh) ==
  /\ es \in Seq(Event) /\ sh \in Seq(Nat)
  /\ Parse(es) = st /\ Deltas(es) = sh

(* The text shown grows by that of the event. *)
LEMMA TextsAppend ==
  ASSUME NEW es \in Seq(Event), NEW e \in Event
  PROVE  Deltas(Append(es, e)) = Deltas(es) \o TextOf(e) /\ TextOf(e) \in Seq(Nat)
<1>1. \A x \in Event : TextOf(x) \in Seq(Nat)
  BY DEF TextOf, Event
<1> DEFINE n == Len(es)
           u == Append(es, e)
           l == [i \in 1..n |-> TextOf(es[i])]
<1>2. n \in Nat /\ Len(u) = n + 1 /\ u[n + 1] = e /\ \A i \in 1..n : u[i] = es[i] /\ es[i] \in Event
  OBVIOUS
<1> HIDE DEF u
<1>3. l \in Seq(Seq(Nat)) /\ Len(l) = n
  BY <1>1, <1>2
<1>4. [i \in 1..Len(u) |-> TextOf(u[i])] = Append(l, TextOf(e))
  <2>1. PICK m \in Seq(Seq(Nat)) : m = l
    BY <1>3
  <2>2. PICK x \in Seq(Nat) : x = TextOf(e)
    BY <1>1
  <2>3. Len(m) = n /\ \A i \in 1..n : m[i] = TextOf(u[i])
    BY <1>2, <1>3, <2>1
  <2>4. x = TextOf(u[n + 1])
    BY <1>2, <2>2
  <2> HIDE DEF n, l
  <2>5. [i \in 1..(n + 1) |-> TextOf(u[i])] = Append(m, x)
    <3> DEFINE w == [i \in 1..(n + 1) |-> TextOf(u[i])]
    <3>1. /\ Append(m, x) \in Seq(Seq(Nat)) /\ Len(Append(m, x)) = n + 1 /\ Append(m, x)[n + 1] = x
          /\ \A i \in 1..n : Append(m, x)[i] = m[i]
      BY <1>2, <2>3, AppendProperties
    <3>2. \A i \in 1..(n + 1) : i \in 1..n \/ i = n + 1
      BY <1>2
    <3>3. \A i \in 1..(n + 1) : TextOf(u[i]) = Append(m, x)[i]
      BY <2>3, <2>4, <3>1, <3>2
    <3>4. \A i \in 1..(n + 1) : TextOf(u[i]) \in Seq(Nat)
      BY <1>1, <1>2, <3>2
    <3>5. w \in Seq(Seq(Nat)) /\ Len(w) = n + 1 /\ \A i \in 1..(n + 1) : w[i] = TextOf(u[i])
      BY <1>2, <3>4
    <3> HIDE DEF w
    <3>6. w = Append(m, x)
      BY <3>1, <3>3, <3>5, SeqEqual
    <3>. QED
      BY <3>6 DEF w
  <2>. QED
    BY <1>2, <2>1, <2>2, <2>5
<1>5. FlattenSeq(Append(l, TextOf(e))) = FlattenSeq(l) \o TextOf(e)
  <2> HIDE DEF l
  <2>1. PICK m \in Seq(Seq(Nat)) : m = l
    BY <1>3
  <2>2. PICK x \in Seq(Nat) : x = TextOf(e)
    BY <1>1
  <2>3. FlattenSeq(Append(m, x)) = FlattenSeq(m) \o x
    BY FlattenAppend
  <2>. QED
    BY <2>1, <2>2, <2>3
<1>. QED
  BY <1>1, <1>4, <1>5 DEF Deltas, u

(* What a piece u of events does: it leads from one state to another and    *)
(* carries the text d.                                                      *)
Adds(u, from, to, d) ==
  /\ u \in Seq(Event) /\ d \in Seq(Nat)
  /\ \A es, sh : Reads(es, from, sh) => Reads(es \o u, to, sh \o d)

LEMMA AddsOne ==
  ASSUME NEW e \in Event, NEW from
  PROVE  Adds(<<e>>, from, Grammar(from, e), TextOf(e))
<1>1. TextOf(e) \in Seq(Nat) /\ <<e>> \in Seq(Event)
  BY DEF TextOf, Event
<1>2. ASSUME NEW es, NEW sh, Reads(es, from, sh)
      PROVE  Reads(es \o <<e>>, Grammar(from, e), sh \o TextOf(e))
  <2>0. es \in Seq(Event) /\ sh \in Seq(Nat) /\ Parse(es) = from /\ Deltas(es) = sh
    BY <1>2 DEF Reads
  <2>1. PICK s \in Seq(Event) : s = es
    BY <2>0
  <2>2. Append(s, e) = s \o <<e>>
    BY AppendIsConcat
  <2>3. Parse(Append(s, e)) = Grammar(from, e)
    BY <2>0, <2>1, ParseAppend
  <2>4. Deltas(Append(s, e)) = sh \o TextOf(e)
    BY <2>0, <2>1, TextsAppend
  <2>5. sh \o TextOf(e) \in Seq(Nat)
    BY <1>1, <2>0, ConcatProperties
  <2>6. Append(s, e) \in Seq(Event)
    BY AppendProperties
  <2>7. Reads(s \o <<e>>, Grammar(from, e), sh \o TextOf(e))
    BY <2>2, <2>3, <2>4, <2>5, <2>6 DEF Reads
  <2>. QED
    BY <2>1, <2>7
<1>. QED
  BY <1>1, <1>2 DEF Adds

LEMMA Empties == /\ \A x \in Seq(Nat) : <<>> \o x = x /\ x \o <<>> = x
                 /\ <<>> \in Seq(Nat)
  BY ConcatEmptySeq, EmptySeq

LEMMA AddsNone ==
  ASSUME NEW st
  PROVE  Adds(<<>>, st, st, <<>>)
<1>1. ASSUME NEW es, NEW sh, Reads(es, st, sh)
      PROVE  Reads(es \o <<>>, st, sh \o <<>>)
  <2>1. es \in Seq(Event) /\ sh \in Seq(Nat)
    BY <1>1 DEF Reads
  <2>2. es \o <<>> = es /\ sh \o <<>> = sh
    BY <2>1, ConcatEmptySeq
  <2>. QED
    BY <1>1, <2>2
<1>2. <<>> \in Seq(Event) /\ <<>> \in Seq(Nat)
  BY EmptySeq
<1>. QED
  BY <1>1, <1>2 DEF Adds

(* Concatenation is associative, for three sequences at hand. *)
Regroups(S) == \A p, q, r \in Seq(S) : (p \o q) \o r = p \o (q \o r)

LEMMA Regrouped == ASSUME NEW S PROVE Regroups(S)
<1>1. ASSUME NEW p \in Seq(S), NEW q \in Seq(S), NEW r \in Seq(S)
      PROVE  (p \o q) \o r = p \o (q \o r)
  BY ConcatAssociative, SMTT(60)
<1>. QED
  BY <1>1, Zenon DEF Regroups

(* Pieces follow one another. *)
LEMMA AddsBoth ==
  ASSUME NEW u, NEW v, NEW a, NEW b, NEW c, NEW x, NEW y, Adds(u, a, b, x), Adds(v, b, c, y)
  PROVE  Adds(u \o v, a, c, x \o y)
<1>1. u \in Seq(Event) /\ v \in Seq(Event) /\ x \in Seq(Nat) /\ y \in Seq(Nat)
  BY DEF Adds
<1>2. u \o v \in Seq(Event) /\ x \o y \in Seq(Nat)
  BY <1>1, ConcatProperties
<1>3. Regroups(Event) /\ Regroups(Nat)
  BY Regrouped
<1>5. ASSUME NEW es, NEW sh, Reads(es, a, sh)
      PROVE  Reads(es \o (u \o v), c, sh \o (x \o y))
  <2>1. Reads(es \o u, b, sh \o x)
    BY <1>5 DEF Adds
  <2>2. Reads((es \o u) \o v, c, (sh \o x) \o y)
    BY <2>1 DEF Adds
  <2>3. es \in Seq(Event) /\ sh \in Seq(Nat)
    BY <1>5 DEF Reads
  <2>4. (es \o u) \o v = es \o (u \o v)
    <3>1. \A q, r \in Seq(Event) : (es \o q) \o r = es \o (q \o r)
      BY <1>3, <2>3, Zenon DEF Regroups
    <3>. QED
      BY <1>1, <3>1, Zenon
  <2>5. (sh \o x) \o y = sh \o (x \o y)
    <3>1. \A q, r \in Seq(Nat) : (sh \o q) \o r = sh \o (q \o r)
      BY <1>3, <2>3, Zenon DEF Regroups
    <3>. QED
      BY <1>1, <3>1, Zenon
  <2>. QED
    BY <2>2, <2>4, <2>5
<1>. QED
  BY <1>2, <1>5 DEF Adds

(* Tuples are concatenations. *)
LEMMA TwoOf ==
  ASSUME NEW S, NEW p \in S, NEW q \in S
  PROVE  <<p>> \o <<q>> = <<p, q>>
<1>1. <<p>> \in Seq(S) /\ <<q>> \in Seq(S) /\ <<p, q>> \in Seq(S)
  OBVIOUS
<1>2. PICK u \in Seq(S), v \in Seq(S), w \in Seq(S) : u = <<p>> /\ v = <<q>> /\ w = <<p, q>>
  BY <1>1
<1>3. Len(u) = 1 /\ Len(v) = 1 /\ Len(w) = 2 /\ u[1] = p /\ v[1] = q /\ w[1] = p /\ w[2] = q
  BY <1>2
<1>4. /\ u \o v \in Seq(S) /\ Len(u \o v) = 2 /\ (u \o v)[1] = p /\ (u \o v)[2] = q
  <2>1. /\ u \o v \in Seq(S) /\ Len(u \o v) = Len(u) + Len(v)
        /\ \A i \in 1..(Len(u) + Len(v)) : (u \o v)[i] = IF i <= Len(u) THEN u[i] ELSE v[i - Len(u)]
    BY ConcatProperties
  <2>. QED
    BY <1>3, <2>1
<1>5. PICK x \in Seq(S) : x = u \o v
  BY <1>4
<1>6. Len(x) = Len(w) /\ \A i \in 1..Len(x) : x[i] = w[i]
  <2>1. Len(x) = 2 /\ x[1] = p /\ x[2] = q
    BY <1>4, <1>5
  <2>2. \A i \in 1..2 : i = 1 \/ i = 2
    OBVIOUS
  <2>. QED
    BY <1>3, <2>1, <2>2
<1>7. x = w
  BY <1>6, SeqEqual
<1>. QED
  BY <1>2, <1>5, <1>7

LEMMA AddsPair ==
  ASSUME NEW p \in Event, NEW q \in Event, NEW a, NEW b, NEW c, NEW x, NEW y,
         Adds(<<p>>, a, b, x), Adds(<<q>>, b, c, y)
  PROVE  Adds(<<p, q>>, a, c, x \o y)
<1>1. <<p>> \o <<q>> = <<p, q>>
  BY TwoOf
<1>2. Adds(<<p>> \o <<q>>, a, c, x \o y)
  BY AddsBoth
<1>. QED
  BY <1>1, <1>2

LEMMA EvIs ==
  ASSUME NEW t \in Tags
  PROVE  Ev(t) \in Event /\ Ev(t).t = t /\ (t # "TEXT_CONTENT" => TextOf(Ev(t)) = <<>>)
BY DEF Ev, Event, TextOf

(* The moves of the grammar that no event breaks. *)
LEMMA GrammarIs ==
  ASSUME NEW e, NEW tx \in BOOLEAN
  PROVE  /\ e.t = "TEXT_START" => Grammar(State(FALSE, FALSE), e) = State(TRUE, FALSE)
         /\ e.t = "TEXT_END" => Grammar(State(TRUE, FALSE), e) = State(FALSE, FALSE)
         /\ e.t = "TEXT_CONTENT" => Grammar(State(TRUE, FALSE), e) = State(TRUE, FALSE)
         /\ e.t = "REASONING_START" => Grammar(State(tx, FALSE), e) = State(tx, TRUE)
         /\ e.t = "REASONING_END" => Grammar(State(tx, TRUE), e) = State(tx, FALSE)
         /\ e.t \in {"REASONING_MESSAGE_START", "REASONING_CONTENT", "REASONING_MESSAGE_END"} =>
              Grammar(State(tx, TRUE), e) = State(tx, TRUE)
<1>1. e.t = "TEXT_START" => Grammar(State(FALSE, FALSE), e) = State(TRUE, FALSE)
  BY DEF Grammar, State
<1>2. e.t = "TEXT_END" => Grammar(State(TRUE, FALSE), e) = State(FALSE, FALSE)
  BY DEF Grammar, State
<1>3. e.t = "TEXT_CONTENT" => Grammar(State(TRUE, FALSE), e) = State(TRUE, FALSE)
  BY DEF Grammar, State
<1>4. e.t = "REASONING_START" => Grammar(State(tx, FALSE), e) = State(tx, TRUE)
  BY DEF Grammar, State
<1>5. e.t = "REASONING_END" => Grammar(State(tx, TRUE), e) = State(tx, FALSE)
  BY DEF Grammar, State
<1>6. e.t \in {"REASONING_MESSAGE_START", "REASONING_CONTENT", "REASONING_MESSAGE_END"} =>
              Grammar(State(tx, TRUE), e) = State(tx, TRUE)
  BY DEF Grammar, State
<1>. QED
  BY <1>1, <1>2, <1>3, <1>4, <1>5, <1>6

LEMMA AddsEv ==
  ASSUME NEW t \in Tags, t # "TEXT_CONTENT", NEW a, NEW b, Grammar(a, Ev(t)) = b
  PROVE  Adds(<<Ev(t)>>, a, b, <<>>)
<1>1. PICK e \in Event : e = Ev(t)
  BY EvIs
<1>2. TextOf(e) = <<>> /\ Grammar(a, e) = b
  BY <1>1, EvIs
<1>3. Adds(<<e>>, a, b, <<>>)
  BY <1>2, AddsOne
<1>. QED
  BY <1>1, <1>3

(* The single events a call emits. *)
LEMMA TextPieces ==
  /\ Adds(<<Ev("TEXT_START")>>, State(FALSE, FALSE), State(TRUE, FALSE), <<>>)
  /\ Adds(<<Ev("TEXT_END")>>, State(TRUE, FALSE), State(FALSE, FALSE), <<>>)
  /\ \A d \in Seq(Nat) : /\ Content("TEXT_CONTENT", d) \in Event
                         /\ Adds(<<Content("TEXT_CONTENT", d)>>, State(TRUE, FALSE), State(TRUE, FALSE), d)
<1>1. Grammar(State(FALSE, FALSE), Ev("TEXT_START")) = State(TRUE, FALSE)
  BY EvIs, GrammarIs DEF Tags
<1>2. Grammar(State(TRUE, FALSE), Ev("TEXT_END")) = State(FALSE, FALSE)
  BY EvIs, GrammarIs DEF Tags
<1>3. ASSUME NEW d \in Seq(Nat)
      PROVE  /\ Content("TEXT_CONTENT", d) \in Event
             /\ Adds(<<Content("TEXT_CONTENT", d)>>, State(TRUE, FALSE), State(TRUE, FALSE), d)
  <2>1. PICK e \in Event : e = Content("TEXT_CONTENT", d)
    BY DEF Content, Event, Tags
  <2>2. e.t = "TEXT_CONTENT" /\ TextOf(e) = d
    BY <2>1 DEF Content, TextOf
  <2>3. Grammar(State(TRUE, FALSE), e) = State(TRUE, FALSE)
    BY <2>2, GrammarIs
  <2>4. Adds(<<e>>, State(TRUE, FALSE), State(TRUE, FALSE), d)
    BY <2>2, <2>3, AddsOne
  <2>. QED
    BY <2>1, <2>4
<1>. QED
  BY <1>1, <1>2, <1>3, AddsEv DEF Tags

LEMMA ReasoningPieces ==
  ASSUME NEW tx \in BOOLEAN
  PROVE  /\ Adds(<<Ev("REASONING_START")>>, State(tx, FALSE), State(tx, TRUE), <<>>)
         /\ Adds(<<Ev("REASONING_MESSAGE_START")>>, State(tx, TRUE), State(tx, TRUE), <<>>)
         /\ Adds(<<Ev("REASONING_CONTENT")>>, State(tx, TRUE), State(tx, TRUE), <<>>)
         /\ Adds(<<Ev("REASONING_MESSAGE_END")>>, State(tx, TRUE), State(tx, TRUE), <<>>)
         /\ Adds(<<Ev("REASONING_END")>>, State(tx, TRUE), State(tx, FALSE), <<>>)
<1>1. Grammar(State(tx, FALSE), Ev("REASONING_START")) = State(tx, TRUE)
  BY EvIs, GrammarIs DEF Tags
<1>2. \A t \in {"REASONING_MESSAGE_START", "REASONING_CONTENT", "REASONING_MESSAGE_END"} :
        Grammar(State(tx, TRUE), Ev(t)) = State(tx, TRUE)
  BY EvIs, GrammarIs DEF Tags
<1>3. Grammar(State(tx, TRUE), Ev("REASONING_END")) = State(tx, FALSE)
  BY EvIs, GrammarIs DEF Tags
<1>. QED
  BY <1>1, <1>2, <1>3, AddsEv DEF Tags

MsgType == DOMAIN msg = {"text", "reasoning"} /\ msg.text \in BOOLEAN /\ msg.reasoning \in BOOLEAN

(* What the pieces of the stream loop do: closing the reasoning, opening    *)
(* the text, one text, one thought, the last of a call.                     *)
LEMMA Flushes ==
  ASSUME MsgType, NEW tx \in BOOLEAN
  PROVE  Adds(flushReasoning, State(tx, msg.reasoning), State(tx, FALSE), <<>>)
<1>1. CASE msg.reasoning = TRUE
  <2>1. Adds(<<Ev("REASONING_MESSAGE_END"), Ev("REASONING_END")>>, State(tx, TRUE), State(tx, FALSE), <<>> \o <<>>)
    BY ReasoningPieces, AddsPair, EvIs DEF Tags
  <2>. QED
    BY <1>1, <2>1, Empties DEF flushReasoning
<1>2. CASE msg.reasoning = FALSE
  BY <1>2, AddsNone DEF flushReasoning
<1>. QED
  BY <1>1, <1>2 DEF MsgType

LEMMA OpensText ==
  ASSUME MsgType
  PROVE  Adds(openTextMsg, State(msg.text, FALSE), State(TRUE, FALSE), <<>>)
<1>1. CASE msg.text = TRUE
  BY <1>1, AddsNone DEF openTextMsg
<1>2. CASE msg.text = FALSE
  BY <1>2, TextPieces DEF openTextMsg
<1>. QED
  BY <1>1, <1>2 DEF MsgType

LEMMA Emits ==
  ASSUME MsgType, NEW d \in Seq(Nat)
  PROVE  Adds(emitText(d), State(msg.text, msg.reasoning), State(TRUE, FALSE), d)
<1>0. msg.text \in BOOLEAN
  BY DEF MsgType
<1>1. Adds(flushReasoning \o openTextMsg, State(msg.text, msg.reasoning), State(TRUE, FALSE), <<>> \o <<>>)
  BY <1>0, Flushes, OpensText, AddsBoth
<1>2. Adds(<<Content("TEXT_CONTENT", d)>>, State(TRUE, FALSE), State(TRUE, FALSE), d)
  BY TextPieces
<1>3. Adds((flushReasoning \o openTextMsg) \o <<Content("TEXT_CONTENT", d)>>,
           State(msg.text, msg.reasoning), State(TRUE, FALSE), (<<>> \o <<>>) \o d)
  BY <1>1, <1>2, AddsBoth
<1>4. (<<>> \o <<>>) \o d = d
  BY Empties
<1>. QED
  BY <1>3, <1>4 DEF emitText

LEMMA Thinks ==
  ASSUME NEW open \in BOOLEAN, NEW tx \in BOOLEAN
  PROVE  Adds(openReasoning(open) \o <<Ev("REASONING_CONTENT")>>, State(tx, open), State(tx, TRUE), <<>>)
<1>1. Adds(openReasoning(open), State(tx, open), State(tx, TRUE), <<>>)
  <2>1. CASE open = TRUE
    BY <2>1, AddsNone DEF openReasoning
  <2>2. CASE open = FALSE
    <3>1. Adds(<<Ev("REASONING_START"), Ev("REASONING_MESSAGE_START")>>, State(tx, FALSE), State(tx, TRUE), <<>> \o <<>>)
      BY ReasoningPieces, AddsPair, EvIs DEF Tags
    <3>. QED
      BY <2>2, <3>1, Empties DEF openReasoning
  <2>. QED
    BY <2>1, <2>2
<1>2. Adds(<<Ev("REASONING_CONTENT")>>, State(tx, TRUE), State(tx, TRUE), <<>>)
  BY ReasoningPieces
<1>3. Adds(openReasoning(open) \o <<Ev("REASONING_CONTENT")>>, State(tx, open), State(tx, TRUE), <<>> \o <<>>)
  BY <1>1, <1>2, AddsBoth
<1>. QED
  BY <1>3, Empties

LEMMA Finalizes ==
  ASSUME MsgType, NEW r, r.content \in Seq(Nat)
  PROVE  Adds(finalizeAssistantText(r), State(msg.text, FALSE), State(FALSE, FALSE),
              IF msg.text THEN <<>> ELSE r.content)
<1>1. CASE msg.text = TRUE
  BY <1>1, TextPieces DEF finalizeAssistantText, closeTextMsg
<1>2. CASE msg.text = FALSE
  <2>1. PICK c \in Event : c = Content("TEXT_CONTENT", r.content)
    BY TextPieces
  <2>2. PICK e \in Event : e = Ev("TEXT_END")
    BY EvIs DEF Tags
  <2>3. Adds(<<c, e>>, State(TRUE, FALSE), State(FALSE, FALSE), r.content \o <<>>)
    BY <2>1, <2>2, TextPieces, AddsPair
  <2>4. Adds(openTextMsg, State(FALSE, FALSE), State(TRUE, FALSE), <<>>)
    BY <1>2, OpensText
  <2>5. Adds(openTextMsg \o <<c, e>>, State(FALSE, FALSE), State(FALSE, FALSE), <<>> \o (r.content \o <<>>))
    BY <2>3, <2>4, AddsBoth
  <2>6. <<>> \o (r.content \o <<>>) = r.content
    BY Empties
  <2>. QED
    BY <1>2, <2>1, <2>2, <2>5, <2>6 DEF finalizeAssistantText
<1>. QED
  BY <1>1, <1>2 DEF MsgType

(* One chunk. *)
LEMMA Drained ==
  ASSUME MsgType, NEW delta, delta.content \in Seq(Nat), delta.thinking \in BOOLEAN, DrainChunk(delta),
         NEW sh, Reads(events, State(msg.text, msg.reasoning), sh), ~msg.text => sh = <<>>
  PROVE  /\ MsgType' /\ Reads(events', State(msg'.text, msg'.reasoning), sh \o delta.content)
         /\ ~msg'.text => sh \o delta.content = <<>>
<1> DEFINE txt == delta.content # <<>>
           stillOpen == msg.reasoning /\ ~txt
           head == IF txt THEN emitText(delta.content) ELSE <<>>
           rest == IF delta.thinking THEN openReasoning(stillOpen) \o <<Ev("REASONING_CONTENT")>> ELSE <<>>
           tx == msg.text \/ txt
           re == stillOpen \/ delta.thinking
<1>1. events' = (events \o head) \o rest /\ msg' = [text |-> tx, reasoning |-> re]
  BY DEF DrainChunk
<1>2. tx \in BOOLEAN /\ stillOpen \in BOOLEAN /\ re \in BOOLEAN
  BY DEF MsgType
<1>3. MsgType' /\ msg'.text = tx /\ msg'.reasoning = re
  BY <1>1, <1>2 DEF MsgType
<1>4. Adds(head, State(msg.text, msg.reasoning), State(tx, stillOpen), delta.content)
  <2>1. CASE txt
    <3>1. Adds(emitText(delta.content), State(msg.text, msg.reasoning), State(TRUE, FALSE), delta.content)
      BY Emits
    <3>2. tx = TRUE /\ stillOpen = FALSE /\ head = emitText(delta.content)
      BY <2>1
    <3> HIDE DEF tx, stillOpen, head
    <3>. QED
      BY <3>1, <3>2
  <2>2. CASE ~txt
    <3>1. tx = msg.text /\ stillOpen = msg.reasoning /\ delta.content = <<>> /\ head = <<>>
      BY <2>2 DEF MsgType
    <3> HIDE DEF tx, stillOpen, head
    <3>. QED
      BY <3>1, AddsNone
  <2>. QED
    BY <2>1, <2>2
<1>5. Adds(rest, State(tx, stillOpen), State(tx, re), <<>>)
  <2>1. CASE delta.thinking
    <3>1. re = TRUE /\ rest = openReasoning(stillOpen) \o <<Ev("REASONING_CONTENT")>>
      BY <2>1
    <3> HIDE DEF tx, stillOpen, re, rest
    <3>2. Adds(openReasoning(stillOpen) \o <<Ev("REASONING_CONTENT")>>, State(tx, stillOpen), State(tx, TRUE), <<>>)
      BY <1>2, Thinks
    <3>. QED
      BY <3>1, <3>2
  <2>2. CASE ~delta.thinking
    <3>1. re = stillOpen /\ rest = <<>>
      BY <1>2, <2>2
    <3> HIDE DEF re, rest, stillOpen, tx
    <3>. QED
      BY <3>1, AddsNone
  <2>. QED
    BY <2>1, <2>2
<1>9. ~tx => sh \o delta.content = <<>>
  BY Empties
<1> HIDE DEF tx, re, head, rest, stillOpen
<1>6. Reads(events \o head, State(tx, stillOpen), sh \o delta.content)
  BY <1>4 DEF Adds
<1>7. Reads((events \o head) \o rest, State(tx, re), (sh \o delta.content) \o <<>>)
  BY <1>5, <1>6 DEF Adds
<1>8. (sh \o delta.content) \o <<>> = sh \o delta.content
  BY <1>6, Empties DEF Reads
<1>. QED
  BY <1>1, <1>3, <1>7, <1>8, <1>9

(* The text of an answer: the k-th token is k. *)
Text(n) == [i \in 1..n |-> i]
IsText(s) == \E n \in Nat : s = Text(n)

(* Texts. *)
LEMMA TextIs ==
  ASSUME NEW s, IsText(s)
  PROVE  s \in Seq(Nat) /\ Len(s) \in Nat /\ s = Text(Len(s))
<1>1. PICK n \in Nat : s = Text(n)
  BY DEF IsText
<1>2. Text(n) \in Seq(Nat) /\ Len(Text(n)) = n
  BY DEF Text
<1>. QED
  BY <1>1, <1>2

LEMMA TextStarts == <<>> = Text(0) /\ IsText(<<>>)
<1>1. <<>> = Text(0)
  BY DEF Text
<1>. QED
  BY <1>1 DEF IsText

LEMMA TextGrows ==
  ASSUME NEW s, IsText(s)
  PROVE  /\ IsText(s \o <<Len(s) + 1>>) /\ Len(s) <= Len(s \o <<Len(s) + 1>>)
         /\ s \o <<>> = s
<1>1. PICK n \in Nat : s = Text(n) /\ n = Len(s)
  BY TextIs
<1>2. s \in Seq(Nat)
  BY TextIs
<1>3. PICK u \in Seq(Nat) : u = <<n + 1>> /\ Len(u) = 1 /\ u[1] = n + 1
  <2>1. PICK k \in Nat : k = n + 1
    BY <1>1
  <2>2. <<k>> \in Seq(Nat) /\ Len(<<k>>) = 1 /\ <<k>>[1] = k
    OBVIOUS
  <2>. QED
    BY <2>1, <2>2
<1>4. PICK w \in Seq(Nat) : w = Text(n + 1) /\ Len(w) = n + 1 /\ \A i \in 1..(n + 1) : w[i] = i
  <2>1. PICK k \in Nat : k = n + 1
    BY <1>1
  <2>2. Text(k) \in Seq(Nat) /\ Len(Text(k)) = k /\ \A i \in 1..k : Text(k)[i] = i
    BY DEF Text
  <2>. QED
    BY <2>1, <2>2
<1>5. \A i \in 1..n : s[i] = i
  BY <1>1 DEF Text
<1>6. s \o u \in Seq(Nat) /\ Len(s \o u) = n + 1 /\ \A i \in 1..(n + 1) : (s \o u)[i] = i
  <2>1. /\ s \o u \in Seq(Nat) /\ Len(s \o u) = Len(s) + Len(u)
        /\ \A i \in 1..(Len(s) + Len(u)) : (s \o u)[i] = IF i <= Len(s) THEN s[i] ELSE u[i - Len(s)]
    BY <1>2, ConcatProperties
  <2>2. ASSUME NEW i \in 1..(n + 1) PROVE (s \o u)[i] = i
    <3>1. CASE i \in 1..n
      BY <1>1, <1>3, <1>5, <2>1, <3>1
    <3>2. CASE i = n + 1
      <4>1. i - Len(s) = 1 /\ ~(i <= Len(s)) /\ i \in 1..(Len(s) + Len(u))
        BY <1>1, <1>3, <3>2
      <4>. QED
        BY <1>3, <2>1, <3>2, <4>1
    <3>3. i \in 1..n \/ i = n + 1
      BY <1>1
    <3>. QED
      BY <3>1, <3>2, <3>3
  <2>. QED
    BY <1>1, <1>3, <2>1, <2>2
<1>7. s \o u = w
  <2>1. PICK x \in Seq(Nat) : x = s \o u
    BY <1>6
  <2>2. Len(x) = Len(w) /\ \A i \in 1..Len(x) : x[i] = w[i]
    BY <1>4, <1>6, <2>1
  <2>. QED
    BY <2>1, <2>2, SeqEqual
<1>8. IsText(s \o u)
  <2>1. n + 1 \in Nat
    BY <1>1
  <2>. QED
    BY <1>4, <1>7, <2>1 DEF IsText
<1>9. Len(s) <= Len(s \o u)
  BY <1>1, <1>6
<1>10. s \o <<>> = s
  BY <1>2, Empties
<1>11. u = <<Len(s) + 1>>
  BY <1>1, <1>3
<1>. QED
  BY <1>8, <1>9, <1>10, <1>11

(* The clients whose library accumulates the chunks, and the fields of what *)
(* it accumulates.                                                          *)
Sse == {"openai", "ollama", "deepseek", "anthropic"}
Fields == {"text", "calls", "usage", "choices", "chunks"}

(* What the consumer was shown, sh, fits the message it believes in. *)
Showing(sh) == Reads(events, State(msg.text, msg.reasoning), sh) /\ (~msg.text => sh = <<>>)

(* An SSE stream: what was accumulated is what was said and what was shown. *)
SseOK ==
  /\ DOMAIN adapter = Fields /\ adapter.text = said.text
  /\ Showing(said.text)

(* A Gemini stream: whatever the chunks in flight and the last response are *)
(* made of, the messages are in order.                                      *)
ChunkOK(c) == c.err \in BOOLEAN /\ (~c.err => c.text \in Seq(Nat))
ResponseOK(r) == r # NoResult => "content" \in DOMAIN r /\ r.content \in Seq(Nat)
GeminiOK ==
  /\ DOMAIN adapter = {"result", "err", "delta"} /\ adapter.err \in BOOLEAN /\ adapter.delta \in Seq(Nat)
  /\ ResponseOK(adapter.result)
  /\ DOMAIN ch = {"q", "closed"} /\ \E A : ch.q \in Seq(A)
  /\ \A i \in 1..Len(ch.q) : ChunkOK(ch.q[i])
  /\ \E sh : Showing(sh)

Streaming ==
  /\ MsgType /\ DOMAIN said = Fields /\ IsText(said.text)
  /\ req.client \in Sse => SseOK
  /\ req.client = "gemini" => req.stream /\ GeminiOK

(* Nothing has been said before the vendor answers. *)
Unsaid ==
  /\ events = <<>> /\ said = Silent /\ msg = [text |-> FALSE, reasoning |-> FALSE]
  /\ ch = [q |-> <<>>, closed |-> FALSE]

ReqType == "client" \in DOMAIN req /\ "stream" \in DOMAIN req

(* The inductive invariant. *)
LLMInv ==
  /\ pc \in {"idle", "sent", "streaming", "returned"} /\ ReqType
  /\ pc \in {"sent", "streaming"} => req.client \in Clients
  /\ pc \in {"idle", "sent"} => Unsaid
  /\ pc = "streaming" => IsStreamSupported(req.client) /\ Streaming
  /\ pc = "returned" => DeliveredIsResult

LEMMA StreamClients ==
  ASSUME req.client \in Clients, IsStreamSupported(req.client)
  PROVE  req.client \in Sse \cup {"gemini"}
BY LLMCallsAssumption DEF IsStreamSupported, Sse

LEMMA NothingRead ==
  ASSUME NEW es, es = <<>>
  PROVE  Reads(es, State(FALSE, FALSE), <<>>)
<1>1. Parse(<<>>) = State(FALSE, FALSE)
  BY ParseNone DEF Unopened, State
<1>2. Deltas(<<>>) = <<>>
  <2>1. [i \in 1..Len(<<>>) |-> TextOf(<<>>[i])] = <<>>
    OBVIOUS
  <2>2. FlattenSeq(<<>>) = <<>>
    BY DEF FlattenSeq
  <2>. QED
    BY <2>1, <2>2 DEF Deltas
<1>3. <<>> \in Seq(Event) /\ <<>> \in Seq(Nat)
  BY EmptySeq
<1>. QED
  BY <1>1, <1>2, <1>3 DEF Reads

(* What is left to show when a call returns. *)
LEMMA Delivers ==
  ASSUME NEW tx \in BOOLEAN, NEW sh, Reads(events', State(tx, FALSE), sh),
         result'.status = "ok" =>
           tx = FALSE /\ (result'.r.content # Rewritten =>
                            StreamedByGemini' \/ (sh = result'.r.content /\ sh = said'.text))
  PROVE  DeliveredIsResult'
<1>1. Parsed' = State(tx, FALSE) /\ Streamed' = sh
  BY DEF Reads, Parsed, Streamed
<1>2. State(tx, FALSE).ok = TRUE /\ State(tx, FALSE).text = tx /\ State(tx, FALSE).reasoning = FALSE
  BY DEF State
<1>3. Parsed'.ok = TRUE /\ Parsed'.text = tx /\ Parsed'.reasoning = FALSE
  BY <1>1, <1>2
<1>. QED
  BY <1>1, <1>3 DEF DeliveredIsResult

(* The after-hook keeps the text or replaces it. *)
LEMMA HookKeeps ==
  ASSUME NEW resp, "content" \in DOMAIN resp, NEW h \in runAfterLLMResponse(resp)
  PROVE  LET r == llmResponseToResult(h) IN r.content = resp.content \/ r.content = Rewritten
BY DEF runAfterLLMResponse, llmResponseToResult

(* An adapter's result has the text it accumulated. *)
LEMMA SseResult ==
  ASSUME NEW client \in Sse, NEW a
  PROVE  LET r == StreamResult(client, a) IN r = NoResult \/ ("content" \in DOMAIN r /\ r.content = a.text)
<1>1. CASE client = "openai"
  BY <1>1 DEF StreamResult, openAIStreamResult, openAIResponseToLLM
<1>2. CASE client = "ollama"
  BY <1>2 DEF StreamResult, ollamaStreamResult, ollamaResponseToLLM
<1>3. CASE client = "deepseek"
  BY <1>3 DEF StreamResult, deepSeekStreamResult, deepSeekResponseToLLM
<1>4. CASE client = "anthropic"
  BY <1>4 DEF StreamResult, anthropicStreamResult, anthropicResponse, extractContentAndToolCalls
<1>. QED
  BY <1>1, <1>2, <1>3, <1>4 DEF Sse

LEMMA GeneratedContent ==
  ASSUME NEW client \in Clients, NEW a
  PROVE  "content" \in DOMAIN Generated(client, a) /\ Generated(client, a).content = a.text
<1>1. CASE client = "openai"
  BY <1>1 DEF Generated, openAIResponseToLLM
<1>2. CASE client = "ollama"
  BY <1>2 DEF Generated, ollamaResponseToLLM
<1>3. CASE client = "deepseek"
  BY <1>3 DEF Generated, deepSeekResponseToLLM
<1>4. CASE client = "anthropic"
  BY <1>4 DEF Generated, anthropicResponse, extractContentAndToolCalls
<1>5. CASE client = "gemini"
  BY <1>5 DEF Generated, geminiResponse
<1>6. CASE client = "plain"
  BY <1>6 DEF Generated
<1>. QED
  BY <1>1, <1>2, <1>3, <1>4, <1>5, <1>6, LLMCallsAssumption

LEMMA AnswerText ==
  ASSUME NEW a \in Answers
  PROVE  a.text \in Seq(Nat)
<1>1. <<>> \in Seq(Nat) /\ <<1>> \in Seq(Nat)
  OBVIOUS
<1>2. a.text = <<>> \/ a.text = <<1>>
  <2>1. CASE a = Silent
    BY <2>1 DEF Silent
  <2>2. CASE a # Silent
    <3>1. PICK t \in {<<>>, <<1>>} : \E cs, u : a = Answer(t, cs, u)
      BY <2>2 DEF Answers
    <3>. QED
      BY <3>1 DEF Answer
  <2>. QED
    BY <2>1, <2>2
<1>. QED
  BY <1>1, <1>2

LEMMA InitLLMInv == LLMInit => LLMInv
<1> SUFFICES ASSUME LLMInit PROVE LLMInv
  OBVIOUS
<1>1. pc = "idle" /\ ReqType
  BY DEF LLMInit, ReqType
<1>2. Unsaid
  BY DEF LLMInit, Unsaid
<1>. QED
  BY <1>1, <1>2 DEF LLMInv

(* A call that returned. *)
LEMMA Returned ==
  ASSUME pc' = "returned", ReqType', DeliveredIsResult'
  PROVE  LLMInv'
BY DEF LLMInv

LEMMA ForgetKeeps ==
  ASSUME ReqType, Forget
  PROVE  ReqType' /\ req'.client = req.client /\ req'.stream = req.stream
BY DEF Forget, ReqType

(* A call that fails before anything was shown. *)
LEMMA FailsUnseen ==
  ASSUME Unsaid, events' = events, result'.status # "ok"
  PROVE  DeliveredIsResult'
<1>1. events' = <<>>
  BY DEF Unsaid
<1>2. Reads(events', State(FALSE, FALSE), <<>>)
  BY <1>1, NothingRead
<1>. QED
  BY <1>2, Delivers

LEMMA ReturnIs ==
  ASSUME NEW s, NEW r, Return(s, r)
  PROVE  pc' = "returned" /\ result'.status = s /\ result'.r = r
BY DEF Return

LEMMA ThreeOf ==
  ASSUME NEW S, NEW p \in S, NEW q \in S, NEW r \in S
  PROVE  <<p>> \o <<q, r>> = <<p, q, r>>
<1>1. <<p>> \in Seq(S) /\ <<q, r>> \in Seq(S) /\ <<p, q, r>> \in Seq(S)
  OBVIOUS
<1>2. PICK u \in Seq(S), v \in Seq(S), w \in Seq(S) : u = <<p>> /\ v = <<q, r>> /\ w = <<p, q, r>>
  BY <1>1
<1>3. /\ Len(u) = 1 /\ Len(v) = 2 /\ Len(w) = 3 /\ u[1] = p /\ v[1] = q /\ v[2] = r
      /\ w[1] = p /\ w[2] = q /\ w[3] = r
  BY <1>2
<1>4. /\ u \o v \in Seq(S) /\ Len(u \o v) = 3
      /\ (u \o v)[1] = p /\ (u \o v)[2] = q /\ (u \o v)[3] = r
  <2>1. /\ u \o v \in Seq(S) /\ Len(u \o v) = Len(u) + Len(v)
        /\ \A i \in 1..(Len(u) + Len(v)) : (u \o v)[i] = IF i <= Len(u) THEN u[i] ELSE v[i - Len(u)]
    BY ConcatProperties
  <2>. QED
    BY <1>3, <2>1
<1>5. PICK x \in Seq(S) : x = u \o v
  BY <1>4
<1>6. Len(x) = Len(w) /\ \A i \in 1..Len(x) : x[i] = w[i]
  <2>1. Len(x) = 3 /\ x[1] = p /\ x[2] = q /\ x[3] = r
    BY <1>4, <1>5
  <2>2. \A i \in 1..3 : i = 1 \/ i = 2 \/ i = 3
    OBVIOUS
  <2>. QED
    BY <1>3, <2>1, <2>2
<1>7. x = w
  BY <1>6, SeqEqual
<1>. QED
  BY <1>2, <1>5, <1>7

(* An answer shown in one message. *)
LEMMA ShownWhole ==
  ASSUME MsgType, msg.text = FALSE, NEW r, r.content \in Seq(Nat)
  PROVE  /\ Reads(finalizeAssistantText(r), State(FALSE, FALSE), r.content)
         /\ finalizeAssistantText(r) = <<Ev("TEXT_START"), Content("TEXT_CONTENT", r.content), Ev("TEXT_END")>>
<1>1. Adds(finalizeAssistantText(r), State(FALSE, FALSE), State(FALSE, FALSE), r.content)
  BY Finalizes
<1>2. Reads(<<>>, State(FALSE, FALSE), <<>>)
  BY NothingRead
<1>3. Reads(<<>> \o finalizeAssistantText(r), State(FALSE, FALSE), <<>> \o r.content)
  BY <1>1, <1>2 DEF Adds
<1>4. <<>> \o finalizeAssistantText(r) = finalizeAssistantText(r) /\ <<>> \o r.content = r.content
  <2>1. finalizeAssistantText(r) \in Seq(Event)
    BY <1>1 DEF Adds
  <2>. QED
    BY <2>1, ConcatEmptySeq
<1>5. Ev("TEXT_START") \in Event /\ Ev("TEXT_END") \in Event /\ Content("TEXT_CONTENT", r.content) \in Event
  BY EvIs, TextPieces DEF Tags
<1>6. <<Ev("TEXT_START")>> \o <<Content("TEXT_CONTENT", r.content), Ev("TEXT_END")>>
        = <<Ev("TEXT_START"), Content("TEXT_CONTENT", r.content), Ev("TEXT_END")>>
  BY <1>5, ThreeOf
<1>. QED
  BY <1>3, <1>4, <1>6 DEF finalizeAssistantText, openTextMsg

(* The result of a whole answer, as the run gets it. *)
LEMMA WholeAnswer ==
  ASSUME req.client \in Clients, NEW a \in Answers, NEW resp \in runAfterLLMResponse(Generated(req.client, a)),
         NEW r, r = llmResponseToResult(resp)
  PROVE  r.content \in Seq(Nat) /\ (r.content # Rewritten => r.content = a.text)
<1>1. PICK g : g = Generated(req.client, a) /\ "content" \in DOMAIN g /\ g.content = a.text
  BY GeneratedContent
<1>2. r.content = g.content \/ r.content = Rewritten
  BY <1>1, HookKeeps
<1>3. a.text \in Seq(Nat) /\ Rewritten \in Seq(Nat)
  BY AnswerText DEF Rewritten
<1>. QED
  BY <1>1, <1>2, <1>3

LEMMA UnsaidMsg ==
  ASSUME Unsaid
  PROVE  MsgType /\ msg.text = FALSE /\ msg.reasoning = FALSE
BY DEF Unsaid, MsgType

(* The steps of a call. *)
LEMMA BeforeKeeps ==
  ASSUME LLMInv, runBeforeLLMRequest
  PROVE  LLMInv'
<1>1. Unsaid /\ ReqType'
  BY DEF LLMInv, ReqType, runBeforeLLMRequest
<1>2. pc' = "returned" /\ result'.status = "error"
  BY ReturnIs DEF runBeforeLLMRequest
<1>. QED
  BY <1>1, <1>2, FailsUnseen, Returned DEF runBeforeLLMRequest

LEMMA SendKeeps ==
  ASSUME LLMInv, NEW client \in Clients, NEW stream, NEW h, NEW memory, NEW rag, NEW skip, NEW setting,
         Send(client, stream, h, memory, rag, skip, setting)
  PROVE  LLMInv'
<1>1. pc = "idle" /\ pc' = "sent" /\ UNCHANGED <<said, msg, events, ch>>
  BY DEF Send
<1>2. ReqType' /\ req'.client = client
  BY DEF Send, ReqType
<1>3. Unsaid'
  BY <1>1 DEF LLMInv, Unsaid
<1>. QED
  BY <1>1, <1>2, <1>3 DEF LLMInv

LEMMA RefusalKeeps ==
  ASSUME LLMInv, VendorRefuses
  PROVE  LLMInv'
<1>1. Unsaid /\ ReqType'
  BY ForgetKeeps DEF LLMInv, VendorRefuses
<1>2. PICK e \in VendorErrors : Return("error", wrapLLM(req.client, e))
  BY DEF VendorRefuses
<1>3. pc' = "returned" /\ result'.status = "error"
  BY <1>2, ReturnIs
<1>. QED
  BY <1>1, <1>3, FailsUnseen, Returned DEF VendorRefuses

LEMMA ExecuteLLMKeeps ==
  ASSUME LLMInv, ExecuteLLM
  PROVE  LLMInv'
<1>1. Unsaid /\ ReqType' /\ req.client \in Clients
  BY ForgetKeeps DEF LLMInv, ExecuteLLM
<1>2. PICK a \in Answers :
       /\ said' = a
       /\ IF Panics(req.client, a)
          THEN Return("panic", NoResult) /\ UNCHANGED <<events, counts>>
          ELSE \/ Return("error", NoResult) /\ UNCHANGED <<events, counts>>
               \/ \E resp \in runAfterLLMResponse(Generated(req.client, a)) :
                    LET r == llmResponseToResult(resp)
                    IN /\ Return("ok", r) /\ NoteUnknownTool(r)
                       /\ events' = <<Ev("TEXT_START"), Content("TEXT_CONTENT", r.content), Ev("TEXT_END")>>
  BY DEF ExecuteLLM
<1>3. ASSUME NEW s \in {"panic", "error"}, Return(s, NoResult), events' = events PROVE LLMInv'
  BY <1>1, <1>3, ReturnIs, FailsUnseen, Returned
<1>4. ASSUME NEW resp \in runAfterLLMResponse(Generated(req.client, a)), NEW r, r = llmResponseToResult(resp),
             Return("ok", r), events' = <<Ev("TEXT_START"), Content("TEXT_CONTENT", r.content), Ev("TEXT_END")>>
      PROVE  LLMInv'
  <2>1. r.content \in Seq(Nat) /\ (r.content # Rewritten => r.content = a.text)
    BY <1>1, <1>4, WholeAnswer
  <2>2. Reads(events', State(FALSE, FALSE), r.content)
    BY <1>1, <1>4, <2>1, UnsaidMsg, ShownWhole
  <2>3. pc' = "returned" /\ result'.r = r
    BY <1>4, ReturnIs
  <2>4. DeliveredIsResult'
    BY <1>2, <2>1, <2>2, <2>3, Delivers
  <2>. QED
    BY <1>1, <2>3, <2>4, Returned
<1>. QED
  BY <1>2, <1>3, <1>4

LEMMA FallbackKeeps ==
  ASSUME LLMInv, StreamFallback
  PROVE  LLMInv'
<1>1. Unsaid /\ ReqType' /\ req.client \in Clients
  BY ForgetKeeps DEF LLMInv, StreamFallback
<1>2. PICK a \in Answers :
       /\ said' = a
       /\ IF Panics(req.client, a)
          THEN Return("panic", NoResult) /\ UNCHANGED <<events, counts>>
          ELSE \/ Return("error", NoResult) /\ Failed /\ UNCHANGED events
               \/ \E resp \in runAfterLLMResponse(Generated(req.client, a)) :
                    LET r == llmResponseToResult(resp)
                    IN /\ Return("ok", r) /\ NoteUnknownTool(r)
                       /\ events' = finalizeAssistantText(r)
  BY DEF StreamFallback
<1>3. ASSUME NEW s \in {"panic", "error"}, Return(s, NoResult), events' = events PROVE LLMInv'
  BY <1>1, <1>3, ReturnIs, FailsUnseen, Returned
<1>4. ASSUME NEW resp \in runAfterLLMResponse(Generated(req.client, a)), NEW r, r = llmResponseToResult(resp),
             Return("ok", r), events' = finalizeAssistantText(r)
      PROVE  LLMInv'
  <2>1. r.content \in Seq(Nat) /\ (r.content # Rewritten => r.content = a.text)
    BY <1>1, <1>4, WholeAnswer
  <2>2. Reads(events', State(FALSE, FALSE), r.content)
    BY <1>1, <1>4, <2>1, UnsaidMsg, ShownWhole
  <2>3. pc' = "returned" /\ result'.r = r
    BY <1>4, ReturnIs
  <2>4. DeliveredIsResult'
    BY <1>2, <2>1, <2>2, <2>3, Delivers
  <2>. QED
    BY <1>1, <2>3, <2>4, Returned
<1>. QED
  BY <1>2, <1>3, <1>4

(* What a chunk may carry. *)
LEMMA NextChunk ==
  ASSUME IsText(said.text), NEW c \in (IF MoreToSay THEN Increments ELSE {}) \cup LastChunk
  PROVE  /\ c.text \in Seq(Nat) /\ (c.choices = TRUE \/ c.text = <<>>)
         /\ c.think \in BOOLEAN /\ c.choices \in BOOLEAN /\ c.err = FALSE
         /\ IsText(said.text \o c.text) /\ Len(said.text) <= Len(said.text \o c.text)
<1>0. PICK s \in Seq(Nat) : s = said.text /\ IsText(s) /\ Len(s) \in Nat
  BY TextIs
<1>1. PICK k \in Nat : k = Len(s) + 1
  BY <1>0
<1>2. <<k>> \in Seq(Nat) /\ <<>> \in Seq(Nat)
  BY EmptySeq
<1>5. /\ IsText(s \o <<k>>) /\ Len(s) <= Len(s \o <<k>>)
      /\ IsText(s \o <<>>) /\ Len(s) <= Len(s \o <<>>)
  <2>1. IsText(s \o <<k>>) /\ Len(s) <= Len(s \o <<k>>) /\ s \o <<>> = s
    BY <1>0, <1>1, TextGrows
  <2>2. Len(s) <= Len(s)
    BY <1>0
  <2>3. IsText(s \o <<>>) /\ Len(s) <= Len(s \o <<>>)
    BY <1>0, <2>1, <2>2
  <2>. QED
    BY <2>1, <2>3
<1>3. CASE c \in Increments
  <2>1. c \in {Chunk(<<k>>, FALSE, <<>>), Chunk(<<>>, TRUE, <<>>), Chunk(<<k>>, TRUE, <<>>)}
          \cup {Chunk(<<>>, FALSE, <<n>>) : n \in Names}
    BY <1>0, <1>1, <1>3 DEF Increments
  <2>2. PICK t \in {<<k>>, <<>>}, th \in BOOLEAN : \E cs : c = Chunk(t, th, cs)
    BY <2>1
  <2>3. c.text = t /\ c.choices = TRUE /\ c.think = th /\ c.err = FALSE
    BY <2>2 DEF Chunk
  <2>4. t \in Seq(Nat) /\ IsText(said.text \o t) /\ Len(said.text) <= Len(said.text \o t)
    BY <1>0, <1>1, <1>2, <1>5
  <2>. QED
    BY <2>2, <2>3, <2>4
<1>4. CASE c \in LastChunk
  <2>1. c = UsageChunk(req.client)
    BY <1>4 DEF LastChunk
  <2>2. c.text = <<>> /\ c.choices = FALSE /\ c.think = FALSE /\ c.err = FALSE
    BY <2>1 DEF UsageChunk, Chunk
  <2>. QED
    BY <1>0, <1>2, <1>5, <2>2
<1>. QED
  BY <1>3, <1>4

(* What an SSE chunk gives the caller. *)
LEMMA CurrentIs ==
  ASSUME NEW client \in Sse, NEW c, c.choices = TRUE \/ c.text = <<>>, c.think \in BOOLEAN, c.choices \in BOOLEAN
  PROVE  Current(client, c).content = c.text /\ Current(client, c).thinking \in BOOLEAN
<1>1. CASE client = "openai"
  BY <1>1 DEF Current, openAIStreamCurrent, Delta
<1>2. CASE client = "ollama"
  BY <1>2 DEF Current, ollamaStreamCurrent, Delta
<1>3. CASE client = "deepseek"
  BY <1>3 DEF Current, deepSeekStreamCurrent, Delta
<1>4. CASE client = "anthropic"
  BY <1>4 DEF Current, anthropicStreamCurrent, Delta
<1>. QED
  BY <1>1, <1>2, <1>3, <1>4 DEF Sse

LEMMA AccumulateIs ==
  ASSUME NEW a, NEW c
  PROVE  DOMAIN Accumulate(a, c) = Fields /\ Accumulate(a, c).text = a.text \o c.text
BY DEF Accumulate, Fields

LEMMA StreamingClient ==
  ASSUME LLMInv, pc = "streaming"
  PROVE  /\ ReqType /\ req.client \in Clients /\ IsStreamSupported(req.client) /\ Streaming
         /\ req.client \in Sse \cup {"gemini"}
<1>1. ReqType /\ req.client \in Clients /\ IsStreamSupported(req.client) /\ Streaming
  BY DEF LLMInv
<1>. QED
  BY <1>1, StreamClients

LEMMA StillStreaming ==
  ASSUME LLMInv, pc = "streaming", pc' = pc, req' = req, Streaming'
  PROVE  LLMInv'
<1>1. IsStreamSupported(req'.client)
  BY StreamingClient
<1>2. ReqType' /\ req'.client \in Clients
  BY StreamingClient DEF ReqType
<1>. QED
  BY <1>1, <1>2 DEF LLMInv

LEMMA GenerateStreamKeeps ==
  ASSUME LLMInv, GenerateStream
  PROVE  LLMInv'
<1>1. Unsaid /\ ReqType' /\ req'.client = req.client /\ req'.stream = req.stream /\ req.client \in Clients
  BY ForgetKeeps DEF LLMInv, GenerateStream
<1>2. IsStreamSupported(req'.client) /\ pc' = "streaming" /\ UNCHANGED <<said, ch, msg, events>>
  BY <1>1 DEF GenerateStream
<1>3. MsgType' /\ msg'.text = FALSE /\ msg'.reasoning = FALSE /\ events' = <<>> /\ said' = Silent
  BY <1>1, <1>2, UnsaidMsg DEF MsgType, Unsaid
<1>4. said'.text = <<>> /\ DOMAIN said' = Fields
  BY <1>3 DEF Silent, Fields
<1>5. Reads(events', State(msg'.text, msg'.reasoning), <<>>)
  BY <1>3, NothingRead
<1>6. req'.client \in Sse => SseOK'
  <2>1. SUFFICES ASSUME req.client \in Sse PROVE SseOK'
    BY <1>1
  <2>2. adapter' = Silent
    BY <2>1 DEF GenerateStream, Sse
  <2>3. DOMAIN adapter' = Fields /\ adapter'.text = <<>>
    BY <2>2 DEF Silent, Fields
  <2>. QED
    BY <1>4, <1>5, <2>3 DEF SseOK, Showing
<1>7. req'.client = "gemini" => req'.stream /\ GeminiOK'
  <2>1. SUFFICES ASSUME req.client = "gemini" PROVE req'.stream /\ GeminiOK'
    BY <1>1
  <2>2. adapter' = [result |-> NoResult, err |-> FALSE, delta |-> <<>>] /\ req.stream
    BY <2>1 DEF GenerateStream
  <2>3. /\ DOMAIN adapter' = {"result", "err", "delta"} /\ adapter'.err \in BOOLEAN /\ adapter'.delta \in Seq(Nat)
        /\ ResponseOK(adapter'.result)
    BY <2>2, EmptySeq DEF ResponseOK
  <2>4. DOMAIN ch' = {"q", "closed"} /\ ch'.q = <<>> /\ Len(<<>>) = 0 /\ <<>> \in Seq(Nat)
    BY <1>1, <1>2, EmptySeq DEF Unsaid
  <2>5. (Showing(<<>>))'
    BY <1>5 DEF Showing
  <2>6. (\E A : ch'.q \in Seq(A)) /\ \A i \in 1..Len(ch'.q) : ChunkOK(ch'.q[i])
    BY <2>4
  <2>7. GeminiOK'
    BY <2>3, <2>4, <2>5, <2>6 DEF GeminiOK
  <2>. QED
    BY <1>1, <2>2, <2>7
<1>8. Streaming'
  <2>1. IsText(said'.text)
    BY <1>4, TextStarts
  <2>. QED
    BY <1>3, <1>4, <1>6, <1>7, <2>1 DEF Streaming
<1>. QED
  BY <1>1, <1>2, <1>8 DEF LLMInv

LEMMA ReadChunkKeeps ==
  ASSUME LLMInv, ReadChunk
  PROVE  LLMInv'
<1>1. pc = "streaming" /\ req.client # "gemini" /\ pc' = pc /\ req' = req
  BY DEF ReadChunk
<1>2. req.client \in Sse /\ Streaming
  BY <1>1, StreamingClient
<1>3. MsgType /\ IsText(said.text) /\ SseOK
  BY <1>2 DEF Streaming
<1>4. PICK c \in (IF MoreToSay THEN Increments ELSE {}) \cup LastChunk :
         /\ said' = Accumulate(said, c) /\ adapter' = Accumulate(adapter, c)
         /\ DrainChunk(Current(req.client, c))
  BY DEF ReadChunk
<1>5. /\ c.text \in Seq(Nat) /\ (c.choices = TRUE \/ c.text = <<>>)
      /\ c.think \in BOOLEAN /\ c.choices \in BOOLEAN
      /\ IsText(said.text \o c.text)
  BY <1>3, NextChunk
<1>6. PICK delta : delta = Current(req.client, c) /\ delta.content = c.text /\ delta.thinking \in BOOLEAN
  BY <1>2, <1>5, CurrentIs
<1>7. DrainChunk(delta)
  BY <1>4, <1>6
<1>8. Reads(events, State(msg.text, msg.reasoning), said.text) /\ (~msg.text => said.text = <<>>)
  BY <1>3 DEF SseOK, Showing
<1>9. /\ MsgType' /\ Reads(events', State(msg'.text, msg'.reasoning), said.text \o c.text)
      /\ ~msg'.text => said.text \o c.text = <<>>
  BY <1>3, <1>5, <1>6, <1>7, <1>8, Drained
<1>10. /\ DOMAIN said' = Fields /\ said'.text = said.text \o c.text
       /\ DOMAIN adapter' = Fields /\ adapter'.text = adapter.text \o c.text
  BY <1>4, AccumulateIs
<1>11. adapter'.text = said'.text
  BY <1>3, <1>10 DEF SseOK
<1>12. (Showing(said.text))'
  BY <1>9, <1>10 DEF Showing
<1>13. SseOK'
  BY <1>10, <1>11, <1>12 DEF SseOK
<1>14. Streaming'
  BY <1>1, <1>5, <1>9, <1>10, <1>13 DEF Streaming
<1>. QED
  BY <1>1, <1>14, StillStreaming

LEMMA ErrorChunkIs == ErrorChunk.err = TRUE
<1>1. PICK c : c = Chunk(<<>>, FALSE, <<>>)
  OBVIOUS
<1>2. DOMAIN c = {"text", "think", "calls", "usage", "choices", "err"}
  BY <1>1 DEF Chunk
<1>3. [c EXCEPT !.err = TRUE, !.choices = FALSE].err = TRUE
  BY <1>2
<1>. QED
  BY <1>1, <1>3 DEF ErrorChunk

LEMMA GeminiNow ==
  ASSUME LLMInv, pc = "streaming", req.client = "gemini"
  PROVE  MsgType /\ DOMAIN said = Fields /\ IsText(said.text) /\ req.stream /\ GeminiOK
BY StreamingClient DEF Streaming

LEMMA GeminiGoesOn ==
  ASSUME LLMInv, pc = "streaming", req.client = "gemini", pc' = pc, req' = req,
         MsgType', DOMAIN said' = Fields, IsText(said'.text), GeminiOK'
  PROVE  LLMInv'
<1>1. req'.client = "gemini" /\ req'.client \notin Sse /\ req'.stream
  BY GeminiNow DEF Sse
<1>2. Streaming'
  BY <1>1 DEF Streaming
<1>. QED
  BY <1>2, StillStreaming

(* A chunk joins the queue. *)
LEMMA QueueAppend ==
  ASSUME NEW q, \E A : q \in Seq(A), \A i \in 1..Len(q) : ChunkOK(q[i]), NEW x, ChunkOK(x)
  PROVE  (\E A : Append(q, x) \in Seq(A)) /\ \A i \in 1..Len(Append(q, x)) : ChunkOK(Append(q, x)[i])
<1>1. PICK A : q \in Seq(A)
  OBVIOUS
<1>2. PICK B : B = A \cup {x}
  OBVIOUS
<1>3. q \in Seq(B) /\ x \in B
  BY <1>1, <1>2
<1>4. /\ Append(q, x) \in Seq(B) /\ Len(Append(q, x)) = Len(q) + 1 /\ Len(q) \in Nat
      /\ Append(q, x)[Len(q) + 1] = x /\ \A i \in 1..Len(q) : Append(q, x)[i] = q[i]
  BY <1>3
<1>5. ASSUME NEW i \in 1..Len(Append(q, x)) PROVE ChunkOK(Append(q, x)[i])
  <2>1. i \in 1..Len(q) \/ i = Len(q) + 1
    BY <1>4
  <2>. QED
    BY <1>4, <2>1
<1>. QED
  BY <1>4, <1>5

(* The first chunk leaves it. *)
LEMMA QueueTail ==
  ASSUME NEW q, q # <<>>, \E A : q \in Seq(A), \A i \in 1..Len(q) : ChunkOK(q[i])
  PROVE  /\ ChunkOK(Head(q)) /\ (\E A : Tail(q) \in Seq(A))
         /\ \A i \in 1..Len(Tail(q)) : ChunkOK(Tail(q)[i])
<1>1. PICK A : q \in Seq(A)
  OBVIOUS
<1>2. /\ Len(q) \in Nat /\ Len(q) > 0 /\ Head(q) = q[1] /\ Tail(q) \in Seq(A) /\ Len(Tail(q)) = Len(q) - 1
      /\ \A i \in 1..Len(Tail(q)) : Tail(q)[i] = q[i + 1]
  BY <1>1
<1>3. 1 \in 1..Len(q) /\ \A i \in 1..Len(Tail(q)) : i + 1 \in 1..Len(q)
  BY <1>2
<1>. QED
  BY <1>2, <1>3

LEMMA GeminiFeedKeeps ==
  ASSUME LLMInv, GeminiFeed
  PROVE  LLMInv'
<1>1. /\ pc = "streaming" /\ req.client = "gemini" /\ pc' = pc /\ req' = req
      /\ UNCHANGED <<adapter, msg, events>>
  BY DEF GeminiFeed
<1>2. MsgType /\ DOMAIN said = Fields /\ IsText(said.text) /\ GeminiOK
  BY <1>1, GeminiNow
<1>3. /\ DOMAIN ch = {"q", "closed"} /\ (\E A : ch.q \in Seq(A))
      /\ \A i \in 1..Len(ch.q) : ChunkOK(ch.q[i])
  BY <1>2 DEF GeminiOK
<1>4. ASSUME DOMAIN said' = Fields, IsText(said'.text), DOMAIN ch' = {"q", "closed"},
             ch'.q = ch.q \/ \E x : ch'.q = Append(ch.q, x) /\ ChunkOK(x)
      PROVE  LLMInv'
  <2>1. (\E A : ch'.q \in Seq(A)) /\ \A i \in 1..Len(ch'.q) : ChunkOK(ch'.q[i])
    <3>1. CASE ch'.q = ch.q
      BY <1>3, <3>1
    <3>2. CASE ch'.q # ch.q
      <4>1. PICK x : ch'.q = Append(ch.q, x) /\ ChunkOK(x)
        BY <1>4, <3>2
      <4>2. PICK q : q = ch.q
        OBVIOUS
      <4>3. (\E A : q \in Seq(A)) /\ \A i \in 1..Len(q) : ChunkOK(q[i])
        BY <1>3, <4>2
      <4>4. (\E A : Append(q, x) \in Seq(A)) /\ \A i \in 1..Len(Append(q, x)) : ChunkOK(Append(q, x)[i])
        BY <4>1, <4>3, QueueAppend
      <4>. QED
        BY <4>1, <4>2, <4>4
    <3>. QED
      BY <3>1, <3>2
  <2>2. \E sh : (Showing(sh))'
    BY <1>1, <1>2 DEF GeminiOK, Showing
  <2>3. GeminiOK'
    BY <1>1, <1>2, <1>4, <2>1, <2>2 DEF GeminiOK
  <2>4. MsgType'
    BY <1>1, <1>2 DEF MsgType
  <2>. QED
    BY <1>1, <1>4, <2>3, <2>4, GeminiGoesOn
<1>5. ASSUME NEW c \in (IF MoreToSay THEN Increments ELSE {}) \cup LastChunk, said' = Accumulate(said, c),
             ch' = [ch EXCEPT !.q = Append(@, c)]
      PROVE  LLMInv'
  <2>1. IsText(said.text \o c.text) /\ c.text \in Seq(Nat) /\ c.err = FALSE
    BY <1>2, NextChunk
  <2>2. ChunkOK(c)
    BY <2>1 DEF ChunkOK
  <2>3. DOMAIN said' = Fields /\ said'.text = said.text \o c.text
    BY <1>5, AccumulateIs
  <2>4. DOMAIN ch' = {"q", "closed"} /\ ch'.q = Append(ch.q, c)
    BY <1>3, <1>5
  <2>. QED
    BY <1>4, <2>1, <2>2, <2>3, <2>4
<1>6. ASSUME ch' = [q |-> Append(ch.q, ErrorChunk), closed |-> TRUE], UNCHANGED said PROVE LLMInv'
  <2>1. ChunkOK(ErrorChunk)
    BY ErrorChunkIs DEF ChunkOK
  <2>2. DOMAIN ch' = {"q", "closed"} /\ ch'.q = Append(ch.q, ErrorChunk)
    BY <1>6
  <2>. QED
    BY <1>2, <1>4, <1>6, <2>1, <2>2
<1>7. ASSUME ch' = [ch EXCEPT !.closed = TRUE], UNCHANGED said PROVE LLMInv'
  <2>1. DOMAIN ch' = {"q", "closed"} /\ ch'.q = ch.q
    BY <1>3, <1>7
  <2>. QED
    BY <1>2, <1>4, <1>7, <2>1
<1>. QED
  BY <1>5, <1>6, <1>7 DEF GeminiFeed

(* What Gemini's Next makes of a chunk, and Current of the adapter. *)
LEMMA GeminiNextIs ==
  ASSUME NEW a, DOMAIN a = {"result", "err", "delta"}, a.err \in BOOLEAN, a.delta \in Seq(Nat),
         ResponseOK(a.result), NEW c, ChunkOK(c), NEW b, b = geminiStreamNext(a, c)
  PROVE  /\ DOMAIN b = {"result", "err", "delta"} /\ b.err \in BOOLEAN /\ b.delta \in Seq(Nat)
         /\ ResponseOK(b.result)
<1>1. CASE c.err = TRUE
  <2>1. b = [a EXCEPT !.err = TRUE]
    BY <1>1 DEF geminiStreamNext
  <2>. QED
    BY <2>1
<1>2. CASE c.err = FALSE
  <2>1. PICK n : n = (IF a.result = NoResult THEN 0 ELSE Len(a.result.content))
    OBVIOUS
  <2>2. n \in Nat
    BY <2>1 DEF ResponseOK
  <2>3. PICK t \in Seq(Nat) : t = c.text
    BY <1>2 DEF ChunkOK
  <2>4. PICK d : d = SubSeq(t, n + 1, Len(t))
    OBVIOUS
  <2>5. d \in Seq(Nat)
    <3>1. n + 1 \in Int /\ Len(t) \in Int /\ \A i \in (n + 1)..Len(t) : t[i] \in Nat
      BY <2>2, <2>3
    <3>. QED
      BY <2>4, <3>1, SubSeqProperties
  <2>6. PICK g : g = geminiResponse(c) /\ "content" \in DOMAIN g /\ g.content = t
    <3>1. DOMAIN geminiResponse(c) = {"content", "calls", "usage"} /\ geminiResponse(c).content = c.text
      BY DEF geminiResponse
    <3>. QED
      BY <2>3, <3>1
  <2>7. b = [result |-> g, err |-> FALSE, delta |-> d]
    BY <1>2, <2>1, <2>3, <2>4, <2>6 DEF geminiStreamNext
  <2>. QED
    BY <2>3, <2>5, <2>6, <2>7 DEF ResponseOK
<1>. QED
  BY <1>1, <1>2 DEF ChunkOK

LEMMA GeminiCurrentIs ==
  ASSUME NEW a, a.delta \in Seq(Nat)
  PROVE  geminiStreamCurrent(a).thinking = FALSE /\ geminiStreamCurrent(a).content \in Seq(Nat)
<1>1. PICK d \in Seq(Nat) : d = (IF a.result = NoResult THEN <<>> ELSE a.delta)
  BY EmptySeq
<1>2. geminiStreamCurrent(a) = [content |-> d, thinking |-> FALSE]
  BY <1>1 DEF geminiStreamCurrent, Delta
<1>. QED
  BY <1>2

LEMMA GeminiReadKeeps ==
  ASSUME LLMInv, GeminiRead
  PROVE  LLMInv'
<1>1. /\ pc = "streaming" /\ req.client = "gemini" /\ pc' = pc /\ req' = req /\ said' = said
      /\ ch.q # <<>> /\ ch' = [ch EXCEPT !.q = Tail(@)]
      /\ adapter' = geminiStreamNext(adapter, Head(ch.q))
      /\ DrainChunk(geminiStreamCurrent(adapter'))
  BY DEF GeminiRead
<1>2. MsgType /\ DOMAIN said = Fields /\ IsText(said.text) /\ GeminiOK
  BY <1>1, GeminiNow
<1>3. /\ DOMAIN adapter = {"result", "err", "delta"} /\ adapter.err \in BOOLEAN /\ adapter.delta \in Seq(Nat)
      /\ ResponseOK(adapter.result) /\ DOMAIN ch = {"q", "closed"}
      /\ (\E A : ch.q \in Seq(A)) /\ \A i \in 1..Len(ch.q) : ChunkOK(ch.q[i])
  BY <1>2 DEF GeminiOK
<1>4. PICK sh : Reads(events, State(msg.text, msg.reasoning), sh) /\ (~msg.text => sh = <<>>)
  BY <1>2 DEF GeminiOK, Showing
<1>5. PICK h, t : h = Head(ch.q) /\ t = Tail(ch.q)
  OBVIOUS
<1>6. ChunkOK(h) /\ (\E A : t \in Seq(A)) /\ \A i \in 1..Len(t) : ChunkOK(t[i])
  BY <1>1, <1>3, <1>5, QueueTail
<1>7. DOMAIN ch' = {"q", "closed"} /\ ch'.q = t
  BY <1>1, <1>3, <1>5
<1>8. /\ DOMAIN adapter' = {"result", "err", "delta"} /\ adapter'.err \in BOOLEAN /\ adapter'.delta \in Seq(Nat)
      /\ ResponseOK(adapter'.result)
  BY <1>1, <1>3, <1>5, <1>6, GeminiNextIs
<1>9. PICK delta : delta = geminiStreamCurrent(adapter') /\ delta.thinking \in BOOLEAN /\ delta.content \in Seq(Nat)
  BY <1>8, GeminiCurrentIs
<1>10. DrainChunk(delta)
  BY <1>1, <1>9
<1>11. /\ MsgType' /\ Reads(events', State(msg'.text, msg'.reasoning), sh \o delta.content)
       /\ ~msg'.text => sh \o delta.content = <<>>
  BY <1>2, <1>4, <1>9, <1>10, Drained
<1>12. \E s : (Showing(s))'
  BY <1>11 DEF Showing
<1>13. GeminiOK'
  BY <1>6, <1>7, <1>8, <1>12 DEF GeminiOK
<1>. QED
  BY <1>1, <1>2, <1>11, <1>13, GeminiGoesOn

(* Reasoning is closed on every return. *)
LEMMA FlushedReads ==
  ASSUME MsgType, NEW sh, Reads(events, State(msg.text, msg.reasoning), sh)
  PROVE  Reads(events \o flushReasoning, State(msg.text, FALSE), sh)
<1>1. PICK tx \in BOOLEAN : tx = msg.text
  BY DEF MsgType
<1>2. Adds(flushReasoning, State(tx, msg.reasoning), State(tx, FALSE), <<>>)
  BY Flushes
<1>3. Reads(events, State(tx, msg.reasoning), sh)
  BY <1>1
<1>4. Reads(events \o flushReasoning, State(tx, FALSE), sh \o <<>>)
  BY <1>2, <1>3 DEF Adds
<1>5. sh \o <<>> = sh
  BY <1>3, Empties DEF Reads
<1>. QED
  BY <1>1, <1>4, <1>5

(* The ends of a stream: with an error, and with a result. *)
LEMMA EndsBadly ==
  ASSUME MsgType, NEW sh, Reads(events, State(msg.text, msg.reasoning), sh),
         events' = events \o flushReasoning, result'.status = "error"
  PROVE  DeliveredIsResult'
<1>1. PICK tx \in BOOLEAN : tx = msg.text
  BY DEF MsgType
<1>2. Reads(events', State(tx, FALSE), sh)
  BY <1>1, FlushedReads
<1>. QED
  BY <1>2, Delivers

LEMMA EndsWell ==
  ASSUME MsgType, NEW sh, Reads(events, State(msg.text, msg.reasoning), sh), ~msg.text => sh = <<>>,
         NEW r, r.content \in Seq(Nat),
         events' = events \o flushReasoning \o finalizeAssistantText(r), result'.r = r,
         r.content # Rewritten => StreamedByGemini' \/ (r.content = sh /\ sh = said'.text)
  PROVE  DeliveredIsResult'
<1>1. PICK rest : rest = (IF msg.text THEN <<>> ELSE r.content)
  OBVIOUS
<1>2. Reads(events \o flushReasoning, State(msg.text, FALSE), sh)
  BY FlushedReads
<1>3. Adds(finalizeAssistantText(r), State(msg.text, FALSE), State(FALSE, FALSE), rest)
  BY <1>1, Finalizes
<1>4. Reads(events', State(FALSE, FALSE), sh \o rest)
  BY <1>2, <1>3 DEF Adds
<1>5. sh \in Seq(Nat)
  BY <1>2 DEF Reads
<1>6. sh \o rest = IF msg.text THEN sh ELSE r.content
  BY <1>1, <1>5, Empties
<1>7. r.content # Rewritten => StreamedByGemini' \/ (sh \o rest = r.content /\ sh \o rest = said'.text)
  BY <1>6
<1>. QED
  BY <1>4, <1>7, Delivers

LEMMA EndedKeeps ==
  ASSUME LLMInv, pc = "streaming", NEW err \in BOOLEAN, Ended(err),
         NEW sh, Reads(events, State(msg.text, msg.reasoning), sh), ~msg.text => sh = <<>>,
         ~err => StreamResult(req.client, adapter) = NoResult
                   \/ /\ ResponseOK(StreamResult(req.client, adapter))
                      /\ StreamedByGemini \/ (StreamResult(req.client, adapter).content = sh /\ sh = said.text)
  PROVE  LLMInv'
<1>1. MsgType /\ ReqType' /\ req' = req /\ said' = said /\ pc' = "returned"
  BY StreamingClient DEF Streaming, Ended, ReqType
<1>2. PICK resp : resp = StreamResult(req.client, adapter)
  OBVIOUS
<1>3. ASSUME NEW x, Return("error", x), events' = events \o flushReasoning PROVE LLMInv'
  BY <1>1, <1>3, ReturnIs, EndsBadly, Returned
<1>4. ASSUME ~err, resp # NoResult, NEW h \in runAfterLLMResponse(resp), NEW r, r = llmResponseToResult(h),
             Return("ok", r), events' = events \o flushReasoning \o finalizeAssistantText(r)
      PROVE  LLMInv'
  <2>1. /\ "content" \in DOMAIN resp /\ resp.content \in Seq(Nat)
        /\ StreamedByGemini \/ (resp.content = sh /\ sh = said.text)
    BY <1>2, <1>4 DEF ResponseOK
  <2>2. r.content = resp.content \/ r.content = Rewritten
    BY <1>4, <2>1, HookKeeps
  <2>3. Rewritten \in Seq(Nat)
    BY DEF Rewritten
  <2>4. r.content \in Seq(Nat)
    BY <2>1, <2>2, <2>3
  <2>5. r.content # Rewritten => StreamedByGemini' \/ (r.content = sh /\ sh = said'.text)
    BY <1>1, <2>1, <2>2 DEF StreamedByGemini
  <2>6. result'.r = r
    BY <1>4, ReturnIs
  <2>7. DeliveredIsResult'
    BY <1>1, <1>4, <2>4, <2>5, <2>6, EndsWell
  <2>. QED
    BY <1>1, <2>7, Returned
<1>5. CASE err
  BY <1>3, <1>5 DEF Ended
<1>6. CASE ~err /\ resp = NoResult
  BY <1>2, <1>3, <1>6 DEF Ended
<1>7. CASE ~err /\ resp # NoResult
  <2>1. \/ Return("error", NoResult) /\ events' = events \o flushReasoning
        \/ \E h \in runAfterLLMResponse(resp) :
             LET r == llmResponseToResult(h)
             IN Return("ok", r) /\ events' = events \o flushReasoning \o finalizeAssistantText(r)
    BY <1>2, <1>7 DEF Ended
  <2>. QED
    BY <1>3, <1>4, <1>7, <2>1
<1>. QED
  BY <1>5, <1>6, <1>7

LEMMA StreamEndsKeeps ==
  ASSUME LLMInv, StreamEnds
  PROVE  LLMInv'
<1>1. pc = "streaming"
  BY DEF StreamEnds
<1>2. req.client \in Sse \cup {"gemini"} /\ Streaming
  BY <1>1, StreamingClient
<1>3. CASE req.client \in Sse
  <2>1. PICK err \in BOOLEAN : Ended(err)
    BY <1>3 DEF StreamEnds, Sse
  <2>2. SseOK
    BY <1>2, <1>3 DEF Streaming
  <2>3. PICK sh : sh = said.text /\ Reads(events, State(msg.text, msg.reasoning), sh) /\ (~msg.text => sh = <<>>)
    BY <2>2 DEF SseOK, Showing
  <2>4. adapter.text = sh
    BY <2>2, <2>3 DEF SseOK
  <2>5. PICK client \in Sse : client = req.client
    BY <1>3
  <2>9. PICK a : a = adapter
    OBVIOUS
  <2>6. PICK v : v = StreamResult(client, a)
    OBVIOUS
  <2>7. v = NoResult \/ ("content" \in DOMAIN v /\ v.content = a.text)
    BY <2>6, SseResult
  <2>10. sh \in Seq(Nat)
    BY <2>3 DEF Reads
  <2>8. StreamResult(req.client, adapter) = NoResult
          \/ /\ ResponseOK(StreamResult(req.client, adapter))
             /\ StreamResult(req.client, adapter).content = sh /\ sh = said.text
    BY <2>3, <2>4, <2>5, <2>6, <2>7, <2>9, <2>10 DEF ResponseOK
  <2>. QED
    BY <1>1, <2>1, <2>3, <2>8, EndedKeeps
<1>4. CASE req.client = "gemini"
  <2>1. Ended(adapter.err)
    BY <1>4 DEF StreamEnds
  <2>2. GeminiOK /\ StreamedByGemini
    BY <1>1, <1>4, GeminiNow DEF StreamedByGemini
  <2>3. adapter.err \in BOOLEAN /\ ResponseOK(adapter.result)
    BY <2>2 DEF GeminiOK
  <2>4. PICK sh : Reads(events, State(msg.text, msg.reasoning), sh) /\ (~msg.text => sh = <<>>)
    BY <2>2 DEF GeminiOK, Showing
  <2>5. StreamResult(req.client, adapter) = adapter.result
    BY <1>4 DEF StreamResult
  <2>. QED
    BY <1>1, <2>1, <2>2, <2>3, <2>4, <2>5, EndedKeeps
<1>. QED
  BY <1>2, <1>3, <1>4

LEMMA LLMUnchanged ==
  ASSUME LLMInv, UNCHANGED llmVars
  PROVE  LLMInv'
<1>1. /\ pc' = pc /\ req' = req /\ said' = said /\ adapter' = adapter /\ ch' = ch /\ msg' = msg
      /\ events' = events /\ result' = result
  BY DEF llmVars
<1>2. DeliveredIsResult => DeliveredIsResult'
  BY <1>1 DEF DeliveredIsResult, Parsed, Streamed, StreamedByGemini
<1>3. Unsaid => Unsaid'
  BY <1>1 DEF Unsaid
<1>4. Streaming => Streaming'
  BY <1>1 DEF Streaming, MsgType, SseOK, GeminiOK, Showing
<1>. QED
  BY <1>1, <1>2, <1>3, <1>4 DEF LLMInv, ReqType

LEMMA NextLLMInv == LLMInv /\ [Next]_vars => LLMInv'
<1> SUFFICES ASSUME LLMInv, [Next]_vars PROVE LLMInv'
  OBVIOUS
<1>1. CASE UNCHANGED llmVars
  BY <1>1, LLMUnchanged
<1>2. CASE LLMNext
  <2>1. ASSUME NEW c \in Clients, NEW s \in BOOLEAN, NEW h \in Histories, NEW memory \in BOOLEAN,
               NEW rag \in BOOLEAN, NEW skip \in BOOLEAN, NEW setting \in Settings,
               Send(c, s, h, memory, rag, skip, setting)
        PROVE  LLMInv'
    BY <2>1, SendKeeps
  <2>2. CASE LLMDone
    BY <2>2, LLMUnchanged DEF LLMDone
  <2>. QED
    BY <1>2, <2>1, <2>2, BeforeKeeps, RefusalKeeps, ExecuteLLMKeeps, FallbackKeeps, GenerateStreamKeeps,
       ReadChunkKeeps, GeminiFeedKeeps, GeminiReadKeeps, StreamEndsKeeps DEF LLMNext
<1>. QED
  BY <1>1, <1>2 DEF Next, vars

LEMMA LLMInvDelivers == LLMInv => DeliveredIsResult
<1> SUFFICES ASSUME LLMInv PROVE DeliveredIsResult
  OBVIOUS
<1>1. CASE pc = "returned"
  BY <1>1 DEF LLMInv
<1>2. CASE pc # "returned"
  <2>1. PICK tx \in BOOLEAN, re \in BOOLEAN : \E sh : Reads(events, State(tx, re), sh)
    <3>1. CASE pc \in {"idle", "sent"}
      BY <3>1, NothingRead DEF LLMInv, Unsaid
    <3>2. CASE pc = "streaming"
      <4>1. MsgType /\ \E sh : Showing(sh)
        BY <3>2, StreamingClient DEF Streaming, SseOK, GeminiOK
      <4>. QED
        BY <4>1 DEF MsgType, Showing
    <3>. QED
      BY <1>2, <3>1, <3>2 DEF LLMInv
  <2>2. Parsed = State(tx, re)
    BY <2>1 DEF Reads, Parsed
  <2>3. Parsed.ok = TRUE
    BY <2>2 DEF State
  <2>. QED
    BY <1>2, <2>3 DEF DeliveredIsResult
<1>. QED
  BY <1>1, <1>2

(* What the consumer of a call was shown is what the run goes on with, for  *)
(* every client, history, hook and vendor, any number of chunks and any     *)
(* capacity of Gemini's channel: the events follow the AG-UI grammar        *)
(* however the call ends, and on success the deltas add up to the result's  *)
(* text and to what the vendor said, unless a hook rewrote it or the answer *)
(* is a stream of Gemini's, whose deltas and result fall short              *)
(* (LLMCalls.DeliveredIsResult; base/runtime.go ExecuteLLM,                 *)
(* ExecuteLLMStream and the stream adapters of pkg/llm).                    *)
THEOREM AnswersDelivered == Spec => []DeliveredIsResult
<1>1. Init => LLMInv
  BY InitLLMInv DEF Init
<1>. QED
  BY <1>1, NextLLMInv, LLMInvDelivers, PTL DEF Spec

-----------------------------------------------------------------------------
(* What is on the wire.                                                     *)

(* Induction from zero up to a bound, on a set.                             *)
LEMMA ByPrefixes ==
  ASSUME NEW n \in Nat, NEW U, 0 \in U, \A k \in 1..n : k - 1 \in U => k \in U
  PROVE  n \in U
<1>1. CASE n = 0
  BY <1>1
<1>2. CASE n # 0
  <2>1. 1 \in 1..n /\ 1 - 1 = 0 /\ n \in 1..n
    BY <1>2
  <2>2. 1 \in U
    BY <2>1
  <2>3. ASSUME NEW i \in 1..n, i < n, i \in U PROVE i + 1 \in U
    <3>1. i + 1 \in 1..n /\ (i + 1) - 1 = i
      BY <2>3
    <3>. QED
      BY <2>3, <3>1
  <2>4. \A i \in 1..n : i \in U
    BY <2>2, <2>3, UpTo
  <2>. QED
    BY <2>1, <2>4
<1>. QED
  BY <1>1, <1>2

(* A sequence without elements is the empty one.                            *)
LEMMA LenZero ==
  ASSUME NEW S, NEW s \in Seq(S), Len(s) = 0
  PROVE  s = <<>>
OBVIOUS

(* F joins the first k pieces of s.                                         *)
JoinsTo(s, F) ==
  /\ F[0] = <<>> /\ FlattenSeq(s) = F[Len(s)]
  /\ \A k \in 1..Len(s) : F[k] = F[k - 1] \o s[k]

(* FlattenSeq is the last of the joins, and each is a sequence.             *)
LEMMA FlattenJoins ==
  ASSUME NEW T, NEW s \in Seq(Seq(T))
  PROVE  \E F \in [0..Len(s) -> Seq(T)] : JoinsTo(s, F)
<1>1. PICK n \in Nat : n = Len(s)
  OBVIOUS
<1>0. <<>> \in Seq(T) /\ \A x \in Seq(T) : <<>> \o x = x
  BY EmptySeq, ConcatEmptySeq
<1>2. CASE n = 0
  <2> DEFINE F == [k \in 0..n |-> <<>>]
  <2>1. FlattenSeq(s) = <<>>
    <3>1. Len(s) = 0
      BY <1>1, <1>2
    <3>2. s = <<>>
      BY <3>1, LenZero
    <3>. QED
      BY <3>1, <3>2 DEF FlattenSeq
  <2>2. F \in [0..n -> Seq(T)] /\ F[0] = <<>> /\ F[n] = <<>>
    BY <1>0, <1>1
  <2> HIDE DEF F
  <2>3. JoinsTo(s, F)
    BY <1>1, <1>2, <2>1, <2>2 DEF JoinsTo
  <2>. QED
    BY <1>1, <2>2, <2>3
<1>3. CASE n # 0
  <2>1. PICK G : Flattens(s, G) /\ FlattenSeq(s) = G[n]
    BY <1>1, <1>3, FlattenIs
  <2>2. \A i \in 1..n : G[i] = Joins(s, G, i)
    BY <1>1, <2>1 DEF Flattens
  <2>3. G[1] = s[1] /\ \A i \in 1..n : i # 1 => G[i] = G[i - 1] \o s[i]
    <3>1. 1 \in 1..n
      BY <1>1, <1>3
    <3>. QED
      BY <2>2, <3>1 DEF Joins
  <2>4. \A i \in 1..n : s[i] \in Seq(T)
    BY <1>1
  <2>5. \A i \in 1..n : G[i] \in Seq(T)
    <3> DEFINE S == {i \in 1..n : G[i] \in Seq(T)}
    <3>1. 1 \in S
      BY <1>1, <1>3, <2>3, <2>4
    <3>2. ASSUME NEW i \in 1..n, i < n, i \in S PROVE i + 1 \in S
      <4>1. i + 1 \in 1..n /\ i + 1 # 1 /\ (i + 1) - 1 = i
        BY <3>2
      <4>2. G[i + 1] = G[i] \o s[i + 1]
        BY <2>3, <4>1
      <4>3. G[i] \o s[i + 1] \in Seq(T)
        BY <2>4, <3>2, <4>1, ConcatProperties
      <4>. QED
        BY <4>1, <4>2, <4>3
    <3> HIDE DEF S
    <3>3. \A i \in 1..n : i \in S
      BY <1>1, <3>1, <3>2, UpTo
    <3>. QED
      BY <3>3 DEF S
  <2> DEFINE F == [k \in 0..n |-> IF k = 0 THEN <<>> ELSE G[k]]
  <2>6. F \in [0..n -> Seq(T)] /\ F[0] = <<>> /\ \A k \in 1..n : F[k] = G[k]
    BY <1>0, <1>1, <2>5
  <2> HIDE DEF F
  <2>7. ASSUME NEW k \in 1..n PROVE F[k] = F[k - 1] \o s[k]
    <3>1. CASE k = 1
      <4>1. F[k - 1] = <<>> /\ F[k] = s[k] /\ s[k] \in Seq(T)
        BY <2>3, <2>4, <2>6, <3>1
      <4>. QED
        BY <1>0, <4>1
    <3>2. CASE k # 1
      <4>1. k - 1 \in 1..n
        BY <3>2
      <4>. QED
        BY <2>3, <2>6, <3>2, <4>1
    <3>. QED
      BY <3>1, <3>2
  <2>8. n \in 1..n
    BY <1>1, <1>3
  <2>9. JoinsTo(s, F)
    BY <1>1, <2>1, <2>6, <2>7, <2>8 DEF JoinsTo
  <2>. QED
    BY <1>1, <2>6, <2>9
<1>. QED
  BY <1>2, <1>3

(* Appending an element.                                                    *)
LEMMA AppendIs ==
  ASSUME NEW S, NEW s \in Seq(S), NEW x \in S
  PROVE  /\ Append(s, x) \in Seq(S) /\ Len(Append(s, x)) = Len(s) + 1 /\ Append(s, x)[Len(s) + 1] = x
         /\ \A i \in 1..Len(s) : Append(s, x)[i] = s[i]
         /\ s \o <<x>> = Append(s, x)
BY AppendProperties, AppendIsConcat

(* A sequence of elements, each replaced by what f gives for it.            *)
MapJoin(f, s) == FlattenSeq([k \in 1..Len(s) |-> f[s[k]]])

(* F joins what f gives for the first k elements of s.                      *)
MapSteps(f, s, T, F) ==
  /\ F \in [0..Len(s) -> Seq(T)] /\ F[0] = <<>> /\ MapJoin(f, s) = F[Len(s)]
  /\ \A k \in 1..Len(s) : F[k] = F[k - 1] \o f[s[k]]

(* There is such an F, so the join is a sequence: empty, of a               *)
(* concatenation, of one element, and of elements kept as they are.         *)
LEMMA MapJoinIs ==
  ASSUME NEW S, NEW T, NEW f \in [S -> Seq(T)], NEW s \in Seq(S)
  PROVE  \E F : MapSteps(f, s, T, F)
<1>1. PICK n \in Nat : n = Len(s)
  OBVIOUS
<1>2. \A k \in 1..n : s[k] \in S /\ f[s[k]] \in Seq(T)
  BY <1>1
<1>3. PICK w \in Seq(Seq(T)) : w = [k \in 1..n |-> f[s[k]]] /\ Len(w) = n
  <2>1. [k \in 1..n |-> f[s[k]]] \in Seq(Seq(T)) /\ Len([k \in 1..n |-> f[s[k]]]) = n
    BY <1>2
  <2>. QED
    BY <2>1
<1>4. \A k \in 1..n : w[k] = f[s[k]]
  BY <1>3
<1>5. PICK F \in [0..Len(w) -> Seq(T)] : JoinsTo(w, F)
  BY FlattenJoins
<1>6. MapJoin(f, s) = FlattenSeq(w)
  BY <1>1, <1>3 DEF MapJoin
<1>7. F \in [0..n -> Seq(T)] /\ F[0] = <<>> /\ MapJoin(f, s) = F[n] /\ \A k \in 1..n : F[k] = F[k - 1] \o f[s[k]]
  BY <1>3, <1>4, <1>5, <1>6 DEF JoinsTo
<1>. QED
  BY <1>1, <1>7 DEF MapSteps

LEMMA MapJoinType ==
  ASSUME NEW S, NEW T, NEW f \in [S -> Seq(T)], NEW s \in Seq(S)
  PROVE  MapJoin(f, s) \in Seq(T) /\ (Len(s) = 0 => MapJoin(f, s) = <<>>)
<1>1. PICK n \in Nat : n = Len(s)
  OBVIOUS
<1>3. PICK F : MapSteps(f, s, T, F)
  BY MapJoinIs
<1>2. F \in [0..n -> Seq(T)] /\ F[0] = <<>> /\ MapJoin(f, s) = F[n]
  BY <1>1, <1>3 DEF MapSteps
<1>. QED
  BY <1>1, <1>2

(* The one-element case, and concatenations.                                *)
LEMMA MapJoinConcat ==
  ASSUME NEW S, NEW T, NEW f \in [S -> Seq(T)], NEW a \in Seq(S), NEW b \in Seq(S)
  PROVE  MapJoin(f, a \o b) = MapJoin(f, a) \o MapJoin(f, b)
<1>1. PICK n \in Nat : n = Len(a)
  OBVIOUS
<1>2. PICK m \in Nat : m = Len(b)
  OBVIOUS
<1>3. PICK s \in Seq(S) : /\ s = a \o b /\ Len(s) = n + m
                          /\ \A i \in 1..n : s[i] = a[i]
                          /\ \A i \in 1..m : s[n + i] = b[i]
  <2>1. /\ a \o b \in Seq(S) /\ Len(a \o b) = n + m
        /\ \A i \in 1..(n + m) : (a \o b)[i] = IF i <= n THEN a[i] ELSE b[i - n]
    BY <1>1, <1>2, ConcatProperties
  <2>2. PICK s \in Seq(S) : s = a \o b
    BY <2>1
  <2>3. Len(s) = n + m /\ \A i \in 1..(n + m) : s[i] = IF i <= n THEN a[i] ELSE b[i - n]
    BY <2>1, <2>2
  <2>4. ASSUME NEW i \in 1..n PROVE s[i] = a[i]
    <3>1. i \in 1..(n + m) /\ i <= n
      BY <1>2
    <3>. QED
      BY <2>3, <3>1
  <2>5. ASSUME NEW i \in 1..m PROVE s[n + i] = b[i]
    <3>1. n + i \in 1..(n + m) /\ ~(n + i <= n) /\ (n + i) - n = i
      BY <1>1
    <3>. QED
      BY <2>3, <3>1
  <2>. QED
    BY <2>2, <2>3, <2>4, <2>5
<1>21. PICK F : MapSteps(f, a, T, F)
  BY MapJoinIs
<1>4. F \in [0..n -> Seq(T)] /\ F[0] = <<>> /\ MapJoin(f, a) = F[n] /\ \A k \in 1..n : F[k] = F[k - 1] \o f[a[k]]
  BY <1>1, <1>21 DEF MapSteps
<1>22. PICK G : MapSteps(f, b, T, G)
  BY MapJoinIs
<1>5. G \in [0..m -> Seq(T)] /\ G[0] = <<>> /\ MapJoin(f, b) = G[m] /\ \A k \in 1..m : G[k] = G[k - 1] \o f[b[k]]
  BY <1>2, <1>22 DEF MapSteps
<1>23. PICK H : MapSteps(f, s, T, H)
  BY MapJoinIs
<1>6. /\ H \in [0..(n + m) -> Seq(T)] /\ H[0] = <<>> /\ MapJoin(f, s) = H[n + m]
      /\ \A k \in 1..(n + m) : H[k] = H[k - 1] \o f[s[k]]
  BY <1>3, <1>23 DEF MapSteps
<1>7. H[n] = F[n]
  <2> DEFINE U == {k \in 0..n : H[k] = F[k]}
  <2>1. 0 \in U
    BY <1>1, <1>4, <1>6
  <2>2. ASSUME NEW k \in 1..n, k - 1 \in U PROVE k \in U
    <3>1. k \in 1..(n + m) /\ k \in 0..n
      BY <1>1, <1>2
    <3>2. H[k - 1] = F[k - 1]
      BY <2>2
    <3>3. H[k] = H[k - 1] \o f[s[k]] /\ F[k] = F[k - 1] \o f[a[k]] /\ s[k] = a[k]
      BY <1>3, <1>4, <1>6, <3>1
    <3>. QED
      BY <3>1, <3>2, <3>3
  <2> HIDE DEF U
  <2>3. n \in U
    BY <1>1, <2>1, <2>2, ByPrefixes
  <2>. QED
    BY <2>3 DEF U
<1>8. \A k \in 1..m : b[k] \in S /\ f[b[k]] \in Seq(T)
  BY <1>2
<1>9. F[n] \in Seq(T) /\ \A k \in 0..m : G[k] \in Seq(T)
  BY <1>4, <1>5
<1>10. F[n] \o <<>> = F[n] /\ \A p, q \in Seq(T) : (F[n] \o p) \o q = F[n] \o (p \o q)
  <2>1. PICK r \in Seq(T) : r = F[n]
    BY <1>9
  <2>2. r \o <<>> = r /\ \A p, q \in Seq(T) : (r \o p) \o q = r \o (p \o q)
    <3>1. r \o <<>> = r
      BY ConcatEmptySeq
    <3>2. \A p, q \in Seq(T) : (r \o p) \o q = r \o (p \o q)
      <4>1. Regroups(T)
        BY Regrouped
      <4>. QED
        BY <4>1, Zenon DEF Regroups
    <3>. QED
      BY <3>1, <3>2
  <2>. QED
    BY <2>1, <2>2
<1>11. H[n + m] = F[n] \o G[m]
  <2> DEFINE U == {k \in 0..m : H[n + k] = F[n] \o G[k]}
  <2>1. 0 \in U
    <3>1. n + 0 = n /\ G[0] = <<>> /\ 0 \in 0..m
      BY <1>1, <1>2, <1>5
    <3>. QED
      BY <1>7, <1>10, <3>1
  <2>2. ASSUME NEW k \in 1..m, k - 1 \in U PROVE k \in U
    <3>1. n + k \in 1..(n + m) /\ (n + k) - 1 = n + (k - 1) /\ k - 1 \in 0..m
      BY <1>1
    <3>2. H[n + k] = H[n + (k - 1)] \o f[b[k]]
      <4>1. H[n + k] = H[(n + k) - 1] \o f[s[n + k]] /\ s[n + k] = b[k]
        BY <1>3, <1>6, <3>1
      <4>. QED
        BY <3>1, <4>1
    <3>3. (F[n] \o G[k - 1]) \o f[b[k]] = F[n] \o (G[k - 1] \o f[b[k]])
      BY <1>8, <1>9, <1>10, <3>1
    <3>4. H[n + (k - 1)] = F[n] \o G[k - 1]
      BY <2>2
    <3>6. k \in 0..m
      BY <1>2
    <3>5. G[k] = G[k - 1] \o f[b[k]]
      BY <1>5
    <3>. QED
      BY <3>2, <3>3, <3>4, <3>5, <3>6
  <2> HIDE DEF U
  <2>3. m \in U
    BY <1>2, <2>1, <2>2, ByPrefixes
  <2>. QED
    BY <2>3 DEF U
<1>. QED
  BY <1>3, <1>4, <1>5, <1>6, <1>11

LEMMA MapJoinOne ==
  ASSUME NEW S, NEW T, NEW f \in [S -> Seq(T)], NEW x \in S
  PROVE  MapJoin(f, <<x>>) = f[x]
<1>0. <<x>> \in Seq(S) /\ Len(<<x>>) = 1 /\ <<x>>[1] = x
  OBVIOUS
<1>1. PICK s \in Seq(S) : s = <<x>> /\ Len(s) = 1 /\ s[1] = x
  BY <1>0
<1>5. PICK F : MapSteps(f, s, T, F)
  BY MapJoinIs
<1>2. F[0] = <<>> /\ MapJoin(f, s) = F[1] /\ \A k \in 1..1 : F[k] = F[k - 1] \o f[s[k]]
  BY <1>1, <1>5 DEF MapSteps
<1>3. F[1] = F[0] \o f[x]
  <2>1. 1 \in 1..1 /\ 1 - 1 = 0
    OBVIOUS
  <2>. QED
    BY <1>1, <1>2, <2>1
<1>4. f[x] \in Seq(T) /\ <<>> \o f[x] = f[x]
  BY ConcatEmptySeq
<1>. QED
  BY <1>1, <1>2, <1>3, <1>4

(* A map that keeps every element as it is.                                 *)
LEMMA MapJoinSame ==
  ASSUME NEW S, NEW f \in [S -> Seq(S)], NEW s \in Seq(S), \A k \in 1..Len(s) : f[s[k]] = <<s[k]>>
  PROVE  MapJoin(f, s) = s
<1>1. PICK n \in Nat : n = Len(s)
  OBVIOUS
<1>7. PICK F : MapSteps(f, s, S, F)
  BY MapJoinIs
<1>2. F \in [0..n -> Seq(S)] /\ F[0] = <<>> /\ MapJoin(f, s) = F[n] /\ \A k \in 1..n : F[k] = F[k - 1] \o f[s[k]]
  BY <1>1, <1>7 DEF MapSteps
<1> DEFINE Same(k) == Len(F[k]) = k /\ \A i \in 1..k : F[k][i] = s[i]
<1>3. ASSUME NEW k \in 1..n, Same(k - 1) PROVE Same(k)
  <2>1. s[k] \in S /\ k - 1 \in 0..n
    BY <1>1
  <2>2. PICK p \in Seq(S), x \in S : p = F[k - 1] /\ x = s[k]
    BY <1>2, <2>1
  <2>3. F[k] = p \o <<x>>
    BY <1>1, <1>2, <2>2
  <2>4. F[k] = Append(p, x)
    BY <2>3, AppendIs
  <2>5. /\ Len(Append(p, x)) = Len(p) + 1 /\ Append(p, x)[Len(p) + 1] = x
        /\ \A i \in 1..Len(p) : Append(p, x)[i] = p[i]
    BY AppendIs
  <2>6. Len(p) = k - 1 /\ (k - 1) + 1 = k /\ \A i \in 1..(k - 1) : p[i] = s[i]
    BY <1>3, <2>2
  <2>7. \A i \in 1..k : i \in 1..(k - 1) \/ i = k
    OBVIOUS
  <2>. QED
    BY <2>2, <2>4, <2>5, <2>6, <2>7
<1>4. Same(0)
  BY <1>2
<1> HIDE DEF Same
<1>5. Same(n)
  <2> DEFINE U == {k \in 0..n : Same(k)}
  <2>1. 0 \in U
    BY <1>1, <1>4
  <2>2. ASSUME NEW k \in 1..n, k - 1 \in U PROVE k \in U
    BY <1>3, <2>2
  <2> HIDE DEF U
  <2>3. n \in U
    BY <1>1, <2>1, <2>2, ByPrefixes
  <2>. QED
    BY <2>3 DEF U
<1>6. PICK v \in Seq(S) : v = F[n]
  <2>1. n \in 0..n
    BY <1>1
  <2>. QED
    BY <1>2, <2>1
<1>9. Len(v) = Len(s) /\ \A i \in 1..Len(v) : v[i] = s[i]
  BY <1>1, <1>5, <1>6 DEF Same
<1>8. v = s
  BY <1>9, SeqEqual
<1>. QED
  BY <1>2, <1>6, <1>8

(* The blocks of a turn, the turns of a wire request, and the atoms as      *)
(* functions of a block, a turn and a message.                              *)
Block == {<<"text">>, <<"call">>} \cup {<<"call", n>> : n \in Nat} \cup {<<"result", n>> : n \in Nat}
WireTurn == [role : {"user", "assistant", "tool", "developer", "system", "model"}, blocks : Seq(Block)]
Plain == [b \in Block |-> WithoutText(b)]
TurnAtoms == [t \in WireTurn |-> BlockAtoms(t.blocks)]
MsgAtoms == [m \in Message |-> MessageAtoms(m)]

(* Blocks and their kinds.                                                  *)
LEMMA BlockIs ==
  /\ <<"text">> \in Block /\ <<"text">>[1] = "text"
  /\ \A n \in Nat : <<"call", n>> \in Block /\ <<"call", n>>[1] = "call"
  /\ \A n \in Nat : <<"result", n>> \in Block /\ <<"result", n>>[1] = "result"
  /\ <<"call">> \in Block /\ <<"call">>[1] = "call"
BY DEF Block

LEMMA OneOf ==
  ASSUME NEW S, NEW x \in S
  PROVE  <<x>> \in Seq(S) /\ Len(<<x>>) = 1 /\ <<x>>[1] = x /\ DOMAIN <<x>> = 1..1
OBVIOUS

(* A block that is text has no atoms, another is its own.                   *)
LEMMA PlainIs ==
  /\ Plain \in [Block -> Seq(Block)]
  /\ \A b \in Block : Plain[b] = WithoutText(b)
  /\ \A b \in Block : b[1] = "text" => Plain[b] = <<>>
  /\ \A b \in Block : b[1] # "text" => Plain[b] = <<b>>
<1>1. ASSUME NEW b \in Block
      PROVE  /\ WithoutText(b) \in Seq(Block)
             /\ b[1] = "text" => WithoutText(b) = <<>>
             /\ b[1] # "text" => WithoutText(b) = <<b>>
  <2>1. <<b>> \in Seq(Block) /\ <<>> \in Seq(Block)
    BY OneOf, EmptySeq
  <2>. QED
    BY <2>1 DEF WithoutText
<1>. QED
  BY <1>1 DEF Plain

(* The atoms of blocks and of turns are joins.                              *)
LEMMA BlockAtomsIs ==
  ASSUME NEW bs \in Seq(Block)
  PROVE  BlockAtoms(bs) = MapJoin(Plain, bs) /\ BlockAtoms(bs) \in Seq(Block)
<1>1. DOMAIN bs = 1..Len(bs) /\ \A k \in 1..Len(bs) : bs[k] \in Block
  OBVIOUS
<1>2. [k \in DOMAIN bs |-> WithoutText(bs[k])] = [k \in 1..Len(bs) |-> Plain[bs[k]]]
  BY <1>1, PlainIs
<1>3. BlockAtoms(bs) = MapJoin(Plain, bs)
  BY <1>2 DEF BlockAtoms, MapJoin
<1>. QED
  BY <1>3, PlainIs, MapJoinType

LEMMA TurnAtomsIs ==
  /\ TurnAtoms \in [WireTurn -> Seq(Block)]
  /\ \A t \in WireTurn : TurnAtoms[t] = BlockAtoms(t.blocks)
<1>1. \A t \in WireTurn : BlockAtoms(t.blocks) \in Seq(Block)
  BY BlockAtomsIs DEF WireTurn
<1>. QED
  BY <1>1 DEF TurnAtoms

LEMMA WireAtomsIs ==
  ASSUME NEW ts \in Seq(WireTurn)
  PROVE  WireAtoms(ts) = MapJoin(TurnAtoms, ts) /\ WireAtoms(ts) \in Seq(Block)
<1>1. DOMAIN ts = 1..Len(ts) /\ \A k \in 1..Len(ts) : ts[k] \in WireTurn
  OBVIOUS
<1>2. [k \in DOMAIN ts |-> BlockAtoms(ts[k].blocks)] = [k \in 1..Len(ts) |-> TurnAtoms[ts[k]]]
  BY <1>1, TurnAtomsIs
<1>3. WireAtoms(ts) = MapJoin(TurnAtoms, ts)
  BY <1>2 DEF WireAtoms, MapJoin
<1>. QED
  BY <1>3, TurnAtomsIs, MapJoinType

(* The atoms of turns: of a concatenation, of one turn, of none.            *)
LEMMA WireAtomsConcat ==
  ASSUME NEW a \in Seq(WireTurn), NEW b \in Seq(WireTurn)
  PROVE  WireAtoms(a \o b) = WireAtoms(a) \o WireAtoms(b)
<1>1. PICK c \in Seq(WireTurn) : c = a \o b
  BY ConcatProperties
<1>2. WireAtoms(c) = MapJoin(TurnAtoms, c) /\ WireAtoms(a) = MapJoin(TurnAtoms, a) /\ WireAtoms(b) = MapJoin(TurnAtoms, b)
  BY WireAtomsIs
<1>4. PICK f \in [WireTurn -> Seq(Block)] : f = TurnAtoms
  BY TurnAtomsIs
<1>5. MapJoin(f, a \o b) = MapJoin(f, a) \o MapJoin(f, b)
  BY MapJoinConcat, SMTT(60)
<1>3. MapJoin(TurnAtoms, a \o b) = MapJoin(TurnAtoms, a) \o MapJoin(TurnAtoms, b)
  BY <1>4, <1>5
<1>. QED
  BY <1>1, <1>2, <1>3

LEMMA WireAtomsOne ==
  ASSUME NEW t \in WireTurn
  PROVE  WireAtoms(<<t>>) = BlockAtoms(t.blocks)
<1>1. PICK c \in Seq(WireTurn) : c = <<t>>
  BY OneOf
<1>2. WireAtoms(c) = MapJoin(TurnAtoms, c)
  BY WireAtomsIs
<1>3. MapJoin(TurnAtoms, <<t>>) = TurnAtoms[t]
  BY TurnAtomsIs, MapJoinOne
<1>. QED
  BY <1>1, <1>2, <1>3, TurnAtomsIs

LEMMA WireAtomsNone == WireAtoms(<<>>) = <<>>
<1>1. PICK c \in Seq(WireTurn) : c = <<>> /\ Len(c) = 0
  BY EmptySeq
<1>3. PICK f \in [WireTurn -> Seq(Block)] : f = TurnAtoms
  BY TurnAtomsIs
<1>4. Len(c) = 0 => MapJoin(f, c) = <<>>
  BY MapJoinType
<1>2. MapJoin(TurnAtoms, c) = <<>>
  BY <1>1, <1>3, <1>4
<1>. QED
  BY <1>1, <1>2, WireAtomsIs

(* Blocks without text are their atoms, and a text in front of them adds    *)
(* none.                                                                    *)
LEMMA PlainConcat ==
  ASSUME NEW a \in Seq(Block), NEW b \in Seq(Block)
  PROVE  MapJoin(Plain, a \o b) = MapJoin(Plain, a) \o MapJoin(Plain, b)
<1>1. PICK f \in [Block -> Seq(Block)] : f = Plain
  BY PlainIs
<1>2. MapJoin(f, a \o b) = MapJoin(f, a) \o MapJoin(f, b)
  BY MapJoinConcat
<1>. QED
  BY <1>1, <1>2

LEMMA NoText ==
  ASSUME NEW bs \in Seq(Block), \A k \in 1..Len(bs) : bs[k][1] # "text"
  PROVE  BlockAtoms(bs) = bs
<1>1. \A k \in 1..Len(bs) : Plain[bs[k]] = <<bs[k]>>
  BY PlainIs
<1>2. MapJoin(Plain, bs) = bs
  BY <1>1, PlainIs, MapJoinSame
<1>. QED
  BY <1>2, BlockAtomsIs

LEMMA TextFirst ==
  ASSUME NEW bs \in Seq(Block), \A k \in 1..Len(bs) : bs[k][1] # "text"
  PROVE  /\ <<<<"text">>>> \o bs \in Seq(Block) /\ BlockAtoms(<<<<"text">>>> \o bs) = bs
         /\ <<<<"text">>>> \in Seq(Block) /\ BlockAtoms(<<<<"text">>>>) = <<>>
         /\ (<<<<"text">>>> \o bs)[1] = <<"text">> /\ Len(<<<<"text">>>> \o bs) # 0
<1>1. PICK x \in Block : x = <<"text">> /\ x[1] = "text"
  BY BlockIs
<1>2. PICK u \in Seq(Block) : u = <<x>> /\ Len(u) = 1 /\ u[1] = x
  BY OneOf
<1>3. PICK c \in Seq(Block) : c = u \o bs /\ Len(c) = 1 + Len(bs) /\ c[1] = x
  <2>1. /\ u \o bs \in Seq(Block) /\ Len(u \o bs) = Len(u) + Len(bs)
        /\ \A i \in 1..(Len(u) + Len(bs)) : (u \o bs)[i] = IF i <= Len(u) THEN u[i] ELSE bs[i - Len(u)]
    BY ConcatProperties
  <2>2. 1 \in 1..(Len(u) + Len(bs)) /\ 1 <= Len(u)
    BY <1>2
  <2>. QED
    BY <1>2, <2>1, <2>2
<1>10. PICK f \in [Block -> Seq(Block)] : f = Plain /\ f[x] = <<>>
  BY <1>1, PlainIs
<1>11. MapJoin(f, <<x>>) = f[x]
  BY MapJoinOne
<1>4. MapJoin(Plain, u) = <<>>
  BY <1>2, <1>10, <1>11
<1>12. MapJoin(f, u \o bs) = MapJoin(f, u) \o MapJoin(f, bs)
  BY PlainConcat, <1>10
<1>13. BlockAtoms(c) = MapJoin(Plain, c)
  BY BlockAtomsIs
<1>5. BlockAtoms(c) = <<>> \o MapJoin(Plain, bs)
  BY <1>3, <1>4, <1>10, <1>12, <1>13
<1>6. MapJoin(Plain, bs) = bs
  BY NoText, BlockAtomsIs
<1>7. <<>> \o bs = bs
  BY ConcatEmptySeq
<1>8. BlockAtoms(u) = <<>>
  BY <1>4, BlockAtomsIs
<1>9. Len(c) # 0
  BY <1>3
<1>. QED
  BY <1>1, <1>2, <1>3, <1>5, <1>6, <1>7, <1>8, <1>9

(* The calls of a message as blocks, and its atoms.                         *)
LEMMA CallBlocksAre ==
  ASSUME NEW m \in Message
  PROVE  /\ CallBlocks(m) \in Seq(Block) /\ Len(CallBlocks(m)) = Len(m.calls)
         /\ \A k \in 1..Len(CallBlocks(m)) : CallBlocks(m)[k][1] = "call"
<1>1. PICK cs \in Seq(Nat) : cs = m.calls
  BY DEF Message
<1>2. PICK n \in Nat : n = Len(cs) /\ DOMAIN cs = 1..n
  OBVIOUS
<1>3. \A k \in 1..n : <<"call", cs[k]>> \in Block /\ <<"call", cs[k]>>[1] = "call"
  BY <1>2, BlockIs
<1>4. CallBlocks(m) = [k \in 1..n |-> <<"call", cs[k]>>]
  BY <1>1, <1>2 DEF CallBlocks
<1>. QED
  BY <1>1, <1>2, <1>3, <1>4

LEMMA MsgAtomsIs ==
  /\ MsgAtoms \in [Message -> Seq(Block)]
  /\ \A m \in Message : MsgAtoms[m] = MessageAtoms(m)
<1>1. ASSUME NEW m \in Message PROVE MessageAtoms(m) \in Seq(Block)
  <2>1. <<"result", m.id>> \in Block
    BY BlockIs DEF Message
  <2>2. <<<<"result", m.id>>>> \in Seq(Block) /\ <<>> \in Seq(Block)
    BY <2>1, OneOf, EmptySeq
  <2>3. CallBlocks(m) \in Seq(Block)
    BY CallBlocksAre
  <2>. QED
    BY <2>2, <2>3 DEF MessageAtoms
<1>. QED
  BY <1>1 DEF MsgAtoms

LEMMA AtomsIs ==
  ASSUME NEW ms \in Seq(Message)
  PROVE  Atoms(ms) = MapJoin(MsgAtoms, ms) /\ Atoms(ms) \in Seq(Block)
<1>1. DOMAIN ms = 1..Len(ms) /\ \A k \in 1..Len(ms) : ms[k] \in Message
  OBVIOUS
<1>2. [k \in DOMAIN ms |-> MessageAtoms(ms[k])] = [k \in 1..Len(ms) |-> MsgAtoms[ms[k]]]
  BY <1>1, MsgAtomsIs
<1>3. Atoms(ms) = MapJoin(MsgAtoms, ms)
  BY <1>2 DEF Atoms, MapJoin
<1>. QED
  BY <1>3, MsgAtomsIs, MapJoinType

(* Gemini's calls without their ids.                                        *)
Anonymous(b) == IF b[1] = "call" THEN <<"call">> ELSE b

(* Taking the ids of the calls away keeps the other blocks and the order.   *)
LEMMA AnonymousIs ==
  ASSUME NEW bs \in Seq(Block)
  PROVE  /\ AnonymousCalls(bs) \in Seq(Block) /\ Len(AnonymousCalls(bs)) = Len(bs)
         /\ \A k \in 1..Len(bs) : AnonymousCalls(bs)[k] = Anonymous(bs[k])
         /\ \A k \in 1..Len(bs) : AnonymousCalls(bs)[k][1] = bs[k][1]
<1>1. DOMAIN bs = 1..Len(bs) /\ \A k \in 1..Len(bs) : bs[k] \in Block
  OBVIOUS
<1>2. \A b \in Block : Anonymous(b) \in Block /\ Anonymous(b)[1] = b[1]
  BY BlockIs DEF Anonymous
<1>3. AnonymousCalls(bs) = [k \in 1..Len(bs) |-> Anonymous(bs[k])]
  BY <1>1 DEF AnonymousCalls, Anonymous
<1>4. PICK n \in Nat : n = Len(bs)
  OBVIOUS
<1>5. \A k \in 1..n : Anonymous(bs[k]) \in Block
  BY <1>1, <1>2, <1>4
<1>6. [k \in 1..n |-> Anonymous(bs[k])] \in Seq(Block) /\ Len([k \in 1..n |-> Anonymous(bs[k])]) = n
  BY <1>5
<1>. QED
  BY <1>1, <1>2, <1>3, <1>4, <1>6

LEMMA AnonymousConcat ==
  ASSUME NEW a \in Seq(Block), NEW b \in Seq(Block)
  PROVE  AnonymousCalls(a \o b) = AnonymousCalls(a) \o AnonymousCalls(b)
<1>1. PICK c \in Seq(Block) : c = a \o b
  BY ConcatProperties
<1>2. Len(c) = Len(a) + Len(b) /\ \A i \in 1..Len(c) : c[i] = IF i <= Len(a) THEN a[i] ELSE b[i - Len(a)]
  BY <1>1, ConcatProperties
<1>3. PICK u \in Seq(Block) : u = AnonymousCalls(c) /\ Len(u) = Len(c) /\ \A i \in 1..Len(c) : u[i] = Anonymous(c[i])
  BY AnonymousIs
<1>4. PICK x \in Seq(Block) : x = AnonymousCalls(a) /\ Len(x) = Len(a) /\ \A i \in 1..Len(a) : x[i] = Anonymous(a[i])
  BY AnonymousIs
<1>5. PICK y \in Seq(Block) : y = AnonymousCalls(b) /\ Len(y) = Len(b) /\ \A i \in 1..Len(b) : y[i] = Anonymous(b[i])
  BY AnonymousIs
<1>6. PICK z \in Seq(Block) : z = x \o y
  BY ConcatProperties
<1>7. Len(z) = Len(x) + Len(y) /\ \A i \in 1..Len(z) : z[i] = IF i <= Len(x) THEN x[i] ELSE y[i - Len(x)]
  BY <1>6, ConcatProperties
<1>8. Len(z) = Len(u)
  BY <1>2, <1>3, <1>4, <1>5, <1>7
<1>9. ASSUME NEW i \in 1..Len(u) PROVE u[i] = z[i]
  <2>1. CASE i <= Len(a)
    <3>1. PICK j \in Nat : j = i
      OBVIOUS
    <3>2. j \in 1..Len(a) /\ j \in 1..Len(c) /\ j \in 1..Len(z)
      BY <1>2, <1>3, <1>8, <2>1, <3>1
    <3>3. c[j] = a[j]
      BY <1>2, <2>1, <3>1, <3>2
    <3>4. z[j] = x[j]
      BY <1>4, <1>7, <2>1, <3>1, <3>2
    <3>5. x[j] = Anonymous(a[j]) /\ u[j] = Anonymous(c[j])
      BY <1>3, <1>4, <3>2
    <3>. QED
      BY <3>1, <3>3, <3>4, <3>5
  <2>2. CASE ~(i <= Len(a))
    <3>1. i - Len(a) \in 1..Len(b)
      BY <1>2, <1>3, <2>2
    <3>2. c[i] = b[i - Len(a)] /\ z[i] = y[i - Len(a)]
      BY <1>2, <1>3, <1>4, <1>7, <1>8, <2>2
    <3>. QED
      BY <1>3, <1>5, <3>1, <3>2
  <2>. QED
    BY <2>1, <2>2
<1>10. u = z
  BY <1>8, <1>9, SeqEqual
<1>. QED
  BY <1>1, <1>3, <1>4, <1>5, <1>6, <1>10

(* h of the whole is the whole of what h makes of the pieces.               *)
Homomorphism(h, A, B) ==
  /\ h \in [Seq(A) -> Seq(B)] /\ h[<<>>] = <<>>
  /\ \A p, q \in Seq(A) : h[p \o q] = h[p] \o h[q]

(* f is a map of S to sequences; h sends what f gives for an element, and   *)
(* the join of it, to what g gives.                                         *)
Maps(f, S, T) == f \in [S -> Seq(T)]
JoinsTogether(h, f, g, s) == h[MapJoin(f, s)] = MapJoin(g, s)
Sends(h, f, g, S) == \A x \in S : h[f[x]] = g[x]

(* A homomorphism sends the join of pieces to the join of what it makes of  *)
(* them.                                                                    *)
LEMMA JoinedBy ==
  ASSUME NEW S, NEW A, NEW B, NEW f, NEW g, NEW h, NEW s \in Seq(S),
         Maps(f, S, A), Maps(g, S, B), Homomorphism(h, A, B), Sends(h, f, g, S)
  PROVE  JoinsTogether(h, f, g, s)
<1>0. f \in [S -> Seq(A)] /\ g \in [S -> Seq(B)]
  BY DEF Maps
<1>1. PICK n \in Nat : n = Len(s)
  OBVIOUS
<1>2. PICK F : MapSteps(f, s, A, F)
  BY <1>0, MapJoinIs
<1>3. PICK G : MapSteps(g, s, B, G)
  BY <1>0, MapJoinIs
<1>4. F \in [0..n -> Seq(A)] /\ F[0] = <<>> /\ MapJoin(f, s) = F[n] /\ \A k \in 1..n : F[k] = F[k - 1] \o f[s[k]]
  BY <1>1, <1>2 DEF MapSteps
<1>5. G \in [0..n -> Seq(B)] /\ G[0] = <<>> /\ MapJoin(g, s) = G[n] /\ \A k \in 1..n : G[k] = G[k - 1] \o g[s[k]]
  BY <1>1, <1>3 DEF MapSteps
<1>6. h[<<>>] = <<>> /\ \A p, q \in Seq(A) : h[p \o q] = h[p] \o h[q]
  BY DEF Homomorphism
<1>7. h[F[0]] = G[0]
  BY <1>4, <1>5, <1>6
<1>8. ASSUME NEW k \in 1..n, h[F[k - 1]] = G[k - 1] PROVE h[F[k]] = G[k]
  <2>1. k - 1 \in 0..n /\ s[k] \in S
    BY <1>1
  <2>2. PICK p \in Seq(A) : p = F[k - 1]
    BY <1>4, <2>1
  <2>3. PICK x \in S : x = s[k]
    BY <2>1
  <2>4. PICK q \in Seq(A) : q = f[x]
    BY <1>0
  <2>5. h[p \o q] = h[p] \o h[q]
    BY <1>6
  <2>6. F[k] = p \o q /\ G[k] = G[k - 1] \o g[x]
    BY <1>4, <1>5, <2>2, <2>3, <2>4
  <2>7. h[q] = g[x]
    BY <2>4 DEF Sends
  <2>. QED
    BY <1>8, <2>2, <2>5, <2>6, <2>7
<1>12. h[F[n]] = G[n]
  <2> DEFINE U == {k \in 0..n : h[F[k]] = G[k]}
  <2>1. 0 \in U
    BY <1>1, <1>7
  <2>2. ASSUME NEW k \in 1..n, k - 1 \in U PROVE k \in U
    BY <1>8, <2>2
  <2> HIDE DEF U
  <2>3. n \in U
    BY <1>1, <2>1, <2>2, ByPrefixes
  <2>. QED
    BY <2>3 DEF U
<1>. QED
  BY <1>4, <1>5, <1>12 DEF JoinsTogether

(* The atoms of turns, and blocks without the ids of the calls, as          *)
(* homomorphisms.                                                           *)
WireAtomsOf == [ts \in Seq(WireTurn) |-> WireAtoms(ts)]
AnonymousOf == [bs \in Seq(Block) |-> AnonymousCalls(bs)]

LEMMA WireAtomsHom == Homomorphism(WireAtomsOf, WireTurn, Block)
<1>1. \A ts \in Seq(WireTurn) : WireAtoms(ts) \in Seq(Block)
  BY WireAtomsIs
<1>2. \A p, q \in Seq(WireTurn) : p \o q \in Seq(WireTurn) /\ WireAtoms(p \o q) = WireAtoms(p) \o WireAtoms(q)
  BY WireAtomsConcat, ConcatProperties
<1>3. <<>> \in Seq(WireTurn)
  BY EmptySeq
<1>4. WireAtomsOf \in [Seq(WireTurn) -> Seq(Block)]
  BY <1>1 DEF WireAtomsOf
<1>5. \A ts \in Seq(WireTurn) : WireAtomsOf[ts] = WireAtoms(ts)
  BY DEF WireAtomsOf
<1>6. \A p, q \in Seq(WireTurn) : WireAtomsOf[p \o q] = WireAtomsOf[p] \o WireAtomsOf[q]
  BY <1>2, <1>5
<1>7. WireAtomsOf[<<>>] = <<>>
  BY <1>3, <1>5, WireAtomsNone
<1>. QED
  BY <1>4, <1>6, <1>7 DEF Homomorphism

LEMMA AnonymousHom == Homomorphism(AnonymousOf, Block, Block)
<1>1. \A bs \in Seq(Block) : AnonymousCalls(bs) \in Seq(Block)
  BY AnonymousIs
<1>2. \A p, q \in Seq(Block) : p \o q \in Seq(Block) /\ AnonymousCalls(p \o q) = AnonymousCalls(p) \o AnonymousCalls(q)
  BY AnonymousConcat, ConcatProperties
<1>3. <<>> \in Seq(Block) /\ Len(<<>>) = 0
  BY EmptySeq
<1>4. AnonymousOf \in [Seq(Block) -> Seq(Block)]
  BY <1>1 DEF AnonymousOf
<1>5. \A bs \in Seq(Block) : AnonymousOf[bs] = AnonymousCalls(bs)
  BY DEF AnonymousOf
<1>6. \A p, q \in Seq(Block) : AnonymousOf[p \o q] = AnonymousOf[p] \o AnonymousOf[q]
  BY <1>2, <1>5
<1>7. AnonymousOf[<<>>] = <<>>
  <2>1. PICK e \in Seq(Block) : e = <<>> /\ Len(e) = 0
    BY <1>3
  <2>2. PICK a \in Seq(Block) : a = AnonymousCalls(e) /\ Len(a) = 0
    BY <2>1, AnonymousIs
  <2>3. a = <<>>
    BY <2>2, LenZero
  <2>. QED
    BY <1>5, <2>1, <2>2, <2>3
<1>. QED
  BY <1>4, <1>6, <1>7 DEF Homomorphism

(* The chat-completion form of a message has its atoms.                     *)
LEMMA OneTurn ==
  ASSUME NEW r \in {"user", "assistant", "tool", "developer", "system", "model"}, NEW bs \in Seq(Block)
  PROVE  /\ Turn(r, bs) \in WireTurn /\ Turn(r, bs).blocks = bs /\ <<Turn(r, bs)>> \in Seq(WireTurn)
         /\ WireAtoms(<<Turn(r, bs)>>) = BlockAtoms(bs)
<1>1. Turn(r, bs) \in WireTurn /\ Turn(r, bs).blocks = bs
  BY DEF Turn, WireTurn
<1>. QED
  BY <1>1, OneOf, WireAtomsOne

(* A result is its own atom, a text has none.                               *)
LEMMA ResultIs ==
  ASSUME NEW n \in Nat
  PROVE  /\ <<<<"result", n>>>> \in Seq(Block) /\ BlockAtoms(<<<<"result", n>>>>) = <<<<"result", n>>>>
<1>1. PICK x \in Block : x = <<"result", n>> /\ x[1] = "result"
  BY BlockIs
<1>2. PICK s \in Seq(Block) : s = <<x>> /\ Len(s) = 1 /\ s[1] = x
  BY OneOf
<1>3. \A k \in 1..Len(s) : s[k][1] # "text"
  BY <1>1, <1>2
<1>. QED
  BY <1>1, <1>2, <1>3, NoText

LEMMA OnlyText ==
  /\ <<<<"text">>>> \in Seq(Block) /\ BlockAtoms(<<<<"text">>>>) = <<>>
<1>1. PICK bs \in Seq(Block) : bs = <<>> /\ Len(bs) = 0
  BY EmptySeq
<1>2. \A k \in 1..Len(bs) : bs[k][1] # "text"
  BY <1>1
<1>. QED
  BY <1>2, TextFirst

LEMMA ChatMessageIs ==
  ASSUME NEW m \in Message
  PROVE  ChatMessage(m) \in Seq(WireTurn) /\ WireAtoms(ChatMessage(m)) = MessageAtoms(m)
<1>0. m.role \in Roles /\ m.id \in Nat
  BY DEF Message
<1>1. CASE m.role = "user"
  <2>1. ChatMessage(m) = <<Turn("user", <<<<"text">>>>)>> /\ MessageAtoms(m) = <<>>
    BY <1>1 DEF ChatMessage, MessageAtoms
  <2>. QED
    BY <2>1, OnlyText, OneTurn
<1>2. CASE m.role = "assistant"
  <2>1. PICK cs \in Seq(Block) : cs = CallBlocks(m) /\ \A k \in 1..Len(cs) : cs[k][1] = "call"
    BY CallBlocksAre
  <2>2. \A k \in 1..Len(cs) : cs[k][1] # "text"
    BY <2>1
  <2>3. PICK bs \in Seq(Block) : bs = <<<<"text">>>> \o cs /\ BlockAtoms(bs) = cs
    BY <2>2, TextFirst
  <2>4. ChatMessage(m) = <<Turn("assistant", bs)>> /\ MessageAtoms(m) = cs
    BY <1>2, <2>1, <2>3 DEF ChatMessage, MessageAtoms
  <2>5. <<Turn("assistant", bs)>> \in Seq(WireTurn) /\ WireAtoms(<<Turn("assistant", bs)>>) = BlockAtoms(bs)
    BY OneTurn
  <2>. QED
    BY <2>3, <2>4, <2>5
<1>3. CASE m.role = "tool"
  <2>1. ChatMessage(m) = <<Turn("tool", <<<<"result", m.id>>>>)>> /\ MessageAtoms(m) = <<<<"result", m.id>>>>
    BY <1>3 DEF ChatMessage, MessageAtoms
  <2>. QED
    <3>1. PICK bs \in Seq(Block) : bs = <<<<"result", m.id>>>> /\ BlockAtoms(bs) = bs
      BY <1>0, ResultIs
    <3>2. "tool" \in {"user", "assistant", "tool", "developer", "system", "model"}
      OBVIOUS
    <3>3. <<Turn("tool", bs)>> \in Seq(WireTurn) /\ WireAtoms(<<Turn("tool", bs)>>) = BlockAtoms(bs)
      BY <3>2, OneTurn
    <3>. QED
      BY <2>1, <3>1, <3>3
<1>4. CASE m.role \notin {"user", "assistant", "tool"}
  <2>1. ChatMessage(m) = <<>> /\ MessageAtoms(m) = <<>>
    BY <1>4 DEF ChatMessage, MessageAtoms
  <2>. QED
    BY <2>1, EmptySeq, WireAtomsNone
<1>. QED
  BY <1>1, <1>2, <1>3, <1>4

(* The chat-completion form as a function of a message.                     *)
ChatOf == [m \in Message |-> ChatMessage(m)]

LEMMA ChatOfIs ==
  /\ ChatOf \in [Message -> Seq(WireTurn)]
  /\ \A m \in Message : ChatOf[m] = ChatMessage(m)
<1>1. \A m \in Message : ChatMessage(m) \in Seq(WireTurn)
  BY ChatMessageIs
<1>. QED
  BY <1>1 DEF ChatOf

(* What f gives for an element has the atoms that g gives for it.           *)
Carries(f, g, S) == \A x \in S : WireAtoms(f[x]) = g[x]

LEMMA WireJoins ==
  ASSUME NEW S, NEW f \in [S -> Seq(WireTurn)], NEW g \in [S -> Seq(Block)], NEW s \in Seq(S),
         Carries(f, g, S)
  PROVE  WireAtoms(MapJoin(f, s)) = MapJoin(g, s)
<1>1. PICK h : Homomorphism(h, WireTurn, Block) /\ h = WireAtomsOf
  BY WireAtomsHom
<1>2. \A ts \in Seq(WireTurn) : h[ts] = WireAtoms(ts)
  BY <1>1 DEF WireAtomsOf
<1>3. \A x \in S : h[f[x]] = g[x]
  BY <1>2 DEF Carries
<1>6. Homomorphism(h, WireTurn, Block) /\ Sends(h, f, g, S)
  BY <1>1, <1>3 DEF Sends
<1>4. h[MapJoin(f, s)] = MapJoin(g, s)
  <2>1. Maps(f, S, WireTurn) /\ Maps(g, S, Block) /\ s \in Seq(S)
    BY DEF Maps
  <2>2. JoinsTogether(h, f, g, s)
    BY <1>6, <2>1, JoinedBy
  <2>. QED
    BY <2>2 DEF JoinsTogether
<1>5. MapJoin(f, s) \in Seq(WireTurn)
  BY MapJoinType
<1>. QED
  BY <1>2, <1>4, <1>5

(* So the chat-completion form of a history has its atoms.                  *)
LEMMA ChatAtoms ==
  ASSUME NEW ms \in Seq(Message)
  PROVE  LET w == FlattenSeq([i \in DOMAIN ms |-> ChatMessage(ms[i])])
         IN  w \in Seq(WireTurn) /\ WireAtoms(w) = Atoms(ms)
<1>1. PICK f \in [Message -> Seq(WireTurn)] : f = ChatOf /\ \A m \in Message : f[m] = ChatMessage(m)
  BY ChatOfIs
<1>2. PICK g \in [Message -> Seq(Block)] : g = MsgAtoms /\ \A m \in Message : g[m] = MessageAtoms(m)
  BY MsgAtomsIs
<1>4. Carries(f, g, Message)
  BY <1>1, <1>2, ChatMessageIs DEF Carries
<1>5. WireAtoms(MapJoin(f, ms)) = MapJoin(g, ms)
  BY <1>4, WireJoins
<1>6. MapJoin(f, ms) \in Seq(WireTurn)
  BY MapJoinType
<1>7. DOMAIN ms = 1..Len(ms) /\ \A k \in 1..Len(ms) : ms[k] \in Message
  OBVIOUS
<1>8. [i \in DOMAIN ms |-> ChatMessage(ms[i])] = [k \in 1..Len(ms) |-> f[ms[k]]]
  BY <1>1, <1>7
<1>9. FlattenSeq([i \in DOMAIN ms |-> ChatMessage(ms[i])]) = MapJoin(f, ms)
  BY <1>8 DEF MapJoin
<1>. QED
  BY <1>2, <1>5, <1>6, <1>9, AtomsIs

(* In front of it goes one turn with the system prompt.                     *)
LEMMA PromptFirst ==
  ASSUME NEW r \in {"developer", "system"}, NEW w \in Seq(WireTurn)
  PROVE  WireAtoms(<<Turn(r, <<<<"text">>>>)>> \o w) = WireAtoms(w)
<1>1. PICK p \in Seq(WireTurn) : p = <<Turn(r, <<<<"text">>>>)>> /\ WireAtoms(p) = <<>>
  <2>1. PICK bs \in Seq(Block) : bs = <<<<"text">>>> /\ BlockAtoms(bs) = <<>>
    BY OnlyText
  <2>2. r \in {"user", "assistant", "tool", "developer", "system", "model"}
    OBVIOUS
  <2>3. <<Turn(r, bs)>> \in Seq(WireTurn) /\ WireAtoms(<<Turn(r, bs)>>) = BlockAtoms(bs)
    BY <2>2, OneTurn
  <2>. QED
    BY <2>1, <2>3
<1>2. WireAtoms(p \o w) = <<>> \o WireAtoms(w)
  BY <1>1, WireAtomsConcat
<1>3. PICK a \in Seq(Block) : a = WireAtoms(w)
  BY WireAtomsIs
<1>4. <<>> \o a = a
  BY ConcatEmptySeq
<1>. QED
  BY <1>1, <1>2, <1>3, <1>4

(* OpenAI, Ollama and DeepSeek: the exchange is on the wire.                *)
LEMMA ChatKeeps ==
  ASSUME NEW c \in {"openai", "ollama", "deepseek"}, NEW r, r.messages \in Seq(Message)
  PROVE  WireAtoms(Wire(c, r)) = Atoms(r.messages)
<1>1. PICK ms \in Seq(Message) : ms = r.messages
  OBVIOUS
<1>2. PICK w \in Seq(WireTurn) : w = FlattenSeq([i \in DOMAIN ms |-> ChatMessage(ms[i])]) /\ WireAtoms(w) = Atoms(ms)
  BY ChatAtoms
<1>3. Wire(c, r) \in {<<Turn(d, <<<<"text">>>>)>> \o w : d \in {"developer", "system"}}
  BY <1>1, <1>2 DEF Wire, messagesToOpenAI, messagesToOllama, messagesToDeepSeek
<1>. QED
  BY <1>1, <1>2, <1>3, PromptFirst

(* The run of tool messages from i ends at j.                               *)
IsEnd(ms, i, j) ==
  /\ j \in i..Len(ms) /\ \A k \in i..j : ms[k].role = "tool"
  /\ j = Len(ms) \/ ms[j + 1].role # "tool"

(* A run of results has one end: the first place that no result follows.    *)
LEMMA EndExists ==
  ASSUME NEW ms \in Seq(Message), NEW i \in 1..Len(ms), ms[i].role = "tool"
  PROVE  \E j \in i..Len(ms) : IsEnd(ms, i, j)
<1>1. PICK n \in Nat : n = Len(ms)
  OBVIOUS
<1>2. PICK S : S = {j \in i..n : j = n \/ ms[j + 1].role # "tool"}
  OBVIOUS
<1>3. S \subseteq Nat /\ n \in S
  BY <1>1, <1>2
<1>4. PICK x \in S : \A y \in S : ~(y < x)
  BY <1>3, LeastNat
<1>5. ASSUME NEW k \in i..x, ms[k].role # "tool" PROVE FALSE
  <2>1. k # i /\ x \in i..n
    BY <1>2, <1>4, <1>5
  <2>2. k - 1 \in i..n /\ (k - 1) + 1 = k /\ k - 1 < x
    BY <1>1, <2>1
  <2>3. k - 1 \in S
    BY <1>2, <1>5, <2>2
  <2>. QED
    BY <1>4, <2>2, <2>3
<1>6. x \in i..n /\ (x = n \/ ms[x + 1].role # "tool")
  BY <1>2, <1>4
<1>. QED
  BY <1>1, <1>5, <1>6 DEF IsEnd

LEMMA RunEndIs ==
  ASSUME NEW ms \in Seq(Message), NEW i \in 1..Len(ms), ms[i].role = "tool"
  PROVE  IsEnd(ms, i, RunEnd(ms, i))
<1>1. \E j \in i..Len(ms) : IsEnd(ms, i, j)
  BY EndExists
<1>. QED
  BY <1>1 DEF RunEnd, IsEnd

LEMMA NoEarlierEnd ==
  ASSUME NEW ms \in Seq(Message), NEW i \in 1..Len(ms), NEW a, NEW b, IsEnd(ms, i, a), IsEnd(ms, i, b)
  PROVE  ~(a < b)
<1>1. SUFFICES ASSUME a < b PROVE FALSE
  OBVIOUS
<1>2. a \in i..Len(ms) /\ b \in i..Len(ms)
  BY DEF IsEnd
<1>3. a # Len(ms) /\ a + 1 \in i..b
  BY <1>1, <1>2
<1>. QED
  BY <1>3 DEF IsEnd

LEMMA OneEnd ==
  ASSUME NEW ms \in Seq(Message), NEW i \in 1..Len(ms), NEW a, NEW b, IsEnd(ms, i, a), IsEnd(ms, i, b)
  PROVE  a = b
<1>1. ~(a < b) /\ ~(b < a)
  BY NoEarlierEnd
<1>2. a \in Nat /\ b \in Nat
  BY DEF IsEnd
<1>. QED
  BY <1>1, <1>2

(* The run is the same from each of its places, and ends where another role *)
(* follows.                                                                 *)
LEMMA RunGoesOn ==
  ASSUME NEW ms \in Seq(Message), NEW k \in 1..Len(ms), k # 1, ms[k].role = "tool", ms[k - 1].role = "tool"
  PROVE  RunEnd(ms, k) = RunEnd(ms, k - 1)
<1>1. k - 1 \in 1..Len(ms) /\ (k - 1) + 1 = k
  OBVIOUS
<1>2. PICK e : e = RunEnd(ms, k - 1) /\ IsEnd(ms, k - 1, e)
  BY <1>1, RunEndIs
<1>3. e \in (k - 1)..Len(ms)
  BY <1>2 DEF IsEnd
<1>4. e # k - 1
  BY <1>1, <1>2 DEF IsEnd
<1>5. e \in k..Len(ms) /\ \A j \in k..e : j \in (k - 1)..e
  BY <1>1, <1>3, <1>4
<1>6. IsEnd(ms, k, e)
  BY <1>2, <1>5 DEF IsEnd
<1>. QED
  BY <1>2, <1>6, RunEndIs, OneEnd

LEMMA RunStops ==
  ASSUME NEW ms \in Seq(Message), NEW k \in 1..Len(ms), ms[k].role = "tool", k = Len(ms) \/ ms[k + 1].role # "tool"
  PROVE  RunEnd(ms, k) = k
<1>1. k \in k..Len(ms) /\ \A j \in k..k : j = k
  OBVIOUS
<1>2. IsEnd(ms, k, k)
  BY <1>1 DEF IsEnd
<1>. QED
  BY <1>2, RunEndIs, OneEnd

(* The results of d messages from i on.                                     *)
ResultsFrom(ms, i, d) == [k \in 1..d |-> <<"result", ms[i + k - 1].id>>]

(* G joins what g gives for the first k messages.                           *)
Follows(G, g, ms) == G[0] = <<>> /\ \A k \in 1..Len(ms) : G[k] = G[k - 1] \o g[ms[k]]

(* The atoms of a tool message are its result.                              *)
GivesResults(g) == \A m \in Message : m.role = "tool" => g[m] = <<<<"result", m.id>>>>

LEMMA MessageIs == \A m \in Message : m.id \in Nat /\ m.role \in Roles /\ m.calls \in Seq(Nat)
BY DEF Message

LEMMA LastAppended ==
  ASSUME NEW T, NEW m \in Seq(T), NEW v \in Seq(T), NEW y \in T, Len(v) = Len(m) + 1,
         \A i \in 1..Len(m) : v[i] = m[i], v[Len(m) + 1] = y
  PROVE  v = Append(m, y)
<1>1. PICK n \in Nat : n = Len(m)
  OBVIOUS
<1>2. PICK u \in Seq(T) : u = Append(m, y) /\ Len(u) = n + 1 /\ u[n + 1] = y /\ \A i \in 1..n : u[i] = m[i]
  BY <1>1, AppendProperties
<1>3. \A i \in 1..(n + 1) : i \in 1..n \/ i = n + 1
  BY <1>1
<1>4. \A i \in 1..Len(v) : v[i] = u[i]
  BY <1>1, <1>2, <1>3
<1>. QED
  BY <1>1, <1>2, <1>4, SeqEqual

(* The results of a run are blocks, and grow by the next message of it.     *)
LEMMA ResultsType ==
  ASSUME NEW ms \in Seq(Message), NEW i \in 1..Len(ms), NEW d \in Nat, i + d - 1 <= Len(ms)
  PROVE  /\ ResultsFrom(ms, i, d) \in Seq(Block) /\ Len(ResultsFrom(ms, i, d)) = d
         /\ \A k \in 1..d : ResultsFrom(ms, i, d)[k] = <<"result", ms[i + k - 1].id>>
<1>1. ASSUME NEW k \in 1..d PROVE <<"result", ms[i + k - 1].id>> \in Block
  <2>1. i + k - 1 \in 1..Len(ms)
    OBVIOUS
  <2>2. PICK m \in Message : m = ms[i + k - 1]
    BY <2>1
  <2>. QED
    BY <2>2, MessageIs, BlockIs
<1> DEFINE R(k) == <<"result", ms[i + k - 1].id>>
<1>2. ResultsFrom(ms, i, d) = [k \in 1..d |-> R(k)]
  BY DEF ResultsFrom
<1>3. \A k \in 1..d : R(k) \in Block
  BY <1>1
<1> HIDE DEF R
<1>4. [k \in 1..d |-> R(k)] \in Seq(Block) /\ Len([k \in 1..d |-> R(k)]) = d
  BY <1>3
<1>5. \A k \in 1..d : ResultsFrom(ms, i, d)[k] = R(k)
  BY <1>2
<1>. QED
  BY <1>2, <1>4, <1>5 DEF R

LEMMA ResultsGrow ==
  ASSUME NEW ms \in Seq(Message), NEW i \in 1..Len(ms), NEW d \in Nat, i + d <= Len(ms)
  PROVE  ResultsFrom(ms, i, d + 1) = ResultsFrom(ms, i, d) \o <<<<"result", ms[i + d].id>>>>
<1>1. PICK u \in Seq(Block) : u = ResultsFrom(ms, i, d) /\ Len(u) = d
                              /\ \A k \in 1..d : u[k] = <<"result", ms[i + k - 1].id>>
  <2>1. i + d - 1 <= Len(ms)
    OBVIOUS
  <2>. QED
    BY <2>1, ResultsType
<1>2. PICK e \in Nat : e = d + 1
  OBVIOUS
<1>3. PICK v \in Seq(Block) : v = ResultsFrom(ms, i, e) /\ Len(v) = e
                              /\ \A k \in 1..e : v[k] = <<"result", ms[i + k - 1].id>>
  <2>1. i + e - 1 <= Len(ms)
    BY <1>2
  <2>. QED
    BY <2>1, ResultsType
<1>4. i + e - 1 = i + d /\ e \in 1..e /\ \A k \in 1..d : k \in 1..e
  BY <1>2
<1>5. PICK x \in Block : x = <<"result", ms[i + d].id>> /\ x = v[e]
  <2>1. v[e] \in Block
    BY <1>3, <1>4
  <2>. QED
    BY <1>3, <1>4, <2>1
<1>8. \A k \in 1..d : v[k] = u[k]
  BY <1>1, <1>3, <1>4
<1>6. v = Append(u, x)
  BY <1>1, <1>2, <1>3, <1>5, <1>8, LastAppended
<1>7. u \o <<x>> = Append(u, x)
  BY AppendIs
<1>. QED
  BY <1>1, <1>2, <1>3, <1>5, <1>6, <1>7

(* The turn of a run has the atoms of all its messages.                     *)
LEMMA RunAtoms ==
  ASSUME NEW ms \in Seq(Message), NEW i \in 1..Len(ms), ms[i].role = "tool", NEW G \in [0..Len(ms) -> Seq(Block)], NEW g,
         Follows(G, g, ms), GivesResults(g)
  PROVE  G[RunEnd(ms, i)] = G[i - 1] \o ResultBlocks(ms, i)
<1>1. PICK n \in Nat : n = Len(ms)
  OBVIOUS
<1>2. PICK e : e = RunEnd(ms, i) /\ IsEnd(ms, i, e)
  BY RunEndIs
<1>3. e \in i..n /\ \A k \in i..e : ms[k].role = "tool"
  BY <1>1, <1>2 DEF IsEnd
<1>4. PICK d \in Nat : d = e - i + 1 /\ 1 <= d /\ i + d <= n + 1
  BY <1>1, <1>3
<1>5. ResultBlocks(ms, i) = ResultsFrom(ms, i, d)
  BY <1>2, <1>4 DEF ResultBlocks, ResultsFrom
<1>6. ASSUME NEW k \in i..e PROVE G[k] = G[k - 1] \o <<<<"result", ms[k].id>>>>
  <2>1. k \in 1..n /\ ms[k] \in Message
    BY <1>1, <1>3
  <2>2. g[ms[k]] = <<<<"result", ms[k].id>>>>
    BY <1>3, <2>1 DEF GivesResults
  <2>. QED
    BY <1>1, <2>1, <2>2 DEF Follows
<1>7. PICK p \in Seq(Block) : p = G[i - 1]
  <2>1. i - 1 \in 0..Len(ms)
    OBVIOUS
  <2>. QED
    BY <2>1
<1>9. ASSUME NEW k \in 0..(d - 1), G[i + k - 1] = G[i - 1] \o ResultsFrom(ms, i, k)
      PROVE  G[i + k] = G[i - 1] \o ResultsFrom(ms, i, k + 1)
  <2>0. k \in Nat /\ i + k <= Len(ms) /\ i + k - 1 <= Len(ms)
    BY <1>1, <1>4
  <2>1. i + k \in i..e /\ (i + k) - 1 = i + k - 1
    BY <1>3, <1>4
  <2>2. PICK u \in Seq(Block) : u = ResultsFrom(ms, i, k)
    BY <2>0, ResultsType
  <2>3. i + k \in 1..Len(ms)
    BY <2>0
  <2>9. PICK m \in Message : m = ms[i + k]
    BY <2>3
  <2>4. ms[i + k].id \in Nat
    BY <2>9, MessageIs
  <2>5. PICK y \in Seq(Block) : y = <<<<"result", ms[i + k].id>>>>
    BY <2>4, ResultIs
  <2>6. ResultsFrom(ms, i, k + 1) = u \o y
    BY <2>0, <2>2, <2>5, ResultsGrow
  <2>7. G[i + k] = (p \o u) \o y
    BY <1>6, <1>7, <1>9, <2>1, <2>2, <2>5
  <2>8. (p \o u) \o y = p \o (u \o y)
    <3>1. Regroups(Block)
      BY Regrouped
    <3>2. p \in Seq(Block)
      BY <1>7
    <3>. QED
      BY <3>1, <3>2, Zenon DEF Regroups
  <2>. QED
    BY <1>7, <2>6, <2>7, <2>8, Zenon
<1>10. G[i + d - 1] = G[i - 1] \o ResultsFrom(ms, i, d)
  <2> DEFINE U == {k \in 0..d : G[i + k - 1] = G[i - 1] \o ResultsFrom(ms, i, k)}
  <2>1. 0 \in U
    <3>1. PICK u \in Seq(Block) : u = ResultsFrom(ms, i, 0) /\ Len(u) = 0
      <4>1. i + 0 - 1 <= Len(ms) /\ 0 \in Nat
        OBVIOUS
      <4>. QED
        BY <4>1, ResultsType
    <3>2. p \o <<>> = p /\ u = <<>>
      BY <3>1, LenZero, ConcatEmptySeq
    <3>3. i + 0 - 1 = i - 1 /\ 0 \in 0..d
      BY <1>4
    <3>. QED
      BY <1>7, <3>1, <3>2, <3>3
  <2>2. ASSUME NEW k \in 1..d, k - 1 \in U PROVE k \in U
    <3>1. k - 1 \in 0..(d - 1) /\ (k - 1) + 1 = k /\ i + (k - 1) = i + k - 1 /\ k \in 0..d
      BY <1>4
    <3>2. G[i + (k - 1)] = G[i - 1] \o ResultsFrom(ms, i, (k - 1) + 1)
      BY <1>9, <2>2, <3>1
    <3>. QED
      BY <3>1, <3>2
  <2> HIDE DEF U
  <2>3. d \in U
    BY <1>4, <2>1, <2>2, ByPrefixes
  <2>. QED
    BY <2>3 DEF U
<1>14. i + d - 1 = e
  BY <1>3, <1>4
<1>. QED
  BY <1>2, <1>5, <1>10, <1>14

(* The blocks of a run are results, one or more.                            *)
LEMMA RunBlocks ==
  ASSUME NEW ms \in Seq(Message), NEW i \in 1..Len(ms), ms[i].role = "tool"
  PROVE  /\ ResultBlocks(ms, i) \in Seq(Block) /\ BlockAtoms(ResultBlocks(ms, i)) = ResultBlocks(ms, i)
         /\ ResultBlocks(ms, i)[1][1] = "result"
<1>2. PICK e : e = RunEnd(ms, i) /\ IsEnd(ms, i, e)
  BY RunEndIs
<1>3. e \in i..Len(ms)
  BY <1>2 DEF IsEnd
<1>4. PICK d \in Nat : d = e - i + 1 /\ 1 <= d /\ i + d - 1 <= Len(ms)
  BY <1>3
<1>5. ResultBlocks(ms, i) = ResultsFrom(ms, i, d)
  BY <1>2, <1>4 DEF ResultBlocks, ResultsFrom
<1>6. PICK u \in Seq(Block) : u = ResultBlocks(ms, i) /\ Len(u) = d
                              /\ \A k \in 1..d : u[k] = <<"result", ms[i + k - 1].id>>
  BY <1>4, <1>5, ResultsType
<1>7. \A k \in 1..d : u[k][1] = "result"
  BY <1>6
<1>8. BlockAtoms(u) = u
  BY <1>6, <1>7, NoText
<1>9. 1 \in 1..d
  BY <1>4
<1>. QED
  BY <1>6, <1>7, <1>8, <1>9

(* What a message that is no tool result becomes: nothing, having no atoms, *)
(* or one turn with its atoms.                                              *)
BecomesNothing(w, atoms) == w = <<>> /\ atoms = <<>>
BecomesTurn(w, atoms) == \E t \in WireTurn : w = <<t>> /\ BlockAtoms(t.blocks) = atoms /\ BeginsResults(t) = FALSE

(* w holds what the messages become, one place for each, a run of results   *)
(* being one turn at the place of its first; g gives their atoms.           *)
Converts(ms, w, g) ==
  /\ w \in Seq(Seq(WireTurn)) /\ Len(w) = Len(ms)
  /\ \A i \in 1..Len(ms) : ms[i].role # "tool" => BecomesNothing(w[i], g[ms[i]]) \/ BecomesTurn(w[i], g[ms[i]])
  /\ \A i \in 1..Len(ms) : ms[i].role = "tool" =>
       w[i] = IF StartsRun(ms, i) THEN <<Turn("user", ResultBlocks(ms, i))>> ELSE <<>>

(* The messages whose atoms are on the wire once the first k are converted. *)
Reach(ms, k) == IF k # 0 /\ ms[k].role = "tool" THEN RunEnd(ms, k) ELSE k

(* The turn of a run is a result turn, and has the atoms of the run.        *)
LEMMA ResultTurn ==
  ASSUME NEW ms \in Seq(Message), NEW i \in 1..Len(ms), ms[i].role = "tool"
  PROVE  \E t \in WireTurn : /\ t = Turn("user", ResultBlocks(ms, i)) /\ BeginsResults(t)
                             /\ WireAtoms(<<t>>) = ResultBlocks(ms, i)
<1>1. PICK bs \in Seq(Block) : bs = ResultBlocks(ms, i) /\ BlockAtoms(bs) = bs /\ bs[1][1] = "result"
  BY RunBlocks
<1>2. "user" \in {"user", "assistant", "tool", "developer", "system", "model"}
  OBVIOUS
<1>3. Turn("user", bs) \in WireTurn /\ Turn("user", bs).blocks = bs /\ WireAtoms(<<Turn("user", bs)>>) = BlockAtoms(bs)
  BY <1>2, OneTurn
<1>. QED
  BY <1>1, <1>3 DEF BeginsResults

(* Outside a run, and at its start, just the messages before have been      *)
(* converted.                                                               *)
LEMMA ReachBefore ==
  ASSUME NEW ms \in Seq(Message), NEW k \in 1..Len(ms), k = 1 \/ ms[k - 1].role # "tool" \/ ms[k].role # "tool"
  PROVE  Reach(ms, k - 1) = k - 1
<1>1. CASE k = 1 \/ ms[k - 1].role # "tool"
  BY <1>1 DEF Reach
<1>2. CASE k # 1 /\ ms[k - 1].role = "tool" /\ ms[k].role # "tool"
  <2>1. k - 1 \in 1..Len(ms) /\ (k - 1) + 1 = k
    BY <1>2
  <2>2. RunEnd(ms, k - 1) = k - 1
    BY <1>2, <2>1, RunStops
  <2>. QED
    BY <2>2 DEF Reach
<1>. QED
  BY <1>1, <1>2

(* The atoms of what stands at k.                                           *)
LEMMA AtomsOfPiece ==
  ASSUME NEW ms \in Seq(Message), NEW w, NEW g, Converts(ms, w, g), NEW k \in 1..Len(ms)
  PROVE  /\ w[k] \in Seq(WireTurn)
         /\ ms[k].role # "tool" => WireAtoms(w[k]) = g[ms[k]]
         /\ StartsRun(ms, k) => WireAtoms(w[k]) = ResultBlocks(ms, k)
         /\ ms[k].role = "tool" /\ ~StartsRun(ms, k) => WireAtoms(w[k]) = <<>>
<1>1. w[k] \in Seq(WireTurn)
  BY DEF Converts
<1>2. ASSUME ms[k].role # "tool" PROVE WireAtoms(w[k]) = g[ms[k]]
  <2>1. CASE BecomesNothing(w[k], g[ms[k]])
    BY <2>1, WireAtomsNone DEF BecomesNothing
  <2>2. CASE BecomesTurn(w[k], g[ms[k]])
    BY <2>2, WireAtomsOne DEF BecomesTurn
  <2>. QED
    BY <1>2, <2>1, <2>2 DEF Converts
<1>3. ASSUME StartsRun(ms, k) PROVE WireAtoms(w[k]) = ResultBlocks(ms, k)
  <2>1. ms[k].role = "tool"
    BY <1>3 DEF StartsRun
  <2>. QED
    BY <1>3, <2>1, ResultTurn DEF Converts
<1>4. ASSUME ms[k].role = "tool", ~StartsRun(ms, k) PROVE WireAtoms(w[k]) = <<>>
  BY <1>4, WireAtomsNone DEF Converts
<1>. QED
  BY <1>1, <1>2, <1>3, <1>4

(* Such a conversion keeps the exchange: the atoms on the wire after k      *)
(* messages are those of the messages it reaches.                           *)
LEMMA ConversionKeeps ==
  ASSUME NEW ms \in Seq(Message), NEW g, Maps(g, Message, Block), GivesResults(g), NEW w, Converts(ms, w, g)
  PROVE  FlattenSeq(w) \in Seq(WireTurn) /\ WireAtoms(FlattenSeq(w)) = MapJoin(g, ms)
<1>1. PICK n \in Nat : n = Len(ms)
  OBVIOUS
<1>2. w \in Seq(Seq(WireTurn)) /\ Len(w) = n
  BY <1>1 DEF Converts
<1>3. PICK F \in [0..Len(w) -> Seq(WireTurn)] : JoinsTo(w, F)
  BY <1>2, FlattenJoins
<1>4. F \in [0..n -> Seq(WireTurn)] /\ F[0] = <<>> /\ FlattenSeq(w) = F[n] /\ \A k \in 1..n : F[k] = F[k - 1] \o w[k]
  BY <1>2, <1>3 DEF JoinsTo
<1>5. PICK G : MapSteps(g, ms, Block, G)
  BY MapJoinIs DEF Maps
<1>6. G \in [0..Len(ms) -> Seq(Block)] /\ MapJoin(g, ms) = G[n] /\ Follows(G, g, ms)
  BY <1>1, <1>5 DEF MapSteps, Follows
<1>7. \A k \in 1..n : G[k] = G[k - 1] \o g[ms[k]]
  BY <1>1, <1>6 DEF Follows
<1> DEFINE P(k) == WireAtoms(F[k]) = G[Reach(ms, k)]
<1>8. P(0)
  BY <1>4, <1>6, WireAtomsNone DEF Reach, Follows
<1>9. ASSUME NEW k \in 1..n, P(k - 1) PROVE P(k)
  <2>1. k \in 1..Len(ms) /\ k - 1 \in 0..n /\ k # 0
    BY <1>1
  <2>2. PICK p \in Seq(WireTurn) : p = F[k - 1]
    BY <1>4, <2>1
  <2>3. PICK q \in Seq(WireTurn) : q = w[k]
    BY <2>1, AtomsOfPiece
  <2>4. F[k] = p \o q /\ WireAtoms(p \o q) = WireAtoms(p) \o WireAtoms(q)
    BY <1>4, <2>2, <2>3, WireAtomsConcat
  <2>5. CASE StartsRun(ms, k)
    <3>1. ms[k].role = "tool" /\ (k = 1 \/ ms[k - 1].role # "tool")
      BY <2>5 DEF StartsRun
    <3>2. WireAtoms(p) = G[k - 1]
      BY <1>9, <2>1, <2>2, <3>1, ReachBefore
    <3>3. WireAtoms(q) = ResultBlocks(ms, k)
      BY <2>1, <2>3, <2>5, AtomsOfPiece
    <3>4. G[RunEnd(ms, k)] = G[k - 1] \o ResultBlocks(ms, k)
      BY <1>6, <2>1, <3>1, RunAtoms
    <3>. QED
      BY <2>1, <2>4, <3>1, <3>2, <3>3, <3>4 DEF Reach
  <2>6. CASE ms[k].role = "tool" /\ ~StartsRun(ms, k)
    <3>1. k # 1 /\ k - 1 # 0 /\ ms[k - 1].role = "tool"
      BY <2>1, <2>6 DEF StartsRun
    <3>2. Reach(ms, k) = Reach(ms, k - 1)
      BY <2>1, <2>6, <3>1, RunGoesOn DEF Reach
    <3>3. WireAtoms(q) = <<>>
      BY <2>1, <2>3, <2>6, AtomsOfPiece
    <3>4. PICK a \in Seq(Block) : a = WireAtoms(p)
      BY WireAtomsIs
    <3>5. a \o <<>> = a
      BY ConcatEmptySeq
    <3>. QED
      BY <1>9, <2>2, <2>4, <3>2, <3>3, <3>4, <3>5
  <2>7. CASE ms[k].role # "tool"
    <3>1. WireAtoms(p) = G[k - 1]
      BY <1>9, <2>1, <2>2, <2>7, ReachBefore
    <3>2. WireAtoms(q) = g[ms[k]]
      BY <2>1, <2>3, <2>7, AtomsOfPiece
    <3>. QED
      BY <1>7, <2>4, <2>7, <3>1, <3>2 DEF Reach
  <2>. QED
    BY <2>5, <2>6, <2>7
<1> HIDE DEF P
<1>10. P(n)
  <2> DEFINE U == {k \in 0..n : P(k)}
  <2>1. 0 \in U
    BY <1>1, <1>8
  <2>2. ASSUME NEW k \in 1..n, k - 1 \in U PROVE k \in U
    BY <1>9, <2>2
  <2> HIDE DEF U
  <2>3. n \in U
    BY <1>1, <2>1, <2>2, ByPrefixes
  <2>. QED
    BY <2>3 DEF U
<1>11. Reach(ms, n) = n
  <2>1. CASE n = 0
    BY <2>1 DEF Reach
  <2>2. CASE n # 0
    <3>1. n \in 1..Len(ms) /\ n = Len(ms)
      BY <1>1, <2>2
    <3>2. ms[n].role = "tool" => RunEnd(ms, n) = n
      BY <3>1, RunStops
    <3>. QED
      BY <3>2 DEF Reach
  <2>. QED
    BY <2>1, <2>2
<1>12. n \in 0..n
  BY <1>1
<1>. QED
  BY <1>4, <1>6, <1>10, <1>11, <1>12 DEF P

(* No message that is not sent stands in front of a run of results.         *)
NoGapBefore(ms, w) ==
  \A i \in 1..Len(ms) : i # 1 /\ ms[i].role = "tool" => ms[i - 1].role = "tool" \/ w[i - 1] # <<>>

(* The last turn is a result turn.                                          *)
EndsInResults(ts) == Len(ts) # 0 /\ BeginsResults(ts[Len(ts)])

(* One turn more.                                                           *)
LEMMA TogetherAppend ==
  ASSUME NEW ts \in Seq(WireTurn), NEW t \in WireTurn, ResultsTogether(ts), ~(EndsInResults(ts) /\ BeginsResults(t))
  PROVE  ResultsTogether(ts \o <<t>>) /\ (EndsInResults(ts \o <<t>>) => BeginsResults(t))
<1>1. PICK n \in Nat : n = Len(ts)
  OBVIOUS
<1>2. PICK u \in Seq(WireTurn) : /\ u = ts \o <<t>> /\ Len(u) = n + 1 /\ u[n + 1] = t
                                 /\ \A i \in 1..n : u[i] = ts[i]
  <2>1. PICK u \in Seq(WireTurn) : u = Append(ts, t)
    BY AppendIs
  <2>2. Len(u) = n + 1 /\ u[n + 1] = t /\ (\A i \in 1..n : u[i] = ts[i]) /\ u = ts \o <<t>>
    BY <1>1, <2>1, AppendIs
  <2>. QED
    BY <2>2
<1>3. ASSUME NEW i \in 1..(Len(u) - 1) PROVE ~(BeginsResults(u[i]) /\ BeginsResults(u[i + 1]))
  <2>1. i \in 1..n
    BY <1>1, <1>2
  <2>2. CASE i = n
    <3>1. u[i] = ts[n] /\ u[i + 1] = t /\ n # 0
      BY <1>2, <2>1, <2>2
    <3>. QED
      BY <1>1, <3>1 DEF EndsInResults
  <2>3. CASE i # n
    <3>1. i \in 1..(Len(ts) - 1) /\ i + 1 \in 1..n
      BY <1>1, <2>1, <2>3
    <3>2. u[i] = ts[i] /\ u[i + 1] = ts[i + 1]
      BY <1>2, <2>1, <3>1
    <3>. QED
      BY <3>1, <3>2 DEF ResultsTogether
  <2>. QED
    BY <2>2, <2>3
<1>4. ResultsTogether(u)
  BY <1>3 DEF ResultsTogether
<1>5. EndsInResults(u) => BeginsResults(t)
  BY <1>2 DEF EndsInResults
<1>. QED
  BY <1>2, <1>4, <1>5

(* And no two result turns are neighbours: the last turn so far is a result *)
(* turn only inside a run, or behind a message of which nothing is sent.    *)
LEMMA ConversionGathers ==
  ASSUME NEW ms \in Seq(Message), NEW g, NEW w, Converts(ms, w, g), NoGapBefore(ms, w)
  PROVE  ResultsTogether(FlattenSeq(w))
<1>1. PICK n \in Nat : n = Len(ms)
  OBVIOUS
<1>2. w \in Seq(Seq(WireTurn)) /\ Len(w) = n
  BY <1>1 DEF Converts
<1>3. PICK F \in [0..Len(w) -> Seq(WireTurn)] : JoinsTo(w, F)
  BY <1>2, FlattenJoins
<1>4. F \in [0..n -> Seq(WireTurn)] /\ F[0] = <<>> /\ FlattenSeq(w) = F[n] /\ \A k \in 1..n : F[k] = F[k - 1] \o w[k]
  BY <1>2, <1>3 DEF JoinsTo
<1> DEFINE Q(k) == /\ ResultsTogether(F[k])
                   /\ EndsInResults(F[k]) => k # 0 /\ (ms[k].role = "tool" \/ w[k] = <<>>)
<1>5. Q(0)
  <2>1. PICK e \in Seq(WireTurn) : e = <<>> /\ Len(e) = 0
    BY EmptySeq
  <2>2. ResultsTogether(e) /\ ~EndsInResults(e)
    BY <2>1 DEF ResultsTogether, EndsInResults
  <2>. QED
    BY <1>4, <2>1, <2>2
<1>6. ASSUME NEW k \in 1..n, Q(k - 1) PROVE Q(k)
  <2>1. k \in 1..Len(ms) /\ k - 1 \in 0..n /\ k # 0
    BY <1>1
  <2>2. PICK p \in Seq(WireTurn) : p = F[k - 1]
    BY <1>4, <2>1
  <2>3. F[k] = p \o w[k]
    BY <1>4, <2>2
  <2>4. CASE w[k] = <<>>
    <3>1. p \o <<>> = p
      BY ConcatEmptySeq
    <3>. QED
      BY <1>6, <2>1, <2>2, <2>3, <2>4, <3>1
  <2>5. ASSUME NEW t \in WireTurn, w[k] = <<t>>, BeginsResults(t) = FALSE PROVE Q(k)
    <3>1. ResultsTogether(p)
      BY <1>6, <2>2
    <3>2. ResultsTogether(p \o <<t>>) /\ (EndsInResults(p \o <<t>>) => BeginsResults(t))
      BY <2>5, <3>1, TogetherAppend
    <3>. QED
      BY <2>3, <2>5, <3>2
  <2>6. CASE StartsRun(ms, k)
    <3>1. ms[k].role = "tool" /\ (k = 1 \/ ms[k - 1].role # "tool")
      BY <2>6 DEF StartsRun
    <3>2. PICK t \in WireTurn : w[k] = <<t>>
      BY <2>1, <2>6, <3>1, ResultTurn DEF Converts
    <3>3. k # 1 => w[k - 1] # <<>>
      BY <2>1, <3>1 DEF NoGapBefore
    <3>4. ResultsTogether(p) /\ ~EndsInResults(p)
      BY <1>6, <2>2, <3>1, <3>3
    <3>5. ResultsTogether(p \o <<t>>)
      BY <3>4, TogetherAppend
    <3>. QED
      BY <2>1, <2>3, <3>1, <3>2, <3>5
  <2>7. CASE ms[k].role = "tool" /\ ~StartsRun(ms, k)
    <3>1. w[k] = <<>>
      BY <2>1, <2>7 DEF Converts
    <3>. QED
      BY <2>4, <3>1
  <2>8. CASE ms[k].role # "tool"
    <3>1. BecomesNothing(w[k], g[ms[k]]) \/ BecomesTurn(w[k], g[ms[k]])
      BY <2>1, <2>8 DEF Converts
    <3>. QED
      BY <2>4, <2>5, <3>1 DEF BecomesNothing, BecomesTurn
  <2>. QED
    BY <2>6, <2>7, <2>8
<1> HIDE DEF Q
<1>7. Q(n)
  <2> DEFINE U == {k \in 0..n : Q(k)}
  <2>1. 0 \in U
    BY <1>1, <1>5
  <2>2. ASSUME NEW k \in 1..n, k - 1 \in U PROVE k \in U
    BY <1>6, <2>2
  <2> HIDE DEF U
  <2>3. n \in U
    BY <1>1, <2>1, <2>2, ByPrefixes
  <2>. QED
    BY <2>3 DEF U
<1>. QED
  BY <1>4, <1>7 DEF Q

(* What is sent is never preceded, where a run of results starts, by a      *)
(* message of which nothing is sent: the loop saves a tool's result right   *)
(* behind the assistant's calls or another result, and a history cut off in *)
(* front may start with results, behind the context that was put there.     *)
ResultsFollow(ms) ==
  \A i \in 1..Len(ms) : i # 1 /\ ms[i].role = "tool" =>
    ms[i - 1].role \in {"tool", "user"} \/ (ms[i - 1].role = "assistant" /\ ms[i - 1].calls # <<>>)

(* The blocks of an assistant message have the atoms of its calls.          *)
LEMMA AssistantBlocksAre ==
  ASSUME NEW m \in Message
  PROVE  /\ AssistantBlocks(m) \in Seq(Block) /\ BlockAtoms(AssistantBlocks(m)) = CallBlocks(m)
         /\ AssistantBlocks(m) # <<>> => AssistantBlocks(m)[1][1] # "result"
         /\ AssistantBlocks(m) = <<>> => CallBlocks(m) = <<>> /\ m.calls = <<>>
<1>1. PICK cs \in Seq(Block) : cs = CallBlocks(m) /\ Len(cs) = Len(m.calls) /\ \A k \in 1..Len(cs) : cs[k][1] = "call"
  BY CallBlocksAre
<1>2. \A k \in 1..Len(cs) : cs[k][1] # "text"
  BY <1>1
<1>3. BlockAtoms(cs) = cs
  BY <1>2, NoText
<1>4. CASE m.text
  <2>1. PICK bs \in Seq(Block) : bs = <<<<"text">>>> \o cs /\ BlockAtoms(bs) = cs /\ bs[1] = <<"text">> /\ Len(bs) # 0
    BY <1>2, TextFirst
  <2>2. AssistantBlocks(m) = bs
    BY <1>1, <1>4, <2>1 DEF AssistantBlocks
  <2>3. bs # <<>> /\ bs[1][1] # "result"
    BY <2>1
  <2>. QED
    BY <1>1, <2>1, <2>2, <2>3
<1>5. CASE ~m.text
  <2>1. <<>> \o cs = cs
    BY ConcatEmptySeq
  <2>2. AssistantBlocks(m) = cs
    BY <1>1, <1>5, <2>1 DEF AssistantBlocks
  <2>3. ASSUME cs # <<>> PROVE cs[1][1] # "result"
    <3>1. Len(cs) # 0
      BY <2>3, LenZero
    <3>2. 1 \in 1..Len(cs)
      BY <3>1
    <3>. QED
      BY <1>1, <3>2
  <2>4. ASSUME cs = <<>> PROVE m.calls = <<>>
    <3>1. PICK is \in Seq(Nat) : is = m.calls
      BY MessageIs
    <3>2. Len(is) = 0
      BY <1>1, <2>4, <3>1
    <3>. QED
      BY <3>1, <3>2, LenZero
  <2>. QED
    BY <1>1, <1>3, <2>2, <2>3, <2>4
<1>. QED
  BY <1>4, <1>5

(* The turn of a user message.                                              *)
UserTurn == <<Turn("user", <<<<"text">>>>)>>

LEMMA UserTurnIs ==
  UserTurn \in Seq(WireTurn) /\ BecomesTurn(UserTurn, <<>>)
<1>1. PICK bs \in Seq(Block) : bs = <<<<"text">>>> /\ BlockAtoms(bs) = <<>>
  BY OnlyText
<1>2. "user" \in {"user", "assistant", "tool", "developer", "system", "model"}
  OBVIOUS
<1>3. PICK t \in WireTurn : t = Turn("user", bs) /\ t.blocks = bs /\ <<t>> \in Seq(WireTurn)
  BY <1>2, OneTurn
<1>4. BeginsResults(t) = FALSE
  BY <1>1, <1>3 DEF BeginsResults
<1>. QED
  BY <1>1, <1>3, <1>4 DEF UserTurn, BecomesTurn

(* A turn of the model's own.                                               *)
LEMMA ModelTurn ==
  ASSUME NEW r \in {"assistant", "model"}, NEW bs \in Seq(Block), bs # <<>>, bs[1][1] # "result"
  PROVE  Turn(r, bs) \in WireTurn /\ BecomesTurn(<<Turn(r, bs)>>, BlockAtoms(bs))
<1>1. r \in {"user", "assistant", "tool", "developer", "system", "model"}
  OBVIOUS
<1>2. PICK t \in WireTurn : t = Turn(r, bs) /\ t.blocks = bs
  BY <1>1, OneTurn
<1>3. BeginsResults(t) = FALSE
  BY <1>2 DEF BeginsResults
<1>. QED
  BY <1>2, <1>3 DEF BecomesTurn

(* Gemini's turn has the calls without their ids.                           *)
LEMMA AnonymousBlocks ==
  ASSUME NEW m \in Message
  PROVE  /\ AnonymousCalls(AssistantBlocks(m)) \in Seq(Block)
         /\ BlockAtoms(AnonymousCalls(AssistantBlocks(m))) = AnonymousCalls(CallBlocks(m))
         /\ AssistantBlocks(m) # <<>> => /\ AnonymousCalls(AssistantBlocks(m)) # <<>>
                                         /\ AnonymousCalls(AssistantBlocks(m))[1][1] # "result"
<1>1. PICK cs \in Seq(Block) : cs = CallBlocks(m) /\ \A k \in 1..Len(cs) : cs[k][1] = "call"
  BY CallBlocksAre
<1>2. PICK as \in Seq(Block) : as = AnonymousCalls(cs) /\ Len(as) = Len(cs) /\ \A k \in 1..Len(cs) : as[k][1] = cs[k][1]
  BY AnonymousIs
<1>3. \A k \in 1..Len(as) : as[k][1] # "text"
  BY <1>1, <1>2
<1>4. PICK bs \in Seq(Block) : bs = AssistantBlocks(m) /\ (bs # <<>> => bs[1][1] # "result")
  BY AssistantBlocksAre
<1>5. PICK xs \in Seq(Block) : xs = AnonymousCalls(bs) /\ Len(xs) = Len(bs) /\ \A k \in 1..Len(bs) : xs[k][1] = bs[k][1]
  BY AnonymousIs
<1>6. ASSUME bs # <<>> PROVE xs # <<>> /\ xs[1][1] # "result"
  <2>1. Len(bs) # 0
    BY <1>6, LenZero
  <2>2. 1 \in 1..Len(bs) /\ Len(xs) # 0
    BY <1>5, <2>1
  <2>. QED
    BY <1>4, <1>5, <1>6, <2>2
<1>7. BlockAtoms(xs) = as
  <2>1. CASE m.text
    <3>1. PICK t \in Seq(Block) : t = <<<<"text">>>> /\ Len(t) = 1 /\ t[1] = <<"text">>
      BY OnlyText
    <3>2. PICK u \in Seq(Block) : u = AnonymousCalls(t) /\ Len(u) = 1 /\ u[1] = Anonymous(t[1])
      <4>1. 1 \in 1..1
        OBVIOUS
      <4>. QED
        BY <3>1, <4>1, AnonymousIs
    <3>3. u[1] = t[1]
      BY <3>1, <3>2 DEF Anonymous
    <3>4. \A k \in 1..Len(u) : u[k] = t[k]
      BY <3>2, <3>3
    <3>5. u = t
      BY <3>1, <3>2, <3>4, SeqEqual
    <3>6. bs = t \o cs
      BY <1>1, <1>4, <2>1, <3>1 DEF AssistantBlocks
    <3>7. AnonymousCalls(t \o cs) = AnonymousCalls(t) \o AnonymousCalls(cs)
      BY AnonymousConcat
    <3>8. xs = <<<<"text">>>> \o as
      BY <1>2, <1>5, <3>1, <3>2, <3>5, <3>6, <3>7
    <3>. QED
      BY <1>3, <3>8, TextFirst
  <2>2. CASE ~m.text
    <3>1. <<>> \o cs = cs
      BY ConcatEmptySeq
    <3>2. bs = cs
      BY <1>1, <1>4, <2>2, <3>1 DEF AssistantBlocks
    <3>. QED
      BY <1>2, <1>3, <1>5, <3>2, NoText
  <2>. QED
    BY <2>1, <2>2
<1>. QED
  BY <1>1, <1>2, <1>4, <1>5, <1>6, <1>7

(* a gives the turn of an assistant message, g the atoms of a message.      *)
Speaks(a, g) ==
  \A m \in Message : /\ m.role = "tool" => g[m] = <<<<"result", m.id>>>>
                     /\ m.role \notin {"assistant", "tool"} => g[m] = <<>>
                     /\ m.role = "assistant" /\ AssistantBlocks(m) = <<>> => g[m] = <<>>
                     /\ m.role = "assistant" /\ AssistantBlocks(m) # <<>> => BecomesTurn(<<a[m]>>, g[m])

(* What both providers make of the message at i.                            *)
Piece(ms, a, i) ==
  CASE ms[i].role = "user" -> UserTurn
    [] ms[i].role = "assistant" /\ AssistantBlocks(ms[i]) # <<>> -> <<a[ms[i]]>>
    [] StartsRun(ms, i) -> <<Turn("user", ResultBlocks(ms, i))>>
    [] OTHER -> <<>>
Pieces(ms, a) == [i \in 1..Len(ms) |-> Piece(ms, a, i)]

(* It is a conversion in that sense.                                        *)
LEMMA PieceIs ==
  ASSUME NEW ms \in Seq(Message), NEW a \in [Message -> WireTurn], NEW g, Speaks(a, g), NEW i \in 1..Len(ms)
  PROVE  /\ Piece(ms, a, i) \in Seq(WireTurn)
         /\ ms[i].role # "tool" => BecomesNothing(Piece(ms, a, i), g[ms[i]]) \/ BecomesTurn(Piece(ms, a, i), g[ms[i]])
         /\ ms[i].role = "tool" =>
              Piece(ms, a, i) = IF StartsRun(ms, i) THEN <<Turn("user", ResultBlocks(ms, i))>> ELSE <<>>
         /\ ms[i].role = "user" => Piece(ms, a, i) # <<>>
         /\ ms[i].role = "assistant" /\ ms[i].calls # <<>> => Piece(ms, a, i) # <<>>
<1>1. PICK m \in Message : m = ms[i]
  OBVIOUS
<1>2. <<>> \in Seq(WireTurn)
  BY EmptySeq
<1>3. CASE m.role = "user"
  <2>1. Piece(ms, a, i) = UserTurn /\ g[m] = <<>>
    BY <1>1, <1>3 DEF Piece, Speaks, StartsRun
  <2>2. UserTurn # <<>>
    BY UserTurnIs DEF UserTurn
  <2>. QED
    BY <1>1, <1>3, <2>1, <2>2, UserTurnIs
<1>4. CASE m.role = "assistant" /\ AssistantBlocks(m) # <<>>
  <2>1. Piece(ms, a, i) = <<a[m]>> /\ BecomesTurn(<<a[m]>>, g[m])
    BY <1>1, <1>4 DEF Piece, Speaks, StartsRun
  <2>2. a[m] \in WireTurn
    OBVIOUS
  <2>3. <<a[m]>> \in Seq(WireTurn) /\ <<a[m]>> # <<>>
    BY <2>2
  <2>. QED
    BY <1>1, <1>4, <2>1, <2>3
<1>5. CASE m.role = "assistant" /\ AssistantBlocks(m) = <<>>
  <2>1. Piece(ms, a, i) = <<>> /\ g[m] = <<>>
    BY <1>1, <1>5 DEF Piece, Speaks, StartsRun
  <2>2. m.calls = <<>>
    BY <1>5, AssistantBlocksAre
  <2>. QED
    BY <1>1, <1>2, <1>5, <2>1, <2>2 DEF BecomesNothing
<1>6. CASE m.role = "tool"
  <2>1. Piece(ms, a, i) = IF StartsRun(ms, i) THEN <<Turn("user", ResultBlocks(ms, i))>> ELSE <<>>
    BY <1>1, <1>6 DEF Piece
  <2>2. <<Turn("user", ResultBlocks(ms, i))>> \in Seq(WireTurn)
    <3>1. PICK t \in WireTurn : t = Turn("user", ResultBlocks(ms, i))
      BY <1>1, <1>6, ResultTurn
    <3>. QED
      BY <3>1
  <2>. QED
    BY <1>1, <1>2, <1>6, <2>1, <2>2
<1>7. CASE m.role \notin {"user", "assistant", "tool"}
  <2>1. Piece(ms, a, i) = <<>> /\ g[m] = <<>>
    BY <1>1, <1>7 DEF Piece, Speaks, StartsRun
  <2>. QED
    BY <1>1, <1>2, <1>7, <2>1 DEF BecomesNothing
<1>. QED
  BY <1>3, <1>4, <1>5, <1>6, <1>7

LEMMA PiecesConvert ==
  ASSUME NEW ms \in Seq(Message), NEW a \in [Message -> WireTurn], NEW g, Speaks(a, g)
  PROVE  Converts(ms, Pieces(ms, a), g) /\ (ResultsFollow(ms) => NoGapBefore(ms, Pieces(ms, a)))
<1>1. \A i \in 1..Len(ms) : Pieces(ms, a)[i] = Piece(ms, a, i)
  BY DEF Pieces
<1>2. \A i \in 1..Len(ms) : Piece(ms, a, i) \in Seq(WireTurn)
  BY PieceIs
<1>3. Pieces(ms, a) \in Seq(Seq(WireTurn)) /\ Len(Pieces(ms, a)) = Len(ms)
  <2>1. PICK n \in Nat : n = Len(ms)
    OBVIOUS
  <2>2. Pieces(ms, a) = [i \in 1..n |-> Piece(ms, a, i)]
    BY <2>1 DEF Pieces
  <2>3. \A i \in 1..n : Piece(ms, a, i) \in Seq(WireTurn)
    BY <1>2, <2>1
  <2>4. [i \in 1..n |-> Piece(ms, a, i)] \in Seq(Seq(WireTurn)) /\ Len([i \in 1..n |-> Piece(ms, a, i)]) = n
    BY <2>3
  <2>. QED
    BY <2>1, <2>2, <2>4
<1>4. Converts(ms, Pieces(ms, a), g)
  BY <1>1, <1>3, PieceIs DEF Converts
<1>5. ASSUME ResultsFollow(ms), NEW i \in 1..Len(ms), i # 1, ms[i].role = "tool"
      PROVE  ms[i - 1].role = "tool" \/ Pieces(ms, a)[i - 1] # <<>>
  <2>1. i - 1 \in 1..Len(ms)
    BY <1>5
  <2>2. \/ ms[i - 1].role = "tool" \/ ms[i - 1].role = "user"
        \/ ms[i - 1].role = "assistant" /\ ms[i - 1].calls # <<>>
    BY <1>5 DEF ResultsFollow
  <2>. QED
    BY <1>1, <2>1, <2>2, PieceIs
<1>. QED
  BY <1>4, <1>5 DEF NoGapBefore

(* The messages of a request keep the history's order of roles.             *)
LEMMA SanitizedIs ==
  ASSUME NEW h \in Seq(Message)
  PROVE  sanitizeMessages(h) \in Seq(Message) /\ (ResultsFollow(h) => ResultsFollow(sanitizeMessages(h)))
<1>1. PICK n \in Nat : n = Len(h) /\ DOMAIN h = 1..n
  OBVIOUS
<1> DEFINE Clean(i) == [h[i] EXCEPT !.text = @ /\ ~h[i].volatile]
<1>2. ASSUME NEW i \in 1..n
      PROVE  Clean(i) \in Message /\ Clean(i).role = h[i].role /\ Clean(i).calls = h[i].calls
  <2>1. PICK m \in Message : m = h[i]
    BY <1>1
  <2>2. [m EXCEPT !.text = @ /\ ~m.volatile] \in Message
    BY DEF Message
  <2>3. [m EXCEPT !.text = @ /\ ~m.volatile].role = m.role /\ [m EXCEPT !.text = @ /\ ~m.volatile].calls = m.calls
    BY DEF Message
  <2>. QED
    BY <2>1, <2>2, <2>3
<1>3. sanitizeMessages(h) = [i \in 1..n |-> Clean(i)]
  BY <1>1 DEF sanitizeMessages
<1> HIDE DEF Clean
<1>4. PICK s \in Seq(Message) : s = sanitizeMessages(h) /\ Len(s) = n
  <2>1. [i \in 1..n |-> Clean(i)] \in Seq(Message) /\ Len([i \in 1..n |-> Clean(i)]) = n
    BY <1>2
  <2>. QED
    BY <1>3, <2>1
<1>5. \A i \in 1..n : s[i].role = h[i].role /\ s[i].calls = h[i].calls
  BY <1>2, <1>3, <1>4
<1>6. ASSUME ResultsFollow(h), NEW i \in 1..n, i # 1, s[i].role = "tool"
      PROVE  \/ s[i - 1].role \in {"tool", "user"}
             \/ s[i - 1].role = "assistant" /\ s[i - 1].calls # <<>>
  <2>1. i - 1 \in 1..n
    BY <1>6
  <2>. QED
    BY <1>1, <1>5, <1>6, <2>1 DEF ResultsFollow
<1>. QED
  BY <1>4, <1>6 DEF ResultsFollow

LEMMA UserMessageIs == UserMessage \in Message /\ UserMessage.role = "user"
<1>1. PICK e \in Seq(Nat) : e = <<>>
  BY EmptySeq
<1>2. [role |-> "user", text |-> TRUE, volatile |-> FALSE, calls |-> e, id |-> 0] \in Message
  BY DEF Message, Roles
<1>. QED
  BY <1>1, <1>2 DEF UserMessage

(* Context that is put in front keeps results behind what they follow.      *)
LEMMA ContextFirst ==
  ASSUME NEW h \in Seq(Message)
  PROVE  <<UserMessage>> \o h \in Seq(Message) /\ (ResultsFollow(h) => ResultsFollow(<<UserMessage>> \o h))
<1>1. PICK u \in Message : u = UserMessage /\ u.role = "user"
  BY UserMessageIs
<1>2. PICK p \in Seq(Message) : p = <<u>> /\ Len(p) = 1 /\ p[1] = u
  BY OneOf
<1>3. PICK s \in Seq(Message) : s = p \o h
  BY ConcatProperties
<1>4. Len(s) = 1 + Len(h) /\ s[1] = u /\ \A i \in 1..Len(s) : i # 1 => s[i] = h[i - 1]
  <2>1. Len(s) = Len(p) + Len(h) /\ \A i \in 1..(Len(p) + Len(h)) : s[i] = IF i <= Len(p) THEN p[i] ELSE h[i - Len(p)]
    BY <1>3, ConcatProperties
  <2>2. Len(s) = 1 + Len(h) /\ \A i \in 1..(1 + Len(h)) : s[i] = IF i <= 1 THEN p[i] ELSE h[i - 1]
    BY <1>2, <2>1
  <2>3. 1 \in 1..(1 + Len(h)) /\ \A i \in 1..(1 + Len(h)) : i # 1 => ~(i <= 1)
    OBVIOUS
  <2>. QED
    BY <1>2, <2>2, <2>3
<1>5. ASSUME ResultsFollow(h), NEW i \in 1..Len(s), i # 1, s[i].role = "tool"
      PROVE  \/ s[i - 1].role \in {"tool", "user"}
             \/ s[i - 1].role = "assistant" /\ s[i - 1].calls # <<>>
  <2>1. CASE i = 2
    BY <1>1, <1>4, <2>1
  <2>2. CASE i # 2
    <3>1. i - 1 \in 1..Len(h) /\ i - 1 \in 1..Len(s) /\ i - 1 # 1
      BY <1>4, <1>5, <2>2
    <3>2. s[i] = h[i - 1] /\ s[i - 1] = h[(i - 1) - 1]
      BY <1>4, <1>5, <3>1
    <3>. QED
      BY <1>5, <3>1, <3>2 DEF ResultsFollow
  <2>. QED
    BY <2>1, <2>2
<1>. QED
  BY <1>1, <1>2, <1>3, <1>5 DEF ResultsFollow

LEMMA Regroup ==
  ASSUME NEW S, NEW p \in Seq(S), NEW s \in Seq(S)
  PROVE  (p \o p) \o s = p \o (p \o s)
BY ConcatAssociative

(* So do all the messages BuildLLMRequest puts together.                    *)
LEMMA RequestMessages ==
  ASSUME NEW h \in Seq(Message), NEW memory, NEW rag, NEW skip, NEW setting
  PROVE  LET ms == BuildLLMRequest(h, memory, rag, skip, setting).messages
         IN  ms \in Seq(Message) /\ (ResultsFollow(h) => ResultsFollow(ms))
<1>1. PICK s \in Seq(Message) : s = sanitizeMessages(h) /\ (ResultsFollow(h) => ResultsFollow(s))
  BY SanitizedIs
<1>2. PICK p \in Seq(Message) : p = <<UserMessage>>
  <2>1. PICK u \in Message : u = UserMessage
    BY UserMessageIs
  <2>. QED
    BY <2>1, OneOf
<1>3. PICK e \in Seq(Message) : e = <<>>
  BY EmptySeq
<1>4. PICK a \in Seq(Message) : a = p \o s /\ (ResultsFollow(s) => ResultsFollow(a))
  BY <1>2, ContextFirst
<1>5. PICK b \in Seq(Message) : b = p \o a /\ (ResultsFollow(a) => ResultsFollow(b))
  BY <1>2, ContextFirst
<1>6. e \o e = e /\ e \o p = p /\ p \o e = p /\ e \o s = s /\ (p \o p) \o s = b
  <2>1. (p \o p) \o s = b
    BY <1>4, <1>5, Regroup
  <2>2. e \o e = e /\ e \o p = p /\ p \o e = p /\ e \o s = s
    BY <1>3, ConcatEmptySeq
  <2>. QED
    BY <2>1, <2>2
<1>7. BuildLLMRequest(h, memory, rag, skip, setting).messages
        = ((IF memory THEN p ELSE e) \o (IF rag THEN p ELSE e)) \o s
  BY <1>1, <1>2, <1>3 DEF BuildLLMRequest
<1>8. BuildLLMRequest(h, memory, rag, skip, setting).messages \in {s, a, b}
  BY <1>4, <1>6, <1>7
<1>. QED
  BY <1>1, <1>4, <1>5, <1>8

(* Anthropic's turns, and Gemini's, whose calls have no ids.                *)
AnthropicTurn == [m \in Message |-> Turn("assistant", AssistantBlocks(m))]
GeminiTurn == [m \in Message |-> Turn("model", AnonymousCalls(AssistantBlocks(m)))]
GeminiAtoms == [m \in Message |-> AnonymousCalls(MessageAtoms(m))]

(* The atoms of a message by its role.                                      *)
LEMMA MessageAtomsAre ==
  ASSUME NEW m \in Message
  PROVE  /\ m.role = "tool" => MessageAtoms(m) = <<<<"result", m.id>>>>
         /\ m.role = "assistant" => MessageAtoms(m) = CallBlocks(m)
         /\ m.role \notin {"assistant", "tool"} => MessageAtoms(m) = <<>>
BY DEF MessageAtoms

LEMMA NoneAnonymous == AnonymousCalls(<<>>) = <<>>
<1>1. PICK e \in Seq(Block) : e = <<>> /\ Len(e) = 0
  BY EmptySeq
<1>2. PICK a \in Seq(Block) : a = AnonymousCalls(e) /\ Len(a) = 0
  BY <1>1, AnonymousIs
<1>. QED
  BY <1>1, <1>2, LenZero

LEMMA ResultNamed ==
  ASSUME NEW n \in Nat
  PROVE  AnonymousCalls(<<<<"result", n>>>>) = <<<<"result", n>>>>
<1>1. PICK x \in Block : x = <<"result", n>> /\ x[1] = "result"
  BY BlockIs
<1>2. PICK t \in Seq(Block) : t = <<x>> /\ Len(t) = 1 /\ t[1] = x
  BY OneOf
<1>3. PICK u \in Seq(Block) : u = AnonymousCalls(t) /\ Len(u) = 1 /\ u[1] = Anonymous(t[1])
  <2>1. 1 \in 1..1
    OBVIOUS
  <2>. QED
    BY <1>2, <2>1, AnonymousIs
<1>4. u[1] = t[1]
  BY <1>1, <1>2, <1>3 DEF Anonymous
<1>5. \A k \in 1..Len(u) : u[k] = t[k]
  BY <1>3, <1>4
<1>6. u = t
  BY <1>2, <1>3, <1>5, SeqEqual
<1>. QED
  BY <1>1, <1>2, <1>3, <1>6

(* Both are turns in that sense.                                            *)
LEMMA AnthropicSpeaks == AnthropicTurn \in [Message -> WireTurn] /\ Speaks(AnthropicTurn, MsgAtoms)
<1>1. ASSUME NEW m \in Message PROVE Turn("assistant", AssistantBlocks(m)) \in WireTurn
  <2>1. PICK bs \in Seq(Block) : bs = AssistantBlocks(m)
    BY AssistantBlocksAre
  <2>2. "assistant" \in {"user", "assistant", "tool", "developer", "system", "model"}
    OBVIOUS
  <2>. QED
    BY <2>1, <2>2, OneTurn
<1>2. AnthropicTurn \in [Message -> WireTurn] /\ \A m \in Message : AnthropicTurn[m] = Turn("assistant", AssistantBlocks(m))
  BY <1>1 DEF AnthropicTurn
<1>3. ASSUME NEW m \in Message, AssistantBlocks(m) # <<>>
      PROVE  BecomesTurn(<<AnthropicTurn[m]>>, CallBlocks(m))
  <2>1. PICK bs \in Seq(Block) : bs = AssistantBlocks(m) /\ BlockAtoms(bs) = CallBlocks(m) /\ bs # <<>> /\ bs[1][1] # "result"
    BY <1>3, AssistantBlocksAre
  <2>2. BecomesTurn(<<Turn("assistant", bs)>>, BlockAtoms(bs))
    BY <2>1, ModelTurn
  <2>. QED
    BY <1>2, <2>1, <2>2
<1>4. \A m \in Message : AssistantBlocks(m) = <<>> => CallBlocks(m) = <<>>
  BY AssistantBlocksAre
<1>. QED
  BY <1>2, <1>3, <1>4, MsgAtomsIs, MessageAtomsAre DEF Speaks

LEMMA GeminiSpeaks ==
  /\ GeminiTurn \in [Message -> WireTurn] /\ Maps(GeminiAtoms, Message, Block)
  /\ Speaks(GeminiTurn, GeminiAtoms)
<1>1. ASSUME NEW m \in Message PROVE Turn("model", AnonymousCalls(AssistantBlocks(m))) \in WireTurn
  <2>1. PICK bs \in Seq(Block) : bs = AnonymousCalls(AssistantBlocks(m))
    BY AnonymousBlocks
  <2>2. "model" \in {"user", "assistant", "tool", "developer", "system", "model"}
    OBVIOUS
  <2>. QED
    BY <2>1, <2>2, OneTurn
<1>2. /\ GeminiTurn \in [Message -> WireTurn]
      /\ \A m \in Message : GeminiTurn[m] = Turn("model", AnonymousCalls(AssistantBlocks(m)))
  BY <1>1 DEF GeminiTurn
<1>3. ASSUME NEW m \in Message, AssistantBlocks(m) # <<>>
      PROVE  BecomesTurn(<<GeminiTurn[m]>>, AnonymousCalls(CallBlocks(m)))
  <2>1. PICK bs \in Seq(Block) : /\ bs = AnonymousCalls(AssistantBlocks(m))
                                 /\ BlockAtoms(bs) = AnonymousCalls(CallBlocks(m)) /\ bs # <<>> /\ bs[1][1] # "result"
    BY <1>3, AnonymousBlocks
  <2>2. BecomesTurn(<<Turn("model", bs)>>, BlockAtoms(bs))
    BY <2>1, ModelTurn
  <2>. QED
    BY <1>2, <2>1, <2>2
<1>4. \A m \in Message : AssistantBlocks(m) = <<>> => AnonymousCalls(CallBlocks(m)) = <<>>
  BY AssistantBlocksAre, NoneAnonymous
<1>5. \A m \in Message : AnonymousCalls(MessageAtoms(m)) \in Seq(Block)
  <2>1. \A m \in Message : MessageAtoms(m) \in Seq(Block)
    BY MsgAtomsIs
  <2>. QED
    BY <2>1, AnonymousIs
<1>6. Maps(GeminiAtoms, Message, Block) /\ \A m \in Message : GeminiAtoms[m] = AnonymousCalls(MessageAtoms(m))
  BY <1>5 DEF GeminiAtoms, Maps
<1>7. \A m \in Message : m.role = "tool" => GeminiAtoms[m] = <<<<"result", m.id>>>>
  BY <1>6, MessageIs, MessageAtomsAre, ResultNamed
<1>8. \A m \in Message : m.role \notin {"assistant", "tool"} => GeminiAtoms[m] = <<>>
  BY <1>6, MessageAtomsAre, NoneAnonymous
<1>9. \A m \in Message : m.role = "assistant" => GeminiAtoms[m] = AnonymousCalls(CallBlocks(m))
  BY <1>6, MessageAtomsAre
<1>. QED
  BY <1>2, <1>3, <1>4, <1>6, <1>7, <1>8, <1>9 DEF Speaks

(* The atoms Gemini is sent are the history's without the ids of the calls. *)
LEMMA GeminiAtomsAre ==
  ASSUME NEW ms \in Seq(Message)
  PROVE  MapJoin(GeminiAtoms, ms) = AnonymousCalls(Atoms(ms))
<1>1. PICK h : h = AnonymousOf /\ Homomorphism(h, Block, Block)
  BY AnonymousHom
<1>2. \A bs \in Seq(Block) : h[bs] = AnonymousCalls(bs)
  BY <1>1 DEF AnonymousOf
<1>3. \A m \in Message : MsgAtoms[m] = MessageAtoms(m) /\ MsgAtoms[m] \in Seq(Block) /\ GeminiAtoms[m] = AnonymousCalls(MessageAtoms(m))
  BY MsgAtomsIs DEF GeminiAtoms
<1>4. Sends(h, MsgAtoms, GeminiAtoms, Message)
  BY <1>2, <1>3 DEF Sends
<1>5. Maps(MsgAtoms, Message, Block) /\ Maps(GeminiAtoms, Message, Block)
  BY MsgAtomsIs, GeminiSpeaks DEF Maps
<1>6. JoinsTogether(h, MsgAtoms, GeminiAtoms, ms)
  BY <1>1, <1>4, <1>5, JoinedBy
<1>7. MapJoin(MsgAtoms, ms) = Atoms(ms) /\ Atoms(ms) \in Seq(Block)
  BY AtomsIs
<1>. QED
  BY <1>2, <1>6, <1>7 DEF JoinsTogether

LEMMA EmptyKeeps == WireAtoms(EmptyRequest) = <<>> /\ ResultsTogether(EmptyRequest)
<1>1. PICK bs \in Seq(Block) : bs = <<<<"text">>>> /\ BlockAtoms(bs) = <<>>
  BY OnlyText
<1>2. "user" \in {"user", "assistant", "tool", "developer", "system", "model"}
  OBVIOUS
<1>3. PICK ts \in Seq(WireTurn) : ts = <<Turn("user", bs)>> /\ WireAtoms(ts) = <<>> /\ Len(ts) = 1
  <2>1. <<Turn("user", bs)>> \in Seq(WireTurn) /\ WireAtoms(<<Turn("user", bs)>>) = BlockAtoms(bs)
    BY <1>2, OneTurn
  <2>2. Len(<<Turn("user", bs)>>) = 1
    OBVIOUS
  <2>. QED
    BY <1>1, <2>1, <2>2
<1>4. ResultsTogether(ts)
  BY <1>3 DEF ResultsTogether
<1>. QED
  BY <1>1, <1>3, <1>4 DEF EmptyRequest

(* Both providers gather the results of a turn and keep the exchange.       *)
LEMMA GatheringKeeps ==
  ASSUME NEW ms \in Seq(Message), NEW a \in [Message -> WireTurn], NEW g, Maps(g, Message, Block), Speaks(a, g)
  PROVE  /\ WireAtoms(FlattenSeq(Pieces(ms, a))) = MapJoin(g, ms)
         /\ ResultsFollow(ms) => ResultsTogether(FlattenSeq(Pieces(ms, a)))
<1>1. PICK w : w = Pieces(ms, a)
  OBVIOUS
<1>2. Converts(ms, w, g) /\ (ResultsFollow(ms) => NoGapBefore(ms, w))
  BY <1>1, PiecesConvert
<1>3. GivesResults(g)
  BY DEF Speaks, GivesResults
<1>4. WireAtoms(FlattenSeq(w)) = MapJoin(g, ms)
  BY <1>2, <1>3, ConversionKeeps
<1>5. ResultsFollow(ms) => ResultsTogether(FlattenSeq(w))
  BY <1>2, ConversionGathers
<1>. QED
  BY <1>1, <1>4, <1>5

LEMMA AtomsNone == Atoms(<<>>) = <<>> /\ AnonymousCalls(Atoms(<<>>)) = <<>>
<1>1. PICK e \in Seq(Message) : e = <<>> /\ Len(e) = 0
  BY EmptySeq
<1>2. PICK f \in [Message -> Seq(Block)] : f = MsgAtoms
  BY MsgAtomsIs
<1>4. Len(e) = 0 => MapJoin(f, e) = <<>>
  BY MapJoinType
<1>3. MapJoin(f, e) = <<>>
  BY <1>1, <1>4
<1>. QED
  BY <1>1, <1>2, <1>3, AtomsIs, NoneAnonymous

(* Anthropic and Gemini: the exchange is on the wire, with the results      *)
(* gathered.                                                                *)
LEMMA AnthropicKeeps ==
  ASSUME NEW ms \in Seq(Message)
  PROVE  /\ WireAtoms(convertToAnthropicMessages(ms)) = Atoms(ms)
         /\ ResultsFollow(ms) => ResultsTogether(convertToAnthropicMessages(ms))
<1>1. CASE ms = <<>>
  BY <1>1, EmptyKeeps, AtomsNone DEF convertToAnthropicMessages
<1>2. CASE ms # <<>>
  <2>1. DOMAIN ms = 1..Len(ms) /\ \A i \in 1..Len(ms) : ms[i] \in Message
    OBVIOUS
  <2>2. \A m \in Message : AnthropicTurn[m] = Turn("assistant", AssistantBlocks(m))
    BY DEF AnthropicTurn
  <2>3. convertToAnthropicMessages(ms) = FlattenSeq(Pieces(ms, AnthropicTurn))
    BY <1>2, <2>1, <2>2 DEF convertToAnthropicMessages, Pieces, Piece, UserTurn
  <2>4. Maps(MsgAtoms, Message, Block) /\ MapJoin(MsgAtoms, ms) = Atoms(ms)
    BY MsgAtomsIs, AtomsIs DEF Maps
  <2>5. PICK a \in [Message -> WireTurn] : a = AnthropicTurn /\ Speaks(a, MsgAtoms)
    BY AnthropicSpeaks
  <2>. QED
    BY <2>3, <2>4, <2>5, GatheringKeeps
<1>. QED
  BY <1>1, <1>2

LEMMA GeminiKeeps ==
  ASSUME NEW ms \in Seq(Message)
  PROVE  /\ WireAtoms(messagesToGemini(ms)) = AnonymousCalls(Atoms(ms))
         /\ ResultsFollow(ms) => ResultsTogether(messagesToGemini(ms))
<1>1. CASE ms = <<>>
  BY <1>1, EmptyKeeps, AtomsNone DEF messagesToGemini
<1>2. CASE ms # <<>>
  <2>1. DOMAIN ms = 1..Len(ms) /\ \A i \in 1..Len(ms) : ms[i] \in Message
    OBVIOUS
  <2>2. \A m \in Message : GeminiTurn[m] = Turn("model", AnonymousCalls(AssistantBlocks(m)))
    BY DEF GeminiTurn
  <2>3. messagesToGemini(ms) = FlattenSeq(Pieces(ms, GeminiTurn))
    <3> DEFINE P(i) == CASE ms[i].role = "user" -> UserTurn
                         [] ms[i].role = "assistant" /\ AssistantBlocks(ms[i]) # <<>> ->
                              <<Turn("model", AnonymousCalls(AssistantBlocks(ms[i])))>>
                         [] StartsRun(ms, i) -> <<Turn("user", ResultBlocks(ms, i))>>
                         [] OTHER -> <<>>
    <3>1. messagesToGemini(ms) = FlattenSeq([i \in DOMAIN ms |-> P(i)])
      BY <1>2 DEF messagesToGemini, UserTurn
    <3>2. \A i \in 1..Len(ms) : P(i) = Piece(ms, GeminiTurn, i)
      BY <2>1, <2>2 DEF Piece
    <3> HIDE DEF P
    <3>3. [i \in DOMAIN ms |-> P(i)] = Pieces(ms, GeminiTurn)
      BY <2>1, <3>2 DEF Pieces
    <3>. QED
      BY <3>1, <3>3
  <2>4. Maps(GeminiAtoms, Message, Block) /\ MapJoin(GeminiAtoms, ms) = AnonymousCalls(Atoms(ms))
    BY GeminiSpeaks, GeminiAtomsAre
  <2>5. PICK a \in [Message -> WireTurn] : a = GeminiTurn /\ Speaks(a, GeminiAtoms)
    BY GeminiSpeaks
  <2>. QED
    BY <2>3, <2>4, <2>5, GatheringKeeps
<1>. QED
  BY <1>1, <1>2

(* A run of results never follows a message of which nothing is sent        *)
(* (ResultsFollow): the loops save results right behind the assistant's     *)
(* calls, and a history that is cut off in front starts with them. A        *)
(* thinking budget is a number.                                             *)
HistoriesInOrder == \A h \in Histories : ResultsFollow(h)
BudgetsAreNumbers == \A s \in Settings : s.reasoning # NoReasoning => s.reasoning.budget \in Int

(* All providers.                                                           *)
LEMMA MessagesKept ==
  ASSUME NEW c \in Clients, c # "plain", NEW r, r.messages \in Seq(Message), ResultsFollow(r.messages)
  PROVE  /\ WireAtoms(Wire(c, r)) = IF c = "gemini" THEN AnonymousCalls(Atoms(r.messages)) ELSE Atoms(r.messages)
         /\ c \in {"anthropic", "gemini"} => ResultsTogether(Wire(c, r))
<1>1. CASE c \in {"openai", "ollama", "deepseek"}
  BY <1>1, ChatKeeps
<1>2. CASE c = "anthropic"
  BY <1>2, AnthropicKeeps DEF Wire
<1>3. CASE c = "gemini"
  BY <1>3, GeminiKeeps DEF Wire
<1>. QED
  BY <1>1, <1>2, <1>3, LLMCallsAssumption DEF LLMCallsAssumption

(* The tools offered, the format and the thinking asked for.                *)
ParamsKept(c, p, tools, format) ==
  /\ Offered(c, p) = tools
  /\ format = "schema" => p.format \in {"json_object", "json_schema"}
  /\ p.thinking.budget = 0 \/ p.thinking.level = Unset
  /\ c = "anthropic" => p.thinking.budget \notin 1..(MinThinking - 1)

(* The parameters, of which thinking has a budget or a level.               *)
LEMMA ParamsAre ==
  ASSUME NEW t, NEW m, NEW f, NEW k
  PROVE  /\ Params(t, m, f, k).tools = t /\ Params(t, m, f, k).format = f /\ Params(t, m, f, k).thinking = k
         /\ NoThinking.budget = 0
         /\ \A l : Level(l).budget = 0
         /\ \A n : Budget(n).level = Unset /\ Budget(n).budget = n
BY DEF Params, NoThinking, Level, Budget

LEMMA ThinkingKept ==
  ASSUME NEW s, s # NoReasoning => s.budget \in Int
  PROVE  /\ openAIReasoningEffort(s).budget = 0
         /\ geminiThinkingConfig(s).budget = 0 \/ geminiThinkingConfig(s).level = Unset
         /\ anthropicThinkingBudget(s).budget = 0 \/ anthropicThinkingBudget(s).level = Unset
         /\ anthropicThinkingBudget(s).budget \notin 1..(MinThinking - 1)
<1>1. NoThinking.budget = 0 /\ (\A l : Level(l).budget = 0) /\ \A n : Budget(n).level = Unset /\ Budget(n).budget = n
  BY ParamsAre
<1>2. openAIReasoningEffort(s).budget = 0
  BY <1>1 DEF openAIReasoningEffort
<1>3. geminiThinkingConfig(s).budget = 0 \/ geminiThinkingConfig(s).level = Unset
  BY <1>1 DEF geminiThinkingConfig
<1>4. \/ anthropicThinkingBudget(s) = NoThinking
      \/ \E n \in Int : anthropicThinkingBudget(s) = Budget(n) /\ n >= MinThinking
  BY DEF anthropicThinkingBudget, MinThinking
<1>5. /\ anthropicThinkingBudget(s).budget = 0 \/ anthropicThinkingBudget(s).level = Unset
      /\ anthropicThinkingBudget(s).budget \notin 1..(MinThinking - 1)
  <2>1. CASE anthropicThinkingBudget(s) = NoThinking
    <3>1. anthropicThinkingBudget(s).budget = 0
      BY <1>1, <2>1
    <3>2. 0 \notin 1..(MinThinking - 1)
      BY DEF MinThinking
    <3>. QED
      BY <3>1, <3>2
  <2>2. ASSUME NEW n \in Int, anthropicThinkingBudget(s) = Budget(n), n >= MinThinking
        PROVE  /\ anthropicThinkingBudget(s).level = Unset
               /\ anthropicThinkingBudget(s).budget \notin 1..(MinThinking - 1)
    <3>1. anthropicThinkingBudget(s).level = Unset /\ anthropicThinkingBudget(s).budget = n
      BY <1>1, <2>2
    <3>2. n \notin 1..(MinThinking - 1)
      BY <2>2 DEF MinThinking
    <3>. QED
      BY <3>1, <3>2
  <2>. QED
    BY <1>4, <2>1, <2>2
<1>. QED
  BY <1>2, <1>3, <1>5

(* All providers.                                                           *)
LEMMA WireParamsKept ==
  ASSUME NEW c \in Clients, c # "plain", NEW r, NEW caching,
         r.sampling.reasoning # NoReasoning => r.sampling.reasoning.budget \in Int
  PROVE  ParamsKept(c, WireParams(c, r, caching), r.tools, r.format)
<1> DEFINE s == r.sampling.reasoning
<1>0. /\ openAIReasoningEffort(s).budget = 0 /\ NoThinking.budget = 0
      /\ geminiThinkingConfig(s).budget = 0 \/ geminiThinkingConfig(s).level = Unset
      /\ anthropicThinkingBudget(s).budget = 0 \/ anthropicThinkingBudget(s).level = Unset
      /\ anthropicThinkingBudget(s).budget \notin 1..(MinThinking - 1)
  BY ThinkingKept, ParamsAre
<1>1. CASE c = "openai"
  <2>1. WireParams(c, r, caching) = Params(r.tools, ChatMax(r), responseFormatToOpenAI(r.format), openAIReasoningEffort(s))
    BY <1>1 DEF WireParams, openAIParams
  <2>. QED
    BY <1>0, <1>1, <2>1, ParamsAre DEF ParamsKept, Offered, responseFormatToOpenAI
<1>2. CASE c = "ollama"
  <2>1. WireParams(c, r, caching) = Params(r.tools, ChatMax(r), responseFormatToOllama(r.format), NoThinking)
    BY <1>2 DEF WireParams, ollamaParams
  <2>. QED
    BY <1>0, <1>2, <2>1, ParamsAre DEF ParamsKept, Offered, responseFormatToOllama
<1>3. CASE c = "deepseek"
  <2>1. WireParams(c, r, caching) = Params(r.tools, ChatMax(r), responseFormatToDeepSeek(r.format), NoThinking)
    BY <1>3 DEF WireParams, deepSeekParams
  <2>. QED
    BY <1>0, <1>3, <2>1, ParamsAre DEF ParamsKept, Offered, responseFormatToDeepSeek
<1>4. CASE c = "anthropic"
  <2>1. WireParams(c, r, caching)
          = Params(toolsToAnthropic(r.tools, caching), ExplicitMax(r), responseFormatToAnthropic(r.format),
                   anthropicThinkingBudget(s))
    BY <1>4 DEF WireParams, buildMessageParams
  <2>2. toolsToAnthropic(r.tools, caching).names = r.tools
    BY DEF toolsToAnthropic
  <2>. QED
    BY <1>0, <1>4, <2>1, <2>2, ParamsAre DEF ParamsKept, Offered, responseFormatToAnthropic
<1>5. CASE c = "gemini"
  <2>1. WireParams(c, r, caching)
          = Params(toolsToGemini(r.tools), ExplicitMax(r), applyResponseFormat(r.format), geminiThinkingConfig(s))
    BY <1>5 DEF WireParams, buildConfig
  <2>2. UNION {t.declares : t \in toolsToGemini(r.tools)} = r.tools
    <3>1. CASE r.tools = {}
      BY <3>1 DEF toolsToGemini
    <3>2. CASE r.tools # {}
      <4> DEFINE d == [declares |-> r.tools]
      <4>1. d = [declares |-> r.tools] /\ d.declares = r.tools
        OBVIOUS
      <4> HIDE DEF d
      <4>2. toolsToGemini(r.tools) = {d}
        BY <3>2, <4>1 DEF toolsToGemini
      <4>3. {t.declares : t \in {d}} = {r.tools}
        BY <4>1
      <4>. QED
        BY <4>2, <4>3
    <3>. QED
      BY <3>1, <3>2
  <2>. QED
    BY <1>0, <1>5, <2>1, <2>2, ParamsAre DEF ParamsKept, Offered, applyResponseFormat
<1>. QED
  BY <1>1, <1>2, <1>3, <1>4, <1>5, LLMCallsAssumption DEF LLMCallsAssumption

(* Only Send puts a request on the wire; every other step leaves the call   *)
(* in another state or as it is.                                            *)
LEMMA SendKeepsExchange ==
  ASSUME HistoriesInOrder, BudgetsAreNumbers,
         NEW c \in Clients, NEW s \in BOOLEAN, NEW h \in Histories, NEW memory \in BOOLEAN,
         NEW rag \in BOOLEAN, NEW skip \in BOOLEAN, NEW setting \in Settings,
         Send(c, s, h, memory, rag, skip, setting)
  PROVE  ExchangeKept'
<1>1. PICK r : r = BuildLLMRequest(h, memory, rag, skip, setting)
  OBVIOUS
<1>2. r.messages \in Seq(Message) /\ ResultsFollow(r.messages)
  <2>1. h \in Seq(Message) /\ ResultsFollow(h)
    BY LLMCallsAssumption DEF LLMCallsAssumption, HistoriesInOrder
  <2>. QED
    BY <1>1, <2>1, RequestMessages
<1>3. r.sampling.reasoning # NoReasoning => r.sampling.reasoning.budget \in Int
  <2>1. r.sampling.reasoning = setting.reasoning
    BY <1>1 DEF BuildLLMRequest, ApplyLLMSampling
  <2>. QED
    BY <2>1 DEF BudgetsAreNumbers
<1>4. /\ req'.client = c /\ req'.history = r.messages /\ req'.wire = Wire(c, r)
      /\ req'.built.tools = r.tools /\ req'.built.format = r.format /\ req'.params = WireParams(c, r, setting.caching)
  BY <1>1 DEF Send
<1>5. ASSUME c # "plain"
      PROVE  /\ WireAtoms(req'.wire) = IF c = "gemini" THEN AnonymousCalls(Atoms(req'.history)) ELSE Atoms(req'.history)
             /\ c \in {"anthropic", "gemini"} => ResultsTogether(req'.wire)
             /\ ParamsKept(c, req'.params, req'.built.tools, req'.built.format)
  BY <1>2, <1>3, <1>4, <1>5, MessagesKept, WireParamsKept
<1>. QED
  BY <1>4, <1>5 DEF ExchangeKept, ParamsKept

LEMMA NextKeepsExchange ==
  ASSUME HistoriesInOrder, BudgetsAreNumbers
  PROVE  ExchangeKept /\ [Next]_vars => ExchangeKept'
<1> SUFFICES ASSUME ExchangeKept, [Next]_vars PROVE ExchangeKept'
  OBVIOUS
<1>1. CASE UNCHANGED llmVars
  BY <1>1 DEF llmVars, ExchangeKept
<1>2. CASE LLMNext
  <2>1. ASSUME NEW c \in Clients, NEW s \in BOOLEAN, NEW h \in Histories, NEW memory \in BOOLEAN,
               NEW rag \in BOOLEAN, NEW skip \in BOOLEAN, NEW setting \in Settings,
               Send(c, s, h, memory, rag, skip, setting)
        PROVE  ExchangeKept'
    BY <2>1, SendKeepsExchange
  <2>2. CASE runBeforeLLMRequest \/ VendorRefuses \/ ExecuteLLM \/ StreamFallback \/ GenerateStream
             \/ ReadChunk \/ GeminiFeed \/ GeminiRead \/ StreamEnds
    <3>1. pc' # "sent"
      <4>1. CASE runBeforeLLMRequest \/ VendorRefuses \/ GenerateStream
        BY <4>1 DEF runBeforeLLMRequest, VendorRefuses, GenerateStream, Return
      <4>2. CASE ExecuteLLM \/ StreamFallback
        BY <4>2 DEF ExecuteLLM, StreamFallback, Return
      <4>3. CASE ReadChunk \/ GeminiFeed \/ GeminiRead
        BY <4>3 DEF ReadChunk, GeminiFeed, GeminiRead
      <4>4. CASE StreamEnds
        <5>1. \E err : Ended(err)
          BY <4>4 DEF StreamEnds
        <5>. QED
          BY <5>1 DEF Ended
      <4>. QED
        BY <2>2, <4>1, <4>2, <4>3, <4>4
    <3>. QED
      BY <3>1 DEF ExchangeKept
  <2>3. CASE LLMDone
    BY <1>1, <2>3 DEF LLMDone
  <2>. QED
    BY <1>2, <2>1, <2>2, <2>3 DEF LLMNext
<1>. QED
  BY <1>1, <1>2 DEF Next, vars

(* The request reaches the vendor as the agent means it, for every          *)
(* provider, history, context put in front of it, set of tools and          *)
(* settings: every call and every result of the history is on the wire once *)
(* and in order, Anthropic and Gemini get the results of one turn together, *)
(* the tools offered are the run's, a schema is asked for at least as JSON, *)
(* and thinking is asked for by a budget or a level, never both             *)
(* (LLMCalls.ExchangeKept; base/runtime.go BuildLLMRequest, the converters  *)
(* of pkg/llm/<provider>/client.go).                                        *)
THEOREM ExchangesKept ==
  ASSUME HistoriesInOrder, BudgetsAreNumbers
  PROVE  Spec => []ExchangeKept
<1>1. Init => ExchangeKept
  BY DEF Init, LLMInit, ExchangeKept
<1>2. ExchangeKept /\ [Next]_vars => ExchangeKept'
  BY NextKeepsExchange
<1>. QED
  BY <1>1, <1>2, PTL DEF Spec
=============================================================================
