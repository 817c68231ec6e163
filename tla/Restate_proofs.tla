--------------------------- MODULE Restate_proofs ---------------------------
(***************************************************************************)
(* Proofs about the Restate runtime.                                       *)
(*                                                                         *)
(* RestateRuns, for every set of handles, number of attempts, of messages  *)
(* and of faults: the handles implement RunContract, and a reader of the   *)
(* event log that met no failure, and whose caller stayed, has seen every  *)
(* event.  HandleInv and ReaderInv are the inductive invariants.           *)
(*                                                                         *)
(* RestateLoop, for every number of crashes, cancels, iterations and       *)
(* attempts of a sub-agent: an attempt of the handler that starts over     *)
(* asks for the operations the journal has (ReplayInv), usage beyond the   *)
(* limit is usage somebody approved (SpendInv), and an event is in the log *)
(* once (EventInv).  All three go through StepForms, which says what a     *)
(* step is to the locals, the journal and the log, and the last two        *)
(* through what the plan of an attempt can be.                             *)
(***************************************************************************)
EXTENDS RestateRuns, RestateLoop, FiniteSetTheorems, SequenceTheorems, WellFoundedInduction, TLAPS

-----------------------------------------------------------------------------
(* The handles and the event log.                                          *)

Over == {"completed", "failed"}
Handle == [st : {"none", "sending", "probed", "open", "done", "lost", "error"}, tries : Nat,
           once : {"fresh", "calling", "used"}, flag : BOOLEAN, broken : BOOLEAN,
           out : Over \cup {"none", "stopped"}]
Handles == [Holders -> Handle]
Reader == [st : {"off", "top", "pull", "ending", "closed"}, p : Holders \cup {"none"}, from : Nat, off : Nat,
           done : BOOLEAN, empties : Nat, broken : BOOLEAN, left : BOOLEAN]

(* A handle stands for a run that was begun; it is done because the run is  *)
(* over or because it was stopped.                                          *)
HandleInv ==
    /\ h \in Handles /\ inv \in Over \cup {"none", "running"}
    /\ \A p \in Holders :
          /\ h[p].st \in {"probed", "open", "done"} => inv # "none"
          /\ h[p].st = "done" => h[p].out \in Over \cup {"stopped"}
          /\ h[p].st = "done" /\ ~h[p].broken => inv \in Over

(* The handler publishes nothing but tokens on their way once it ended.     *)
HandlerQuiet == inv # "running" => hs = "free"

(* What the reader was given goes up to its offset, while its caller stays.  *)
GotUpTo == rd.st \in {"top", "pull", "ending"} /\ ~rd.left => \A o \in Nat : rd.from <= o /\ o < rd.off => o \in got

(* A reader that drains does so for a handle that is done.                  *)
Drains ==
    /\ rd.st # "off" => rd.p \in Holders
    /\ rd.st \in {"top", "pull", "ending"} /\ rd.done => h[rd.p].st = "done"
    /\ rd.st = "ending" /\ ~rd.broken => rd.done
    /\ rd.st = "closed" /\ ~rd.broken /\ ~rd.left => h[rd.p].st = "done"

(* When it stops looking, only tokens are left.                             *)
Drained ==
    rd.st = "ending" /\ ~rd.left /\ ~rd.broken /\ ~h[rd.p].broken =>
       \A o \in Offsets : o >= rd.off => Kind(o) = "token"

ReaderInv ==
    /\ rd \in Reader /\ saved \in Nat /\ log \in Seq({"event", "ask", "token"})
    /\ HandlerQuiet /\ GotUpTo /\ Drains /\ Drained /\ ReaderComplete
-----------------------------------------------------------------------------
(* What a step does to one handle, in the fields the invariants speak of.   *)
Edit(p, st, flag, broken, out) ==
    /\ h' \in Handles
    /\ h'[p].st = st /\ h'[p].flag = flag /\ h'[p].broken = broken /\ h'[p].out = out
    /\ \A q \in Holders \ {p} : h'[q] = h[q]

LEMMA EditWhole ==
    ASSUME h \in Handles, NEW p \in Holders, NEW r \in Handle, h' = [h EXCEPT ![p] = r]
    PROVE  Edit(p, r.st, r.flag, r.broken, r.out)
  BY DEF Edit, Handles

LEMMA EditSt ==
    ASSUME h \in Handles, NEW p \in Holders, NEW x \in {"none", "sending", "probed", "open", "done", "lost", "error"},
           h' = [h EXCEPT ![p].st = x]
    PROVE  Edit(p, x, h[p].flag, h[p].broken, h[p].out)
  <1> DEFINE r == [h[p] EXCEPT !.st = x]
  <1>1. r \in Handle /\ r.st = x /\ r.flag = h[p].flag /\ r.broken = h[p].broken /\ r.out = h[p].out
    BY DEF Handles, Handle
  <1>2. h' = [h EXCEPT ![p] = r]
    BY DEF Handles
  <1>3. QED
    BY <1>1, <1>2, EditWhole

LEMMA EditStTries ==
    ASSUME h \in Handles, NEW p \in Holders, NEW x \in {"none", "sending", "probed", "open", "done", "lost", "error"}, NEW n \in Nat,
           h' = [h EXCEPT ![p].st = x, ![p].tries = n]
    PROVE  Edit(p, x, h[p].flag, h[p].broken, h[p].out)
  <1> DEFINE r == [h[p] EXCEPT !.st = x, !.tries = n]
  <1>1. r \in Handle /\ r.st = x /\ r.flag = h[p].flag /\ r.broken = h[p].broken /\ r.out = h[p].out
    BY DEF Handles, Handle
  <1>2. h' = [h EXCEPT ![p] = r]
    BY DEF Handles
  <1>3. QED
    BY <1>1, <1>2, EditWhole

LEMMA EditDone ==
    ASSUME h \in Handles, NEW p \in Holders, NEW o \in Over \cup {"none", "stopped"},
           h' = [h EXCEPT ![p].st = "done", ![p].out = o]
    PROVE  Edit(p, "done", h[p].flag, h[p].broken, o)
  <1> DEFINE r == [h[p] EXCEPT !.st = "done", !.out = o]
  <1>1. r \in Handle /\ r.st = "done" /\ r.flag = h[p].flag /\ r.broken = h[p].broken /\ r.out = o
    BY DEF Handles, Handle
  <1>2. h' = [h EXCEPT ![p] = r]
    BY DEF Handles
  <1>3. QED
    BY <1>1, <1>2, EditWhole

LEMMA EditBroken ==
    ASSUME h \in Handles, NEW p \in Holders, NEW b \in BOOLEAN,
           h' = [h EXCEPT ![p].broken = b]
    PROVE  Edit(p, h[p].st, h[p].flag, b, h[p].out)
  <1> DEFINE r == [h[p] EXCEPT !.broken = b]
  <1>1. r \in Handle /\ r.st = h[p].st /\ r.flag = h[p].flag /\ r.broken = b /\ r.out = h[p].out
    BY DEF Handles, Handle
  <1>2. h' = [h EXCEPT ![p] = r]
    BY DEF Handles
  <1>3. QED
    BY <1>1, <1>2, EditWhole

LEMMA EditOnce ==
    ASSUME h \in Handles, NEW p \in Holders, NEW o \in {"fresh", "calling", "used"},
           h' = [h EXCEPT ![p].once = o]
    PROVE  Edit(p, h[p].st, h[p].flag, h[p].broken, h[p].out)
  <1> DEFINE r == [h[p] EXCEPT !.once = o]
  <1>1. r \in Handle /\ r.st = h[p].st /\ r.flag = h[p].flag /\ r.broken = h[p].broken /\ r.out = h[p].out
    BY DEF Handles, Handle
  <1>2. h' = [h EXCEPT ![p] = r]
    BY DEF Handles
  <1>3. QED
    BY <1>1, <1>2, EditWhole

LEMMA EditOnceFlag ==
    ASSUME h \in Handles, NEW p \in Holders, NEW o \in {"fresh", "calling", "used"}, NEW b \in BOOLEAN,
           h' = [h EXCEPT ![p].once = o, ![p].flag = b]
    PROVE  Edit(p, h[p].st, b, h[p].broken, h[p].out)
  <1> DEFINE r == [h[p] EXCEPT !.once = o, !.flag = b]
  <1>0. h[p] \in Handle
    BY DEF Handles
  <1>1. r \in Handle /\ r.st = h[p].st /\ r.flag = b /\ r.broken = h[p].broken /\ r.out = h[p].out
    BY <1>0 DEF Handle
  <1>2. h' = [h EXCEPT ![p] = r]
    BY DEF Handles
  <1>3. QED
    BY <1>1, <1>2, EditWhole

-----------------------------------------------------------------------------
(* The operations that neither touch a handle nor begin or end the run.     *)
Aside ==
    \/ startEndpoint \/ registerDeployment \/ ServerStep \/ PullWait \/ PullTimeout \/ ReaderStep \/ runApprovalLoop
    \/ CallerLeaves \/ \E p \in Holders : Events(p)

LEMMA AsideEffect == Aside => UNCHANGED <<h, inv>>
  BY Zenon DEF Aside, startEndpoint, registerDeployment, ServerStep, HandlerEmits, publishAgentEventJSON, AwakeableOrTimer,
         emitEventIngress, TokenArrives, Clear, Subscribe, PullWait, PullTimeout, ReaderStep, channelReady,
         runPullLoop, EmptyPeek, PullError, deliverEvents, runApprovalLoop, Events, CallerLeaves, server, client

LEMMA SendEffect ==
    ASSUME HandleInv, NEW p \in Holders, sendAgentLoop(p)
    PROVE  /\ h[p].st = "none" /\ UNCHANGED inv
           /\ Edit(p, "sending", h[p].flag, h[p].broken, h[p].out)
  BY EditSt DEF HandleInv, sendAgentLoop, server

LEMMA RetryEffect ==
    ASSUME HandleInv, NEW p \in Holders, withIngressRetry(p)
    PROVE  /\ h[p].st = "sending" /\ inv' \in {inv, IF inv = "none" THEN "running" ELSE inv}
           /\ \E x \in {"sending", "error", "open"} :
                 /\ Edit(p, x, h[p].flag, h[p].broken, h[p].out)
                 /\ x = "open" => inv' # "none"
  <1>1. h[p].st = "sending" /\ inv' \in {inv, IF inv = "none" THEN "running" ELSE inv}
    BY DEF withIngressRetry, Accepted
  <1>2. h[p].tries \in Nat /\ h[p].tries + 1 \in Nat
    BY DEF HandleInv, Handles, Handle
  <1>3. PICK x \in {"sending", "error", "open"}, n \in Nat :
           /\ h' = [h EXCEPT ![p].st = x, ![p].tries = n]
           /\ x = "open" => Accepted
    <2>1. CASE Accepted /\ h' = [h EXCEPT ![p].st = "open", ![p].tries = 0]
      BY <2>1
    <2>2. CASE h' = [h EXCEPT ![p].st = IF @ = "sending" /\ h[p].tries + 1 = Attempts THEN "error" ELSE @,
                              ![p].tries = @ + 1]
      <3>1. h' = [h EXCEPT ![p].st = IF h[p].st = "sending" /\ h[p].tries + 1 = Attempts THEN "error" ELSE h[p].st,
                           ![p].tries = h[p].tries + 1]
        BY <2>2 DEF HandleInv, Handles
      <3>2. QED
        BY <1>1, <1>2, <3>1
    <2>3. QED
      BY <2>1, <2>2 DEF withIngressRetry
  <1>4. x \in {"none", "sending", "probed", "open", "done", "lost", "error"}
    OBVIOUS
  <1>5. Edit(p, x, h[p].flag, h[p].broken, h[p].out)
    BY <1>3, <1>4, EditStTries DEF HandleInv
  <1>6. QED
    BY <1>1, <1>3, <1>5 DEF Accepted

LEMMA ResolveEffect ==
    ASSUME HandleInv, NEW p \in Holders, resolveRunningInvocation(p)
    PROVE  /\ h[p].st = "none" /\ inv = "running" /\ UNCHANGED inv
           /\ Edit(p, "probed", h[p].flag, h[p].broken, h[p].out)
  BY EditSt DEF HandleInv, resolveRunningInvocation, server

LEMMA LookupEffect ==
    ASSUME HandleInv, NEW p \in Holders, lookupInvocationID(p)
    PROVE  /\ h[p].st = "probed" /\ UNCHANGED inv
           /\ \E x \in {"open", "none"} : Edit(p, x, h[p].flag, h[p].broken, h[p].out)
  <1>1. PICK x \in {"open", "none"} : h' = [h EXCEPT ![p].st = x]
    BY DEF lookupInvocationID
  <1>2. x \in {"none", "sending", "probed", "open", "done", "lost", "error"}
    OBVIOUS
  <1>3. Edit(p, x, h[p].flag, h[p].broken, h[p].out)
    BY <1>1, <1>2, EditSt DEF HandleInv
  <1>4. QED
    BY <1>3 DEF lookupInvocationID, server

LEMMA AwaitEffect ==
    ASSUME HandleInv, NEW p \in Holders, awaitCompletion(p)
    PROVE  /\ h[p].st = "open" /\ UNCHANGED inv
           /\ \E o \in Over \cup {"stopped"} :
                 /\ Edit(p, "done", h[p].flag, h[p].broken, o)
                 /\ o \in Over => inv = o
                 /\ o = "stopped" => h[p].flag \/ h[p].broken
                 /\ h[p].broken \/ inv \in Over
  <1>1. h[p].st = "open" /\ UNCHANGED inv
    BY DEF awaitCompletion, server
  <1>2. PICK o \in Over \cup {"stopped"} :
           /\ h' = [h EXCEPT ![p].st = "done", ![p].out = o]
           /\ o \in Over => inv = o
           /\ o = "stopped" => h[p].flag \/ h[p].broken
           /\ h[p].broken \/ inv \in Over
    BY DEF awaitCompletion, Over
  <1>3. Edit(p, "done", h[p].flag, h[p].broken, o)
    BY <1>2, EditDone DEF HandleInv
  <1>4. QED
    BY <1>1, <1>2, <1>3

LEMMA BreakEffect ==
    ASSUME HandleInv, NEW p \in Holders, AttachBreaks(p)
    PROVE  h[p].st = "open" /\ UNCHANGED inv /\ Edit(p, h[p].st, h[p].flag, TRUE, h[p].out)
  BY EditBroken DEF HandleInv, AttachBreaks, server

LEMMA CancelEffect ==
    ASSUME HandleInv, NEW p \in Holders, Cancel(p) \/ cancelInvocation(p)
    PROVE  /\ UNCHANGED inv
           /\ \E b \in BOOLEAN : (h[p].flag => b) /\ Edit(p, h[p].st, b, h[p].broken, h[p].out)
  <1>1. UNCHANGED inv
    BY DEF Cancel, cancelInvocation, server
  <1>2. h[p].flag \in BOOLEAN
    BY DEF HandleInv, Handles, Handle
  <1>3. CASE h' = [h EXCEPT ![p].once = "used", ![p].flag = TRUE]
    BY <1>1, <1>3, EditOnceFlag DEF HandleInv
  <1>4. CASE \E o \in {"calling", "used"} : h' = [h EXCEPT ![p].once = o]
    <2>1. PICK o \in {"fresh", "calling", "used"} : h' = [h EXCEPT ![p].once = o]
      BY <1>4
    <2>2. Edit(p, h[p].st, h[p].flag, h[p].broken, h[p].out)
      BY <2>1, EditOnce DEF HandleInv
    <2>3. QED
      BY <1>1, <1>2, <2>2
  <1>5. QED
    BY <1>3, <1>4 DEF Cancel, cancelInvocation

LEMMA CrashEffect ==
    ASSUME HandleInv, Crash
    PROVE  /\ UNCHANGED inv /\ h' \in Handles /\ rd' = NoReader
           /\ \A p \in Holders : h'[p].st = IF h[p].st = "none" THEN "none"
                                            ELSE IF h[p].st \in {"open", "done", "lost"} THEN "lost" ELSE "error"
  <1>1. UNCHANGED inv /\ rd' = NoReader
    BY DEF Crash, server
  <1> DEFINE d(x) == [NoHandle EXCEPT !.st = x]
  <1>2. NoHandle \in Handle
    BY DEF NoHandle, Handle
  <1>3. ASSUME NEW x \in {"lost", "error"} PROVE d(x) \in Handle /\ d(x).st = x
    BY <1>2 DEF Handle
  <1>4. h' = [p \in Holders |-> IF h[p].st = "none" THEN h[p]
                                ELSE d(IF h[p].st \in {"open", "done", "lost"} THEN "lost" ELSE "error")]
    BY DEF Crash
  <1> HIDE DEF d
  <1>5. \A p \in Holders : h[p] \in Handle
    BY DEF HandleInv, Handles
  <1>6. h' \in Handles
    BY <1>3, <1>4, <1>5 DEF Handles
  <1>7. QED
    BY <1>1, <1>3, <1>4, <1>6

LEMMA EndEffect ==
    ASSUME HandlerEnds
    PROVE  inv = "running" /\ inv' \in Over /\ UNCHANGED h
  BY DEF HandlerEnds, Over
-----------------------------------------------------------------------------
LEMMA HandleInit == Init => HandleInv
  <1> SUFFICES ASSUME Init PROVE HandleInv
    OBVIOUS
  <1>1. NoHandle \in Handle /\ NoHandle.st = "none"
    BY DEF NoHandle, Handle
  <1>2. QED
    BY <1>1 DEF Init, HandleInv, Handles

(* Every step keeps HandleInv.                                              *)
LEMMA HandleStepInv == HandleInv /\ [Next]_vars => HandleInv'
  <1> SUFFICES ASSUME HandleInv, [Next]_vars PROVE HandleInv'
    OBVIOUS
  <1>1. ASSUME UNCHANGED <<h, inv>> PROVE HandleInv'
    BY <1>1 DEF HandleInv
  <1>2. ASSUME NEW p \in Holders, sendAgentLoop(p) PROVE HandleInv'
    BY <1>2, SendEffect DEF HandleInv, Edit
  <1>3. ASSUME NEW p \in Holders, withIngressRetry(p) PROVE HandleInv'
    BY <1>3, RetryEffect DEF HandleInv, Edit
  <1>4. ASSUME NEW p \in Holders, resolveRunningInvocation(p) PROVE HandleInv'
    BY <1>4, ResolveEffect DEF HandleInv, Edit
  <1>5. ASSUME NEW p \in Holders, lookupInvocationID(p) PROVE HandleInv'
    BY <1>5, LookupEffect DEF HandleInv, Edit
  <1>6. ASSUME NEW p \in Holders, awaitCompletion(p) PROVE HandleInv'
    BY <1>6, AwaitEffect DEF HandleInv, Edit
  <1>7. ASSUME NEW p \in Holders, AttachBreaks(p) PROVE HandleInv'
    BY <1>7, BreakEffect DEF HandleInv, Edit
  <1>8. ASSUME NEW p \in Holders, Cancel(p) \/ cancelInvocation(p) PROVE HandleInv'
    BY <1>8, CancelEffect DEF HandleInv, Edit
  <1>9. ASSUME Crash PROVE HandleInv'
    BY <1>9, CrashEffect DEF HandleInv
  <1>10. ASSUME HandlerEnds PROVE HandleInv'
    BY <1>10, EndEffect DEF HandleInv, Over
  <1>11. ASSUME Aside \/ UNCHANGED vars PROVE HandleInv'
    BY <1>1, <1>11, AsideEffect DEF vars, server, client
  <1>12. QED
    BY <1>2, <1>3, <1>4, <1>5, <1>6, <1>7, <1>8, <1>9, <1>10, <1>11 DEF Next, Aside
-----------------------------------------------------------------------------
(* The refinement: the mapped variables.                                    *)
RunState == CASE inv = "none" -> "none" [] inv = "running" -> "open" [] OTHER -> inv
ReportOf(p) == CASE h[p].st = "open" -> "waiting" [] h[p].st = "done" -> h[p].out
                 [] h[p].st = "lost" -> "lost" [] OTHER -> "none"
ReportIs(p, r) == ReportOf(p)' = r
Reports == [p \in Holders |-> ReportOf(p)]
EndedSet == {p \in Holders : h[p].flag \/ h[p].broken}

(* An operation on one handle changes the report and the context of no      *)
(* other.                                                                   *)
LEMMA SameReports ==
    ASSUME NEW p \in Holders, \A q \in Holders \ {p} : h'[q] = h[q]
    PROVE  /\ \A r : ReportIs(p, r) => Reports' = [Reports EXCEPT ![p] = r]
           /\ (h[p].flag => h'[p].flag) /\ (h[p].broken => h'[p].broken) => EndedSet \subseteq EndedSet'
           /\ h'[p].flag = h[p].flag /\ h'[p].broken = h[p].broken => EndedSet' = EndedSet
  <1>1. ASSUME NEW q \in Holders \ {p} PROVE ReportOf(q)' = ReportOf(q)
    BY <1>1 DEF ReportOf
  <1>2. ASSUME NEW r, ReportIs(p, r) PROVE Reports' = [Reports EXCEPT ![p] = r]
    BY <1>1, <1>2 DEF Reports, ReportIs
  <1>3. \A q \in Holders : q # p => ((q \in EndedSet)' <=> q \in EndedSet)
    BY DEF EndedSet
  <1>4. (p \in EndedSet <=> h[p].flag \/ h[p].broken) /\ ((p \in EndedSet)' <=> h'[p].flag \/ h'[p].broken)
    BY DEF EndedSet
  <1>5. EndedSet \subseteq Holders /\ EndedSet' \subseteq Holders
    BY DEF EndedSet
  <1>6. QED
    BY <1>2, <1>3, <1>4, <1>5

LEMMA ContractInit == Init => Contract!Init
  <1> SUFFICES ASSUME Init PROVE Contract!Init
    OBVIOUS
  <1>1. \A p \in Holders : h[p].st = "none" /\ ~h[p].flag /\ ~h[p].broken
    BY DEF Init, NoHandle
  <1>2. RunState = "none" /\ Reports = [p \in Holders |-> "none"] /\ EndedSet = {}
    BY <1>1 DEF Init, RunState, Reports, ReportOf, EndedSet
  <1>3. QED
    BY <1>2 DEF Contract!Init, RunState, Reports, ReportOf, EndedSet

(* Every step is a step of the contract or none.                            *)
LEMMA ContractStep == HandleInv /\ [Next]_vars => [Contract!Next]_(Contract!vars)
  <1> SUFFICES ASSUME HandleInv, [Next]_vars PROVE [Contract!Next]_(Contract!vars)
    OBVIOUS
  <1>T. h \in Handles /\ \A p \in Holders : h[p].flag \in BOOLEAN /\ h[p].broken \in BOOLEAN
    BY DEF HandleInv, Handles, Handle
  <1>P. Over \subseteq Contract!Ends
    BY DEF Over, Contract!Ends
  <1>R. \A p \in Holders : Reports[p] = ReportOf(p)
    BY DEF Reports
  <1>X. ASSUME NEW p \in Holders, NEW r PROVE Reports[p] = r => [Reports EXCEPT ![p] = r] = Reports
    BY DEF Reports
  <1>Q. ASSUME RunState' = RunState, Reports' = Reports, EndedSet' = EndedSet PROVE [Contract!Next]_(Contract!vars)
    BY <1>Q DEF Contract!vars, RunState, Reports, ReportOf, EndedSet
  <1>E. ASSUME RunState' = RunState, Reports' = Reports, EndedSet \subseteq EndedSet'
        PROVE [Contract!Next]_(Contract!vars)
    <2>1. EndedSet' \subseteq Holders
      BY DEF EndedSet
    <2>2. Contract!EndContexts
      BY <1>E, <2>1 DEF Contract!EndContexts, RunState, Reports, ReportOf, EndedSet
    <2>3. QED
      BY <2>2 DEF Contract!Next
  <1>1. ASSUME UNCHANGED <<h, inv>> PROVE [Contract!Next]_(Contract!vars)
    <2>1. RunState' = RunState /\ Reports' = Reports /\ EndedSet' = EndedSet
      BY <1>1 DEF RunState, Reports, ReportOf, EndedSet
    <2>2. QED
      BY <1>Q, <2>1
  (* A handle that is not given out yet, before and after. *)
  <1>2. ASSUME NEW p \in Holders, NEW x, UNCHANGED inv, Edit(p, x, h[p].flag, h[p].broken, h[p].out),
               {h[p].st, x} \cap {"open", "done", "lost"} = {}
        PROVE  [Contract!Next]_(Contract!vars)
    <2>1. Reports' = [Reports EXCEPT ![p] = "none"] /\ EndedSet' = EndedSet
      <3>1. ReportIs(p, "none")
        BY <1>2 DEF ReportIs, ReportOf, Edit
      <3>2. QED
        BY <1>2, <3>1, SameReports DEF Edit
    <2>2. ReportOf(p) = "none"
      BY <1>2 DEF ReportOf
    <2>3. RunState' = RunState
      BY <1>2 DEF RunState
    <2>4. QED
      BY <1>Q, <1>R, <1>X, <2>1, <2>2, <2>3
  (* A handle is given out for a run that was begun. *)
  <1>3. ASSUME NEW p \in Holders, UNCHANGED inv, inv # "none", Edit(p, "open", h[p].flag, h[p].broken, h[p].out),
               h[p].st \notin {"open", "done", "lost"}
        PROVE  [Contract!Next]_(Contract!vars)
    <2>1. Reports' = [Reports EXCEPT ![p] = "waiting"] /\ EndedSet' = EndedSet
      <3>1. ReportIs(p, "waiting")
        BY <1>3 DEF ReportIs, ReportOf, Edit
      <3>2. QED
        BY <1>3, <3>1, SameReports DEF Edit
    <2>2. Reports[p] = "none"
      BY <1>3, <1>R DEF ReportOf
    <2>3. RunState' = RunState /\ RunState # "none"
      BY <1>3 DEF RunState
    <2>4. Contract!Attach(p)
      BY <2>1, <2>2, <2>3 DEF Contract!Attach, RunState, Reports, ReportOf, EndedSet
    <2>5. QED
      BY <2>4 DEF Contract!Next
  <1>4. ASSUME NEW p \in Holders, withIngressRetry(p) PROVE [Contract!Next]_(Contract!vars)
    <2>1. h[p].st = "sending" /\ inv' \in {inv, IF inv = "none" THEN "running" ELSE inv}
      BY <1>4, RetryEffect
    <2>2. PICK x \in {"sending", "error", "open"} :
             /\ Edit(p, x, h[p].flag, h[p].broken, h[p].out)
             /\ x = "open" => inv' # "none"
      BY <1>4, RetryEffect
    <2>3. CASE inv' = inv /\ x = "open"
      BY <1>3, <2>1, <2>2, <2>3
    <2>4. CASE inv' = inv /\ x # "open"
      BY <1>2, <2>1, <2>2, <2>4
    <2>5. CASE inv' # inv
      <3>1. RunState = "none" /\ RunState' = "open"
        BY <2>1, <2>5 DEF RunState
      <3>2. EndedSet' = EndedSet /\ Reports[p] = "none"
        BY <1>R, <2>1, <2>2, SameReports DEF ReportOf, Edit
      <3>3. CASE x = "open"
        <4>1. Reports' = [Reports EXCEPT ![p] = "waiting"]
          <5>1. ReportIs(p, "waiting")
            BY <2>2, <3>3 DEF ReportIs, ReportOf, Edit
          <5>2. QED
            BY <2>2, <5>1, SameReports DEF Edit
        <4>2. Contract!Begin(p)
          BY <3>1, <3>2, <4>1 DEF Contract!Begin, RunState, Reports, ReportOf, EndedSet
        <4>3. QED
          BY <4>2 DEF Contract!Next
      <3>4. CASE x # "open"
        <4>1. Reports' = [Reports EXCEPT ![p] = "none"]
          <5>1. ReportIs(p, "none")
            BY <2>2, <3>4 DEF ReportIs, ReportOf, Edit
          <5>2. QED
            BY <2>2, <5>1, SameReports DEF Edit
        <4>2. Reports' = Reports
          BY <1>X, <3>2, <4>1
        <4>3. Contract!BeginUnseen
          BY <3>1, <3>2, <4>2 DEF Contract!BeginUnseen, RunState, Reports, ReportOf, EndedSet
        <4>4. QED
          BY <4>3 DEF Contract!Next
      <3>5. QED
        BY <3>3, <3>4
    <2>6. QED
      BY <2>3, <2>4, <2>5
  <1>5. ASSUME NEW p \in Holders, sendAgentLoop(p) \/ resolveRunningInvocation(p) PROVE [Contract!Next]_(Contract!vars)
    BY <1>2, <1>5, SendEffect, ResolveEffect
  <1>6. ASSUME NEW p \in Holders, lookupInvocationID(p) PROVE [Contract!Next]_(Contract!vars)
    <2>1. h[p].st = "probed" /\ UNCHANGED inv /\ inv # "none"
      BY <1>6, LookupEffect DEF HandleInv
    <2>2. PICK x \in {"open", "none"} : Edit(p, x, h[p].flag, h[p].broken, h[p].out)
      BY <1>6, LookupEffect
    <2>3. CASE x = "open"
      BY <1>3, <2>1, <2>2, <2>3
    <2>4. CASE x = "none"
      BY <1>2, <2>1, <2>2, <2>4
    <2>5. QED
      BY <2>3, <2>4
  <1>7. ASSUME NEW p \in Holders, awaitCompletion(p) PROVE [Contract!Next]_(Contract!vars)
    <2>1. h[p].st = "open" /\ UNCHANGED inv
      BY <1>7, AwaitEffect
    <2>2. PICK o \in Over \cup {"stopped"} :
             /\ Edit(p, "done", h[p].flag, h[p].broken, o)
             /\ o \in Over => inv = o
             /\ o = "stopped" => h[p].flag \/ h[p].broken
      BY <1>7, AwaitEffect
    <2>3. Reports' = [Reports EXCEPT ![p] = o] /\ EndedSet' = EndedSet
      <3>1. ReportIs(p, o)
        BY <2>2 DEF ReportIs, ReportOf, Edit
      <3>2. QED
        BY <2>2, <3>1, SameReports DEF Edit
    <2>4. Reports[p] = "waiting" /\ RunState' = RunState
      BY <1>R, <2>1 DEF ReportOf, RunState
    <2>5. CASE o \in Over
      <3>1. RunState = o
        BY <2>2, <2>5 DEF RunState, Over
      <3>2. Contract!Deliver(p)
        BY <1>P, <2>3, <2>4, <2>5, <3>1 DEF Contract!Deliver, RunState, Reports, ReportOf, EndedSet
      <3>3. QED
        BY <3>2 DEF Contract!Next
    <2>6. CASE o = "stopped"
      <3>1. p \in EndedSet
        BY <2>2, <2>6 DEF EndedSet
      <3>2. Contract!GiveUp(p)
        BY <2>3, <2>4, <2>6, <3>1 DEF Contract!GiveUp, RunState, Reports, ReportOf, EndedSet
      <3>3. QED
        BY <3>2 DEF Contract!Next
    <2>7. QED
      BY <2>5, <2>6
  (* A context ends. *)
  <1>8. ASSUME NEW p \in Holders, NEW f \in BOOLEAN, NEW b \in BOOLEAN, UNCHANGED inv,
               Edit(p, h[p].st, f, b, h[p].out), h[p].flag => f, h[p].broken => b
        PROVE  [Contract!Next]_(Contract!vars)
    <2>1. Reports' = [Reports EXCEPT ![p] = ReportOf(p)] /\ EndedSet \subseteq EndedSet'
      <3>1. ReportIs(p, ReportOf(p))
        BY <1>8 DEF ReportIs, ReportOf, Edit
      <3>2. QED
        BY <1>8, <3>1, SameReports DEF Edit
    <2>2. QED
      BY <1>8, <1>E, <1>R, <1>X, <2>1 DEF RunState
  <1>9. ASSUME NEW p \in Holders, AttachBreaks(p) PROVE [Contract!Next]_(Contract!vars)
    BY <1>8, <1>9, <1>T, BreakEffect
  <1>10. ASSUME NEW p \in Holders, Cancel(p) \/ cancelInvocation(p) PROVE [Contract!Next]_(Contract!vars)
    BY <1>8, <1>10, <1>T, CancelEffect
  <1>11. ASSUME HandlerEnds PROVE [Contract!Next]_(Contract!vars)
    <2>1. RunState = "open" /\ RunState' \in Over
      BY <1>11, EndEffect DEF RunState, Over
    <2>2. Reports' = Reports /\ EndedSet' = EndedSet
      BY <1>11, EndEffect DEF Reports, ReportOf, EndedSet
    <2>3. Contract!Close
      BY <1>P, <2>1, <2>2 DEF Contract!Close, RunState, Reports, ReportOf, EndedSet
    <2>4. QED
      BY <2>3 DEF Contract!Next
  <1>12. ASSUME Crash PROVE [Contract!Next]_(Contract!vars)
    <2>1. /\ UNCHANGED inv
          /\ \A p \in Holders : h'[p].st = IF h[p].st = "none" THEN "none"
                                           ELSE IF h[p].st \in {"open", "done", "lost"} THEN "lost" ELSE "error"
      BY <1>12, CrashEffect
    <2>2. \A p \in Holders : ReportOf(p) = "none" <=> h[p].st \notin {"open", "done", "lost"}
      BY DEF ReportOf, HandleInv, Over
    <2>3. \A p \in Holders : ReportOf(p)' = IF ReportOf(p) = "none" THEN "none" ELSE "lost"
      BY <2>1, <2>2 DEF ReportOf
    <2>4. Reports' = [p \in Holders |-> IF Reports[p] = "none" THEN "none" ELSE "lost"]
      BY <2>3 DEF Reports
    <2>5. EndedSet' \subseteq Holders /\ RunState' = RunState
      BY <2>1 DEF EndedSet, RunState
    <2>6. Contract!Lose
      BY <2>4, <2>5 DEF Contract!Lose, RunState, Reports, ReportOf, EndedSet
    <2>7. QED
      BY <2>6 DEF Contract!Next
  <1>13. ASSUME Aside \/ UNCHANGED vars PROVE [Contract!Next]_(Contract!vars)
    BY <1>1, <1>13, AsideEffect DEF vars, server, client
  <1>14. QED
    BY <1>4, <1>5, <1>6, <1>7, <1>9, <1>10, <1>11, <1>12, <1>13 DEF Next, Aside

(* A handle that is done has the end of its run or was stopped, and there   *)
(* is a run for every handle that was given out (awaitCompletion).          *)
THEOREM HandlesSafe == Spec => []HandleInv
  BY HandleInit, HandleStepInv, PTL DEF Spec

(* The handles of the Restate runtime implement RunContract, whatever the   *)
(* number of handles, of attempts to send the run and of faults: no handle  *)
(* reports an end the run did not have, and no two differ.                  *)
THEOREM ContractImplemented == Spec => ImplementsContract
  BY HandlesSafe, ContractInit, ContractStep, PTL DEF Spec, ImplementsContract, Contract!Spec
-----------------------------------------------------------------------------
(* The reader. What a step does to it, field by field.                      *)
Reads(st, p, from, off, done, broken, left) ==
    /\ rd' \in Reader
    /\ rd'.st = st /\ rd'.p = p /\ rd'.from = from /\ rd'.off = off
    /\ rd'.done = done /\ rd'.broken = broken /\ rd'.left = left

LEMMA ReadsClosed ==
    ASSUME rd \in Reader, rd' = Closed
    PROVE  Reads("closed", rd.p, rd.from, 0, FALSE, rd.broken, rd.left)
  <1>1. NoReader \in Reader
    BY DEF NoReader, Reader
  <1>2. /\ rd' \in Reader /\ rd'.st = "closed" /\ rd'.p = rd.p /\ rd'.from = rd.from /\ rd'.broken = rd.broken
        /\ rd'.left = rd.left /\ rd'.off = NoReader.off /\ rd'.done = NoReader.done
    BY <1>1 DEF Reader, Closed
  <1>3. NoReader.off = 0 /\ NoReader.done = FALSE
    BY DEF NoReader
  <1>4. QED
    BY <1>2, <1>3 DEF Reads

LEMMA EventsReads ==
    ASSUME NEW p \in Holders, Events(p), saved \in Nat
    PROVE  /\ \E from \in Nat : Reads("top", p, from, from, FALSE, FALSE, FALSE)
           /\ UNCHANGED <<server, h, got, saved>>
  <1>1. NoReader \in Reader
    BY DEF NoReader, Reader
  <1>2. PICK from \in Nat : rd' = [NoReader EXCEPT !.st = "top", !.p = p, !.from = from, !.off = from]
    BY DEF Events
  <1>3. /\ rd' \in Reader /\ rd'.st = "top" /\ rd'.p = p /\ rd'.from = from /\ rd'.off = from
        /\ rd'.done = NoReader.done /\ rd'.broken = NoReader.broken /\ rd'.left = NoReader.left
    BY <1>1, <1>2 DEF Reader
  <1>4. NoReader.done = FALSE /\ NoReader.broken = FALSE /\ NoReader.left = FALSE
    BY DEF NoReader
  <1>5. QED
    BY <1>3, <1>4 DEF Reads, Events

LEMMA LeaveReads ==
    ASSUME rd \in Reader, CallerLeaves
    PROVE  /\ rd.st \in {"top", "pull"} /\ UNCHANGED <<server, h, got, saved>>
           /\ Reads(rd.st, rd.p, rd.from, rd.off, rd.done, rd.broken, TRUE)
  BY DEF CallerLeaves, Reader, Reads

LEMMA ReadyReads ==
    ASSUME rd \in Reader, channelReady
    PROVE  /\ rd.st = "top" /\ UNCHANGED <<server, h, got, saved>>
           /\ \/ rd.left /\ Reads("closed", rd.p, rd.from, 0, FALSE, rd.broken, rd.left)
              \/ \E d \in BOOLEAN : /\ Reads("pull", rd.p, rd.from, rd.off, d, rd.broken, rd.left)
                                    /\ d = (rd.done \/ h[rd.p].st = "done")
  <1>1. rd.st = "top" /\ UNCHANGED <<server, h, got, saved>>
    BY DEF channelReady
  <1>2. CASE Leaving /\ rd' = Closed
    BY <1>1, <1>2, ReadsClosed DEF Leaving
  <1>3. CASE rd' = [rd EXCEPT !.st = "pull", !.done = @ \/ h[rd.p].st = "done"]
    <2>1. PICK d \in BOOLEAN : d = (rd.done \/ h[rd.p].st = "done")
      OBVIOUS
    <2>2. rd' = [rd EXCEPT !.st = "pull", !.done = d]
      BY <1>3, <2>1 DEF Reader
    <2>3. Reads("pull", rd.p, rd.from, rd.off, d, rd.broken, rd.left)
      BY <2>2 DEF Reader, Reads
    <2>4. QED
      BY <1>1, <2>1, <2>3
  <1>4. QED
    BY <1>2, <1>3 DEF channelReady

LEMMA SentSaves ==
    ASSUME rd.off \in Nat, Len(log) \in Nat, rd.off < Len(log), saved \in Nat, NEW S \in SUBSET Batch, Sent(S)
    PROVE  saved' \in Nat /\ got' = got \cup S
  <1>1. \A i \in Batch : OffsetOf(i) \in Nat
    BY DEF Batch, OffsetOf, Tail0
  <1>2. QED
    BY <1>1 DEF Sent

LEMMA PullReads ==
    ASSUME rd \in Reader, saved \in Nat, log \in Seq({"event", "ask", "token"}), runPullLoop
    PROVE  /\ rd.st = "pull" /\ UNCHANGED <<server, h>> /\ saved' \in Nat /\ rd.off < Len(log)
           /\ \/ /\ Reads("top", rd.p, rd.from, Len(log), rd.done, rd.broken, rd.left)
                 /\ ~rd.left => got' = got \cup rd.off..(Len(log) - 1)
              \/ rd.left /\ Reads("closed", rd.p, rd.from, 0, FALSE, rd.broken, rd.left)
  <1>1. rd.st = "pull" /\ rd.off < Len(log) /\ rd.off \in Nat /\ Len(log) \in Nat
    BY DEF runPullLoop, Tail0, Reader
  <1>2. UNCHANGED <<server, h>>
    BY DEF runPullLoop
  <1>3. CASE /\ rd' = [rd EXCEPT !.st = "top", !.off = Tail0, !.empties = 0]
             /\ \E S \in SUBSET Batch : (S # Batch => rd.left /\ rd.done) /\ Sent(S)
    <2>1. rd' = [rd EXCEPT !.st = "top", !.off = Len(log), !.empties = 0]
      BY <1>3 DEF Tail0
    <2>2. Reads("top", rd.p, rd.from, Len(log), rd.done, rd.broken, rd.left)
      BY <1>1, <2>1 DEF Reader, Reads
    <2>3. PICK S \in SUBSET Batch : (S # Batch => rd.left /\ rd.done) /\ Sent(S)
      BY <1>3
    <2>4. saved' \in Nat /\ got' = got \cup S
      BY <1>1, <2>3, SentSaves
    <2>5. QED
      BY <1>1, <1>2, <2>2, <2>3, <2>4 DEF Batch, Tail0
  <1>4. CASE Leaving /\ rd' = Closed /\ \E i \in Batch : Sent(rd.off..(i - 1))
    <2>1. PICK i \in Batch : Sent(rd.off..(i - 1))
      BY <1>4
    <2>2. rd.off..(i - 1) \in SUBSET Batch
      BY <1>1, <2>1 DEF Batch, Tail0
    <2>3. saved' \in Nat
      BY <1>1, <2>1, <2>2, SentSaves
    <2>4. QED
      BY <1>1, <1>2, <1>4, <2>3, ReadsClosed DEF Leaving
  <1>5. QED
    BY <1>3, <1>4 DEF runPullLoop

LEMMA PeekReads ==
    ASSUME rd \in Reader, EmptyPeek
    PROVE  /\ rd.st = "pull" /\ UNCHANGED <<server, h, got, saved>> /\ rd.off >= Len(log)
           /\ \/ Reads("top", rd.p, rd.from, rd.off, rd.done, rd.broken, rd.left)
              \/ rd.done /\ Reads("ending", rd.p, rd.from, rd.off, rd.done, rd.broken, rd.left)
              \/ rd.left /\ Reads("closed", rd.p, rd.from, 0, FALSE, rd.broken, rd.left)
  <1>1. rd.st = "pull" /\ UNCHANGED <<server, h, got, saved>> /\ rd.off >= Len(log)
    BY DEF EmptyPeek, Tail0
  <1>2. CASE Leaving /\ rd' = Closed
    BY <1>1, <1>2, ReadsClosed DEF Leaving
  <1>3. CASE rd' = [rd EXCEPT !.empties = IF rd.done THEN @ + 1 ELSE @,
                              !.st = IF rd.done /\ (rd.left \/ rd.empties + 1 >= DrainPeeks) THEN "ending"
                                     ELSE "top"]
    <2>1. rd.empties \in Nat
      BY DEF Reader
    <2>2. PICK n \in Nat : n = IF rd.done THEN rd.empties + 1 ELSE rd.empties
      BY <2>1
    <2>3. PICK x \in {"top", "ending"} :
             x = IF rd.done /\ (rd.left \/ rd.empties + 1 >= DrainPeeks) THEN "ending" ELSE "top"
      OBVIOUS
    <2>4. rd' = [rd EXCEPT !.empties = n, !.st = x]
      BY <1>3, <2>2, <2>3
    <2>5. Reads(x, rd.p, rd.from, rd.off, rd.done, rd.broken, rd.left)
      BY <2>4 DEF Reader, Reads
    <2>6. QED
      BY <1>1, <2>3, <2>5
  <1>4. QED
    BY <1>2, <1>3 DEF EmptyPeek

LEMMA ErrorReads ==
    ASSUME rd \in Reader, PullError
    PROVE  /\ rd.st = "pull" /\ UNCHANGED <<server, h, got, saved>>
           /\ \/ Reads("ending", rd.p, rd.from, rd.off, rd.done, TRUE, rd.left)
              \/ rd.left /\ Reads("closed", rd.p, rd.from, 0, FALSE, rd.broken, rd.left)
  <1>1. rd.st = "pull" /\ UNCHANGED <<server, h, got, saved>>
    BY DEF PullError
  <1>2. CASE Leaving /\ rd' = Closed
    BY <1>1, <1>2, ReadsClosed DEF Leaving
  <1>3. CASE rd' = [rd EXCEPT !.st = "ending", !.broken = TRUE]
    BY <1>1, <1>3 DEF Reader, Reads
  <1>4. QED
    BY <1>2, <1>3 DEF PullError

LEMMA DeliverReads ==
    ASSUME rd \in Reader, deliverEvents
    PROVE  /\ rd.st = "ending" /\ h[rd.p].st = "done" /\ UNCHANGED <<server, h, got, saved>>
           /\ Reads("closed", rd.p, rd.from, 0, FALSE, rd.broken, rd.left)
  BY ReadsClosed DEF deliverEvents
-----------------------------------------------------------------------------
LEMMA ReaderInit == Init => ReaderInv
  <1> SUFFICES ASSUME Init PROVE ReaderInv
    OBVIOUS
  <1>1. rd \in Reader /\ rd.st = "off"
    BY DEF Init, NoReader, Reader
  <1>2. saved \in Nat /\ log \in Seq({"event", "ask", "token"}) /\ hs = "free"
    BY DEF Init
  <1>3. QED
    BY <1>1, <1>2 DEF ReaderInv, HandlerQuiet, GotUpTo, Drains, Drained, ReaderComplete

(* Every step keeps ReaderInv.                                              *)
LEMMA ReaderStepInv == HandleInv /\ ReaderInv /\ [Next]_vars => ReaderInv'
  <1> SUFFICES ASSUME HandleInv, ReaderInv, [Next]_vars PROVE ReaderInv'
    OBVIOUS
  <1>I. /\ rd \in Reader /\ saved \in Nat /\ log \in Seq({"event", "ask", "token"})
        /\ HandlerQuiet /\ GotUpTo /\ Drains /\ Drained /\ ReaderComplete
    BY DEF ReaderInv
  <1>F. rd.from \in Nat /\ rd.off \in Nat /\ rd.done \in BOOLEAN /\ rd.broken \in BOOLEAN /\ rd.left \in BOOLEAN /\ Len(log) \in Nat
    BY <1>I DEF Reader
  (* A run that is not over has no reader that only waits for its end. *)
  <1>O. /\ rd.st \in {"ending", "closed"} /\ ~rd.left /\ ~rd.broken => rd.p \in Holders /\ h[rd.p].st = "done"
        /\ rd.st \in {"ending", "closed"} /\ ~rd.left /\ ~rd.broken /\ ~h[rd.p].broken => inv \in Over
    BY <1>I DEF Drains, HandleInv
  (* Operations on handles: the reader and the log stay. *)
  <1>1. ASSUME UNCHANGED <<rd, got, saved, log, hs>>, inv # "running" => inv' # "running" \/ hs = "free",
               inv = "running" /\ inv' # "running" => hs = "free",
               \A q \in Holders : /\ h[q].st = "done" => h'[q].st = "done"
                                  /\ h[q].broken => h'[q].broken
        PROVE  ReaderInv'
    <2>1. HandlerQuiet' /\ GotUpTo'
      BY <1>1, <1>I DEF HandlerQuiet, GotUpTo
    <2>2. Drains'
      BY <1>1, <1>I DEF Drains
    <2>3. Drained' /\ ReaderComplete'
      BY <1>1, <1>I DEF Drained, ReaderComplete, Drains, Offsets, Kind
    <2>4. QED
      BY <1>1, <1>I, <2>1, <2>2, <2>3 DEF ReaderInv
  <1>2. ASSUME NEW p \in Holders, sendAgentLoop(p) \/ resolveRunningInvocation(p) \/ lookupInvocationID(p)
        PROVE  ReaderInv'
    <2>1. UNCHANGED <<rd, got, saved, log, hs, inv>>
      BY <1>2 DEF sendAgentLoop, resolveRunningInvocation, lookupInvocationID, server
    <2>2. \A q \in Holders : /\ h[q].st = "done" => h'[q].st = "done"
                             /\ h[q].broken => h'[q].broken
      BY <1>2, SendEffect, ResolveEffect, LookupEffect DEF Edit
    <2>3. QED
      BY <1>1, <2>1, <2>2
  <1>3. ASSUME NEW p \in Holders, withIngressRetry(p) PROVE ReaderInv'
    <2>1. UNCHANGED <<rd, got, saved, log, hs>>
      BY <1>3 DEF withIngressRetry
    <2>2. /\ \A q \in Holders : /\ h[q].st = "done" => h'[q].st = "done"
                                /\ h[q].broken => h'[q].broken
          /\ inv = "running" => inv' = "running"
      BY <1>3, RetryEffect DEF Edit
    <2>3. inv # "running" => hs = "free"
      BY <1>I DEF HandlerQuiet
    <2>4. QED
      BY <1>1, <2>1, <2>2, <2>3
  <1>4. ASSUME NEW p \in Holders, awaitCompletion(p) \/ AttachBreaks(p) PROVE ReaderInv'
    <2>1. UNCHANGED <<rd, got, saved, log, hs, inv>>
      BY <1>4 DEF awaitCompletion, AttachBreaks, server
    <2>2. \A q \in Holders : /\ h[q].st = "done" => h'[q].st = "done"
                             /\ h[q].broken => h'[q].broken
      BY <1>4, AwaitEffect, BreakEffect DEF Edit
    <2>3. QED
      BY <1>1, <2>1, <2>2
  <1>5. ASSUME NEW p \in Holders, Cancel(p) \/ cancelInvocation(p) PROVE ReaderInv'
    <2>1. UNCHANGED <<rd, got, saved, log, hs, inv>>
      BY <1>5 DEF Cancel, cancelInvocation, server
    <2>2. \A q \in Holders : /\ h[q].st = "done" => h'[q].st = "done"
                             /\ h[q].broken => h'[q].broken
      BY <1>5, CancelEffect DEF Edit
    <2>3. QED
      BY <1>1, <2>1, <2>2
  <1>6. ASSUME HandlerEnds PROVE ReaderInv'
    <2>1. UNCHANGED <<rd, got, saved, log, hs, h>> /\ hs = "free" /\ inv = "running"
      BY <1>6 DEF HandlerEnds
    <2>2. QED
      BY <1>1, <2>1
  <1>7. ASSUME \/ startEndpoint \/ registerDeployment \/ PullWait \/ PullTimeout \/ runApprovalLoop
               \/ Clear \/ Subscribe \/ emitEventIngress \/ UNCHANGED vars
        PROVE  ReaderInv'
    <2>1. UNCHANGED <<rd, got, saved, log, hs, h, inv>>
      BY <1>7 DEF startEndpoint, registerDeployment, PullWait, PullTimeout, runApprovalLoop, Clear, Subscribe,
                  emitEventIngress, vars, server, client
    <2>2. QED
      BY <1>1, <2>1
  <1>8. ASSUME (\E k \in {"ask", "event"} : HandlerEmits(k)) \/ AwakeableOrTimer PROVE ReaderInv'
    <2>1. UNCHANGED <<rd, got, saved, log, h, inv>> /\ (hs' = "free" \/ inv = "running")
      BY <1>8 DEF HandlerEmits, AwakeableOrTimer, client
    <2>2. HandlerQuiet'
      BY <2>1 DEF HandlerQuiet
    <2>3. QED
      BY <1>I, <2>1, <2>2 DEF ReaderInv, GotUpTo, Drains, Drained, ReaderComplete, Offsets, Kind
  (* The log grows: by a token, or by an event of a run that is not over. *)
  <1>9. ASSUME NEW k \in {"event", "ask", "token"}, log' = Append(log, k), UNCHANGED <<rd, got, saved, h, inv>>,
               hs' = hs \/ hs' = "free" \/ inv = "running",
               k = "token" \/ inv = "running"
        PROVE  ReaderInv'
    <2>1. /\ log' \in Seq({"event", "ask", "token"}) /\ Len(log') = Len(log) + 1
          /\ \A i \in 1..Len(log) : log'[i] = log[i]
          /\ log'[Len(log) + 1] = k
      BY <1>9, <1>I
    <2>2. HandlerQuiet' /\ GotUpTo' /\ Drains'
      BY <1>9, <1>I DEF HandlerQuiet, GotUpTo, Drains
    <2>3. /\ \A o \in Offsets' : o \in Offsets \/ o = Len(log)
          /\ \A o \in Offsets : Kind(o)' = Kind(o)
          /\ \A o \in Offsets' : o \notin Offsets => Kind(o)' = k
      BY <1>F, <2>1 DEF Offsets, Kind
    <2>4. CASE k = "token"
      BY <1>9, <1>I, <2>1, <2>2, <2>3, <2>4 DEF ReaderInv, Drained, ReaderComplete
    <2>5. CASE inv = "running"
      <3>1. ~(rd.st \in {"ending", "closed"} /\ ~rd.left /\ ~rd.broken /\ ~h[rd.p].broken)
        BY <1>O, <2>5 DEF Over
      <3>2. Drained' /\ ReaderComplete'
        BY <1>9, <3>1 DEF Drained, ReaderComplete
      <3>3. QED
        BY <1>9, <1>I, <2>1, <2>2, <3>2 DEF ReaderInv
    <2>6. QED
      BY <1>9, <2>4, <2>5
  <1>10. ASSUME publishAgentEventJSON PROVE ReaderInv'
    <2>1. hs \in {"event", "ask"} /\ UNCHANGED <<rd, got, saved, h, inv>> /\ inv = "running"
      BY <1>10, <1>I DEF publishAgentEventJSON, client, HandlerQuiet
    <2>2. CASE Publish(hs)
      BY <1>9, <2>1, <2>2 DEF Publish
    <2>3. CASE hs' = "free" /\ UNCHANGED log
      BY <1>I, <2>1, <2>3 DEF ReaderInv, HandlerQuiet, GotUpTo, Drains, Drained, ReaderComplete, Offsets, Kind
    <2>4. QED
      BY <1>10, <2>2, <2>3 DEF publishAgentEventJSON
  <1>11. ASSUME TokenArrives PROVE ReaderInv'
    <2>1. log' = Append(log, "token") /\ UNCHANGED <<rd, got, saved, h, inv, hs>>
      BY <1>11 DEF TokenArrives, Publish, client
    <2>2. QED
      BY <1>9, <2>1
  <1>12. ASSUME Crash PROVE ReaderInv'
    <2>1. rd' \in Reader /\ rd'.st = "off"
      BY <1>12 DEF Crash, NoReader, Reader
    <2>2. UNCHANGED <<saved, log, hs, inv>>
      BY <1>12 DEF Crash, server
    <2>3. QED
      BY <1>I, <2>1, <2>2 DEF ReaderInv, HandlerQuiet, GotUpTo, Drains, Drained, ReaderComplete
  (* The steps of the reader: the log and the handles stay. *)
  <1>13. ASSUME UNCHANGED <<log, h, inv, hs>>, rd' \in Reader, saved' \in Nat, GotUpTo', Drains', Drained', ReaderComplete'
         PROVE  ReaderInv'
    BY <1>13, <1>I DEF ReaderInv, HandlerQuiet
  <1>14. ASSUME NEW p \in Holders, Events(p) PROVE ReaderInv'
    <2>1. PICK from \in Nat : Reads("top", p, from, from, FALSE, FALSE, FALSE)
      BY <1>14, <1>I, EventsReads
    <2>2. UNCHANGED <<log, h, inv, hs, got, saved>>
      BY <1>14, <1>I, EventsReads DEF server
    <2>3. GotUpTo' /\ Drains' /\ Drained' /\ ReaderComplete'
      BY <2>1 DEF Reads, GotUpTo, Drains, Drained, ReaderComplete
    <2>4. QED
      BY <1>13, <1>I, <2>1, <2>2, <2>3 DEF Reads
  (* A reader that is closed before its end has been left. *)
  <1>15. ASSUME rd.left, Reads("closed", rd.p, rd.from, 0, FALSE, rd.broken, rd.left), rd.st # "off",
                UNCHANGED <<log, h, inv, hs>>, saved' \in Nat
         PROVE  ReaderInv'
    <2>1. GotUpTo' /\ Drains' /\ Drained' /\ ReaderComplete'
      BY <1>15, <1>I DEF Reads, GotUpTo, Drains, Drained, ReaderComplete
    <2>2. QED
      BY <1>13, <1>15, <2>1 DEF Reads
  <1>16. ASSUME channelReady PROVE ReaderInv'
    <2>1. rd.st = "top" /\ UNCHANGED <<log, h, inv, hs, got, saved>>
      BY <1>16, <1>I, ReadyReads DEF server
    <2>2. CASE rd.left /\ Reads("closed", rd.p, rd.from, 0, FALSE, rd.broken, rd.left)
      BY <1>15, <1>I, <2>1, <2>2
    <2>3. ASSUME NEW d \in BOOLEAN, Reads("pull", rd.p, rd.from, rd.off, d, rd.broken, rd.left),
                 d = (rd.done \/ h[rd.p].st = "done")
          PROVE  ReaderInv'
      <3>1. GotUpTo' /\ Drains' /\ Drained' /\ ReaderComplete'
        BY <1>I, <2>1, <2>3 DEF Reads, GotUpTo, Drains, Drained, ReaderComplete
      <3>2. QED
        BY <1>13, <1>I, <2>1, <2>3, <3>1 DEF Reads
    <2>4. QED
      BY <1>16, <1>I, <2>2, <2>3, ReadyReads
  <1>17. ASSUME runPullLoop PROVE ReaderInv'
    <2>1. rd.st = "pull" /\ UNCHANGED <<log, h, inv, hs>> /\ saved' \in Nat /\ rd.off < Len(log)
      BY <1>17, <1>I, PullReads DEF server
    <2>2. CASE /\ Reads("top", rd.p, rd.from, Len(log), rd.done, rd.broken, rd.left)
               /\ ~rd.left => got' = got \cup rd.off..(Len(log) - 1)
      <3>1. GotUpTo'
        BY <1>I, <1>F, <2>1, <2>2 DEF Reads, GotUpTo
      <3>2. Drains' /\ Drained' /\ ReaderComplete'
        BY <1>I, <2>1, <2>2 DEF Reads, Drains, Drained, ReaderComplete
      <3>3. QED
        BY <1>13, <2>1, <2>2, <3>1, <3>2 DEF Reads
    <2>3. CASE rd.left /\ Reads("closed", rd.p, rd.from, 0, FALSE, rd.broken, rd.left)
      BY <1>15, <2>1, <2>3
    <2>4. QED
      BY <1>17, <1>I, <2>2, <2>3, PullReads
  <1>18. ASSUME EmptyPeek PROVE ReaderInv'
    <2>1. rd.st = "pull" /\ UNCHANGED <<log, h, inv, hs, got, saved>> /\ rd.off >= Len(log)
      BY <1>18, <1>I, PeekReads DEF server
    <2>2. CASE Reads("top", rd.p, rd.from, rd.off, rd.done, rd.broken, rd.left)
      <3>1. GotUpTo' /\ Drains' /\ Drained' /\ ReaderComplete'
        BY <1>I, <2>1, <2>2 DEF Reads, GotUpTo, Drains, Drained, ReaderComplete
      <3>2. QED
        BY <1>13, <1>I, <2>1, <2>2, <3>1 DEF Reads
    <2>3. CASE rd.done /\ Reads("ending", rd.p, rd.from, rd.off, rd.done, rd.broken, rd.left)
      <3>1. GotUpTo' /\ Drains' /\ ReaderComplete'
        BY <1>I, <2>1, <2>3 DEF Reads, GotUpTo, Drains, ReaderComplete
      <3>2. \A o \in Offsets' : ~(o >= rd.off)
        BY <1>F, <2>1 DEF Offsets
      <3>3. Drained'
        BY <2>3, <3>2 DEF Reads, Drained
      <3>4. QED
        BY <1>13, <1>I, <2>1, <2>3, <3>1, <3>3 DEF Reads
    <2>4. CASE rd.left /\ Reads("closed", rd.p, rd.from, 0, FALSE, rd.broken, rd.left)
      BY <1>15, <1>I, <2>1, <2>4
    <2>5. QED
      BY <1>18, <1>I, <2>2, <2>3, <2>4, PeekReads
  <1>19. ASSUME PullError PROVE ReaderInv'
    <2>1. rd.st = "pull" /\ UNCHANGED <<log, h, inv, hs, got, saved>>
      BY <1>19, <1>I, ErrorReads DEF server
    <2>2. CASE Reads("ending", rd.p, rd.from, rd.off, rd.done, TRUE, rd.left)
      <3>1. GotUpTo' /\ Drains' /\ Drained' /\ ReaderComplete'
        BY <1>I, <2>1, <2>2 DEF Reads, GotUpTo, Drains, Drained, ReaderComplete
      <3>2. QED
        BY <1>13, <1>I, <2>1, <2>2, <3>1 DEF Reads
    <2>3. CASE rd.left /\ Reads("closed", rd.p, rd.from, 0, FALSE, rd.broken, rd.left)
      BY <1>15, <1>I, <2>1, <2>3
    <2>4. QED
      BY <1>19, <1>I, <2>2, <2>3, ErrorReads
  <1>20. ASSUME deliverEvents PROVE ReaderInv'
    <2>1. /\ rd.st = "ending" /\ h[rd.p].st = "done" /\ UNCHANGED <<log, h, inv, hs, got, saved>>
          /\ Reads("closed", rd.p, rd.from, 0, FALSE, rd.broken, rd.left)
      BY <1>20, <1>I, DeliverReads DEF server
    <2>2. GotUpTo' /\ Drains' /\ Drained'
      BY <1>I, <2>1 DEF Reads, GotUpTo, Drains, Drained
    <2>3. ReaderComplete'
      <3>1. SUFFICES ASSUME ~rd.left, ~rd.broken, ~h[rd.p].broken, NEW o \in Offsets, o >= rd.from, Kind(o) # "token"
                     PROVE  o \in got
        BY <2>1 DEF Reads, ReaderComplete, Offsets, Kind
      <3>2. o < rd.off /\ o \in Nat
        BY <1>I, <1>F, <2>1, <3>1 DEF Drained, Offsets
      <3>3. QED
        BY <1>I, <2>1, <3>1, <3>2 DEF GotUpTo
    <2>4. QED
      BY <1>13, <1>I, <2>1, <2>2, <2>3 DEF Reads
  <1>21. ASSUME CallerLeaves PROVE ReaderInv'
    <2>1. /\ rd.st \in {"top", "pull"} /\ UNCHANGED <<log, h, inv, hs, got, saved>>
          /\ Reads(rd.st, rd.p, rd.from, rd.off, rd.done, rd.broken, TRUE)
      BY <1>21, <1>I, LeaveReads DEF server
    <2>2. GotUpTo' /\ Drains' /\ Drained' /\ ReaderComplete'
      BY <1>I, <2>1 DEF Reads, GotUpTo, Drains, Drained, ReaderComplete
    <2>3. QED
      BY <1>13, <1>I, <2>1, <2>2 DEF Reads
  <1>22. QED
    BY <1>2, <1>3, <1>4, <1>5, <1>6, <1>7, <1>8, <1>10, <1>11, <1>12, <1>14, <1>16, <1>17, <1>18, <1>19, <1>20, <1>21
       DEF Next, ServerStep, ReaderStep

(* A reader whose caller stayed and that met no failure was given, when it  *)
(* ends, every event from its offset on (publishAgentEventJSON,             *)
(* runPullLoop), for every length of the log and number of empty looks, and *)
(* however the offset it resumed from came about. What a caller that left   *)
(* misses while the reader drains is not promised.                          *)
THEOREM ReaderSeesAll == Spec => []ReaderComplete
  <1>1. ReaderInv => ReaderComplete
    BY DEF ReaderInv
  <1>2. QED
    BY <1>1, HandlesSafe, ReaderInit, ReaderStepInv, PTL DEF Spec
-----------------------------------------------------------------------------
(* The handler.  Its locals after an operation are a function of its       *)
(* locals before and of what it read (Read); the code between operations   *)
(* is a function of the locals alone (Settle).  The inductive invariant    *)
(* says that there is one course of the handler through the whole journal  *)
(* (Course), and that the attempt is somewhere on it (OnCourse).           *)
OpKind(l) == Head(l.plan)[1]
Tool(l) == Head(l.plan)[2]
Silent == {"results", "next"}

(* What each operation leaves, in the order of the handler.                 *)
OrFail(l, v) == IF v = "ok" THEN Then(l) ELSE Fails(l, "error")
OnNow(l, v) ==
    IF v = "cancelled" THEN Fails(l, "error")
    ELSE [Then(l) EXCEPT !.now = IF v = "later" THEN @ + ResetAfter ELSE @]
OnAnswer(l, t, b, us) ==
    IF t = "final" THEN checkBudget([l EXCEPT !.plan = RunEnd], us) ELSE AfterLLM(l, b, us)
OnLLM(l, v, us) ==
    IF v \in Batches THEN OnAnswer(l, Tool(l), v, us)
    ELSE IF l.fallback THEN Fails(l, "error")
    ELSE [l EXCEPT !.plan = <<Op("llm-failure", Tool(l))>>]
OnFailure(l, v) == IF v = "fallback" THEN [l EXCEPT !.plan = <<Op("llm-fallback", Tool(l))>>] ELSE Fails(l, "error")
OnFallback(l, v, us) ==
    IF v \in Batches THEN OnAnswer([l EXCEPT !.fallback = TRUE], Tool(l), v, us) ELSE Fails(l, "error")
OnMaxIter(l, v) ==
    CASE v = "extend" -> Dispatch([l EXCEPT !.max = @ + Extra, !.extended = TRUE])
      [] v = "final"  -> [l EXCEPT !.plan = <<Op("llm", "final")>>]
      [] OTHER        -> Fails(l, "error")
OnBudget(l, v) ==
    IF v = "approved" THEN [Then(l) EXCEPT !.tracker = AdvanceWatermark(@)] ELSE Fails(l, "budget")
OnAuth(l, v) ==
    CASE v = "allowed" -> Then(l)
      [] v = "denied"  -> writeResult(l, Tool(l), FALSE)
      [] OTHER         -> ToolFails(l, Tool(l))
OnWait(l, v) ==
    CASE v = "approved"  -> Then(l)
      [] v = "cancelled" -> ToolFails(l, Tool(l))
      [] OTHER           -> writeResult(l, Tool(l), FALSE)
OnExec(l, v) == [Then(l) EXCEPT !.failed = IF v = "ok" THEN @ ELSE @ \cup {Tool(l)}]
OnChildId(l, v) ==
    IF v = "ok" THEN Then(l) ELSE [l EXCEPT !.plan = Tail(Tail(@)), !.failed = @ \cup {Tool(l)}, !.tries = 0]
OnDelegate(l, v, us) ==
    IF v = "ok" THEN [Then(l) EXCEPT !.used = us, !.tries = 0]
    ELSE IF l.tries + 1 < SubAttempts
         THEN [l EXCEPT !.plan = <<Op("child-id", Tool(l))>> \o @, !.tries = @ + 1]
    ELSE [Then(l) EXCEPT !.tries = 0]

Read(l, v, us) ==
    LET k == OpKind(l)
    IN  IF k \in {"prefetch", "cb"} THEN OrFail(l, v)
        ELSE IF k = "now" THEN OnNow(l, v)
        ELSE IF k = "llm" THEN OnLLM(l, v, us)
        ELSE IF k = "llm-failure" THEN OnFailure(l, v)
        ELSE IF k = "llm-fallback" THEN OnFallback(l, v, us)
        ELSE IF k = "max-iter" THEN OnMaxIter(l, v)
        ELSE IF k = "budget-wait" THEN OnBudget(l, v)
        ELSE IF k = "auth" THEN OnAuth(l, v)
        ELSE IF k = "wait" THEN OnWait(l, v)
        ELSE IF k = "exec" THEN OnExec(l, v)
        ELSE IF k = "child-id" THEN OnChildId(l, v)
        ELSE IF k = "delegate" THEN OnDelegate(l, v, us)
        ELSE Then(l)

Counted(l) ==
    [Then(l) EXCEPT !.breaker = ApplyToolCircuitResult(AfterReset(@, l.now), Native \in l.tools, 1,
                                                       Native \in l.failed, l.now),
                    !.failed = {}, !.used = NoUsage]
Settle(l) ==
    IF OpKind(l) = "results" THEN IF l.used # NoUsage THEN checkBudget(Counted(l), l.used) ELSE Counted(l)
    ELSE [l EXCEPT !.plan = Iteration, !.iter = @ + 1]

(* From one place of the course to the next, over journal j.                *)
Leads(j, l, p, m, q) ==
    IF OpKind(l) \in Silent THEN m = Settle(l) /\ q = p
    ELSE /\ p < Len(j) /\ j[p + 1].op = Head(l.plan) \o <<l.iter>>
         /\ m = Read(l, j[p + 1].val, j[p + 1].usage) /\ q = p + 1

(* The course of the handler through journal j: n places, each with its     *)
(* locals and the entries read before it.                                   *)
Course(j, n, L, P) ==
    /\ L[1] = NewLoop({Native, Child}) /\ P[1] = 0
    /\ \A i \in 1..n : P[i] \in Nat /\ P[i] <= Len(j)
    /\ P[n] = Len(j)
    /\ \A i \in 1..(n - 1) : Leads(j, L[i], P[i], L[i + 1], P[i + 1])
OnCourse(l, p, n, L, P) == l = NotStarted \/ \E i \in 1..n : L[i] = l /\ P[i] = p

ReplayInv ==
    /\ \E S : journal \in Seq(S)
    /\ \E n \in Nat \ {0} : \E L, P : Course(journal, n, L, P) /\ OnCourse(loc, pos, n, L, P)

LEMMA InitReplay == LoopInit => ReplayInv
<1> SUFFICES ASSUME LoopInit PROVE ReplayInv
  OBVIOUS
<1> DEFINE L == [i \in {1} |-> NewLoop({Native, Child})]
           P == [i \in {1} |-> 0]
<1>1. journal = <<>> /\ loc = NotStarted /\ Len(journal) = 0
  BY DEF LoopInit
<1>2. <<>> \in Seq({})
  OBVIOUS
<1>3. 1..1 = {1} /\ 1..(1 - 1) = {}
  OBVIOUS
<1>4. L[1] = NewLoop({Native, Child}) /\ P[1] = 0
  OBVIOUS
<1> HIDE DEF L, P
<1>5. Course(journal, 1, L, P)
  BY <1>1, <1>3, <1>4 DEF Course
<1>6. OnCourse(loc, pos, 1, L, P)
  BY <1>1 DEF OnCourse
<1>. QED
  BY <1>1, <1>2, <1>5, <1>6 DEF ReplayInv

Reaches(j, n, m, q) == \E L, P : Course(j, n, L, P) /\ L[n] = m /\ P[n] = q
Grown(j, k, q) ==
    /\ Len(j) \in Nat /\ Len(k) = q /\ Len(j) <= q
    /\ \A i \in 1..Len(j) : k[i] = j[i]

(* The course gets one place longer; the journal may have grown.            *)
LEMMA Longer ==
    ASSUME NEW j, NEW k, NEW n \in Nat \ {0}, NEW L, NEW P, NEW m, NEW q \in Nat,
           Course(j, n, L, P), Grown(j, k, q), Leads(k, L[n], P[n], m, q)
    PROVE  Reaches(k, n + 1, m, q)
<1> DEFINE M == [i \in 1..(n + 1) |-> IF i <= n THEN L[i] ELSE m]
           Q == [i \in 1..(n + 1) |-> IF i <= n THEN P[i] ELSE q]
<1> USE DEF Grown
<1>1. \A i \in 1..n : M[i] = L[i] /\ Q[i] = P[i]
  OBVIOUS
<1>2. M[n + 1] = m /\ Q[n + 1] = q
  OBVIOUS
<1> HIDE DEF M, Q
<1>3. 1 \in 1..n /\ n \in 1..n
  OBVIOUS
<1>4. \A i \in 1..(n + 1) : Q[i] \in Nat /\ Q[i] <= q
  <2> TAKE i \in 1..(n + 1)
  <2>1. CASE i = n + 1
    BY <2>1, <1>2
  <2>2. CASE i \in 1..n
    BY <2>2, <1>1 DEF Course
  <2>. QED
    BY <2>1, <2>2
<1>5. ASSUME NEW i \in 1..n PROVE Leads(k, M[i], Q[i], M[i + 1], Q[i + 1])
  <2>1. CASE i = n
    BY <2>1, <1>1, <1>2, <1>3
  <2>2. CASE i \in 1..(n - 1)
    <3>1. i \in 1..n /\ i + 1 \in 1..n
      BY <2>2
    <3>2. Leads(j, L[i], P[i], L[i + 1], P[i + 1]) /\ P[i] \in Nat
      BY <2>2, <3>1 DEF Course
    <3>3. P[i] < Len(j) => P[i] < Len(k) /\ k[P[i] + 1] = j[P[i] + 1]
      BY <3>2
    <3>4. Leads(k, L[i], P[i], L[i + 1], P[i + 1])
      BY <3>2, <3>3 DEF Leads
    <3>. QED
      BY <3>1, <3>4, <1>1
  <2>. QED
    BY <2>1, <2>2
<1>6. Course(k, n + 1, M, Q)
  <2>1. (n + 1) - 1 = n
    OBVIOUS
  <2>. QED
    BY <1>1, <1>2, <1>3, <1>4, <1>5, <2>1 DEF Course
<1>. QED
  BY <1>2, <1>6 DEF Reaches

LEMMA NotStartedKind == OpKind(NotStarted) = "handle"
BY DEF OpKind, NotStarted, Op

(* An operation: its result is read from the journal or added to it, and    *)
(* the locals follow from it.                                               *)
LEMMA OperationReplay ==
    ASSUME ReplayInv, NEW v, NEW us, NEW S, JournaledWith(us, v, S), OpKind(loc) \notin Silent \cup {"handle"},
           loc' = Read(loc, v, us)
    PROVE  ReplayInv'
<1>1. PICK E : journal \in Seq(E)
  BY DEF ReplayInv
<1>N. PICK n \in Nat \ {0} : \E L, P : Course(journal, n, L, P) /\ OnCourse(loc, pos, n, L, P)
  BY DEF ReplayInv
<1>2. PICK L, P : Course(journal, n, L, P) /\ OnCourse(loc, pos, n, L, P)
  BY <1>N
<1>3. loc # NotStarted
  BY NotStartedKind
<1>4. PICK i \in 1..n : L[i] = loc /\ P[i] = pos
  BY <1>2, <1>3 DEF OnCourse
<1>5. Len(journal) \in Nat /\ pos \in Nat /\ pos <= Len(journal)
  BY <1>1, <1>2, <1>4 DEF Course
<1>6. pos' = pos + 1
  BY DEF JournaledWith
<1>7. CASE Replaying /\ journal[pos + 1] = Entry(loc, v, us) /\ UNCHANGED journal
  <2>1. i # n
    BY <1>2, <1>4, <1>5, <1>7 DEF Course, Replaying
  <2>2. i \in 1..(n - 1) /\ i + 1 \in 1..n
    BY <2>1
  <2>3. Leads(journal, loc, pos, L[i + 1], P[i + 1])
    BY <1>2, <1>4, <2>2 DEF Course
  <2>4. L[i + 1] = Read(loc, v, us) /\ P[i + 1] = pos + 1
    BY <2>3, <1>7 DEF Leads, Entry
  <2>5. OnCourse(loc', pos', n, L, P)
    BY <2>2, <2>4, <1>6 DEF OnCourse
  <2>. QED
    BY <1>1, <1>2, <1>7, <2>5 DEF ReplayInv
<1>8. CASE ~Replaying /\ journal' = Append(journal, Entry(loc, v, us))
  <2>1. pos = Len(journal)
    BY <1>5, <1>8 DEF Replaying
  <2>2. i = n
    <3>1. SUFFICES ASSUME i \in 1..(n - 1) PROVE FALSE
      OBVIOUS
    <3>2. Leads(journal, loc, pos, L[i + 1], P[i + 1])
      BY <1>2, <1>4, <3>1 DEF Course
    <3>. QED
      BY <3>2, <2>1, <1>5 DEF Leads
  <2>3. DEFINE e == Entry(loc, v, us)
               k == Append(journal, e)
  <2>4. e.op = Head(loc.plan) \o <<loc.iter>> /\ e.val = v /\ e.usage = us
    BY DEF Entry
  <2> HIDE DEF e
  <2>5. journal \in Seq(E \cup {e})
    <3>1. \A x \in 1..Len(journal) : journal[x] \in E
      BY <1>1
    <3>2. journal = [x \in 1..Len(journal) |-> journal[x]]
      BY <1>1
    <3>. QED
      BY <3>1, <3>2, <1>5, SeqDef
  <2>6. /\ k \in Seq(E \cup {e}) /\ Len(k) = pos + 1 /\ k[pos + 1] = e
        /\ \A x \in 1..Len(journal) : k[x] = journal[x]
    BY <2>1, <2>5, AppendProperties
  <2> HIDE DEF k
  <2>7. pos + 1 \in Nat /\ Len(journal) <= pos + 1 /\ pos < pos + 1
    BY <1>5, <2>1
  <2>8. Leads(k, L[n], P[n], Read(loc, v, us), pos + 1)
    BY <1>4, <2>2, <2>4, <2>6, <2>7 DEF Leads
  <2>9. PICK M, Q : Course(k, n + 1, M, Q) /\ M[n + 1] = Read(loc, v, us) /\ Q[n + 1] = pos + 1
    <3>1. Grown(journal, k, pos + 1)
      BY <1>5, <2>6, <2>7 DEF Grown
    <3>2. Reaches(k, n + 1, Read(loc, v, us), pos + 1)
      BY <3>1, <1>2, <2>7, <2>8, Longer
    <3>. QED
      BY <3>2 DEF Reaches
  <2>10. n + 1 \in Nat \ {0} /\ n + 1 \in 1..(n + 1)
    OBVIOUS
  <2>11. OnCourse(loc', pos', n + 1, M, Q)
    BY <1>6, <2>9, <2>10 DEF OnCourse
  <2>12. journal' = k
    BY <1>8 DEF k, e
  <2>. QED
    BY <2>6, <2>9, <2>10, <2>11, <2>12 DEF ReplayInv
<1>. QED
  BY <1>7, <1>8 DEF JournaledWith

(* The code between two operations.                                         *)
LEMMA SilentReplay ==
    ASSUME ReplayInv, OpKind(loc) \in Silent, loc' = Settle(loc), UNCHANGED <<journal, pos>>
    PROVE  ReplayInv'
<1>1. PICK E : journal \in Seq(E)
  BY DEF ReplayInv
<1>N. PICK n \in Nat \ {0} : \E L, P : Course(journal, n, L, P) /\ OnCourse(loc, pos, n, L, P)
  BY DEF ReplayInv
<1>2. PICK L, P : Course(journal, n, L, P) /\ OnCourse(loc, pos, n, L, P)
  BY <1>N
<1>3. loc # NotStarted
  BY NotStartedKind DEF Silent
<1>4. PICK i \in 1..n : L[i] = loc /\ P[i] = pos
  BY <1>2, <1>3 DEF OnCourse
<1>5. Len(journal) \in Nat /\ pos \in Nat /\ pos <= Len(journal)
  BY <1>1, <1>2, <1>4 DEF Course
<1>6. CASE i \in 1..(n - 1)
  <2>1. i + 1 \in 1..n
    BY <1>6
  <2>2. Leads(journal, loc, pos, L[i + 1], P[i + 1])
    BY <1>2, <1>4, <1>6 DEF Course
  <2>3. L[i + 1] = Settle(loc) /\ P[i + 1] = pos
    BY <2>2 DEF Leads
  <2>4. OnCourse(loc', pos', n, L, P)
    BY <2>1, <2>3 DEF OnCourse
  <2>. QED
    BY <1>1, <1>2, <2>4 DEF ReplayInv
<1>7. CASE i = n
  <2>1. pos = Len(journal)
    BY <1>2, <1>4, <1>7 DEF Course
  <2>2. Grown(journal, journal, pos)
    BY <1>5, <2>1 DEF Grown
  <2>3. Leads(journal, L[n], P[n], Settle(loc), pos)
    BY <1>4, <1>7 DEF Leads
  <2>4. Reaches(journal, n + 1, Settle(loc), pos)
    BY <1>2, <1>5, <2>2, <2>3, Longer
  <2>5. PICK M, Q : Course(journal, n + 1, M, Q) /\ M[n + 1] = Settle(loc) /\ Q[n + 1] = pos
    BY <2>4 DEF Reaches
  <2>6. n + 1 \in Nat \ {0} /\ n + 1 \in 1..(n + 1)
    OBVIOUS
  <2>7. OnCourse(loc', pos', n + 1, M, Q)
    BY <2>5, <2>6 DEF OnCourse
  <2>. QED
    BY <1>1, <2>5, <2>6, <2>7 DEF ReplayInv
<1>. QED
  BY <1>6, <1>7

(* A new attempt begins where the course begins.                            *)
LEMMA HandleReplay ==
    ASSUME HasResolver, ReplayInv, handle
    PROVE  ReplayInv'
<1>1. PICK E : journal \in Seq(E)
  BY DEF ReplayInv
<1>N. PICK n \in Nat \ {0} : \E L, P : Course(journal, n, L, P) /\ OnCourse(loc, pos, n, L, P)
  BY DEF ReplayInv
<1>2. PICK L, P : Course(journal, n, L, P)
  BY <1>N
<1>3. loc' = NewLoop({Native, Child}) /\ pos' = 0 /\ UNCHANGED journal
  BY DEF handle, resolveTools
<1>4. 1 \in 1..n
  OBVIOUS
<1>5. OnCourse(loc', pos', n, L, P)
  BY <1>2, <1>3, <1>4 DEF OnCourse, Course
<1>. QED
  BY <1>1, <1>2, <1>3, <1>5 DEF ReplayInv

(* Steps that leave the handler where it is, or take it away.               *)
LEMMA AwayReplay ==
    ASSUME ReplayInv, UNCHANGED journal, loc' = NotStarted \/ UNCHANGED <<loc, pos>>
    PROVE  ReplayInv'
<1>1. PICK E : journal \in Seq(E)
  BY DEF ReplayInv
<1>N. PICK n \in Nat \ {0} : \E L, P : Course(journal, n, L, P) /\ OnCourse(loc, pos, n, L, P)
  BY DEF ReplayInv
<1>2. PICK L, P : Course(journal, n, L, P) /\ OnCourse(loc, pos, n, L, P)
  BY <1>N
<1>3. OnCourse(loc', pos', n, L, P)
  BY <1>2 DEF OnCourse
<1>. QED
  BY <1>1, <1>2, <1>3 DEF ReplayInv

(* What Read is, operation by operation.                                    *)
LEMMA ReadOf ==
    ASSUME NEW l, NEW v, NEW us
    PROVE  /\ OpKind(l) \in {"prefetch", "cb"} => Read(l, v, us) = OrFail(l, v)
           /\ OpKind(l) = "now" => Read(l, v, us) = OnNow(l, v)
           /\ OpKind(l) = "llm" => Read(l, v, us) = OnLLM(l, v, us)
           /\ OpKind(l) = "llm-failure" => Read(l, v, us) = OnFailure(l, v)
           /\ OpKind(l) = "llm-fallback" => Read(l, v, us) = OnFallback(l, v, us)
           /\ OpKind(l) = "max-iter" => Read(l, v, us) = OnMaxIter(l, v)
           /\ OpKind(l) = "budget-wait" => Read(l, v, us) = OnBudget(l, v)
           /\ OpKind(l) = "auth" => Read(l, v, us) = OnAuth(l, v)
           /\ OpKind(l) = "wait" => Read(l, v, us) = OnWait(l, v)
           /\ OpKind(l) = "exec" => Read(l, v, us) = OnExec(l, v)
           /\ OpKind(l) = "child-id" => Read(l, v, us) = OnChildId(l, v)
           /\ OpKind(l) = "delegate" => Read(l, v, us) = OnDelegate(l, v, us)
           /\ OpKind(l) \in {"load", "start", "budget-ask", "ask", "step", "stepped", "end", "save", "store"}
                => Read(l, v, us) = Then(l)
BY DEF Read

(* The usages an entry can have.                                            *)
UsageReports == Usages \cup {NoUsage}

(* The steps, as the proofs below see them: an operation of the handler is  *)
(* read or written and logs its event (Performs), the code between operations  *)
(* runs (Settles), or the handler stays where it is or is taken away (Away).*)
EventKinds == {"start", "ask", "step", "stepped", "end"}
EventOf == IF OpKind(loc) = "budget-ask" THEN <<"budget", None, Len(awk) + 1>>
           ELSE <<OpKind(loc), Tool(loc), loc.iter>>
Logs(v) ==
    IF OpKind(loc) \in EventKinds \cup {"budget-ask"}
    THEN /\ eventLog' \in IF Replaying THEN {eventLog}
                          ELSE {Append(eventLog, EventOf)} \cup (IF v = "cancelled" THEN {eventLog} ELSE {})
         /\ awk' = IF ~Replaying /\ OpKind(loc) \in {"ask", "budget-ask"} THEN Append(awk, "open") ELSE awk
    ELSE UNCHANGED <<eventLog, awk>>

Performs(v, us) ==
    /\ loc.plan # <<>> /\ OpKind(loc) \notin Silent \cup {"handle", "fail"}
    /\ us \in UsageReports /\ \E S : JournaledWith(us, v, S)
    /\ loc' = Read(loc, v, us) /\ Logs(v)
Settles ==
    /\ loc.plan # <<>> /\ OpKind(loc) \in Silent
    /\ loc' = Settle(loc) /\ UNCHANGED <<journal, pos, eventLog, awk>>
Away ==
    /\ UNCHANGED journal
    /\ (loc' = NotStarted /\ pos' = 0) \/ UNCHANGED <<loc, pos>>
    /\ eventLog' \in {eventLog, Append(eventLog, <<"token", None, loc.iter>>)}
    /\ awk' = awk \/ \E v : awk' = [awk EXCEPT ![Len(awk)] = v]
Forms == Away \/ handle \/ Settles \/ \E v, us : Performs(v, us)

(* The operations that only go on.                                          *)
LEMMA GoesOn ==
    ASSUME NEW v, NEW us \in UsageReports, NEW S, loc.plan # <<>>, JournaledWith(us, v, S), loc' = Then(loc), Logs(v),
           OpKind(loc) \in {"load", "start", "budget-ask", "ask", "step", "stepped", "end", "save", "store"}
    PROVE  Forms
<1>1. loc' = Read(loc, v, us)
  BY ReadOf
<1>. QED
  BY <1>1 DEF Forms, Performs, Silent

(* The operations that log nothing.                                         *)
LEMMA ReadsOnly ==
    ASSUME NEW v, NEW us \in UsageReports, NEW S, loc.plan # <<>>, JournaledWith(us, v, S), loc' = Read(loc, v, us), UNCHANGED <<eventLog, awk>>,
           OpKind(loc) \notin Silent \cup EventKinds \cup {"handle", "fail", "budget-ask"}
    PROVE  Forms
<1>1. Logs(v)
  BY DEF Logs
<1>. QED
  BY <1>1 DEF Forms, Performs

LEMMA StepForms ==
    ASSUME [LoopNext]_loopVars
    PROVE  Forms
<1> USE DEF Silent, EventKinds
<1>0. \A k : At(k) => loc.plan # <<>> /\ OpKind(loc) = k /\ T = Tool(loc)
  BY DEF At, OpKind, T, Tool
<1>R. \A v, good : \A us \in Reported(v, good) : us \in UsageReports
  BY DEF Reported, UsageReports
<1>1. CASE UNCHANGED loopVars
  BY <1>1 DEF loopVars, Forms, Away
<1>2. CASE LLMCalled \/ ToolCalled \/ handleReturns \/ AttemptDies \/ CancelLoop \/ Approve
  BY <1>2 DEF LLMCalled, ToolCalled, handleReturns, AttemptDies, CancelLoop, Approve, outside, Forms, Away
<1>3. CASE handle
  BY <1>3 DEF Forms
<1>4. CASE FetchConversation \/ persistConversationMessages
  BY <1>0, <1>4, GoesOn DEF FetchConversation, persistConversationMessages, Logs, Journaled, UsageReports
<1>5. CASE emitToolStart \/ StepEvent \/ emitToolComplete
  <2>1. PICK v, us, S : us \in UsageReports /\ JournaledWith(us, v, S) /\ Logs(v)
    BY <1>0, <1>5 DEF emitToolStart, StepEvent, emitToolComplete, emitEvent, Logs, EventOf, Journaled, UsageReports
  <2>. QED
    BY <1>0, <1>5, <2>1, GoesOn DEF emitToolStart, StepEvent, emitToolComplete
<1>6. CASE emitApprovalRequest
  <2>1. PICK v, us, S : us \in UsageReports /\ JournaledWith(us, v, S) /\ Logs(v)
    <3>1. OpKind(loc) = "ask" /\ T = Tool(loc) /\ Ask(<<"ask", T, loc.iter>>)
      BY <1>0, <1>6 DEF emitApprovalRequest
    <3>2. EventOf = <<"ask", T, loc.iter>>
      BY <3>1 DEF EventOf
    <3>. QED
      BY <3>1, <3>2 DEF Ask, emitEvent, Logs, Journaled, UsageReports
  <2>. QED
    BY <1>0, <1>6, <2>1, GoesOn DEF emitApprovalRequest, Ask
<1>7. CASE Prefetch
  <2>1. PICK v, us, S : us \in UsageReports /\ JournaledWith(us, v, S) /\ loc' = OrFail(loc, v)
    BY <1>7 DEF Prefetch, OrFail, Journaled, UsageReports
  <2>2. OpKind(loc) = "prefetch"
    BY <1>0, <1>7 DEF Prefetch
  <2>3. loc.plan # <<>> /\ UNCHANGED <<eventLog, awk>>
    BY <1>0, <1>7 DEF Prefetch
  <2>. QED
    BY <2>1, <2>2, <2>3, ReadOf, ReadsOnly
<1>8. CASE BreakerSnapshot
  <2>1. PICK v, us, S : us \in UsageReports /\ JournaledWith(us, v, S) /\ loc' = OrFail(loc, v)
    BY <1>8 DEF BreakerSnapshot, OrFail, Journaled, UsageReports
  <2>2. OpKind(loc) = "cb"
    BY <1>0, <1>8 DEF BreakerSnapshot
  <2>3. loc.plan # <<>> /\ UNCHANGED <<eventLog, awk>>
    BY <1>0, <1>8 DEF BreakerSnapshot
  <2>. QED
    BY <2>1, <2>2, <2>3, ReadOf, ReadsOnly
<1>9. CASE IterationBegins
  <2>1. PICK v, us, S : us \in UsageReports /\ JournaledWith(us, v, S) /\ loc' = OnNow(loc, v)
    BY <1>9 DEF IterationBegins, OnNow, Journaled, UsageReports
  <2>2. OpKind(loc) = "now"
    BY <1>0, <1>9 DEF IterationBegins
  <2>3. loc.plan # <<>> /\ UNCHANGED <<eventLog, awk>>
    BY <1>0, <1>9 DEF IterationBegins
  <2>. QED
    BY <2>1, <2>2, <2>3, ReadOf, ReadsOnly
<1>10. CASE executeLLMStep
  <2>1. OpKind(loc) = "llm" /\ T = Tool(loc)
    BY <1>0, <1>10 DEF executeLLMStep
  <2>2. PICK v, us, S : us \in UsageReports /\ JournaledWith(us, v, S) /\ loc' = OnLLM(loc, v, us)
    BY <1>R, <1>10, <2>1 DEF executeLLMStep, OnLLM, After, OnAnswer
  <2>3. loc.plan # <<>> /\ UNCHANGED <<eventLog, awk>>
    BY <1>0, <1>10 DEF executeLLMStep
  <2>. QED
    BY <2>1, <2>2, <2>3, ReadOf, ReadsOnly
<1>11. CASE DecideLLMFailure
  <2>1. OpKind(loc) = "llm-failure" /\ T = Tool(loc)
    BY <1>0, <1>11 DEF DecideLLMFailure
  <2>2. PICK v, us, S : us \in UsageReports /\ JournaledWith(us, v, S) /\ loc' = OnFailure(loc, v)
    BY <1>11, <2>1 DEF DecideLLMFailure, OnFailure, Journaled, UsageReports
  <2>3. loc.plan # <<>> /\ UNCHANGED <<eventLog, awk>>
    BY <1>0, <1>11 DEF DecideLLMFailure
  <2>. QED
    BY <2>1, <2>2, <2>3, ReadOf, ReadsOnly
<1>12. CASE FallbackStep
  <2>1. OpKind(loc) = "llm-fallback" /\ T = Tool(loc)
    BY <1>0, <1>12 DEF FallbackStep
  <2>2. PICK v, us, S : us \in UsageReports /\ JournaledWith(us, v, S) /\ loc' = OnFallback(loc, v, us)
    BY <1>R, <1>12, <2>1 DEF FallbackStep, OnFallback, After, OnAnswer
  <2>3. loc.plan # <<>> /\ UNCHANGED <<eventLog, awk>>
    BY <1>0, <1>12 DEF FallbackStep
  <2>. QED
    BY <2>1, <2>2, <2>3, ReadOf, ReadsOnly
<1>13. CASE DecideMaxIterations
  <2>1. OpKind(loc) = "max-iter"
    BY <1>0, <1>13 DEF DecideMaxIterations
  <2>2. PICK v, us, S : us \in UsageReports /\ JournaledWith(us, v, S) /\ loc' = OnMaxIter(loc, v)
    BY <1>13 DEF DecideMaxIterations, OnMaxIter, Journaled, UsageReports
  <2>3. loc.plan # <<>> /\ UNCHANGED <<eventLog, awk>>
    BY <1>0, <1>13 DEF DecideMaxIterations
  <2>. QED
    BY <2>1, <2>2, <2>3, ReadOf, ReadsOnly
<1>14. CASE awaitBudgetApproval
  <2>1. CASE At("budget-ask") /\ Ask(<<"budget", None, Len(awk) + 1>>)
    <3>0. OpKind(loc) = "budget-ask" /\ EventOf = <<"budget", None, Len(awk) + 1>>
      BY <1>0, <2>1 DEF EventOf
    <3>1. PICK v, us, S : us \in UsageReports /\ JournaledWith(us, v, S) /\ Logs(v)
      BY <2>1, <3>0 DEF Ask, emitEvent, Logs, Journaled, UsageReports
    <3>. QED
      BY <1>0, <2>1, <3>1, GoesOn DEF Ask
  <2>2. CASE At("budget-wait") /\ UNCHANGED <<eventLog, awk>> /\ \E v, us, S : us \in UsageReports /\ JournaledWith(us, v, S) /\ loc' = OnBudget(loc, v)
    BY <1>0, <2>2, ReadOf, ReadsOnly
  <2>. QED
    BY <1>14, <2>1, <2>2 DEF awaitBudgetApproval, OnBudget, Journaled, UsageReports
<1>15. CASE AuthorizeTool
  <2>1. OpKind(loc) = "auth" /\ T = Tool(loc)
    BY <1>0, <1>15 DEF AuthorizeTool
  <2>2. PICK v, us, S : us \in UsageReports /\ JournaledWith(us, v, S) /\ loc' = OnAuth(loc, v)
    BY <1>15, <2>1 DEF AuthorizeTool, OnAuth, Journaled, UsageReports
  <2>3. loc.plan # <<>> /\ UNCHANGED <<eventLog, awk>>
    BY <1>0, <1>15 DEF AuthorizeTool
  <2>. QED
    BY <2>1, <2>2, <2>3, ReadOf, ReadsOnly
<1>16. CASE awaitApproval
  <2>1. OpKind(loc) = "wait" /\ T = Tool(loc)
    BY <1>0, <1>16 DEF awaitApproval
  <2>2. PICK v, us, S : us \in UsageReports /\ JournaledWith(us, v, S) /\ loc' = OnWait(loc, v)
    BY <1>16, <2>1 DEF awaitApproval, OnWait, Journaled, UsageReports
  <2>3. loc.plan # <<>> /\ UNCHANGED <<eventLog, awk>>
    BY <1>0, <1>16 DEF awaitApproval
  <2>. QED
    BY <2>1, <2>2, <2>3, ReadOf, ReadsOnly
<1>17. CASE ToolReturns
  <2>1. OpKind(loc) = "exec" /\ T = Tool(loc)
    BY <1>0, <1>17 DEF ToolReturns
  <2>2. PICK v, us, S : us \in UsageReports /\ JournaledWith(us, v, S) /\ loc' = OnExec(loc, v)
    BY <1>17, <2>1 DEF ToolReturns, OnExec, Journaled, UsageReports
  <2>3. loc.plan # <<>> /\ UNCHANGED <<eventLog, awk>>
    BY <1>0, <1>17 DEF ToolReturns
  <2>. QED
    BY <2>1, <2>2, <2>3, ReadOf, ReadsOnly
<1>18. CASE ChildRunID
  <2>1. OpKind(loc) = "child-id" /\ T = Tool(loc)
    BY <1>0, <1>18 DEF ChildRunID
  <2>2. PICK v, us, S : us \in UsageReports /\ JournaledWith(us, v, S) /\ loc' = OnChildId(loc, v)
    BY <1>18, <2>1 DEF ChildRunID, OnChildId, Journaled, UsageReports
  <2>3. loc.plan # <<>> /\ UNCHANGED <<eventLog, awk>>
    BY <1>0, <1>18 DEF ChildRunID
  <2>. QED
    BY <2>1, <2>2, <2>3, ReadOf, ReadsOnly
<1>19. CASE delegateToSubAgent
  <2>1. OpKind(loc) = "delegate" /\ T = Tool(loc)
    BY <1>0, <1>19 DEF delegateToSubAgent
  <2>2. PICK v, us, S : us \in UsageReports /\ JournaledWith(us, v, S) /\ loc' = OnDelegate(loc, v, us)
    BY <1>R, <1>19, <2>1 DEF delegateToSubAgent, OnDelegate
  <2>3. loc.plan # <<>> /\ UNCHANGED <<eventLog, awk>>
    BY <1>0, <1>19 DEF delegateToSubAgent
  <2>. QED
    BY <2>1, <2>2, <2>3, ReadOf, ReadsOnly
<1>20. CASE CollectResults
  BY <1>0, <1>20 DEF CollectResults, Settle, Counted, Forms, Settles
<1>21. CASE NextIteration
  BY <1>0, <1>21 DEF NextIteration, Settle, Forms, Settles
<1>. QED
  BY <1>1, <1>2, <1>3, <1>4, <1>5, <1>6, <1>7, <1>8, <1>9, <1>10, <1>11, <1>12, <1>13, <1>14, <1>15,
     <1>16, <1>17, <1>18, <1>19, <1>20, <1>21
  DEF LoopNext, HandlerStep

LEMMA NextReplay ==
    ASSUME HasResolver, ReplayInv, [LoopNext]_loopVars
    PROVE  ReplayInv'
<1>1. CASE Away
  BY <1>1, AwayReplay DEF Away
<1>2. CASE handle
  BY <1>2, HandleReplay
<1>3. CASE Settles
  BY <1>3, SilentReplay DEF Settles
<1>4. CASE \E v, us : Performs(v, us)
  BY <1>4, OperationReplay DEF Performs
<1>. QED
  BY <1>1, <1>2, <1>3, <1>4, StepForms DEF Forms

(* An attempt that starts over asks for the operations the journal has, in  *)
(* its order, for every number of attempts that died and at every point,    *)
(* when the tools can be resolved in any process: without a resolver only   *)
(* the process that sent the run has them (resolveTools; RestateLoop.       *)
(* ReplayDeterministic).                                                    *)
THEOREM ReplaysTheJournal ==
    ASSUME HasResolver
    PROVE  LoopSpec => []ReplayDeterministic
<1>1. ReplayInv => ReplayDeterministic
  <2>1. SUFFICES ASSUME ReplayInv, Replaying, loc # NotStarted, OpKind(loc) \notin Silent
                 PROVE  journal[pos + 1].op = Head(loc.plan) \o <<loc.iter>>
    BY DEF ReplayDeterministic, OpKind, Silent
  <2>2. PICK n \in Nat \ {0} : \E L, P : Course(journal, n, L, P) /\ OnCourse(loc, pos, n, L, P)
    BY <2>1 DEF ReplayInv
  <2>3. PICK L, P : Course(journal, n, L, P) /\ OnCourse(loc, pos, n, L, P)
    BY <2>2
  <2>4. PICK i \in 1..n : L[i] = loc /\ P[i] = pos
    BY <2>1, <2>3 DEF OnCourse
  <2>5. i # n
    BY <2>1, <2>3, <2>4 DEF Course, Replaying
  <2>6. i \in 1..(n - 1)
    BY <2>5
  <2>7. Leads(journal, loc, pos, L[i + 1], P[i + 1])
    BY <2>3, <2>4, <2>6 DEF Course
  <2>. QED
    BY <2>1, <2>7 DEF Leads
<1>2. ReplayInv /\ [LoopNext]_loopVars => ReplayInv'
  BY NextReplay
<1>. QED
  BY <1>1, <1>2, InitReplay, PTL DEF LoopSpec

-----------------------------------------------------------------------------
(* Induction on the positions of a sequence.                                *)
LEMMA LeastNat ==
    ASSUME NEW S, S \subseteq Nat, S # {}
    PROVE  \E x \in S : \A y \in S : ~(y < x)
<1>1. PICK R : R = OpToRel(<, Nat)
  OBVIOUS
<1>2. IsWellFoundedOn(OpToRel(<, Nat), Nat)
  BY NatLessThanWellFounded
<1>3. IsWellFoundedOn(R, Nat)
  BY <1>1, <1>2
<1>4. \E x \in S : \A y \in S : ~(<<y, x>> \in R)
  BY <1>3, WFMin
<1>5. \A x, y \in Nat : y < x => <<y, x>> \in R
  BY <1>1 DEF OpToRel
<1>. QED
  BY <1>4, <1>5

LEMMA UpTo ==
    ASSUME NEW n \in Nat, NEW S, 0 \in S, \A i \in 0..n : i < n /\ i \in S => i + 1 \in S
    PROVE  \A i \in 0..n : i \in S
<1>1. SUFFICES ASSUME (0..n) \ S # {} PROVE FALSE
  OBVIOUS
<1>2. PICK x \in (0..n) \ S : \A y \in (0..n) \ S : ~(y < x)
  <2>1. PICK M : M = (0..n) \ S
    OBVIOUS
  <2>2. M \subseteq Nat /\ M # {}
    BY <1>1, <2>1
  <2>3. \E x \in M : \A y \in M : ~(y < x)
    BY <2>2, LeastNat
  <2>. QED
    BY <2>1, <2>3
<1>3. x # 0 /\ x - 1 \in 0..n /\ x - 1 < x /\ x - 1 < n /\ (x - 1) + 1 = x
  BY <1>2
<1>. QED
  BY <1>2, <1>3

-----------------------------------------------------------------------------
(* A sequence without the operations of one tool.                           *)
Kept(s, t, F, i) == IF i = 0 THEN <<>> ELSE IF s[i][2] # t THEN Append(F[i - 1], s[i]) ELSE F[i - 1]
Filters(s, t, F) == F = [i \in 0..Len(s) |-> Kept(s, t, F, i)]

LEMMA FilterExists ==
    ASSUME NEW A, NEW s \in Seq(A), NEW t
    PROVE  \E F : Filters(s, t, F)
<1> DEFINE n == Len(s)
           Part(k, G) == \A i \in 0..k : G[i] = Kept(s, t, G, i)
           S == {k \in 0..n : \E G : Part(k, G)}
<1>1. n \in Nat
  OBVIOUS
<1>2. 0 \in S
  <2> DEFINE G == [i \in {0} |-> <<>>]
  <2>1. Part(0, G)
    BY DEF Kept
  <2>. QED
    BY <2>1, <1>1
<1>3. ASSUME NEW k \in 0..n, k < n, k \in S
      PROVE  k + 1 \in S
  <2>1. PICK G : Part(k, G)
    BY <1>3
  <2> DEFINE H == [i \in 0..(k + 1) |-> IF i <= k THEN G[i] ELSE Kept(s, t, G, i)]
  <2>2. \A i \in 0..k : H[i] = G[i]
    OBVIOUS
  <2>3. H[k + 1] = Kept(s, t, G, k + 1)
    OBVIOUS
  <2> HIDE DEF H
  <2>4. ASSUME NEW i \in 0..(k + 1) PROVE H[i] = Kept(s, t, H, i)
    <3>1. Kept(s, t, G, i) = Kept(s, t, H, i)
      <4>1. i = 0 \/ (i - 1 \in 0..k)
        OBVIOUS
      <4>. QED
        BY <4>1, <2>2 DEF Kept
    <3>2. CASE i = k + 1
      BY <3>1, <3>2, <2>3
    <3>3. CASE i \in 0..k
      BY <3>1, <3>3, <2>1, <2>2
    <3>. QED
      BY <3>2, <3>3
  <2>5. Part(k + 1, H)
    BY <2>4
  <2>6. k + 1 \in 0..n
    BY <1>1, <1>3
  <2> HIDE DEF Part
  <2>. QED
    BY <2>5, <2>6
<1> HIDE DEF S
<1>4. n \in S
  <2>1. \A k \in 0..n : k < n /\ k \in S => k + 1 \in S
    BY <1>3
  <2> HIDE DEF n
  <2>2. \A k \in 0..n : k \in S
    BY <1>1, <1>2, <2>1, UpTo
  <2>. QED
    BY <1>1, <2>2
<1>5. PICK G : Part(n, G)
  BY <1>4 DEF S
<1> DEFINE F == [i \in 0..n |-> G[i]]
<1>6. \A i \in 0..n : Kept(s, t, G, i) = Kept(s, t, F, i)
  BY <1>1 DEF Kept
<1>7. F = [i \in 0..n |-> Kept(s, t, F, i)]
  <2>1. \A i \in 0..n : F[i] = Kept(s, t, F, i)
    BY <1>5, <1>6
  <2> DEFINE X == F
  <2> HIDE DEF F
  <2>2. F = [i \in 0..n |-> F[i]]
    BY DEF F
  <2>. QED
    BY <2>1, <2>2
<1>. QED
  BY <1>7 DEF Filters

(* What is kept: operations of s, none of t, the last one of s if it is not *)
(* of t.                                                                    *)
LEMMA FilterKeeps ==
    ASSUME NEW A, NEW s \in Seq(A), NEW t, NEW F, Filters(s, t, F)
    PROVE  \A i \in 0..Len(s) : F[i] \in Seq({a \in A : a[2] # t})
<1> DEFINE B == {a \in A : a[2] # t}
           S == {i \in 0..Len(s) : F[i] \in Seq(B)}
<1>1. \A i \in 0..Len(s) : F[i] = Kept(s, t, F, i)
  BY DEF Filters
<1>2. 0 \in S
  <2>1. 0 \in 0..Len(s)
    OBVIOUS
  <2>2. F[0] = <<>>
    BY <1>1, <2>1 DEF Kept
  <2> HIDE DEF B
  <2>3. <<>> \in Seq(B)
    OBVIOUS
  <2>. QED
    BY <2>1, <2>2, <2>3
<1>3. ASSUME NEW i \in 0..Len(s), i < Len(s), i \in S
      PROVE  i + 1 \in S
  <2>1. i + 1 \in 1..Len(s) /\ (i + 1) - 1 = i /\ i + 1 # 0 /\ i + 1 \in 0..Len(s)
    BY <1>3
  <2>2. F[i + 1] = IF s[i + 1][2] # t THEN Append(F[i], s[i + 1]) ELSE F[i]
    BY <1>1, <2>1 DEF Kept
  <2>3. s[i + 1] \in A
    BY <2>1
  <2>4. F[i] \in Seq(B)
    BY <1>3
  <2>5. s[i + 1][2] # t => s[i + 1] \in B
    BY <2>3
  <2> HIDE DEF B
  <2>6. F[i + 1] \in Seq(B)
    BY <2>2, <2>4, <2>5, AppendProperties
  <2>. QED
    BY <2>1, <2>6
<1> HIDE DEF S
<1>4. \A i \in 0..Len(s) : i \in S
  BY <1>2, <1>3, UpTo
<1>. QED
  BY <1>4 DEF S

LEMMA WithoutFilters ==
    ASSUME NEW A, NEW l, NEW t, Tail(l.plan) \in Seq(A)
    PROVE  \E F : Filters(Tail(l.plan), t, F) /\ Without(l, t) = F[Len(Tail(l.plan))]
<1> DEFINE s == Tail(l.plan)
           G == CHOOSE F : Filters(s, t, F)
<1>1. Filters(s, t, G)
  BY FilterExists
<1>2. Without(l, t) = G[Len(s)]
  BY DEF Without, Filters, Kept
<1>. QED
  BY <1>1, <1>2

-----------------------------------------------------------------------------
(* What a plan is made of. The last operation is never one of a tool.       *)
Tools == {Native, Child}
ToolOp == {"start", "auth", "ask", "wait", "exec", "step", "child-id", "delegate", "stepped", "end"} \X Tools
LoopOp == {"handle", "load", "prefetch", "now", "llm", "llm-failure", "llm-fallback", "max-iter", "budget-wait",
           "results", "cb", "save", "store", "next", "fail"} \X {None, "final", "error", "budget"}
AnyOp == ToolOp \cup LoopOp
Plan == {p \in Seq(AnyOp) : p # <<>> => p[Len(p)] \in LoopOp}
Asking(p) == <<Op("budget-ask", None), Op("budget-wait", None)>> \o p
Plans == Plan \cup {Asking(p) : p \in Plan}

LEMMA OpParts ==
    /\ \A o \in ToolOp : o[2] \in Tools /\ o \notin LoopOp
    /\ \A o \in LoopOp : o[2] \notin Tools /\ o \notin ToolOp
    /\ \A o \in AnyOp : o = <<o[1], o[2]>> /\ o[1] # "budget-ask"
<1> USE DEF ToolOp, LoopOp, AnyOp, Tools, Native, Child, None
<1>1. \A o \in ToolOp : o[2] \in Tools /\ o \notin LoopOp
  OBVIOUS
<1>2. \A o \in LoopOp : o[2] \notin Tools /\ o \notin ToolOp
  OBVIOUS
<1>3. \A o \in AnyOp : o = <<o[1], o[2]>> /\ o[1] # "budget-ask"
  OBVIOUS
<1>. QED
  BY <1>1, <1>2, <1>3

LEMMA PlanTail ==
    ASSUME NEW p \in Plan, p # <<>>
    PROVE  Tail(p) \in Plan /\ Head(p) = p[1] /\ Head(p) \in AnyOp /\ (Head(p) \in ToolOp => Tail(p) # <<>>)
<1>1. p \in Seq(AnyOp) /\ Len(p) \in Nat /\ Len(p) > 0 /\ p[Len(p)] \in LoopOp
  BY DEF Plan
<1>2. /\ Head(p) = p[1] /\ Head(p) \in AnyOp
      /\ Tail(p) \in Seq(AnyOp) /\ Len(Tail(p)) = Len(p) - 1
      /\ \A i \in 1..(Len(p) - 1) : Tail(p)[i] = p[i + 1]
  BY <1>1, HeadTailProperties
<1>3. Tail(p) # <<>> => Len(Tail(p)) \in 1..(Len(p) - 1) /\ Len(Tail(p)) + 1 = Len(p)
  BY <1>1, <1>2, EmptySeq
<1>4. Tail(p) \in Plan
  BY <1>1, <1>2, <1>3 DEF Plan
<1>5. Tail(p) = <<>> => Len(p) = 1
  BY <1>1, <1>2
<1>. QED
  BY <1>1, <1>2, <1>4, <1>5, OpParts

LEMMA PlanJoin ==
    ASSUME NEW a \in Seq(AnyOp), NEW b \in Plan, b # <<>>
    PROVE  a \o b \in Plan /\ a \o b # <<>>
<1>1. b \in Seq(AnyOp) /\ Len(b) \in Nat /\ Len(b) > 0 /\ b[Len(b)] \in LoopOp /\ Len(a) \in Nat
  BY DEF Plan
<1>2. /\ a \o b \in Seq(AnyOp) /\ Len(a \o b) = Len(a) + Len(b)
      /\ \A i \in 1..(Len(a) + Len(b)) : (a \o b)[i] = IF i <= Len(a) THEN a[i] ELSE b[i - Len(a)]
  BY <1>1, ConcatProperties
<1>3. (a \o b)[Len(a) + Len(b)] = b[Len(b)]
  BY <1>1, <1>2
<1> DEFINE c == a \o b
<1>4. c \in Seq(AnyOp) /\ Len(c) > 0 /\ c[Len(c)] \in LoopOp
  BY <1>1, <1>2, <1>3
<1> HIDE DEF c
<1>5. c \in Plan /\ c # <<>>
  BY <1>4 DEF Plan
<1>. QED
  BY <1>5 DEF c

LEMMA PlanWithout ==
    ASSUME NEW l, NEW t \in Tools, l.plan \in Plan, l.plan # <<>>, Head(l.plan) \in ToolOp
    PROVE  Without(l, t) \in Plan /\ Without(l, t) # <<>>
<1> DEFINE s == Tail(l.plan)
           n == Len(s)
<1>1. s \in Plan /\ s # <<>>
  BY PlanTail
<1>2. s \in Seq(AnyOp) /\ n \in Nat /\ n > 0 /\ s[n] \in LoopOp
  BY <1>1 DEF Plan
<1>3. PICK F : Filters(s, t, F) /\ Without(l, t) = F[n]
  BY <1>2, WithoutFilters
<1> HIDE DEF s
<1>4. n \in 0..n /\ n # 0 /\ n - 1 \in 0..n
  BY <1>2
<1>5. s[n][2] # t
  BY <1>2, OpParts
<1>6. F[n] = Append(F[n - 1], s[n])
  BY <1>3, <1>4, <1>5 DEF Filters, Kept
<1>7. F[n - 1] \in Seq(AnyOp)
  <2>1. F[n - 1] \in Seq({a \in AnyOp : a[2] # t})
    BY <1>2, <1>3, <1>4, FilterKeeps
  <2>. QED
    BY <2>1
<1>8. s[n] \in AnyOp
  BY <1>2 DEF AnyOp
<1> DEFINE x == F[n - 1]
           e == s[n]
<1> HIDE DEF x, e
<1>9. Append(x, e) \in Seq(AnyOp) /\ Append(x, e) # <<>> /\ Append(x, e)[Len(Append(x, e))] = e
  BY <1>7, <1>8, AppendProperties DEF x, e
<1>. QED
  BY <1>2, <1>3, <1>6, <1>9 DEF Plan, x, e

(* Plans the handler writes.                                                *)
LEMMA SingleOp ==
    ASSUME NEW o \in LoopOp
    PROVE  <<o>> \in Plan /\ <<o>> # <<>>
<1>1. o \in AnyOp
  BY DEF AnyOp
<1>2. <<o>> \in Seq(AnyOp) /\ Len(<<o>>) = 1 /\ <<o>>[1] = o
  BY <1>1
<1>. QED
  BY <1>2 DEF Plan

LEMMA ToolPiece ==
    ASSUME NEW k \in {"start", "auth", "ask", "wait", "exec", "step", "child-id", "delegate", "stepped", "end"},
           NEW t \in Tools
    PROVE  Op(k, t) \in AnyOp /\ <<Op(k, t)>> \in Seq(AnyOp)
<1>1. Op(k, t) \in AnyOp
  BY DEF Op, AnyOp, ToolOp
<1>. QED
  BY <1>1

LEMMA LoopPlans ==
    /\ RunEnd \in Plan /\ RoundEnd \in Plan /\ RoundEnd # <<>> /\ Iteration \in Plan /\ Iteration # <<>>
    /\ \A why \in {"error", "budget"} : <<Op("fail", why)>> \in Plan
    /\ <<Op("llm", "final")>> \in Plan /\ <<Op("max-iter", None)>> \in Plan
    /\ \A t \in {None, "final", "error", "budget"} :
          <<Op("llm-failure", t)>> \in Plan /\ <<Op("llm-fallback", t)>> \in Plan
<1>0. \A k \in {"load", "prefetch", "now", "llm", "llm-failure", "llm-fallback", "max-iter", "results", "cb", "save", "store", "next", "fail"} :
        \A t \in {None, "final", "error", "budget"} : Op(k, t) \in LoopOp
  BY DEF Op, LoopOp
<1>1. \A a, b \in LoopOp : <<a, b>> \in Plan /\ <<a, b>> # <<>>
  <2> TAKE a, b \in LoopOp
  <2>1. <<a, b>> \in Seq(AnyOp) /\ Len(<<a, b>>) = 2 /\ <<a, b>>[2] = b
    BY DEF AnyOp
  <2>. QED
    BY <2>1 DEF Plan
<1>2. \A a, b, c, d \in LoopOp : <<a, b, c, d>> \in Plan /\ <<a, b, c, d>> # <<>>
  <2> TAKE a, b, c, d \in LoopOp
  <2>1. <<a, b, c, d>> \in Seq(AnyOp) /\ Len(<<a, b, c, d>>) = 4 /\ <<a, b, c, d>>[4] = d
    BY DEF AnyOp
  <2>. QED
    BY <2>1 DEF Plan
<1>3. RunEnd \in Plan /\ Iteration \in Plan /\ Iteration # <<>>
  BY <1>0, <1>1 DEF RunEnd, Iteration
<1>4. RoundEnd \in Plan /\ RoundEnd # <<>>
  BY <1>0, <1>2 DEF RoundEnd
<1>5. \A why \in {"error", "budget"} : <<Op("fail", why)>> \in Plan
  BY <1>0, SingleOp
<1>6. <<Op("llm", "final")>> \in Plan /\ <<Op("max-iter", None)>> \in Plan
  BY <1>0, SingleOp
<1>7. \A t \in {None, "final", "error", "budget"} :
          <<Op("llm-failure", t)>> \in Plan /\ <<Op("llm-fallback", t)>> \in Plan
  BY <1>0, SingleOp
<1>. QED
  BY <1>3, <1>4, <1>5, <1>6, <1>7

LEMMA BatchOps ==
    ASSUME NEW l
    PROVE  executeSingleTool(l, Native) \in Seq(AnyOp) /\ executeToolsParallel(l) \in Seq(AnyOp)
<1>0. Native \in Tools /\ Child \in Tools
  BY DEF Tools
<1>1. \A a, b \in Seq(AnyOp) : a \o b \in Seq(AnyOp)
  OBVIOUS
<1>2. <<>> \in Seq(AnyOp)
  OBVIOUS
<1>3. \A t \in Tools : AskOps(t) \in Seq(AnyOp) /\ RunOps(t) \in Seq(AnyOp) /\ End(t) \in Seq(AnyOp)
  <2> TAKE t \in Tools
  <2>1. /\ Op("ask", t) \in AnyOp /\ Op("wait", t) \in AnyOp /\ Op("exec", t) \in AnyOp /\ Op("step", t) \in AnyOp
        /\ Op("child-id", t) \in AnyOp /\ Op("delegate", t) \in AnyOp /\ Op("stepped", t) \in AnyOp /\ Op("end", t) \in AnyOp
    BY ToolPiece
  <2>. QED
    BY <2>1 DEF AskOps, RunOps, End
<1>4. \A t \in Tools : <<Op("start", t)>> \in Seq(AnyOp) /\ <<Op("auth", t)>> \in Seq(AnyOp)
  BY ToolPiece
<1>5. <<Op("start", Native), Op("start", Child)>> \in Seq(AnyOp)
  BY <1>0, ToolPiece
<1>6. executeSingleTool(l, Native) \in Seq(AnyOp)
  BY <1>0, <1>1, <1>2, <1>3, <1>4, Zenon DEF executeSingleTool
<1>7. executeToolsParallel(l) \in Seq(AnyOp)
  <2> DEFINE Of(t, ops) == IF Skipped(l, t) THEN <<>> ELSE ops
             SkippedEnd(t) == IF Skipped(l, t) THEN End(t) ELSE <<>>
  <2>1. \A t \in Tools : SkippedEnd(t) \in Seq(AnyOp) /\ \A ops \in Seq(AnyOp) : Of(t, ops) \in Seq(AnyOp)
    BY <1>2, <1>3
  <2> DEFINE a1 == SkippedEnd(Native)
             a2 == SkippedEnd(Child)
             a3 == Of(Native, <<Op("auth", Native)>>)
             a4 == Of(Child, <<Op("auth", Child)>>)
             a5 == Of(Native, AskOps(Native) \o RunOps(Native) \o End(Native))
             a6 == Of(Child, RunOps(Child) \o End(Child))
  <2>2. a1 \in Seq(AnyOp) /\ a2 \in Seq(AnyOp) /\ a3 \in Seq(AnyOp) /\ a4 \in Seq(AnyOp)
    BY <1>0, <1>4, <2>1
  <2>3. a5 \in Seq(AnyOp) /\ a6 \in Seq(AnyOp)
    BY <1>0, <1>1, <1>3, <2>1
  <2>4. executeToolsParallel(l) = <<Op("start", Native), Op("start", Child)>> \o a1 \o a2 \o a3 \o a4 \o a5 \o a6
    BY DEF executeToolsParallel
  <2> HIDE DEF a1, a2, a3, a4, a5, a6
  <2>. QED
    BY <1>1, <1>5, <2>2, <2>3, <2>4
<1>. QED
  BY <1>6, <1>7

(* The locals of an attempt.                                                *)
Fields == {"plan", "iter", "max", "extended", "fallback", "batch", "tools", "now", "breaker", "failed", "used",
           "tries", "tracker"}
Steady(l, m) ==
    /\ DOMAIN m = Fields /\ m.tracker = l.tracker /\ m.plan \in Plan
    /\ m.used = l.used \/ m.used \in UsageReports

(* A plan with any other head.                                              *)
LEMMA Replanned ==
    ASSUME NEW l, DOMAIN l = Fields, NEW p
    PROVE  LET m == [l EXCEPT !.plan = p]
           IN  DOMAIN m = Fields /\ m.plan = p /\ \A f \in Fields \ {"plan"} : m[f] = l[f]
BY DEF Fields

LEMMA HeadParts ==
    ASSUME NEW l, l.plan \in Plan, l.plan # <<>>
    PROVE  /\ Tail(l.plan) \in Plan /\ Head(l.plan) \in AnyOp
           /\ OpKind(l) \in {"start", "auth", "ask", "wait", "exec", "step", "child-id", "delegate", "stepped", "end"} =>
                 Tool(l) \in Tools /\ Head(l.plan) \in ToolOp /\ Tail(l.plan) # <<>>
           /\ OpKind(l) \in {"llm", "llm-failure", "llm-fallback"} => Tool(l) \in {None, "final", "error", "budget"}
<1>1. Tail(l.plan) \in Plan /\ Head(l.plan) \in AnyOp /\ (Head(l.plan) \in ToolOp => Tail(l.plan) # <<>>)
  BY PlanTail
<1>2. \A o \in AnyOp : o[1] \in {"start", "auth", "ask", "wait", "exec", "step", "child-id", "delegate", "stepped", "end"}
          => o \in ToolOp /\ o[2] \in Tools
  BY DEF AnyOp, ToolOp, LoopOp
<1>3. \A o \in AnyOp : o[1] \in {"llm", "llm-failure", "llm-fallback"} => o[2] \in {None, "final", "error", "budget"}
  BY DEF AnyOp, ToolOp, LoopOp
<1>. QED
  BY <1>1, <1>2, <1>3 DEF OpKind, Tool

LEMMA ThenSteady ==
    ASSUME NEW l, DOMAIN l = Fields, l.plan \in Plan, l.plan # <<>>
    PROVE  Steady(l, Then(l)) /\ Then(l).plan = Tail(l.plan)
BY Replanned, HeadParts DEF Steady, Then, Fields

LEMMA FailSteady ==
    ASSUME NEW l, DOMAIN l = Fields, NEW why \in {"error", "budget"}
    PROVE  Steady(l, Fails(l, why))
BY Replanned, LoopPlans DEF Steady, Fails, Fields

LEMMA ToolOverSteady ==
    ASSUME NEW l, DOMAIN l = Fields, l.plan \in Plan, l.plan # <<>>, Head(l.plan) \in ToolOp, NEW t \in Tools
    PROVE  /\ \A failed \in BOOLEAN : Steady(l, writeResult(l, t, failed))
           /\ Steady(l, ToolFails(l, t))
<1>1. Without(l, t) \in Plan /\ Without(l, t) # <<>>
  BY PlanWithout
<1>2. End(t) \in Seq(AnyOp)
  BY ToolPiece DEF End
<1>3. End(t) \o Without(l, t) \in Plan
  BY <1>1, <1>2, PlanJoin
<1>4. \A failed \in BOOLEAN : Steady(l, writeResult(l, t, failed))
  BY <1>3 DEF Steady, writeResult, Fields
<1>5. Steady(l, [l EXCEPT !.plan = Without(l, t), !.failed = @ \cup {t}])
  BY <1>1 DEF Steady, Fields
<1>. QED
  BY <1>4, <1>5 DEF ToolFails

LEMMA DispatchSteady ==
    ASSUME NEW l, DOMAIN l = Fields
    PROVE  Steady(l, Dispatch(l))
<1> DEFINE p == (IF l.batch = "one" THEN executeSingleTool(l, Native) ELSE executeToolsParallel(l)) \o RoundEnd
<1>1. p \in Plan
  BY BatchOps, LoopPlans, PlanJoin
<1>2. Dispatch(l) = [l EXCEPT !.plan = p]
  BY DEF Dispatch
<1> HIDE DEF p
<1>. QED
  BY <1>1, <1>2, Replanned DEF Steady, Fields

(* The operations that leave the tracker alone.                             *)
LEMMA ReadSteady ==
    ASSUME NEW l, NEW v, NEW us \in UsageReports, DOMAIN l = Fields, l.plan \in Plan, l.plan # <<>>,
           OpKind(l) # "budget-wait", v \in Batches => OpKind(l) \notin {"llm", "llm-fallback"}
    PROVE  Steady(l, Read(l, v, us))
<1>1. CASE OpKind(l) \in {"prefetch", "cb"}
  BY <1>1, ReadOf, ThenSteady, FailSteady DEF OrFail
<1>2. CASE OpKind(l) = "now"
  <2>1. Steady(l, [Then(l) EXCEPT !.now = IF v = "later" THEN @ + ResetAfter ELSE @])
    BY ThenSteady DEF Steady, Fields
  <2>. QED
    BY <1>2, <2>1, ReadOf, FailSteady DEF OnNow
<1>3. CASE OpKind(l) \in {"llm", "llm-failure", "llm-fallback"}
  <2>1. Tool(l) \in {None, "final", "error", "budget"}
    BY <1>3, HeadParts
  <2>2. Steady(l, [l EXCEPT !.plan = <<Op("llm-failure", Tool(l))>>]) /\ Steady(l, [l EXCEPT !.plan = <<Op("llm-fallback", Tool(l))>>])
    BY <2>1, LoopPlans, Replanned DEF Steady, Fields
  <2>. QED
    <3>1. Steady(l, Fails(l, "error"))
      BY FailSteady
    <3>2. Steady(l, OnFailure(l, v)) /\ (v \notin Batches => Steady(l, OnLLM(l, v, us)) /\ Steady(l, OnFallback(l, v, us)))
      BY <2>2, <3>1, Zenon DEF OnLLM, OnFailure, OnFallback
    <3>. QED
      BY <1>3, <3>2, ReadOf
<1>4. CASE OpKind(l) = "max-iter"
  <2>0. Steady(l, Fails(l, "error"))
    BY FailSteady
  <2>1. DOMAIN [l EXCEPT !.max = @ + Extra, !.extended = TRUE] = Fields
    BY DEF Fields
  <2>2. [l EXCEPT !.max = @ + Extra, !.extended = TRUE].tracker = l.tracker /\ [l EXCEPT !.max = @ + Extra, !.extended = TRUE].used = l.used
    BY DEF Fields
  <2>3. Steady(l, Dispatch([l EXCEPT !.max = @ + Extra, !.extended = TRUE]))
    BY <2>1, <2>2, DispatchSteady DEF Steady
  <2>4. Steady(l, [l EXCEPT !.plan = <<Op("llm", "final")>>])
    BY LoopPlans, Replanned DEF Steady, Fields
  <2>. QED
    <3>1. Read(l, v, us) = OnMaxIter(l, v)
      BY <1>4, ReadOf
    <3>. QED
      BY <2>0, <2>3, <2>4, <3>1, Zenon DEF OnMaxIter
<1>5. CASE OpKind(l) \in {"auth", "wait"}
  <2>1. Tool(l) \in Tools /\ Head(l.plan) \in ToolOp
    BY <1>5, HeadParts
  <2>. QED
    <3>1. Steady(l, Then(l)) /\ Steady(l, ToolFails(l, Tool(l))) /\ Steady(l, writeResult(l, Tool(l), FALSE))
      BY <2>1, ThenSteady, ToolOverSteady
    <3>2. Steady(l, OnAuth(l, v))
      BY <3>1, Zenon DEF OnAuth
    <3>3. Steady(l, OnWait(l, v))
      BY <3>1, Zenon DEF OnWait
    <3>. QED
      BY <1>5, <3>2, <3>3, ReadOf
<1>6. CASE OpKind(l) = "exec"
  <2>1. Steady(l, OnExec(l, v))
    BY ThenSteady DEF Steady, Fields, OnExec
  <2>. QED
    BY <1>6, <2>1, ReadOf
<1>7. CASE OpKind(l) = "child-id"
  <2>1. Tail(l.plan) \in Plan /\ Tail(l.plan) # <<>>
    BY <1>7, HeadParts
  <2>2. Tail(Tail(l.plan)) \in Plan
    BY <2>1, PlanTail
  <2>3. Steady(l, [l EXCEPT !.plan = Tail(Tail(@)), !.failed = @ \cup {Tool(l)}, !.tries = 0])
    BY <2>2 DEF Steady, Fields
  <2>. QED
    <3>1. Read(l, v, us) = OnChildId(l, v)
      BY <1>7, ReadOf
    <3>2. Steady(l, Then(l))
      BY ThenSteady
    <3>. QED
      BY <2>3, <3>1, <3>2, Zenon DEF OnChildId
<1>8. CASE OpKind(l) = "delegate"
  <2>1. Tool(l) \in Tools
    BY <1>8, HeadParts
  <2>2. <<Op("child-id", Tool(l))>> \o l.plan \in Plan
    BY <2>1, ToolPiece, PlanJoin
  <2>3. Steady(l, [l EXCEPT !.plan = <<Op("child-id", Tool(l))>> \o @, !.tries = @ + 1])
    BY <2>2 DEF Steady, Fields
  <2>4. Steady(l, [Then(l) EXCEPT !.used = us, !.tries = 0]) /\ Steady(l, [Then(l) EXCEPT !.tries = 0])
    BY ThenSteady DEF Steady, Fields
  <2>5. Read(l, v, us) = OnDelegate(l, v, us)
    BY <1>8, ReadOf
  <2>. QED
    BY <2>3, <2>4, <2>5, Zenon DEF OnDelegate
<1>9. CASE OpKind(l) \notin {"prefetch", "cb", "now", "llm", "llm-failure", "llm-fallback", "max-iter", "auth", "wait", "exec",
                            "child-id", "delegate"}
  BY <1>9, ThenSteady DEF Read
<1>. QED
  BY <1>1, <1>2, <1>3, <1>4, <1>5, <1>6, <1>7, <1>8, <1>9

-----------------------------------------------------------------------------
(* The spend. The tracker is within its limits, or the plan is to ask, to   *)
(* wait or to fail; with every grant the watermark moves by a window and    *)
(* the overrun of one report at most.                                       *)
Waits(p) == p # <<>> /\ Head(p)[1] \in {"budget-ask", "budget-wait", "fail"}
Stretch == tokenWindow + MaxCallTokens - 1
Overrun(t, g) ==
    /\ t \in Tracker
    /\ MaxTokens > 0 => t.wmTokens <= g * Stretch /\ t.tokens <= t.wmTokens + Stretch
Within(l, g) ==
    /\ DOMAIN l = Fields /\ l.plan \in Plans /\ l.used \in UsageReports
    /\ Overrun(l.tracker, g)
    /\ Waits(l.plan) \/ ~checkLimits(l.tracker)

LEMMA WindowType ==
    /\ tokenWindow \in Nat /\ costWindow \in Nat
    /\ (MaxTokens > 0 => tokenWindow > 0) /\ (MaxCost > 0 => costWindow > 0)
BY BudgetConfigAssumption DEF tokenWindow, costWindow

LEMMA StretchType == MaxTokens > 0 => Stretch \in Nat
<1>1. MaxCallTokens \in Nat
  BY RestateLoopAssumption
<1>. QED
  BY <1>1, WindowType DEF Stretch

LEMMA BelowWindow ==
    ASSUME NEW t \in Tracker, ~checkLimits(t), MaxTokens > 0
    PROVE  t.tokens < t.wmTokens + tokenWindow
BY WindowType DEF checkLimits, TokensExceeded, Tracker

LEMMA ReportType ==
    ASSUME NEW us \in UsageReports
    PROVE  us \in LLMUsage /\ us.total \in Nat /\ us.total <= MaxCallTokens /\ CostOf(us) \in Nat
<1>1. NoUsage \in LLMUsage /\ NoUsage.total = 0
  BY DEF NoUsage, LLMUsage
<1>2. MaxCallTokens \in Nat /\ (us \in Usages => us \in LLMUsage /\ us.total <= MaxCallTokens)
  BY RestateLoopAssumption
<1>3. us \in LLMUsage /\ us.total \in Nat /\ us.total <= MaxCallTokens
  BY <1>1, <1>2 DEF UsageReports, LLMUsage
<1>4. us.prompt * PromptRate \in Nat /\ us.completion * CompletionRate \in Nat
  BY <1>3, BudgetConfigAssumption DEF LLMUsage
<1>. QED
  BY <1>3, <1>4 DEF CostOf

(* A report, added to a tracker within its limits.                          *)
LEMMA OverrunAdd ==
    ASSUME NEW t, NEW g \in Nat, NEW us \in UsageReports, Overrun(t, g), ~checkLimits(t)
    PROVE  Overrun(Add(t, us), g)
<1> DEFINE a == Add(t, us)
           c == CostOf(us)
<1>1. t \in Tracker
  BY DEF Overrun
<1>2. us.total \in Nat /\ us.total <= MaxCallTokens /\ c \in Nat
  BY ReportType
<1>3. a = [t EXCEPT !.tokens = @ + us.total, !.cost = @ + c]
  BY DEF Add
<1> HIDE DEF a, c
<1>4. t.tokens \in Nat /\ t.cost \in Nat /\ t.wmTokens \in Nat
  BY <1>1 DEF Tracker
<1>5. t.tokens + us.total \in Nat /\ t.cost + c \in Nat
  BY <1>2, <1>4
<1>6. a \in Tracker /\ a.tokens = t.tokens + us.total /\ a.wmTokens = t.wmTokens
  BY <1>1, <1>3, <1>5 DEF Tracker
<1>7. ASSUME MaxTokens > 0 PROVE a.tokens <= a.wmTokens + Stretch
  <2>1. t.tokens < t.wmTokens + tokenWindow
    BY <1>1, <1>7, BelowWindow
  <2>2. MaxCallTokens \in Nat /\ tokenWindow \in Nat
    BY RestateLoopAssumption, WindowType
  <2>. QED
    BY <1>2, <1>4, <1>6, <2>1, <2>2 DEF Stretch
<1>8. Overrun(a, g)
  BY <1>6, <1>7 DEF Overrun
<1>. QED
  BY <1>8 DEF a

(* A grant moves the watermark to the total.                                *)
LEMMA OverrunAdvance ==
    ASSUME NEW t, NEW g \in Nat, Overrun(t, g)
    PROVE  Overrun(AdvanceWatermark(t), g + 1) /\ ~checkLimits(AdvanceWatermark(t))
<1> DEFINE a == AdvanceWatermark(t)
<1>1. t \in Tracker
  BY DEF Overrun
<1>2. t.tokens \in Nat /\ t.cost \in Nat /\ t.approvals + 1 \in Nat /\ t.wmTokens \in Nat
  BY <1>1 DEF Tracker
<1>3. a \in Tracker /\ a.tokens = t.tokens /\ a.wmTokens = t.tokens /\ a.cost = t.cost /\ a.wmCost = t.cost
  BY <1>1, <1>2 DEF AdvanceWatermark, Tracker
<1> HIDE DEF a
<1>4. ~checkLimits(a)
  BY <1>2, <1>3, WindowType DEF checkLimits, TokensExceeded, CostExceeded
<1>5. ASSUME MaxTokens > 0 PROVE a.wmTokens <= (g + 1) * Stretch /\ a.tokens <= a.wmTokens + Stretch
  <2>1. Stretch \in Nat
    BY <1>5, StretchType
  <2> DEFINE p == g * Stretch
  <2>2. p \in Nat /\ (g + 1) * Stretch = p + Stretch
    BY <2>1
  <2>3. t.wmTokens <= p /\ t.tokens <= t.wmTokens + Stretch
    BY <1>5 DEF Overrun
  <2> HIDE DEF p
  <2>4. t.tokens <= p + Stretch
    BY <1>2, <2>1, <2>2, <2>3
  <2>. QED
    BY <1>2, <1>3, <2>1, <2>2, <2>4
<1>6. Overrun(a, g + 1)
  BY <1>3, <1>5 DEF Overrun
<1>. QED
  BY <1>4, <1>6 DEF a

LEMMA AskingPlan ==
    ASSUME NEW p \in Plan
    PROVE  /\ Asking(p) # <<>> /\ Head(Asking(p)) = Op("budget-ask", None) /\ Waits(Asking(p))
           /\ Tail(Asking(p)) \in Plan /\ Waits(Tail(Asking(p)))
<1> DEFINE a == Op("budget-ask", None)
           w == Op("budget-wait", None)
           A == AnyOp \cup {a}
<1>1. w \in LoopOp /\ w \in AnyOp /\ w[1] = "budget-wait" /\ a[1] = "budget-ask"
  BY DEF Op, LoopOp, AnyOp
<1>2. p \in Seq(AnyOp) /\ Len(p) \in Nat
  BY DEF Plan
<1> HIDE DEF a, w
<1>3. <<w>> \in Seq(AnyOp) /\ Len(<<w>>) = 1 /\ <<w>>[1] = w
  BY <1>1
<1> DEFINE q == <<w>> \o p
<1>4. /\ q \in Seq(AnyOp) /\ Len(q) = 1 + Len(p)
      /\ \A i \in 1..(1 + Len(p)) : q[i] = IF i <= 1 THEN <<w>>[i] ELSE p[i - 1]
  BY <1>2, <1>3, ConcatProperties
<1>5. q[Len(q)] \in LoopOp /\ q[1] = w /\ q # <<>>
  <2>1. CASE p = <<>>
    BY <2>1, <1>1, <1>2, <1>3, <1>4
  <2>2. CASE p # <<>>
    <3>1. Len(p) > 0 /\ p[Len(p)] \in LoopOp
      BY <1>2, <2>2 DEF Plan
    <3>. QED
      BY <1>2, <1>3, <1>4, <3>1
  <2>. QED
    BY <2>1, <2>2
<1>6. Asking(p) = <<a>> \o q
  BY <1>2, <1>3 DEF Asking, a, w
<1>7. Asking(p) # <<>> /\ Head(Asking(p)) = a /\ Tail(Asking(p)) = q
  <2> HIDE DEF q
  <2>1. q \in Seq(AnyOp)
    BY <1>4
  <2>. QED
    BY <1>6, <2>1
<1>8. q \in Plan /\ Head(q) = w
  <2> HIDE DEF q
  <2>. QED
    BY <1>4, <1>5 DEF Plan
<1>. QED
  BY <1>1, <1>5, <1>7, <1>8 DEF Waits, a

LEMMA SteadyWithin ==
    ASSUME NEW l, NEW m, NEW g, Within(l, g), ~Waits(l.plan), Steady(l, m)
    PROVE  Within(m, g)
BY DEF Within, Steady, Plans

(* checkBudget, on locals that are within the budget.                       *)
LEMMA checkBudgetWithin ==
    ASSUME NEW g \in Nat, NEW us \in UsageReports, NEW l, DOMAIN l = Fields, l.plan \in Plan, l.used \in UsageReports,
           Overrun(l.tracker, g), ~checkLimits(l.tracker)
    PROVE  Within(checkBudget(l, us), g)
<1> DEFINE t == Add(l.tracker, us)
           a == [l EXCEPT !.tracker = t]
<1>1. Overrun(t, g)
  BY OverrunAdd
<1> HIDE DEF t
<1>2. DOMAIN a = Fields /\ a.tracker = t /\ a.plan = l.plan /\ a.used \in UsageReports
  BY DEF Fields
<1>4. CASE ~checkLimits(t)
  <2>1. checkBudget(l, us) = a
    BY <1>2, <1>4 DEF checkBudget, t
  <2>. QED
    BY <1>1, <1>2, <1>4, <2>1 DEF Within, Plans
<1>5. CASE checkLimits(t)
  <2>1. checkBudget(l, us) = handleBudgetExceeded(a)
    BY <1>2, <1>5 DEF checkBudget, t
  <2> HIDE DEF a
  <2>2. CASE OnExceeded = "wait_for_approval"
    <3> DEFINE m == [a EXCEPT !.plan = Asking(l.plan)]
    <3>1. checkBudget(l, us) = m
      BY <1>2, <2>1, <2>2 DEF handleBudgetExceeded, Asking
    <3>2. DOMAIN m = Fields /\ m.plan = Asking(l.plan) /\ m.tracker = t /\ m.used \in UsageReports
      BY <1>2, Replanned DEF Fields
    <3> HIDE DEF m
    <3>3. Waits(m.plan) /\ m.plan \in Plans
      BY <3>2, AskingPlan DEF Plans
    <3>. QED
      BY <1>1, <3>1, <3>2, <3>3 DEF Within
  <2>3. CASE OnExceeded # "wait_for_approval"
    <3> DEFINE m == Fails(a, "budget")
    <3>1. checkBudget(l, us) = m
      BY <2>1, <2>3 DEF handleBudgetExceeded
    <3>2. DOMAIN m = Fields /\ m.plan = <<Op("fail", "budget")>> /\ m.tracker = t /\ m.used \in UsageReports
      BY <1>2, Replanned DEF Fields, Fails
    <3> HIDE DEF m
    <3>3. Waits(m.plan) /\ m.plan \in Plans
      BY <3>2, LoopPlans DEF Plans, Waits, Op
    <3>. QED
      BY <1>1, <3>1, <3>2, <3>3 DEF Within
  <2>. QED
    BY <2>2, <2>3
<1>. QED
  BY <1>4, <1>5

LEMMA OnAnswerWithin ==
    ASSUME NEW g \in Nat, NEW us \in UsageReports, NEW l, NEW t, NEW b, DOMAIN l = Fields, l.used \in UsageReports,
           Overrun(l.tracker, g), ~checkLimits(l.tracker)
    PROVE  Within(OnAnswer(l, t, b, us), g)
<1> DEFINE Ready(m) == DOMAIN m = Fields /\ m.tracker = l.tracker /\ m.plan \in Plan /\ m.used \in UsageReports
<1>1. \A m : Ready(m) => Within(checkBudget(m, us), g)
  BY checkBudgetWithin
<1>2. Ready([l EXCEPT !.plan = RunEnd])
  BY Replanned, LoopPlans DEF Fields
<1> DEFINE c == [l EXCEPT !.batch = b]
<1>3. DOMAIN c = Fields /\ c.tracker = l.tracker /\ c.used \in UsageReports
  BY DEF Fields
<1> HIDE DEF c
<1>4. Ready([c EXCEPT !.plan = RunEnd]) /\ Ready([c EXCEPT !.plan = <<Op("max-iter", None)>>])
  BY <1>3, Replanned, LoopPlans DEF Fields
<1>5. Ready(Dispatch(c))
  BY <1>3, DispatchSteady DEF Steady
<1> HIDE DEF Ready
<1>6. Within(AfterLLM(l, b, us), g)
  BY <1>1, <1>4, <1>5, Zenon DEF AfterLLM, c
<1>. QED
  BY <1>1, <1>2, <1>6, Zenon DEF OnAnswer

LEMMA HeadOfPlans ==
    ASSUME NEW l, l.plan \in Plans, l.plan # <<>>
    PROVE  /\ OpKind(l) = "budget-ask" => Tail(l.plan) \in Plan /\ Waits(Tail(l.plan))
           /\ OpKind(l) # "budget-ask" => l.plan \in Plan
           /\ Head(l.plan) = <<OpKind(l), Tool(l)>>
<1>1. CASE l.plan \in Plan
  <2>1. Head(l.plan) \in AnyOp
    BY <1>1, PlanTail
  <2>. QED
    BY <1>1, <2>1, OpParts DEF OpKind, Tool
<1>2. CASE \E p \in Plan : l.plan = Asking(p)
  BY <1>2, AskingPlan DEF OpKind, Tool, Op
<1>. QED
  BY <1>1, <1>2 DEF Plans

LEMMA GrantWithin ==
    ASSUME NEW g \in Nat, NEW l, Within(l, g), l.plan \in Plan, l.plan # <<>>
    PROVE  Within([Then(l) EXCEPT !.tracker = AdvanceWatermark(@)], g + 1)
<1> DEFINE m == Then(l)
           k == l.tracker
           a == AdvanceWatermark(k)
           n == [m EXCEPT !.tracker = AdvanceWatermark(@)]
<1>1. DOMAIN m = Fields /\ m.tracker = k /\ m.plan \in Plan /\ m.used \in UsageReports
  BY ThenSteady DEF Within, Steady
<1>2. Overrun(k, g)
  BY DEF Within
<1>3. Overrun(a, g + 1) /\ ~checkLimits(a)
  BY <1>2, OverrunAdvance
<1> HIDE DEF m, k
<1>4. DOMAIN n = Fields /\ n.tracker = a /\ n.plan = m.plan /\ n.used \in UsageReports
  BY <1>1 DEF Fields
<1> HIDE DEF a, n
<1>5. Within(n, g + 1)
  BY <1>1, <1>3, <1>4 DEF Within, Plans
<1>. QED
  BY <1>5 DEF n, m

LEMMA ReadWithin ==
    ASSUME NEW g \in Nat, NEW l, NEW v, NEW us \in UsageReports, Within(l, g), l.plan # <<>>, OpKind(l) # "fail"
    PROVE  Within(Read(l, v, us), IF OpKind(l) = "budget-wait" /\ v = "approved" THEN g + 1 ELSE g)
<1>0. DOMAIN l = Fields /\ l.plan \in Plans
  BY DEF Within
<1>1. CASE OpKind(l) = "budget-ask"
  <2>1. Read(l, v, us) = Then(l)
    BY <1>1, ReadOf
  <2>2. Tail(l.plan) \in Plan /\ Waits(Tail(l.plan))
    BY <1>0, <1>1, HeadOfPlans
  <2>3. DOMAIN Then(l) = Fields /\ Then(l).plan = Tail(l.plan) /\ Then(l).tracker = l.tracker /\ Then(l).used = l.used
    BY <1>0, Replanned DEF Then, Fields
  <2>. QED
    BY <1>1, <2>1, <2>2, <2>3 DEF Within, Plans
<1>2. CASE OpKind(l) = "budget-wait"
  <2>1. Read(l, v, us) = OnBudget(l, v) /\ l.plan \in Plan
    BY <1>0, <1>2, ReadOf, HeadOfPlans
  <2>2. CASE v = "approved"
    BY <1>2, <2>1, <2>2, GrantWithin DEF OnBudget
  <2>3. CASE v # "approved"
    <3>1. Read(l, v, us) = Fails(l, "budget")
      BY <2>1, <2>3 DEF OnBudget
    <3>2. Steady(l, Fails(l, "budget"))
      BY <1>0, FailSteady
    <3>3. Fails(l, "budget").plan = <<Op("fail", "budget")>>
      BY <1>0, Replanned DEF Fails
    <3>4. Waits(Fails(l, "budget").plan)
      BY <3>3 DEF Waits, Op
    <3>. QED
      BY <2>3, <3>1, <3>2, <3>4 DEF Within, Steady, Plans
  <2>. QED
    BY <2>2, <2>3
<1>3. CASE OpKind(l) \notin {"budget-ask", "budget-wait"}
  <2>1. l.plan \in Plan /\ ~Waits(l.plan)
    BY <1>0, <1>3, HeadOfPlans DEF Waits, OpKind
  <2>2. CASE OpKind(l) \in {"llm", "llm-fallback"} /\ v \in Batches
    <3>1. Within(OnAnswer(l, Tool(l), v, us), g)
      BY <2>1, OnAnswerWithin DEF Within
    <3> DEFINE m == [l EXCEPT !.fallback = TRUE]
    <3>2. DOMAIN m = Fields /\ m.tracker = l.tracker /\ m.used = l.used
      BY <1>0 DEF Fields
    <3>3. Within(OnAnswer(m, Tool(l), v, us), g)
      <4> HIDE DEF m
      <4>. QED
        BY <2>1, <3>2, OnAnswerWithin DEF Within
    <3>4. Read(l, v, us) \in {OnAnswer(l, Tool(l), v, us), OnAnswer(m, Tool(l), v, us)}
      BY <2>2, ReadOf DEF OnLLM, OnFallback
    <3>. QED
      BY <1>3, <3>1, <3>3, <3>4
  <2>3. CASE ~(OpKind(l) \in {"llm", "llm-fallback"} /\ v \in Batches)
    <3>1. Steady(l, Read(l, v, us))
      BY <1>0, <1>3, <2>1, <2>3, ReadSteady
    <3>. QED
      BY <1>3, <2>1, <3>1, SteadyWithin
  <2>. QED
    BY <2>2, <2>3
<1>. QED
  BY <1>1, <1>2, <1>3

LEMMA SettleWithin ==
    ASSUME NEW g \in Nat, NEW l, Within(l, g), l.plan # <<>>, OpKind(l) \in Silent
    PROVE  Within(Settle(l), g)
<1>0. DOMAIN l = Fields /\ l.plan \in Plans
  BY DEF Within
<1>1. l.plan \in Plan /\ ~Waits(l.plan)
  BY <1>0, HeadOfPlans DEF Waits, OpKind, Silent
<1>2. Steady(l, Counted(l))
  BY <1>0, <1>1, ThenSteady DEF Counted, Steady, Fields, UsageReports
<1>3. Within(Counted(l), g)
  BY <1>1, <1>2, SteadyWithin
<1>4. Within(checkBudget(Counted(l), l.used), g)
  <2> DEFINE c == Counted(l)
  <2>1. DOMAIN c = Fields /\ c.plan \in Plan /\ c.tracker = l.tracker /\ c.used \in UsageReports
    BY <1>2 DEF Steady, Within
  <2> HIDE DEF c
  <2>2. Within(checkBudget(c, l.used), g)
    BY <1>1, <2>1, checkBudgetWithin DEF Within
  <2>. QED
    BY <2>2 DEF c
<1>5. Within([l EXCEPT !.plan = Iteration, !.iter = @ + 1], g)
  <2>1. Steady(l, [l EXCEPT !.plan = Iteration, !.iter = @ + 1])
    BY <1>0, LoopPlans DEF Steady, Fields
  <2>. QED
    BY <1>1, <2>1, SteadyWithin
<1>. QED
  BY <1>3, <1>4, <1>5, Zenon DEF Settle

Granted(j, p) == {i \in 1..p : j[i].op[1] = "budget-wait" /\ j[i].val = "approved"}

SpendInv ==
    /\ \E S : journal \in Seq(S)
    /\ pos \in 0..Len(journal)
    /\ loc = NotStarted \/ Within(loc, Grants)

LEMMA GrantsType ==
    ASSUME NEW j, NEW p \in Nat
    PROVE  IsFiniteSet(Granted(j, p)) /\ Cardinality(Granted(j, p)) \in Nat
<1>1. IsFiniteSet(1..p)
  BY FS_Interval
<1>2. Granted(j, p) \subseteq 1..p
  BY DEF Granted
<1>. QED
  BY <1>1, <1>2, FS_Subset, FS_CardinalityType

(* One more entry is read or written.                                       *)
LEMMA GrantsRead ==
    ASSUME SpendInv, NEW v, NEW us, NEW S, JournaledWith(us, v, S), loc.plan \in Plans, loc.plan # <<>>
    PROVE  /\ pos' = pos + 1 /\ pos' \in 0..Len(journal') /\ \E E : journal' \in Seq(E)
           /\ Grants' = IF OpKind(loc) = "budget-wait" /\ v = "approved" THEN Grants + 1 ELSE Grants
<1>1. PICK E : journal \in Seq(E)
  BY DEF SpendInv
<1>2. Len(journal) \in Nat /\ pos \in Nat /\ pos <= Len(journal) /\ pos' = pos + 1
  BY <1>1 DEF SpendInv, JournaledWith
<1> DEFINE e == Entry(loc, v, us)
<1>3. e.op[1] = OpKind(loc) /\ e.val = v
  <2>1. Head(loc.plan) = <<OpKind(loc), Tool(loc)>>
    BY HeadOfPlans
  <2>2. e.op = <<OpKind(loc), Tool(loc)>> \o <<loc.iter>> /\ e.val = v
    BY <2>1 DEF Entry
  <2>. QED
    BY <2>2
<1> HIDE DEF e
<1>4. /\ \E D : journal' \in Seq(D)
      /\ Len(journal') >= pos + 1 /\ Len(journal') \in Nat /\ journal'[pos + 1] = e
      /\ \A i \in 1..pos : journal'[i] = journal[i]
  <2>1. CASE Replaying /\ journal[pos + 1] = e /\ UNCHANGED journal
    BY <1>1, <1>2, <2>1 DEF Replaying
  <2>2. CASE ~Replaying /\ journal' = Append(journal, e)
    <3>1. pos = Len(journal)
      BY <1>2, <2>2 DEF Replaying
    <3>2. journal \in Seq(E \cup {e})
      <4>1. \A x \in 1..Len(journal) : journal[x] \in E
        BY <1>1
      <4>2. journal = [x \in 1..Len(journal) |-> journal[x]]
        BY <1>1
      <4>. QED
        BY <4>1, <4>2, <1>2, SeqDef
    <3>3. /\ journal' \in Seq(E \cup {e}) /\ Len(journal') = pos + 1 /\ journal'[pos + 1] = e
          /\ \A i \in 1..pos : journal'[i] = journal[i]
      BY <2>2, <3>1, <3>2, AppendProperties
    <3>. QED
      BY <1>2, <3>3
  <2>. QED
    BY <2>1, <2>2 DEF JournaledWith, e
<1>5. Grants = Cardinality(Granted(journal, pos)) /\ Grants' = Cardinality(Granted(journal', pos + 1))
  BY <1>2 DEF Grants, Granted
<1>6. IsFiniteSet(Granted(journal, pos)) /\ pos + 1 \notin Granted(journal, pos)
  BY <1>2, GrantsType DEF Granted
<1>7. CASE OpKind(loc) = "budget-wait" /\ v = "approved"
  <2>1. Granted(journal', pos + 1) = Granted(journal, pos) \cup {pos + 1}
    BY <1>2, <1>3, <1>4, <1>7 DEF Granted
  <2>2. Cardinality(Granted(journal, pos) \cup {pos + 1}) = Cardinality(Granted(journal, pos)) + 1
    BY <1>6, FS_AddElement
  <2>3. Grants' = Grants + 1
    BY <1>5, <2>1, <2>2
  <2>. QED
    BY <1>2, <1>4, <1>7, <2>3
<1>8. CASE ~(OpKind(loc) = "budget-wait" /\ v = "approved")
  <2>1. Granted(journal', pos + 1) = Granted(journal, pos)
    BY <1>2, <1>3, <1>4, <1>8 DEF Granted
  <2>2. Grants' = Grants
    BY <1>5, <2>1
  <2>. QED
    BY <1>2, <1>4, <1>8, <2>2
<1>. QED
  BY <1>7, <1>8

LEMMA NewLoopWithin ==
    ASSUME NEW tools
    PROVE  Within(NewLoop(tools), 0)
<1> DEFINE p == <<Op("load", None), Op("prefetch", None)>> \o Iteration
<1>1. p \in Plan
  <2>1. Op("load", None) \in AnyOp /\ Op("prefetch", None) \in AnyOp
    BY DEF Op, AnyOp, LoopOp
  <2>2. <<Op("load", None), Op("prefetch", None)>> \in Seq(AnyOp)
    BY <2>1
  <2>. QED
    BY <2>2, LoopPlans, PlanJoin
<1> DEFINE m == NewLoop(tools)
<1>2. m.plan = p /\ m.tracker = NewBudgetTracker /\ DOMAIN m = Fields /\ m.used \in UsageReports
  BY DEF NewLoop, Fields, UsageReports
<1>3. Overrun(NewBudgetTracker, 0)
  <2> DEFINE n == NewBudgetTracker
  <2>1. n \in Tracker /\ n.tokens = 0 /\ n.wmTokens = 0
    BY DEF NewBudgetTracker, Tracker
  <2> HIDE DEF n
  <2>2. MaxTokens > 0 => 0 <= 0 * Stretch /\ 0 <= 0 + Stretch
    BY StretchType
  <2>3. Overrun(n, 0)
    BY <2>1, <2>2 DEF Overrun
  <2>. QED
    BY <2>3 DEF n
<1>4. ~checkLimits(NewBudgetTracker)
  BY WindowType DEF checkLimits, TokensExceeded, CostExceeded, NewBudgetTracker
<1> HIDE DEF m, p
<1>5. Within(m, 0)
  BY <1>1, <1>2, <1>3, <1>4 DEF Within, Plans
<1>. QED
  BY <1>5 DEF m

LEMMA NextSpend ==
    ASSUME SpendInv, [LoopNext]_loopVars
    PROVE  SpendInv'
<1>1. Grants \in Nat
  <2>1. pos \in Nat
    BY DEF SpendInv
  <2>. QED
    BY <2>1, GrantsType DEF Grants, Granted
<1>2. CASE Away
  <2>1. CASE loc' = NotStarted /\ pos' = 0 /\ UNCHANGED journal
    BY <2>1 DEF SpendInv
  <2>2. CASE UNCHANGED <<loc, pos, journal>>
    <3>1. Grants' = Grants
      BY <2>2 DEF Grants
    <3>2. Within(loc, Grants) => Within(loc, Grants)'
      BY <2>2, <3>1 DEF Within
    <3>. QED
      BY <2>2, <3>2 DEF SpendInv
  <2>. QED
    BY <1>2, <2>1, <2>2 DEF Away
<1>3. CASE handle
  <2>1. loc' = NewLoop(resolveTools) /\ pos' = 0 /\ UNCHANGED journal
    BY <1>3 DEF handle
  <2>2. Grants' = 0
    <3>1. Grants' = Cardinality({i \in 1..0 : journal'[i].op[1] = "budget-wait" /\ journal'[i].val = "approved"})
      BY <2>1 DEF Grants
    <3>2. {i \in 1..0 : journal'[i].op[1] = "budget-wait" /\ journal'[i].val = "approved"} = {}
      OBVIOUS
    <3>. QED
      BY <3>1, <3>2, FS_EmptySet
  <2>3. Within(NewLoop(resolveTools), 0)
    BY NewLoopWithin
  <2>4. Within(loc, Grants)'
    BY <2>1, <2>2, <2>3 DEF Within
  <2>. QED
    BY <2>1, <2>4 DEF SpendInv
<1>4. CASE Settles
  <2>1. loc.plan # <<>> /\ OpKind(loc) \in Silent /\ loc' = Settle(loc) /\ UNCHANGED <<journal, pos>>
    BY <1>4 DEF Settles
  <2>2. loc # NotStarted
    BY <2>1, NotStartedKind DEF Silent
  <2>3. Within(loc', Grants)
    BY <1>1, <2>1, <2>2, SettleWithin DEF SpendInv
  <2>4. Grants' = Grants
    BY <2>1 DEF Grants
  <2>5. Within(loc, Grants)'
    BY <2>3, <2>4 DEF Within
  <2>. QED
    BY <2>1, <2>5 DEF SpendInv
<1>5. CASE \E v, us : Performs(v, us)
  <2>1. PICK v, us : Performs(v, us)
    BY <1>5
  <2>2. PICK S : JournaledWith(us, v, S)
    BY <2>1 DEF Performs
  <2>3. loc.plan # <<>> /\ OpKind(loc) \notin {"handle", "fail"} /\ loc' = Read(loc, v, us) /\ us \in UsageReports
    BY <2>1 DEF Performs
  <2>4. loc # NotStarted
    BY <2>3, NotStartedKind
  <2>5. Within(loc, Grants) /\ loc.plan \in Plans
    BY <2>4 DEF SpendInv, Within
  <2> DEFINE g == IF OpKind(loc) = "budget-wait" /\ v = "approved" THEN Grants + 1 ELSE Grants
  <2>6. pos' \in 0..Len(journal') /\ (\E E : journal' \in Seq(E)) /\ Grants' = g
    BY <2>2, <2>3, <2>5, GrantsRead
  <2>7. Within(Read(loc, v, us), g)
    BY <1>1, <2>3, <2>5, ReadWithin
  <2>8. Within(loc, Grants)'
    BY <2>3, <2>6, <2>7 DEF Within
  <2>. QED
    BY <2>6, <2>8 DEF SpendInv
<1>. QED
  BY <1>2, <1>3, <1>4, <1>5, StepForms DEF Forms

(* A run that goes on is within its limits, and spends one window and one   *)
(* more for every grant that the attempt has read, with the overrun of the  *)
(* report that used a window up; for every budget, usage, number of         *)
(* iterations, crashes and cancels (checkBudget, awaitBudgetApproval;       *)
(* RestateLoop.SpendGranted).                                               *)
THEOREM SpendIsGranted == LoopSpec => []SpendGranted
<1>1. LoopInit => SpendInv
  <2>1. <<>> \in Seq({}) /\ Len(<<>>) = 0
    OBVIOUS
  <2>. QED
    BY <2>1 DEF LoopInit, SpendInv
<1>2. SpendInv /\ [LoopNext]_loopVars => SpendInv'
  BY NextSpend
<1>3. SpendInv => SpendGranted
  <2>1. SUFFICES ASSUME SpendInv, loc # NotStarted, status = "running", ~At("budget-ask"), ~At("budget-wait"), ~At("fail")
                 PROVE  /\ ~checkLimits(loc.tracker)
                        /\ MaxTokens > 0 =>
                              loc.tracker.tokens < Grants * (tokenWindow + MaxCallTokens - 1) + tokenWindow
    BY DEF SpendGranted
  <2> DEFINE k == loc.tracker
             n == Grants
  <2>2. Within(loc, n)
    BY <2>1 DEF SpendInv
  <2>3. ~Waits(loc.plan)
    BY <2>1 DEF Waits, At
  <2>4. n \in Nat
    <3>1. pos \in Nat
      BY <2>1 DEF SpendInv
    <3>. QED
      BY <3>1, GrantsType DEF Grants, Granted
  <2>5. Overrun(k, n) /\ ~checkLimits(k)
    BY <2>2, <2>3 DEF Within
  <2> HIDE DEF n, k
  <2>6. ASSUME MaxTokens > 0 PROVE k.tokens < n * Stretch + tokenWindow
    <3> DEFINE p == n * Stretch
    <3>1. p \in Nat
      BY <2>4, <2>6, StretchType
    <3>2. k.wmTokens <= p /\ k \in Tracker
      BY <2>5, <2>6 DEF Overrun
    <3>3. k.tokens < k.wmTokens + tokenWindow
      BY <2>5, <2>6, <3>2, BelowWindow
    <3> HIDE DEF p
    <3>4. k.tokens < p + tokenWindow
      BY <3>1, <3>2, <3>3, WindowType DEF Tracker
    <3>. QED
      BY <3>4 DEF p
  <2>. QED
    BY <2>5, <2>6 DEF n, k, Stretch
<1>. QED
  BY <1>1, <1>2, <1>3, PTL DEF LoopSpec

-----------------------------------------------------------------------------
(* The order of a plan: an event is in it once, starts come before the      *)
(* other operations of tools, and the end of a tool after all of its own.   *)
MayPrecede(a, b) ==
    /\ a[1] \in EventKinds => a # b
    /\ b[1] = "start" /\ a \in ToolOp => a[1] = "start"
    /\ a[1] = "end" => b[2] # a[2]
Ops(p) == {p[i] : i \in 1..Len(p)}
Ordered(p) == \A i, j \in 1..Len(p) : i < j => MayPrecede(p[i], p[j])

LEMMA OrderedTail ==
    ASSUME NEW A, NEW p \in Seq(A), p # <<>>
    PROVE  /\ Ops(p) = {Head(p)} \cup Ops(Tail(p))
           /\ Ordered(p) => Ordered(Tail(p)) /\ \A y \in Ops(Tail(p)) : MayPrecede(Head(p), y)
<1> DEFINE q == Tail(p)
<1>1. Len(p) \in Nat /\ Len(p) > 0
  OBVIOUS
<1>2. /\ Head(p) = p[1] /\ q \in Seq(A) /\ Len(q) = Len(p) - 1
      /\ \A i \in 1..(Len(p) - 1) : q[i] = p[i + 1]
  BY <1>1, HeadTailProperties
<1> HIDE DEF q
<1>3. Ops(p) = {p[1]} \cup Ops(q)
  <2>1. ASSUME NEW x \in Ops(p) PROVE x \in {p[1]} \cup Ops(q)
    <3>1. PICK i \in 1..Len(p) : x = p[i]
      BY <2>1 DEF Ops
    <3>2. CASE i # 1
      <4>1. i - 1 \in 1..Len(q) /\ q[i - 1] = p[i]
        BY <1>1, <1>2, <3>2
      <4>. QED
        BY <3>1, <4>1 DEF Ops
    <3>. QED
      BY <3>1, <3>2
  <2>2. ASSUME NEW x \in Ops(q) PROVE x \in Ops(p)
    <3>1. PICK i \in 1..Len(q) : x = q[i]
      BY <2>2 DEF Ops
    <3>2. i + 1 \in 1..Len(p) /\ x = p[i + 1]
      BY <1>1, <1>2, <3>1
    <3>. QED
      BY <3>2 DEF Ops
  <2>3. p[1] \in Ops(p)
    BY <1>1 DEF Ops
  <2>. QED
    BY <2>1, <2>2, <2>3
<1>4. ASSUME Ordered(p) PROVE Ordered(q) /\ \A y \in Ops(q) : MayPrecede(p[1], y)
  <2>1. Ordered(q)
    <3> SUFFICES ASSUME NEW i \in 1..Len(q), NEW j \in 1..Len(q), i < j PROVE MayPrecede(q[i], q[j])
      BY DEF Ordered
    <3>1. i + 1 \in 1..Len(p) /\ j + 1 \in 1..Len(p) /\ i + 1 < j + 1
      BY <1>1, <1>2
    <3>2. MayPrecede(p[i + 1], p[j + 1])
      BY <1>4, <3>1 DEF Ordered
    <3>. QED
      BY <1>2, <3>2
  <2>2. ASSUME NEW y \in Ops(q) PROVE MayPrecede(p[1], y)
    <3>1. PICK i \in 1..Len(q) : y = q[i]
      BY <2>2 DEF Ops
    <3>2. 1 \in 1..Len(p) /\ i + 1 \in 1..Len(p) /\ 1 < i + 1 /\ y = p[i + 1]
      BY <1>1, <1>2, <3>1
    <3>. QED
      BY <1>4, <3>2 DEF Ordered
  <2>. QED
    BY <2>1, <2>2
<1>. QED
  BY <1>2, <1>3, <1>4 DEF q

LEMMA OrderedJoin ==
    ASSUME NEW A, NEW a \in Seq(A), NEW b \in Seq(A)
    PROVE  /\ Ops(a \o b) = Ops(a) \cup Ops(b)
           /\ Ordered(a) /\ Ordered(b) /\ (\A x \in Ops(a), y \in Ops(b) : MayPrecede(x, y)) => Ordered(a \o b)
<1> DEFINE c == a \o b
           m == Len(a)
           n == Len(b)
<1>1. /\ m \in Nat /\ n \in Nat /\ Len(c) = m + n
      /\ \A i \in 1..(m + n) : c[i] = IF i <= m THEN a[i] ELSE b[i - m]
  BY ConcatProperties
<1> HIDE DEF c
<1>2. Ops(c) = Ops(a) \cup Ops(b)
  <2>1. ASSUME NEW x \in Ops(c) PROVE x \in Ops(a) \cup Ops(b)
    <3>1. PICK i \in 1..(m + n) : x = c[i]
      BY <1>1, <2>1 DEF Ops
    <3>2. CASE i <= m
      BY <1>1, <3>1, <3>2 DEF Ops
    <3>3. CASE i > m
      <4>1. i - m \in 1..n /\ x = b[i - m]
        BY <1>1, <3>1, <3>3
      <4>. QED
        BY <4>1 DEF Ops
    <3>. QED
      BY <1>1, <3>2, <3>3
  <2>2. ASSUME NEW x \in Ops(a) PROVE x \in Ops(c)
    <3>1. PICK i \in 1..m : x = a[i]
      BY <2>2 DEF Ops
    <3>2. i \in 1..Len(c) /\ x = c[i]
      BY <1>1, <3>1
    <3>. QED
      BY <3>2 DEF Ops
  <2>3. ASSUME NEW x \in Ops(b) PROVE x \in Ops(c)
    <3>1. PICK i \in 1..n : x = b[i]
      BY <2>3 DEF Ops
    <3>2. i + m \in 1..Len(c) /\ i + m \in 1..(m + n) /\ ~(i + m <= m) /\ (i + m) - m = i
      BY <1>1, <3>1
    <3>3. x = c[i + m]
      BY <1>1, <3>1, <3>2
    <3>. QED
      BY <3>2, <3>3 DEF Ops
  <2>. QED
    BY <2>1, <2>2, <2>3
<1>3. ASSUME Ordered(a), Ordered(b), \A x \in Ops(a), y \in Ops(b) : MayPrecede(x, y)
      PROVE  Ordered(c)
  <2> SUFFICES ASSUME NEW i \in 1..(m + n), NEW j \in 1..(m + n), i < j PROVE MayPrecede(c[i], c[j])
    BY <1>1 DEF Ordered
  <2>1. CASE j <= m
    <3>1. i \in 1..m /\ j \in 1..m /\ c[i] = a[i] /\ c[j] = a[j]
      BY <1>1, <2>1
    <3>. QED
      BY <1>3, <3>1 DEF Ordered
  <2>2. CASE i > m
    <3>1. i - m \in 1..n /\ j - m \in 1..n /\ c[i] = b[i - m] /\ c[j] = b[j - m] /\ i - m < j - m
      BY <1>1, <2>2
    <3>. QED
      BY <1>3, <3>1 DEF Ordered
  <2>3. CASE i <= m /\ j > m
    <3>1. i \in 1..m /\ j - m \in 1..n /\ c[i] = a[i] /\ c[j] = b[j - m]
      BY <1>1, <2>3
    <3>. QED
      BY <1>3, <3>1 DEF Ops
  <2>. QED
    BY <1>1, <2>1, <2>2, <2>3
<1>. QED
  BY <1>2, <1>3 DEF c

LEMMA OrderedSingle ==
    ASSUME NEW e
    PROVE  Ops(<<e>>) = {e} /\ Ordered(<<e>>)
<1>1. Len(<<e>>) = 1 /\ <<e>>[1] = e /\ 1..1 = {1}
  OBVIOUS
<1>. QED
  BY <1>1 DEF Ops, Ordered

(* Leaving operations out keeps the order.                                  *)
LEMMA OrderedFilter ==
    ASSUME NEW A, NEW s \in Seq(A), NEW t, NEW F, Filters(s, t, F), Ordered(s)
    PROVE  Ordered(F[Len(s)]) /\ Ops(F[Len(s)]) \subseteq {o \in Ops(s) : o[2] # t}
<1> DEFINE n == Len(s)
           Fit(i) == /\ Ordered(F[i])
                      /\ \A x \in Ops(F[i]) : \E k \in 1..i : x = s[k] /\ s[k][2] # t
           S == {i \in 0..n : Fit(i)}
<1>0. n \in Nat
  OBVIOUS
<1>1. \A i \in 0..n : F[i] = Kept(s, t, F, i)
  BY DEF Filters
<1>2. 0 \in S
  <2>1. F[0] = <<>>
    BY <1>0, <1>1 DEF Kept
  <2>. QED
    BY <1>0, <2>1 DEF Ordered, Ops
<1>3. ASSUME NEW i \in 0..n, i < n, i \in S
      PROVE  i + 1 \in S
  <2>1. i + 1 \in 1..n /\ (i + 1) - 1 = i /\ i + 1 # 0 /\ i + 1 \in 0..n /\ i \in Nat
    BY <1>0, <1>3
  <2>2. F[i + 1] = IF s[i + 1][2] # t THEN Append(F[i], s[i + 1]) ELSE F[i]
    BY <1>1, <2>1 DEF Kept
  <2>3. Fit(i)
    BY <1>3
  <2>4. CASE s[i + 1][2] = t
    BY <2>1, <2>2, <2>3, <2>4
  <2>5. CASE s[i + 1][2] # t
    <3> DEFINE f == F[i]
               e == s[i + 1]
    <3>1. f \in Seq(A) /\ e \in A
      <4>1. f \in Seq({a \in A : a[2] # t})
        BY <2>1, FilterKeeps
      <4>. QED
        BY <2>1, <4>1
    <3>2. F[i + 1] = Append(f, e)
      BY <2>2, <2>5
    <3>3. \A x \in Ops(f) : \E k \in 1..i : x = s[k] /\ s[k][2] # t
      BY <2>3
    <3>4. \A x \in Ops(f) : MayPrecede(x, e)
      BY <2>1, <3>3 DEF Ordered
    <3>5. Ordered(f)
      BY <2>3
    <3>6. e[2] # t
      BY <2>5
    <3> HIDE DEF f, e
    <3>7. <<e>> \in Seq(A) /\ Ops(<<e>>) = {e} /\ Ordered(<<e>>) /\ Append(f, e) = f \o <<e>>
      <4>1. <<e>> \in Seq(A)
        BY <3>1
      <4>. QED
        BY <3>1, <4>1, OrderedSingle, AppendIsConcat
    <3>8. Ops(f \o <<e>>) = Ops(f) \cup {e} /\ Ordered(f \o <<e>>)
      <4> DEFINE g == <<e>>
      <4>1. g \in Seq(A) /\ Ops(g) = {e} /\ Ordered(g)
        BY <3>7
      <4> HIDE DEF g
      <4>2. \A x \in Ops(f), y \in Ops(g) : MayPrecede(x, y)
        BY <3>4, <4>1
      <4>3. Ops(f \o g) = Ops(f) \cup Ops(g) /\ Ordered(f \o g)
        BY <3>1, <3>5, <4>1, <4>2, OrderedJoin
      <4>. QED
        BY <4>1, <4>3 DEF g
    <3>9. Fit(i + 1)
      BY <2>1, <3>2, <3>3, <3>6, <3>7, <3>8 DEF e
    <3>. QED
      BY <2>1, <3>9
  <2>. QED
    BY <2>4, <2>5
<1> HIDE DEF S
<1>4. n \in S
  <2>1. \A k \in 0..n : k < n /\ k \in S => k + 1 \in S
    BY <1>3
  <2> HIDE DEF n
  <2>2. \A k \in 0..n : k \in S
    BY <1>0, <1>2, <2>1, UpTo
  <2>. QED
    BY <1>0, <2>2
<1>5. Fit(n)
  BY <1>4 DEF S
<1>. QED
  BY <1>5 DEF Ops

(* A batch of tools is in order.                                            *)
LEMMA OrderedEmpty == Ops(<<>>) = {} /\ Ordered(<<>>)
BY DEF Ops, Ordered

Tidy(p, X) == p \in Seq(AnyOp) /\ Ordered(p) /\ Ops(p) = X

LEMMA TidyOne ==
    ASSUME NEW o \in AnyOp
    PROVE  Tidy(<<o>>, {o})
<1>1. <<o>> \in Seq(AnyOp)
  OBVIOUS
<1>. QED
  BY <1>1, OrderedSingle DEF Tidy

LEMMA TidyJoin ==
    ASSUME NEW a, NEW b, NEW X, NEW Y, Tidy(a, X), Tidy(b, Y), \A x \in X, y \in Y : MayPrecede(x, y)
    PROVE  Tidy(a \o b, X \cup Y)
<1>1. a \in Seq(AnyOp) /\ b \in Seq(AnyOp) /\ a \o b \in Seq(AnyOp)
  BY DEF Tidy
<1>. QED
  BY <1>1, OrderedJoin DEF Tidy

LEMMA TidyTwo ==
    ASSUME NEW a \in AnyOp, NEW b \in AnyOp, MayPrecede(a, b)
    PROVE  Tidy(<<a, b>>, {a, b})
<1>1. <<a, b>> \in Seq(AnyOp)
  OBVIOUS
<1>2. Len(<<a, b>>) = 2 /\ <<a, b>>[1] = a /\ <<a, b>>[2] = b /\ 1..2 = {1, 2}
  OBVIOUS
<1>. QED
  BY <1>1, <1>2 DEF Tidy, Ops, Ordered

LEMMA TidyFour ==
    ASSUME NEW a \in AnyOp, NEW b \in AnyOp, NEW c \in AnyOp, NEW d \in AnyOp,
           MayPrecede(a, b), MayPrecede(a, c), MayPrecede(a, d), MayPrecede(b, c), MayPrecede(b, d), MayPrecede(c, d)
    PROVE  Tidy(<<a, b, c, d>>, {a, b, c, d})
<1> DEFINE s == <<a, b, c, d>>
<1>1. s \in Seq(AnyOp)
  OBVIOUS
<1>2. Len(s) = 4 /\ s[1] = a /\ s[2] = b /\ s[3] = c /\ s[4] = d /\ 1..4 = {1, 2, 3, 4}
  OBVIOUS
<1> HIDE DEF s
<1>3. Ops(s) = {a, b, c, d}
  BY <1>2 DEF Ops
<1>4. Ordered(s)
  BY <1>2 DEF Ordered
<1>. QED
  BY <1>1, <1>3, <1>4 DEF Tidy, s

LEMMA TidyParts ==
    /\ \A t \in Tools : Tidy(End(t), {Op("end", t)})
    /\ Tidy(AskOps(Native), {Op("ask", Native), Op("wait", Native)})
    /\ Tidy(RunOps(Native), {Op("exec", Native)})
    /\ Tidy(RunOps(Child), {Op("step", Child), Op("child-id", Child), Op("delegate", Child), Op("stepped", Child)})
    /\ Tidy(RoundEnd, {Op("results", None), Op("cb", None), Op("save", None), Op("next", None)})
    /\ \A t \in Tools : Tidy(<<Op("auth", t)>>, {Op("auth", t)}) /\ Tidy(<<Op("start", t)>>, {Op("start", t)})
    /\ Tidy(<<Op("start", Native), Op("start", Child)>>, {Op("start", Native), Op("start", Child)})
<1>0. Native \in Tools /\ Child \in Tools
  BY DEF Tools
<1>1. \A t \in Tools : /\ Op("end", t) \in AnyOp /\ Op("auth", t) \in AnyOp /\ Op("start", t) \in AnyOp
                       /\ Op("ask", t) \in AnyOp /\ Op("wait", t) \in AnyOp /\ Op("exec", t) \in AnyOp
                       /\ Op("step", t) \in AnyOp /\ Op("child-id", t) \in AnyOp /\ Op("delegate", t) \in AnyOp
                       /\ Op("stepped", t) \in AnyOp
  BY ToolPiece
<1>2. /\ Op("results", None) \in AnyOp /\ Op("cb", None) \in AnyOp /\ Op("save", None) \in AnyOp /\ Op("next", None) \in AnyOp
  BY DEF AnyOp, LoopOp, Op
<1>3. \A t \in Tools : /\ Tidy(End(t), {Op("end", t)}) /\ Tidy(<<Op("auth", t)>>, {Op("auth", t)})
                       /\ Tidy(<<Op("start", t)>>, {Op("start", t)})
  BY <1>1, TidyOne DEF End
<1>4. Tidy(RunOps(Native), {Op("exec", Native)})
  BY <1>0, <1>1, TidyOne DEF RunOps
<1> USE DEF MayPrecede, EventKinds, Op, Native, Child, None
<1>5. MayPrecede(Op("ask", Native), Op("wait", Native)) /\ MayPrecede(Op("start", Native), Op("start", Child))
  OBVIOUS
<1>6. /\ MayPrecede(Op("step", Child), Op("child-id", Child)) /\ MayPrecede(Op("step", Child), Op("delegate", Child))
      /\ MayPrecede(Op("step", Child), Op("stepped", Child)) /\ MayPrecede(Op("child-id", Child), Op("delegate", Child))
      /\ MayPrecede(Op("child-id", Child), Op("stepped", Child)) /\ MayPrecede(Op("delegate", Child), Op("stepped", Child))
  OBVIOUS
<1>7. /\ MayPrecede(Op("results", None), Op("cb", None)) /\ MayPrecede(Op("results", None), Op("save", None))
      /\ MayPrecede(Op("results", None), Op("next", None)) /\ MayPrecede(Op("cb", None), Op("save", None))
      /\ MayPrecede(Op("cb", None), Op("next", None)) /\ MayPrecede(Op("save", None), Op("next", None))
  OBVIOUS
<1> HIDE DEF MayPrecede, EventKinds, Op, Native, Child, None
<1>8. Child # Native
  BY DEF Child, Native
<1>9. Tidy(AskOps(Native), {Op("ask", Native), Op("wait", Native)})
  BY <1>0, <1>1, <1>5, TidyTwo DEF AskOps
<1>10. Tidy(<<Op("start", Native), Op("start", Child)>>, {Op("start", Native), Op("start", Child)})
  BY <1>0, <1>1, <1>5, TidyTwo
<1>11. Tidy(RunOps(Child), {Op("step", Child), Op("child-id", Child), Op("delegate", Child), Op("stepped", Child)})
  BY <1>0, <1>1, <1>6, <1>8, TidyFour DEF RunOps
<1>12. Tidy(RoundEnd, {Op("results", None), Op("cb", None), Op("save", None), Op("next", None)})
  BY <1>2, <1>7, TidyFour DEF RoundEnd
<1>. QED
  BY <1>3, <1>4, <1>9, <1>10, <1>11, <1>12

(* The operations of an iteration before its tools; every operation of a   *)
(* tool is begun in the batch itself.                                       *)
PreKinds == {"load", "prefetch", "now", "llm", "llm-failure", "llm-fallback", "max-iter"}
Precede(X, Y) == \A x \in X, y \in Y : MayPrecede(x, y)
Begun(X) == \A o \in X : o[1] \notin PreKinds /\ (o \in ToolOp => Op("start", o[2]) \in X)
BatchPlan(p) == p \in Seq(AnyOp) /\ Ordered(p) /\ Begun(Ops(p))

LEMMA TidyNext ==
    ASSUME NEW a, NEW b, NEW X, NEW Y, Tidy(a, X), Tidy(b, Y), Precede(X, Y)
    PROVE  Tidy(a \o b, X \cup Y)
BY TidyJoin DEF Precede

LEMMA PrecedeUnion ==
    ASSUME NEW X, NEW Y, NEW Z, Precede(X, Z), Precede(Y, Z)
    PROVE  Precede(X \cup Y, Z)
BY DEF Precede

LEMMA TidyParallel ==
    ASSUME NEW l
    PROVE  BatchPlan(executeToolsParallel(l) \o RoundEnd)
<1> DEFINE N == Skipped(l, Native)
           C == Skipped(l, Child)
           S0 == {Op("start", Native), Op("start", Child)}
           S1 == IF N THEN {Op("end", Native)} ELSE {}
           S2 == IF C THEN {Op("end", Child)} ELSE {}
           S3 == IF N THEN {} ELSE {Op("auth", Native)}
           S4 == IF C THEN {} ELSE {Op("auth", Child)}
           W == {Op("ask", Native), Op("wait", Native)} \cup {Op("exec", Native)} \cup {Op("end", Native)}
           V == {Op("step", Child), Op("child-id", Child), Op("delegate", Child), Op("stepped", Child)} \cup {Op("end", Child)}
           S5 == IF N THEN {} ELSE W
           S6 == IF C THEN {} ELSE V
           S7 == {Op("results", None), Op("cb", None), Op("save", None), Op("next", None)}
<1>1. /\ Precede(S0, S1) /\ Precede(S0, S2) /\ Precede(S0, S3) /\ Precede(S0, S4)
  BY DEF Precede, MayPrecede, EventKinds, Op, Native, Child, ToolOp
<1>2. /\ Precede(S0, S5) /\ Precede(S0, S6) /\ Precede(S0, S7)
  BY DEF Precede, MayPrecede, EventKinds, Op, Native, Child, ToolOp, None
<1>3. /\ Precede(S1, S2) /\ Precede(S1, S3) /\ Precede(S1, S4)
  BY DEF Precede, MayPrecede, EventKinds, Op, Native, Child, ToolOp
<1>4. /\ Precede(S1, S5) /\ Precede(S1, S6) /\ Precede(S1, S7)
  BY DEF Precede, MayPrecede, EventKinds, Op, Native, Child, ToolOp, None
<1>5. /\ Precede(S2, S3) /\ Precede(S2, S4) /\ Precede(S2, S5) /\ Precede(S2, S6) /\ Precede(S2, S7)
  BY DEF Precede, MayPrecede, EventKinds, Op, Native, Child, ToolOp, None
<1>6. /\ Precede(S3, S4) /\ Precede(S3, S5) /\ Precede(S3, S6) /\ Precede(S3, S7)
  BY DEF Precede, MayPrecede, EventKinds, Op, Native, Child, ToolOp, None
<1>7. /\ Precede(S4, S5) /\ Precede(S4, S6) /\ Precede(S4, S7)
  BY DEF Precede, MayPrecede, EventKinds, Op, Native, Child, ToolOp, None
<1>8. Precede(S5, S6) /\ Precede(S5, S7)
  BY DEF Precede, MayPrecede, EventKinds, Op, Native, Child, ToolOp, None
<1>9. Precede(S6, S7)
  BY DEF Precede, MayPrecede, EventKinds, Op, Native, Child, ToolOp, None
<1>10. Tidy(<<>>, {})
  BY OrderedEmpty DEF Tidy
<1>11. Native \in Tools /\ Child \in Tools
  BY DEF Tools
<1> DEFINE a1 == IF N THEN End(Native) ELSE <<>>
           a2 == IF C THEN End(Child) ELSE <<>>
           a3 == IF N THEN <<>> ELSE <<Op("auth", Native)>>
           a4 == IF C THEN <<>> ELSE <<Op("auth", Child)>>
           a5 == IF N THEN <<>> ELSE AskOps(Native) \o RunOps(Native) \o End(Native)
           a6 == IF C THEN <<>> ELSE RunOps(Child) \o End(Child)
           s == <<Op("start", Native), Op("start", Child)>>
<1>12. Tidy(s, S0) /\ Tidy(a1, S1) /\ Tidy(a2, S2) /\ Tidy(a3, S3) /\ Tidy(a4, S4) /\ Tidy(RoundEnd, S7)
  BY <1>10, <1>11, TidyParts
<1>13. Tidy(a5, S5)
  <2>1. /\ Precede({Op("ask", Native), Op("wait", Native)}, {Op("exec", Native)})
        /\ Precede({Op("ask", Native), Op("wait", Native)} \cup {Op("exec", Native)}, {Op("end", Native)})
    BY DEF Precede, MayPrecede, EventKinds, Op, Native, Child, ToolOp
  <2>2. Tidy(AskOps(Native) \o RunOps(Native), {Op("ask", Native), Op("wait", Native)} \cup {Op("exec", Native)})
    BY <2>1, TidyParts, TidyNext
  <2>3. Tidy(AskOps(Native) \o RunOps(Native) \o End(Native), W)
    BY <1>11, <2>1, <2>2, TidyParts, TidyNext
  <2>. QED
    BY <1>10, <2>3
<1>14. Tidy(a6, S6)
  <2>1. Precede({Op("step", Child), Op("child-id", Child), Op("delegate", Child), Op("stepped", Child)}, {Op("end", Child)})
    BY DEF Precede, MayPrecede, EventKinds, Op, Native, Child, ToolOp
  <2>2. Tidy(RunOps(Child) \o End(Child), V)
    BY <1>11, <2>1, TidyParts, TidyNext
  <2>. QED
    BY <1>10, <2>2
<1>15. executeToolsParallel(l) \o RoundEnd = s \o a1 \o a2 \o a3 \o a4 \o a5 \o a6 \o RoundEnd
  BY DEF executeToolsParallel
<1> DEFINE X == S0 \cup S1 \cup S2 \cup S3 \cup S4 \cup S5 \cup S6 \cup S7
<1>16. Begun(X)
  <2>1. \A o \in S7 : o \notin ToolOp /\ o[1] \notin PreKinds
    BY DEF PreKinds, Op, None, ToolOp, Tools, Native, Child
  <2>2. \A o \in S0 \cup S1 \cup S2 \cup S3 \cup S4 \cup S5 \cup S6 : o[1] \notin PreKinds /\ o[2] \in Tools
    BY DEF PreKinds, Op, Tools
  <2>3. \A t \in Tools : Op("start", t) \in S0
    BY DEF Tools
  <2> HIDE DEF S0, S1, S2, S3, S4, S5, S6, S7
  <2>. QED
    BY <2>1, <2>2, <2>3 DEF Begun
<1> HIDE DEF S0, S1, S2, S3, S4, S5, S6, S7, a1, a2, a3, a4, a5, a6, s
<1>17. Tidy(s \o a1, S0 \cup S1)
  BY <1>1, <1>12, TidyNext
<1>18. Tidy(s \o a1 \o a2, S0 \cup S1 \cup S2)
  BY <1>1, <1>3, <1>12, <1>17, TidyNext, PrecedeUnion
<1>19. Tidy(s \o a1 \o a2 \o a3, S0 \cup S1 \cup S2 \cup S3)
  BY <1>1, <1>3, <1>5, <1>12, <1>18, TidyNext, PrecedeUnion
<1>20. Tidy(s \o a1 \o a2 \o a3 \o a4, S0 \cup S1 \cup S2 \cup S3 \cup S4)
  BY <1>1, <1>3, <1>5, <1>6, <1>12, <1>19, TidyNext, PrecedeUnion
<1>21. Tidy(s \o a1 \o a2 \o a3 \o a4 \o a5, S0 \cup S1 \cup S2 \cup S3 \cup S4 \cup S5)
  BY <1>2, <1>4, <1>5, <1>6, <1>7, <1>13, <1>20, TidyNext, PrecedeUnion
<1>22. Tidy(s \o a1 \o a2 \o a3 \o a4 \o a5 \o a6, S0 \cup S1 \cup S2 \cup S3 \cup S4 \cup S5 \cup S6)
  BY <1>2, <1>4, <1>5, <1>6, <1>7, <1>8, <1>14, <1>21, TidyNext, PrecedeUnion
<1>23. Tidy(s \o a1 \o a2 \o a3 \o a4 \o a5 \o a6 \o RoundEnd, X)
  BY <1>2, <1>4, <1>5, <1>6, <1>7, <1>8, <1>9, <1>12, <1>22, TidyNext, PrecedeUnion
<1>. QED
  BY <1>15, <1>16, <1>23 DEF Tidy, BatchPlan

LEMMA TidySingle ==
    ASSUME NEW l
    PROVE  BatchPlan(executeSingleTool(l, Native) \o RoundEnd)
<1> DEFINE N == Skipped(l, Native)
           S0 == {Op("start", Native)}
           A == {Op("auth", Native)}
           B == {Op("ask", Native), Op("wait", Native)}
           E == {Op("exec", Native)}
           S1 == IF N THEN {} ELSE A \cup B \cup E
           S2 == {Op("end", Native)}
           S3 == {Op("results", None), Op("cb", None), Op("save", None), Op("next", None)}
           a == IF N THEN <<>> ELSE <<Op("auth", Native)>> \o AskOps(Native) \o RunOps(Native)
           s == <<Op("start", Native)>>
<1>0. Native \in Tools
  BY DEF Tools
<1>1. /\ Precede(S0, S1) /\ Precede(S0, S2) /\ Precede(S0, S3) /\ Precede(S1, S2) /\ Precede(S1, S3) /\ Precede(S2, S3)
      /\ Precede(A, B) /\ Precede(A \cup B, E)
  BY DEF Precede, MayPrecede, EventKinds, Op, Native, Child, ToolOp, None
<1>2. Tidy(<<>>, {})
  BY OrderedEmpty DEF Tidy
<1>3. Tidy(a, S1)
  <2>1. Tidy(<<Op("auth", Native)>> \o AskOps(Native), A \cup B)
    BY <1>0, <1>1, TidyParts, TidyNext
  <2>2. Tidy(<<Op("auth", Native)>> \o AskOps(Native) \o RunOps(Native), A \cup B \cup E)
    BY <1>1, <2>1, TidyParts, TidyNext
  <2>. QED
    BY <1>2, <2>2
<1>4. Tidy(s, S0) /\ Tidy(End(Native), S2) /\ Tidy(RoundEnd, S3)
  BY <1>0, TidyParts
<1>5. executeSingleTool(l, Native) \o RoundEnd = s \o a \o End(Native) \o RoundEnd
  BY DEF executeSingleTool
<1>6. Begun(S0 \cup S1 \cup S2 \cup S3)
  <2>1. \A o \in S3 : o \notin ToolOp /\ o[1] \notin PreKinds
    BY DEF PreKinds, Op, None, ToolOp, Tools, Native, Child
  <2>2. \A o \in S0 \cup S1 \cup S2 : o[1] \notin PreKinds /\ o[2] = Native
    BY DEF PreKinds, Op
  <2>3. Op("start", Native) \in S0
    OBVIOUS
  <2> HIDE DEF S0, S1, S2, S3
  <2>. QED
    BY <2>1, <2>2, <2>3 DEF Begun
<1> HIDE DEF S0, S1, S2, S3, a, s
<1>7. Tidy(s \o a, S0 \cup S1)
  BY <1>1, <1>3, <1>4, TidyNext
<1>8. Tidy(s \o a \o End(Native), S0 \cup S1 \cup S2)
  BY <1>1, <1>4, <1>7, TidyNext, PrecedeUnion
<1>9. Tidy(s \o a \o End(Native) \o RoundEnd, S0 \cup S1 \cup S2 \cup S3)
  BY <1>1, <1>4, <1>8, TidyNext, PrecedeUnion
<1>. QED
  BY <1>5, <1>6, <1>9 DEF Tidy, BatchPlan

-----------------------------------------------------------------------------
(* A plan p of iteration n, after the operations P of the journal: the      *)
(* events it holds are new, a tool it holds an operation of has no end yet  *)
(* and has its start in P or in p, and before the tools of an iteration     *)
(* every event behind is of an earlier one. An operation of the journal is  *)
(* a kind, a tool and an iteration (Past).                                  *)
Event(k, t, n) == <<k, t, n>>
Orderly(p, n, P) ==
    /\ Ordered(p)
    /\ \A o \in Ops(p) :
          /\ o[1] \in EventKinds => Event(o[1], o[2], n) \notin P
          /\ o \in ToolOp =>
                /\ Event("end", o[2], n) \notin P
                /\ o[1] = "start" \/ Event("start", o[2], n) \in P \/ Op("start", o[2]) \in Ops(p)
          /\ o[1] \in PreKinds => Ops(p) \cap ToolOp = {}
    /\ \A x \in P : x[1] \in EventKinds => x[3] <= n /\ ((\E o \in Ops(p) : o[1] \in PreKinds) => x[3] < n)
Past(P) == \A x \in P : x[3] \in Nat /\ x = Event(x[1], x[2], x[3])

(* An operation that is no event changes nothing.                           *)
LEMMA OrderlyPast ==
    ASSUME NEW p, NEW n, NEW P, NEW x, Orderly(p, n, P), x[1] \notin EventKinds
    PROVE  Orderly(p, n, P \cup {x})
<1>1. \A k \in EventKinds : \A t : Event(k, t, n) # x
  BY DEF Event
<1>2. "end" \in EventKinds /\ "start" \in EventKinds
  BY DEF EventKinds
<1> HIDE DEF EventKinds
<1>. QED
  BY <1>1, <1>2 DEF Orderly

(* A plan without tools.                                                    *)
LEMMA OrderlyLoop ==
    ASSUME NEW p, NEW q, NEW n, NEW P, Orderly(p, n, P), Ordered(q), Ops(q) \cap ToolOp = {},
           \A o \in Ops(q) : o[1] \notin EventKinds,
           (\E o \in Ops(q) : o[1] \in PreKinds) => (\E o \in Ops(p) : o[1] \in PreKinds)
    PROVE  Orderly(q, n, P)
BY DEF Orderly

LEMMA OrderlyBatch ==
    ASSUME NEW p, NEW q, NEW n \in Nat, NEW P, Past(P), Orderly(p, n, P), BatchPlan(q), \E o \in Ops(p) : o[1] \in PreKinds
    PROVE  Orderly(q, n, P)
<1>1. \A x \in P : x[1] \in EventKinds => x[3] < n /\ x[3] <= n /\ x[3] # n
  BY DEF Orderly, Past
<1>2. \A k \in EventKinds : \A t : Event(k, t, n) \notin P
  BY <1>1 DEF Event
<1>3. "end" \in EventKinds /\ "start" \in EventKinds
  BY DEF EventKinds
<1> HIDE DEF EventKinds, PreKinds
<1>. QED
  BY <1>1, <1>2, <1>3 DEF Orderly, BatchPlan, Begun

LEMMA OrderlyTail ==
    ASSUME NEW A, NEW p \in Seq(A), p # <<>>, NEW n, NEW P, Orderly(p, n, P), Head(p)[1] \notin EventKinds
    PROVE  Orderly(Tail(p), n, P)
<1> DEFINE hd == Head(p)
           q == Tail(p)
<1>1. Ops(p) = {hd} \cup Ops(q) /\ Ordered(q)
  BY OrderedTail DEF Orderly
<1>2. hd[1] # "start" /\ \A t : Op("start", t)[1] = "start"
  BY DEF EventKinds, Op
<1>3. \A t : Op("start", t) \in Ops(p) => Op("start", t) \in Ops(q)
  BY <1>1, <1>2
<1> HIDE DEF hd, q, EventKinds, PreKinds
<1>4. Orderly(q, n, P)
  BY <1>1, <1>3 DEF Orderly
<1>. QED
  BY <1>4 DEF q

LEMMA OrderlyEvent ==
    ASSUME NEW p \in Seq(AnyOp), p # <<>>, NEW n \in Nat, NEW P, Orderly(p, n, P), Head(p)[1] \in EventKinds,
           Head(p) \in ToolOp
    PROVE  Orderly(Tail(p), n, P \cup {Event(Head(p)[1], Head(p)[2], n)})
<1> DEFINE hd == Head(p)
           q == Tail(p)
           e == Event(hd[1], hd[2], n)
           R == P \cup {e}
<1>0. q \in Seq(AnyOp) /\ hd \in ToolOp /\ hd[1] \in EventKinds
  OBVIOUS
<1>1. Ops(p) = {hd} \cup Ops(q) /\ Ordered(q) /\ \A y \in Ops(q) : MayPrecede(hd, y)
  BY OrderedTail DEF Orderly
<1>2. \A o \in Ops(q) : o \in AnyOp
  <2> HIDE DEF q
  <2>. QED
    BY <1>0 DEF Ops
<1>3. hd = <<hd[1], hd[2]>> /\ \A o \in Ops(q) : o = <<o[1], o[2]>>
  <2>1. hd \in AnyOp
    BY <1>0 DEF AnyOp
  <2>. QED
    BY <1>2, <2>1, OpParts
<1> HIDE DEF hd, q
<1>4. \A k, t : Event(k, t, n) = e => k = hd[1] /\ t = hd[2]
  BY DEF Event
<1>5. e[1] = hd[1] /\ e[3] = n
  BY DEF Event
<1>6. \A o \in Ops(q) : o # hd /\ (hd[1] = "end" => o[2] # hd[2])
  BY <1>0, <1>1 DEF MayPrecede
<1> HIDE DEF e
<1>7. \A o \in Ops(q) : o[1] \in EventKinds => Event(o[1], o[2], n) \notin R
  BY <1>1, <1>3, <1>4, <1>6 DEF Orderly
<1>8. \A o \in Ops(q) : o \in ToolOp => Event("end", o[2], n) \notin R
  BY <1>1, <1>4, <1>6 DEF Orderly
<1>9. ASSUME NEW o \in Ops(q), o \in ToolOp
      PROVE  o[1] = "start" \/ Event("start", o[2], n) \in R \/ Op("start", o[2]) \in Ops(q)
  <2>1. o[1] = "start" \/ Event("start", o[2], n) \in P \/ Op("start", o[2]) \in Ops(p)
    BY <1>1, <1>9 DEF Orderly
  <2>2. Op("start", o[2]) = hd => e = Event("start", o[2], n)
    BY <1>3 DEF Op, e
  <2>. QED
    BY <1>1, <2>1, <2>2
<1>10. \A o \in Ops(q) : o[1] \notin PreKinds
  BY <1>0, <1>1 DEF Orderly
<1>11. \A x \in R : x[1] \in EventKinds => x[3] <= n
  BY <1>5 DEF Orderly
<1>12. Orderly(q, n, R)
  BY <1>1, <1>7, <1>8, <1>9, <1>10, <1>11 DEF Orderly
<1>. QED
  BY <1>12 DEF q, hd, e

(* A plan with fewer operations, or more of a tool that is begun.           *)
LEMMA OrderlySub ==
    ASSUME NEW p, NEW q, NEW n, NEW P, NEW hd \in Ops(p), hd \in ToolOp, Orderly(p, n, P), Ordered(q),
           \A o \in Ops(p) : o[1] # "start",
           \A o \in Ops(q) : o \in Ops(p) \/ (o \in ToolOp /\ o[2] = hd[2] /\ (o[1] \in EventKinds => o[1] = "end"))
    PROVE  Orderly(q, n, P)
<1>1. \A o \in Ops(p) : o[1] \notin PreKinds
  BY DEF Orderly
<1>2. \A o \in ToolOp : o[1] \notin PreKinds
  BY DEF ToolOp, PreKinds
<1>3. \A t : Op("start", t) \notin Ops(p)
  BY DEF Op
<1>4. \A o \in Ops(q) : o[1] \notin PreKinds
  BY <1>1, <1>2
<1>5. \A o \in Ops(p) : o \in ToolOp => Event("start", o[2], n) \in P /\ Event("end", o[2], n) \notin P
  BY <1>3 DEF Orderly
<1>6. \A o \in Ops(q) : o \in ToolOp => Event("start", o[2], n) \in P /\ Event("end", o[2], n) \notin P
  BY <1>5
<1>7. \A o \in Ops(q) : o[1] \in EventKinds => Event(o[1], o[2], n) \notin P
  BY <1>5 DEF Orderly
<1>8. \A x \in P : x[1] \in EventKinds => x[3] <= n
  BY DEF Orderly
<1>. QED
  BY <1>4, <1>6, <1>7, <1>8 DEF Orderly

LEMMA OrderlyAsking ==
    ASSUME NEW p \in Plan, NEW n, NEW P, Orderly(p, n, P)
    PROVE  Orderly(Asking(p), n, P)
<1> DEFINE a == Op("budget-ask", None)
           w == Op("budget-wait", None)
           A == AnyOp \cup {a, w}
           s == <<a, w>>
<1>0. a[1] = "budget-ask" /\ w[1] = "budget-wait" /\ a \notin ToolOp /\ w \notin ToolOp
  BY DEF Op, ToolOp
<1>1. p \in Seq(A)
  <2>1. p \in Seq(AnyOp)
    BY DEF Plan
  <2> HIDE DEF a, w
  <2>. QED
    BY <2>1
<1> HIDE DEF a, w
<1>2. s \in Seq(A) /\ Len(s) = 2 /\ s[1] = a /\ s[2] = w /\ 1..2 = {1, 2}
  OBVIOUS
<1> HIDE DEF s
<1>3. Ops(s) = {a, w}
  BY <1>2 DEF Ops
<1>4. \A y : MayPrecede(a, y) /\ MayPrecede(w, y)
  BY <1>0 DEF MayPrecede, EventKinds
<1>5. Ordered(s)
  BY <1>2, <1>4 DEF Ordered
<1>6. Ops(s \o p) = Ops(p) \cup {a, w} /\ Ordered(s \o p)
  BY <1>1, <1>2, <1>3, <1>4, <1>5, OrderedJoin DEF Orderly
<1>7. a[1] \notin EventKinds /\ w[1] \notin EventKinds /\ a[1] \notin PreKinds /\ w[1] \notin PreKinds
  BY <1>0 DEF EventKinds, PreKinds
<1> DEFINE q == s \o p
<1> HIDE DEF q, EventKinds, PreKinds
<1>8. Ops(q) = Ops(p) \cup {a, w} /\ Ordered(q)
  BY <1>6 DEF q
<1>9. Orderly(q, n, P)
  BY <1>0, <1>7, <1>8 DEF Orderly
<1>. QED
  BY <1>9 DEF q, s, a, w, Asking

(* The locals l after the operations P. Becomes: m has the plan q and the   *)
(* iteration of l.                                                          *)
Good(l, P) == DOMAIN l = Fields /\ l.iter \in Nat /\ l.plan \in Plans /\ Orderly(l.plan, l.iter, P)
Becomes(l, m, q) == DOMAIN m = Fields /\ m.iter = l.iter /\ m.plan = q

LEMMA BecomesGood ==
    ASSUME NEW l, NEW m, NEW q \in Plan, NEW P, Good(l, P), Becomes(l, m, q), Orderly(q, l.iter, P)
    PROVE  Good(m, P)
BY DEF Good, Becomes, Plans

LEMMA BecomesPlan ==
    ASSUME NEW l, NEW q, DOMAIN l = Fields
    PROVE  Becomes(l, [l EXCEPT !.plan = q], q)
BY Replanned DEF Becomes, Fields

(* The head of a plan, and what comes after it.                             *)
LEMMA GoodTail ==
    ASSUME NEW l, NEW P, Good(l, P), l.plan \in Plan, l.plan # <<>>, OpKind(l) \notin EventKinds
    PROVE  Tail(l.plan) \in Plan /\ Orderly(Tail(l.plan), l.iter, P)
<1>1. l.plan \in Seq(AnyOp)
  BY DEF Plan
<1>2. Orderly(Tail(l.plan), l.iter, P)
  BY <1>1, OrderlyTail DEF Good, OpKind
<1>. QED
  BY <1>2, PlanTail

LEMMA GoodOps ==
    ASSUME NEW l, NEW P, Good(l, P), l.plan \in Plan, l.plan # <<>>
    PROVE  /\ Head(l.plan) \in Ops(l.plan) /\ Ops(l.plan) = {Head(l.plan)} \cup Ops(Tail(l.plan))
           /\ Ordered(l.plan) /\ Ordered(Tail(l.plan))
           /\ Head(l.plan) \in ToolOp /\ OpKind(l) # "start" => \A o \in Ops(l.plan) : o[1] # "start"
<1>1. l.plan \in Seq(AnyOp)
  BY DEF Plan
<1>2. /\ Ops(l.plan) = {Head(l.plan)} \cup Ops(Tail(l.plan)) /\ Ordered(l.plan)
      /\ Ordered(Tail(l.plan)) /\ \A y \in Ops(Tail(l.plan)) : MayPrecede(Head(l.plan), y)
  BY <1>1, OrderedTail DEF Good, Orderly
<1>. QED
  BY <1>2 DEF MayPrecede, OpKind

(* A plan of one operation of the loop.                                     *)
LEMMA GoodSingle ==
    ASSUME NEW l, NEW P, Good(l, P), NEW o \in LoopOp,
           o[1] \in PreKinds => \E x \in Ops(l.plan) : x[1] \in PreKinds
    PROVE  <<o>> \in Plan /\ Orderly(<<o>>, l.iter, P)
<1>1. <<o>> \in Plan
  BY SingleOp
<1>2. Ops(<<o>>) = {o} /\ Ordered(<<o>>)
  BY OrderedSingle
<1>3. o \notin ToolOp /\ o[1] \notin EventKinds
  BY OpParts DEF LoopOp, EventKinds
<1> DEFINE q == <<o>>
<1> HIDE DEF q
<1>4. Ops(q) = {o} /\ Ordered(q)
  BY <1>2 DEF q
<1>5. Orderly(q, l.iter, P)
  BY <1>3, <1>4, OrderlyLoop DEF Good
<1>. QED
  BY <1>1, <1>5 DEF q

LEMMA GoodFails ==
    ASSUME NEW l, NEW P, Good(l, P), NEW why \in {"error", "budget"}
    PROVE  Good(Fails(l, why), P)
<1>1. Op("fail", why) \in LoopOp /\ Op("fail", why)[1] \notin PreKinds
  BY DEF Op, LoopOp, PreKinds
<1> DEFINE q == <<Op("fail", why)>>
<1>2. q \in Plan /\ Orderly(q, l.iter, P)
  BY <1>1, GoodSingle
<1>3. Becomes(l, Fails(l, why), q)
  BY BecomesPlan DEF Fails, Good
<1> HIDE DEF q
<1>. QED
  BY <1>2, <1>3, BecomesGood

LEMMA GoodThen ==
    ASSUME NEW l, NEW P, Good(l, P), l.plan \in Plan, l.plan # <<>>, OpKind(l) \notin EventKinds
    PROVE  Good(Then(l), P) /\ Becomes(l, Then(l), Tail(l.plan))
<1>1. Becomes(l, Then(l), Tail(l.plan))
  BY BecomesPlan DEF Then, Good
<1>. QED
  BY <1>1, GoodTail, BecomesGood

(* A tool that is over, at its authorization or approval.                   *)
LEMMA GoodToolOver ==
    ASSUME NEW l, NEW P, Good(l, P), l.plan \in Plan, l.plan # <<>>, OpKind(l) \in {"auth", "wait"}
    PROVE  /\ \A failed \in BOOLEAN : Good(writeResult(l, Tool(l), failed), P)
           /\ Good(ToolFails(l, Tool(l)), P)
<1> DEFINE t == Tool(l)
           hd == Head(l.plan)
           s == Tail(l.plan)
           w == Without(l, t)
           e == End(t)
<1>1. t \in Tools /\ hd \in ToolOp /\ s \in Plan /\ s # <<>> /\ hd[2] = t
  BY HeadParts DEF Tool
<1>2. w \in Plan /\ w # <<>> /\ w \in Seq(AnyOp) /\ s \in Seq(AnyOp)
  BY <1>1, PlanWithout DEF Plan
<1>3. hd \in Ops(l.plan) /\ Ops(l.plan) = {hd} \cup Ops(s) /\ Ordered(s) /\ \A o \in Ops(l.plan) : o[1] # "start"
  BY <1>1, GoodOps
<1>4. Ordered(w) /\ Ops(w) \subseteq {o \in Ops(s) : o[2] # t}
  <2>1. PICK F : Filters(s, t, F) /\ w = F[Len(s)]
    BY <1>2, WithoutFilters
  <2>. QED
    BY <1>2, <1>3, <2>1, OrderedFilter
<1>5. e \in Seq(AnyOp) /\ Ops(e) = {Op("end", t)} /\ Ordered(e)
  BY <1>1, TidyParts DEF Tidy
<1>6. e \o w \in Plan
  BY <1>2, <1>5, PlanJoin
<1> HIDE DEF t, hd, s, w, e
<1>7. \A o \in Ops(w) : MayPrecede(Op("end", t), o)
  BY <1>3, <1>4 DEF MayPrecede, Op
<1>8. Ops(e \o w) = {Op("end", t)} \cup Ops(w) /\ Ordered(e \o w)
  BY <1>2, <1>4, <1>5, <1>7, OrderedJoin
<1>9. Op("end", t) \in ToolOp /\ Op("end", t)[1] = "end" /\ Op("end", t)[2] = t
  BY <1>1 DEF ToolOp, Op
<1>10. Orderly(w, l.iter, P)
  BY <1>1, <1>3, <1>4, OrderlySub DEF Good
<1>11. Orderly(e \o w, l.iter, P)
  <2> DEFINE q == e \o w
  <2> HIDE DEF q
  <2>1. Ordered(q) /\ Ops(q) = {Op("end", t)} \cup Ops(w)
    BY <1>8 DEF q
  <2>2. \A o \in Ops(q) : o \in Ops(l.plan) \/ (o \in ToolOp /\ o[2] = hd[2] /\ (o[1] \in EventKinds => o[1] = "end"))
    BY <1>1, <1>3, <1>4, <1>9, <2>1
  <2>3. Orderly(q, l.iter, P)
    BY <1>1, <1>3, <2>1, <2>2, OrderlySub DEF Good
  <2>. QED
    BY <2>3 DEF q
<1>12. DOMAIN l = Fields
  BY DEF Good
<1>13. \A failed \in BOOLEAN : Becomes(l, writeResult(l, t, failed), e \o w)
  BY <1>12 DEF Becomes, writeResult, Fields, e, w
<1>14. Becomes(l, [l EXCEPT !.plan = Without(l, t), !.failed = @ \cup {t}], w)
  BY <1>12 DEF Becomes, Fields, w
<1>15. \A failed \in BOOLEAN : Good(writeResult(l, t, failed), P)
  BY <1>6, <1>11, <1>13, BecomesGood
<1>16. Good([l EXCEPT !.plan = Without(l, t), !.failed = @ \cup {t}], P)
  BY <1>2, <1>10, <1>14, BecomesGood
<1>17. Good(ToolFails(l, t), P)
  BY <1>15, <1>16 DEF ToolFails
<1>. QED
  BY <1>15, <1>17 DEF t

LEMMA GoodDispatch ==
    ASSUME NEW l, NEW m, NEW P, Past(P), Good(l, P), \E o \in Ops(l.plan) : o[1] \in PreKinds,
           DOMAIN m = Fields, m.iter = l.iter
    PROVE  Good(Dispatch(m), P) /\ Dispatch(m).plan \in Plan
<1> DEFINE q == (IF m.batch = "one" THEN executeSingleTool(m, Native) ELSE executeToolsParallel(m)) \o RoundEnd
<1>1. q \in Plan
  BY BatchOps, LoopPlans, PlanJoin
<1>2. BatchPlan(q)
  BY TidySingle, TidyParallel
<1>3. Becomes(m, Dispatch(m), q)
  BY BecomesPlan DEF Dispatch
<1> HIDE DEF q
<1>4. Orderly(q, l.iter, P)
  BY <1>2, OrderlyBatch DEF Good
<1>5. Becomes(l, Dispatch(m), q)
  BY <1>3 DEF Becomes
<1>6. Good(Dispatch(m), P)
  BY <1>1, <1>4, <1>5, BecomesGood
<1>. QED
  BY <1>1, <1>5, <1>6 DEF Becomes

LEMMA GoodBudget ==
    ASSUME NEW l, NEW us, NEW P, Good(l, P), l.plan \in Plan
    PROVE  Good(checkBudget(l, us), P)
<1> DEFINE t == Add(l.tracker, us)
           a == [l EXCEPT !.tracker = t]
<1> HIDE DEF t
<1>1. DOMAIN a = Fields /\ a.plan = l.plan /\ a.iter = l.iter /\ a.tracker = t
  BY DEF Fields, Good
<1>2. checkBudget(l, us) = IF checkLimits(a.tracker) THEN handleBudgetExceeded(a) ELSE a
  BY DEF checkBudget, t
<1> HIDE DEF a
<1>3. Good(a, P)
  BY <1>1 DEF Good
<1>4. Good(Fails(a, "budget"), P)
  BY <1>3, GoodFails
<1>5. Good([a EXCEPT !.plan = <<Op("budget-ask", None), Op("budget-wait", None)>> \o @], P)
  <2> DEFINE m == [a EXCEPT !.plan = Asking(l.plan)]
  <2>1. m = [a EXCEPT !.plan = <<Op("budget-ask", None), Op("budget-wait", None)>> \o @]
    BY <1>1 DEF Asking
  <2>2. DOMAIN m = Fields /\ m.plan = Asking(l.plan) /\ m.iter = l.iter
    BY <1>1, Replanned DEF Fields
  <2> HIDE DEF m
  <2>3. Orderly(m.plan, m.iter, P) /\ m.plan \in Plans
    BY <2>2, OrderlyAsking DEF Good, Plans
  <2>4. Good(m, P)
    BY <2>2, <2>3 DEF Good
  <2>. QED
    BY <2>1, <2>4
<1>. QED
  BY <1>2, <1>3, <1>4, <1>5, Zenon DEF handleBudgetExceeded

(* An answer of the model.                                                  *)
LEMMA GoodAnswer ==
    ASSUME NEW l, NEW P, Past(P), Good(l, P), \E o \in Ops(l.plan) : o[1] \in PreKinds, NEW t, NEW b, NEW us
    PROVE  Good(OnAnswer(l, t, b, us), P)
<1> DEFINE Ready(m) == Good(m, P) /\ m.plan \in Plan
<1>1. \A m : Ready(m) => Good(checkBudget(m, us), P)
  BY GoodBudget
<1>2. RunEnd \in Plan /\ Orderly(RunEnd, l.iter, P)
  <2>1. Op("save", None) \in AnyOp /\ Op("store", None) \in AnyOp
    BY DEF Op, AnyOp, LoopOp
  <2>2. MayPrecede(Op("save", None), Op("store", None))
    BY DEF MayPrecede, Op, EventKinds, ToolOp
  <2>3. Tidy(RunEnd, {Op("save", None), Op("store", None)})
    BY <2>1, <2>2, TidyTwo DEF RunEnd
  <2>4. Ordered(RunEnd) /\ Ops(RunEnd) = {Op("save", None), Op("store", None)}
    BY <2>3 DEF Tidy
  <2>5. \A o \in Ops(RunEnd) : o[1] \notin EventKinds /\ o[1] \notin PreKinds /\ o \notin ToolOp
    BY <2>4 DEF Op, EventKinds, PreKinds, ToolOp
  <2>6. Orderly(RunEnd, l.iter, P)
    BY <2>4, <2>5, OrderlyLoop DEF Good
  <2>. QED
    BY <2>6, LoopPlans
<1>3. <<Op("max-iter", None)>> \in Plan /\ Orderly(<<Op("max-iter", None)>>, l.iter, P)
  <2>1. Op("max-iter", None) \in LoopOp
    BY DEF Op, LoopOp
  <2>. QED
    BY <2>1, GoodSingle
<1> DEFINE c == [l EXCEPT !.batch = b]
           mi == <<Op("max-iter", None)>>
<1>4. DOMAIN c = Fields /\ c.iter = l.iter
  BY DEF Fields, Good
<1>5. DOMAIN l = Fields
  BY DEF Good
<1> HIDE DEF c, mi
<1>6. \A q : Becomes(l, [l EXCEPT !.plan = q], q) /\ Becomes(l, [c EXCEPT !.plan = q], q)
  BY <1>4, <1>5, BecomesPlan DEF Becomes
<1>7. Ready([l EXCEPT !.plan = RunEnd]) /\ Ready([c EXCEPT !.plan = RunEnd])
  BY <1>2, <1>6, BecomesGood DEF Becomes
<1>8. Ready([c EXCEPT !.plan = mi])
  <2>1. mi \in Plan /\ Orderly(mi, l.iter, P)
    BY <1>3 DEF mi
  <2>2. Becomes(l, [c EXCEPT !.plan = mi], mi)
    BY <1>6
  <2>. QED
    BY <2>1, <2>2, BecomesGood DEF Becomes
<1>9. Ready(Dispatch(c))
  BY <1>4, GoodDispatch
<1> HIDE DEF Ready
<1>10. Good(AfterLLM(l, b, us), P)
  BY <1>1, <1>7, <1>8, <1>9, Zenon DEF AfterLLM, c, mi
<1>. QED
  BY <1>1, <1>7, <1>10, Zenon DEF OnAnswer

(* The operation at the head of a plan, when it is no event.                *)
LEMMA GoodRead ==
    ASSUME NEW l, NEW v, NEW us, NEW P, Past(P), Good(l, P), l.plan # <<>>, OpKind(l) \notin EventKinds
    PROVE  Good(Read(l, v, us), P)
<1>0. DOMAIN l = Fields /\ l.plan \in Plans
  BY DEF Good
<1>A. CASE OpKind(l) = "budget-ask"
  <2>1. Read(l, v, us) = Then(l)
    BY <1>A, ReadOf
  <2>2. Tail(l.plan) \in Plan
    BY <1>0, <1>A, HeadOfPlans
  <2>3. Becomes(l, Then(l), Tail(l.plan))
    BY <1>0, BecomesPlan DEF Then
  <2>4. l.plan \in Seq(AnyOp \cup {Op("budget-ask", None)})
    <3> DEFINE a == Op("budget-ask", None)
               w == Op("budget-wait", None)
    <3>1. w \in AnyOp
      BY DEF AnyOp, LoopOp, Op
    <3> HIDE DEF a, w
    <3>2. \A p \in Seq(AnyOp) : <<a, w>> \o p \in Seq(AnyOp \cup {a}) /\ p \in Seq(AnyOp \cup {a})
      BY <3>1
    <3>3. \A p \in Plan : Asking(p) \in Seq(AnyOp \cup {a}) /\ p \in Seq(AnyOp \cup {a})
      BY <3>2 DEF Asking, Plan, a, w
    <3>. QED
      BY <1>0, <3>3 DEF Plans, a
  <2>5. Orderly(Tail(l.plan), l.iter, P)
    BY <2>4, OrderlyTail DEF Good, OpKind
  <2>. QED
    BY <2>1, <2>2, <2>3, <2>5, BecomesGood
<1>B. CASE OpKind(l) # "budget-ask"
  <2>1. l.plan \in Plan
    BY <1>0, <1>B, HeadOfPlans
  <2>2. Good(Then(l), P) /\ Becomes(l, Then(l), Tail(l.plan))
    BY <2>1, GoodThen
  <2>3. Good(Fails(l, "error"), P) /\ Good(Fails(l, "budget"), P)
    BY GoodFails
  <2>4. Tail(l.plan) \in Plan /\ Orderly(Tail(l.plan), l.iter, P)
    BY <2>1, GoodTail
  <2>5. /\ Head(l.plan) \in Ops(l.plan) /\ Ops(l.plan) = {Head(l.plan)} \cup Ops(Tail(l.plan))
        /\ Ordered(l.plan) /\ Ordered(Tail(l.plan))
        /\ Head(l.plan) \in ToolOp /\ OpKind(l) # "start" => \A o \in Ops(l.plan) : o[1] # "start"
    BY <2>1, GoodOps
  <2>6. CASE OpKind(l) \in {"prefetch", "cb"}
    BY <2>2, <2>3, <2>6, ReadOf, Zenon DEF OrFail
  <2>7. CASE OpKind(l) = "now"
    <3>1. Becomes(l, [Then(l) EXCEPT !.now = IF v = "later" THEN @ + ResetAfter ELSE @], Tail(l.plan))
      BY <2>2 DEF Becomes, Fields
    <3>2. Good([Then(l) EXCEPT !.now = IF v = "later" THEN @ + ResetAfter ELSE @], P)
      BY <2>4, <3>1, BecomesGood
    <3>. QED
      BY <2>3, <2>7, <3>2, ReadOf DEF OnNow
  <2>8. CASE OpKind(l) \in {"llm", "llm-failure", "llm-fallback"}
    <3>1. Tool(l) \in {None, "final", "error", "budget"}
      BY <2>1, <2>8, HeadParts
    <3>2. \E o \in Ops(l.plan) : o[1] \in PreKinds
      BY <2>5, <2>8 DEF PreKinds, OpKind
    <3>3. \A k \in {"llm-failure", "llm-fallback"} : Op(k, Tool(l)) \in LoopOp
      BY <3>1 DEF Op, LoopOp
    <3>4. \A k \in {"llm-failure", "llm-fallback"} : Good([l EXCEPT !.plan = <<Op(k, Tool(l))>>], P)
      <4> SUFFICES ASSUME NEW k \in {"llm-failure", "llm-fallback"} PROVE Good([l EXCEPT !.plan = <<Op(k, Tool(l))>>], P)
        OBVIOUS
      <4> DEFINE q == <<Op(k, Tool(l))>>
      <4>1. q \in Plan /\ Orderly(q, l.iter, P)
        BY <3>2, <3>3, GoodSingle
      <4> HIDE DEF q
      <4>2. Good([l EXCEPT !.plan = q], P)
        BY <1>0, <4>1, BecomesPlan, BecomesGood
      <4>. QED
        BY <4>2 DEF q
    <3>5. Good(OnAnswer(l, Tool(l), v, us), P)
      BY <3>2, GoodAnswer
    <3>6. Good(OnAnswer([l EXCEPT !.fallback = TRUE], Tool(l), v, us), P)
      <4> DEFINE m == [l EXCEPT !.fallback = TRUE]
      <4>1. DOMAIN m = Fields /\ m.plan = l.plan /\ m.iter = l.iter
        BY <1>0 DEF Fields
      <4> HIDE DEF m
      <4>2. Good(m, P) /\ \E o \in Ops(m.plan) : o[1] \in PreKinds
        BY <3>2, <4>1 DEF Good
      <4>3. Good(OnAnswer(m, Tool(l), v, us), P)
        BY <4>2, GoodAnswer
      <4>. QED
        BY <4>3 DEF m
    <3>7. Good([l EXCEPT !.plan = <<Op("llm-failure", Tool(l))>>], P) /\ Good([l EXCEPT !.plan = <<Op("llm-fallback", Tool(l))>>], P)
      BY <3>4
    <3>8. Good(OnLLM(l, v, us), P) /\ Good(OnFailure(l, v), P) /\ Good(OnFallback(l, v, us), P)
      BY <2>3, <3>5, <3>6, <3>7, Zenon DEF OnLLM, OnFailure, OnFallback
    <3>. QED
      BY <2>8, <3>8, ReadOf
  <2>9. CASE OpKind(l) = "max-iter"
    <3>1. \E o \in Ops(l.plan) : o[1] \in PreKinds
      BY <2>5, <2>9 DEF PreKinds, OpKind
    <3>2. Good(Dispatch([l EXCEPT !.max = @ + Extra, !.extended = TRUE]), P)
      <4> DEFINE m == [l EXCEPT !.max = @ + Extra, !.extended = TRUE]
      <4>1. DOMAIN m = Fields /\ m.iter = l.iter
        BY <1>0 DEF Fields
      <4> HIDE DEF m
      <4>2. Good(Dispatch(m), P)
        BY <3>1, <4>1, GoodDispatch
      <4>. QED
        BY <4>2 DEF m
    <3>3. Good([l EXCEPT !.plan = <<Op("llm", "final")>>], P)
      <4> DEFINE q == <<Op("llm", "final")>>
      <4>1. Op("llm", "final") \in LoopOp
        BY DEF Op, LoopOp
      <4>2. q \in Plan /\ Orderly(q, l.iter, P)
        BY <3>1, <4>1, GoodSingle
      <4> HIDE DEF q
      <4>3. Good([l EXCEPT !.plan = q], P)
        BY <1>0, <4>2, BecomesPlan, BecomesGood
      <4>. QED
        BY <4>3 DEF q
    <3>4. Read(l, v, us) = OnMaxIter(l, v)
      BY <2>9, ReadOf
    <3>. QED
      BY <2>3, <3>2, <3>3, <3>4, Zenon DEF OnMaxIter
  <2>10. CASE OpKind(l) = "budget-wait"
    <3>1. Becomes(l, [Then(l) EXCEPT !.tracker = AdvanceWatermark(@)], Tail(l.plan))
      BY <2>2 DEF Becomes, Fields
    <3>2. Good([Then(l) EXCEPT !.tracker = AdvanceWatermark(@)], P)
      BY <2>4, <3>1, BecomesGood
    <3>3. Read(l, v, us) = OnBudget(l, v)
      BY <2>10, ReadOf
    <3>. QED
      BY <2>3, <3>2, <3>3, Zenon DEF OnBudget
  <2>11. CASE OpKind(l) \in {"auth", "wait"}
    <3>1. Good(ToolFails(l, Tool(l)), P) /\ Good(writeResult(l, Tool(l), FALSE), P)
      BY <2>1, <2>11, GoodToolOver
    <3>2. Good(OnAuth(l, v), P)
      BY <2>2, <3>1, Zenon DEF OnAuth
    <3>3. Good(OnWait(l, v), P)
      BY <2>2, <3>1, Zenon DEF OnWait
    <3>. QED
      BY <2>11, <3>2, <3>3, ReadOf
  <2>12. CASE OpKind(l) = "exec"
    <3>1. Becomes(l, OnExec(l, v), Tail(l.plan))
      BY <2>2 DEF Becomes, Fields, OnExec
    <3>. QED
      BY <2>4, <2>12, <3>1, BecomesGood, ReadOf
  <2>13. CASE OpKind(l) = "child-id"
    <3>1. Head(l.plan) \in ToolOp /\ Tail(l.plan) # <<>>
      BY <2>1, <2>13, HeadParts
    <3> DEFINE s == Tail(l.plan)
               q == Tail(s)
    <3>2. s \in Plan /\ q \in Plan /\ s \in Seq(AnyOp)
      BY <2>4, <3>1, PlanTail DEF Plan
    <3>3. Ordered(q) /\ Ops(q) \subseteq Ops(s)
      <4>1. Ordered(l.plan) => Ordered(s)
        BY <2>5, <3>1, OrderedTail
      <4> HIDE DEF s
      <4>2. Ops(s) = {Head(s)} \cup Ops(q) /\ (Ordered(s) => Ordered(q))
        BY <3>1, <3>2, OrderedTail DEF s
      <4>. QED
        BY <2>5, <4>1, <4>2
    <3>4. Becomes(l, [l EXCEPT !.plan = Tail(Tail(@)), !.failed = @ \cup {Tool(l)}, !.tries = 0], q)
      BY <1>0 DEF Becomes, Fields
    <3> HIDE DEF q
    <3>5. Orderly(q, l.iter, P)
      BY <2>5, <2>13, <3>1, <3>3, OrderlySub DEF Good
    <3>6. Good([l EXCEPT !.plan = Tail(Tail(@)), !.failed = @ \cup {Tool(l)}, !.tries = 0], P)
      BY <3>2, <3>4, <3>5, BecomesGood
    <3>7. Read(l, v, us) = OnChildId(l, v)
      BY <2>13, ReadOf
    <3>. QED
      BY <2>2, <3>6, <3>7, Zenon DEF OnChildId
  <2>14. CASE OpKind(l) = "delegate"
    <3>1. Head(l.plan) \in ToolOp /\ Tool(l) \in Tools
      BY <2>1, <2>14, HeadParts
    <3> DEFINE c == Op("child-id", Tool(l))
               q == <<c>> \o l.plan
    <3>2. c \in AnyOp /\ <<c>> \in Seq(AnyOp) /\ c \in ToolOp /\ c[1] = "child-id" /\ c[2] = Tool(l)
      BY <3>1, ToolPiece DEF Op, ToolOp
    <3>3. q \in Plan
      BY <2>1, <3>2, PlanJoin
    <3>4. Becomes(l, [l EXCEPT !.plan = <<Op("child-id", Tool(l))>> \o @, !.tries = @ + 1], q)
      BY <1>0 DEF Becomes, Fields
    <3> HIDE DEF c
    <3>5. Ops(<<c>>) = {c} /\ Ordered(<<c>>)
      BY OrderedSingle
    <3>6. \A y \in Ops(l.plan) : MayPrecede(c, y)
      BY <2>5, <2>14, <3>1, <3>2 DEF MayPrecede, EventKinds
    <3>7. l.plan \in Seq(AnyOp)
      BY <2>1 DEF Plan
    <3>8. Ops(q) = {c} \cup Ops(l.plan) /\ Ordered(q)
      <4> DEFINE s == <<c>>
                 p == l.plan
      <4>1. s \in Seq(AnyOp) /\ p \in Seq(AnyOp) /\ Ops(s) = {c} /\ Ordered(s) /\ Ordered(p)
        BY <2>5, <3>2, <3>5, <3>7
      <4>2. \A y \in Ops(p) : MayPrecede(c, y)
        BY <3>6
      <4> HIDE DEF s, p
      <4>3. Ops(s \o p) = {c} \cup Ops(p) /\ Ordered(s \o p)
        BY <4>1, <4>2, OrderedJoin
      <4>. QED
        BY <4>3 DEF s, p
    <3> HIDE DEF q
    <3>9. Orderly(q, l.iter, P)
      BY <2>5, <2>14, <3>1, <3>2, <3>8, OrderlySub DEF Good, Tool, EventKinds
    <3>10. Good([l EXCEPT !.plan = <<Op("child-id", Tool(l))>> \o @, !.tries = @ + 1], P)
      BY <3>3, <3>4, <3>9, BecomesGood
    <3>11. Becomes(l, [Then(l) EXCEPT !.used = us, !.tries = 0], Tail(l.plan)) /\ Becomes(l, [Then(l) EXCEPT !.tries = 0], Tail(l.plan))
      BY <2>2 DEF Becomes, Fields
    <3>12. Good([Then(l) EXCEPT !.used = us, !.tries = 0], P) /\ Good([Then(l) EXCEPT !.tries = 0], P)
      BY <2>4, <3>11, BecomesGood
    <3>13. Read(l, v, us) = OnDelegate(l, v, us)
      BY <2>14, ReadOf
    <3>. QED
      BY <3>10, <3>12, <3>13, Zenon DEF OnDelegate
  <2>15. CASE OpKind(l) \notin {"prefetch", "cb", "now", "llm", "llm-failure", "llm-fallback", "max-iter", "budget-wait",
                                "auth", "wait", "exec", "child-id", "delegate"}
    BY <2>2, <2>15 DEF Read
  <2>. QED
    BY <2>6, <2>7, <2>8, <2>9, <2>10, <2>11, <2>12, <2>13, <2>14, <2>15
<1>. QED
  BY <1>A, <1>B

(* The event at the head of a plan is behind it then.                       *)
LEMMA GoodEvent ==
    ASSUME NEW l, NEW v, NEW us, NEW P, Good(l, P), l.plan # <<>>, OpKind(l) \in EventKinds
    PROVE  Good(Read(l, v, us), P \cup {Event(OpKind(l), Tool(l), l.iter)})
<1>0. DOMAIN l = Fields /\ l.iter \in Nat /\ l.plan \in Plan
  BY HeadOfPlans DEF Good, EventKinds
<1>1. Head(l.plan) \in ToolOp
  BY <1>0, HeadParts DEF EventKinds
<1>2. l.plan \in Seq(AnyOp) /\ Tail(l.plan) \in Plan
  BY <1>0, PlanTail DEF Plan
<1>3. Orderly(Tail(l.plan), l.iter, P \cup {Event(OpKind(l), Tool(l), l.iter)})
  BY <1>0, <1>1, <1>2, OrderlyEvent DEF Good, OpKind, Tool
<1>4. Becomes(l, Then(l), Tail(l.plan))
  BY <1>0, BecomesPlan DEF Then
<1>5. Read(l, v, us) = Then(l)
  BY ReadOf DEF EventKinds
<1>. QED
  BY <1>0, <1>2, <1>3, <1>4, <1>5 DEF Good, Becomes, Plans

LEMMA TidyIteration == Ordered(Iteration) /\ Ops(Iteration) = {Op("now", None), Op("llm", None)} /\ Iteration \in Seq(AnyOp)
<1>1. Op("now", None) \in AnyOp /\ Op("llm", None) \in AnyOp
  BY DEF Op, AnyOp, LoopOp
<1>2. MayPrecede(Op("now", None), Op("llm", None))
  BY DEF MayPrecede, Op, EventKinds, ToolOp
<1>. QED
  BY <1>1, <1>2, TidyTwo DEF Iteration, Tidy

LEMMA GoodSettle ==
    ASSUME NEW l, NEW P, Past(P), Good(l, P), l.plan # <<>>, OpKind(l) \in Silent
    PROVE  Good(Settle(l), P)
<1>0. DOMAIN l = Fields /\ l.iter \in Nat /\ l.plan \in Plan /\ OpKind(l) \notin EventKinds
  BY HeadOfPlans DEF Good, EventKinds, Silent
<1>1. Tail(l.plan) \in Plan /\ Orderly(Tail(l.plan), l.iter, P) /\ Becomes(l, Then(l), Tail(l.plan))
  BY <1>0, GoodTail, GoodThen
<1>2. Becomes(l, Counted(l), Tail(l.plan))
  BY <1>1 DEF Becomes, Counted, Fields
<1>3. Good(Counted(l), P) /\ Counted(l).plan \in Plan
  BY <1>1, <1>2, BecomesGood DEF Becomes
<1>4. Good(checkBudget(Counted(l), l.used), P)
  BY <1>3, GoodBudget
<1>5. Good([l EXCEPT !.plan = Iteration, !.iter = @ + 1], P)
  <2> DEFINE m == [l EXCEPT !.plan = Iteration, !.iter = @ + 1]
             n == l.iter
  <2>1. DOMAIN m = Fields /\ m.plan = Iteration /\ m.iter = n + 1
    BY <1>0 DEF Fields
  <2>2. \A x \in P : x[1] \in EventKinds => x[3] <= n + 1 /\ x[3] < n + 1
    BY <1>0 DEF Good, Orderly, Past
  <2>3. \A o \in Ops(Iteration) : o[1] \notin EventKinds /\ o \notin ToolOp
    BY TidyIteration DEF Op, EventKinds, ToolOp
  <2>4. Orderly(Iteration, n + 1, P)
    BY <2>2, <2>3, TidyIteration DEF Orderly
  <2> HIDE DEF m
  <2>5. Good(m, P)
    BY <1>0, <2>1, <2>4, LoopPlans DEF Good, Plans
  <2>. QED
    BY <2>5 DEF m
<1>. QED
  BY <1>3, <1>4, <1>5, Zenon DEF Settle

LEMMA GoodNewLoop ==
    ASSUME NEW tools
    PROVE  Good(NewLoop(tools), {})
<1> DEFINE b == <<Op("load", None), Op("prefetch", None)>>
           p == b \o Iteration
           m == NewLoop(tools)
<1>1. Op("load", None) \in AnyOp /\ Op("prefetch", None) \in AnyOp
  BY DEF Op, AnyOp, LoopOp
<1>2. MayPrecede(Op("load", None), Op("prefetch", None))
  BY DEF MayPrecede, Op, EventKinds, ToolOp
<1>3. Ordered(b) /\ Ops(b) = {Op("load", None), Op("prefetch", None)} /\ b \in Seq(AnyOp)
  BY <1>1, <1>2, TidyTwo DEF Tidy
<1>4. p \in Plan
  BY <1>3, LoopPlans, PlanJoin
<1>5. \A x \in Ops(b), y \in Ops(Iteration) : MayPrecede(x, y)
  <2> HIDE DEF b
  <2>1. \A x \in Ops(b) : x[1] \in {"load", "prefetch"}
    BY <1>3 DEF Op
  <2>2. \A y \in Ops(Iteration) : y[1] \in {"now", "llm"}
    BY TidyIteration DEF Op
  <2>. QED
    BY <2>1, <2>2 DEF MayPrecede, EventKinds
<1> HIDE DEF b
<1>6. Ordered(p) /\ Ops(p) = Ops(b) \cup Ops(Iteration)
  BY <1>3, <1>5, TidyIteration, OrderedJoin
<1> HIDE DEF p
<1>7. \A o \in Ops(p) : o[1] \notin EventKinds /\ o \notin ToolOp
  BY <1>3, <1>6, TidyIteration DEF Op, EventKinds, ToolOp
<1>8. Orderly(p, 0, {})
  BY <1>6, <1>7 DEF Orderly
<1>9. m.plan = p /\ m.iter = 0 /\ DOMAIN m = Fields
  BY DEF NewLoop, Fields, p, b
<1> HIDE DEF m
<1>10. Good(m, {})
  BY <1>4, <1>8, <1>9 DEF Good, Plans
<1>. QED
  BY <1>10 DEF m

-----------------------------------------------------------------------------
(* The events in the log g, after the journal j and a awakeables.           *)
Seen(j, p) == {j[i].op : i \in 1..p}
Cancelled(j) == \E e \in 1..Len(j) : j[e].val = "cancelled"
Behind(g, i, j) == (\E s \in 1..Len(g) : s < i /\ g[s] = Event("start", g[i][2], g[i][3])) \/ Cancelled(j)
Logged(j, g, a) ==
    /\ \A i, k \in 1..Len(g) : g[i] = g[k] /\ g[i][1] # "token" => i = k
    /\ \A i \in 1..Len(g) :
          /\ g[i][1] \in EventKinds \cup {"budget", "token"}
          /\ g[i][1] \in EventKinds => g[i] \in Seen(j, Len(j))
          /\ g[i][1] = "budget" => g[i][3] \in Nat /\ g[i][3] <= a
          /\ g[i][1] \in {"ask", "end"} => Behind(g, i, j)
Started(j, g) ==
    \A k \in 1..Len(j) : j[k].op[1] = "start" => j[k].val = "cancelled" \/ \E i \in 1..Len(g) : g[i] = j[k].op
Written(j) ==
    /\ \A i \in 1..Len(j) : j[i].op[3] \in Nat /\ j[i].op = Event(j[i].op[1], j[i].op[2], j[i].op[3])
    /\ \A i, k \in 1..Len(j) : j[i].op = j[k].op /\ j[i].op[1] \in EventKinds => i = k

(* k is the journal or the log j with e at its end.                         *)
Ends(j, k, e) ==
    /\ Len(j) \in Nat /\ Len(k) = Len(j) + 1 /\ k[Len(j) + 1] = e
    /\ \A i \in 1..Len(j) : k[i] = j[i]

LEMMA AppendEnds ==
    ASSUME NEW S, NEW j \in Seq(S), NEW e
    PROVE  Ends(j, Append(j, e), e) /\ Append(j, e) \in Seq(S \cup {e})
<1>1. j \in Seq(S \cup {e})
  <2>1. Len(j) \in Nat /\ \A x \in 1..Len(j) : j[x] \in S
    OBVIOUS
  <2>2. j = [x \in 1..Len(j) |-> j[x]]
    OBVIOUS
  <2>. QED
    BY <2>1, <2>2, SeqDef
<1>. QED
  BY <1>1, AppendProperties DEF Ends

LEMMA SeenEnds ==
    ASSUME NEW j, NEW k, NEW e, Ends(j, k, e)
    PROVE  Seen(k, Len(k)) = Seen(j, Len(j)) \cup {e.op} /\ (Cancelled(j) => Cancelled(k)) /\ (e.val = "cancelled" => Cancelled(k))
<1>1. 1..Len(k) = 1..Len(j) \cup {Len(j) + 1} /\ Len(j) + 1 \notin 1..Len(j)
  BY DEF Ends
<1>2. Seen(k, Len(k)) = Seen(j, Len(j)) \cup {e.op}
  BY <1>1 DEF Seen, Ends
<1>. QED
  BY <1>1, <1>2 DEF Cancelled, Ends

LEMMA LoggedEntry ==
    ASSUME NEW j, NEW k, NEW e, NEW g, NEW a \in Nat, NEW b \in Nat, a <= b, Ends(j, k, e), Logged(j, g, a)
    PROVE  Logged(k, g, b)
<1>1. \A i : Behind(g, i, j) => Behind(g, i, k)
  BY SeenEnds DEF Behind
<1>2. \A x \in Seen(j, Len(j)) : x \in Seen(k, Len(k))
  BY SeenEnds
<1>3. \A i \in 1..Len(g) : g[i][1] = "budget" => g[i][3] \in Nat /\ g[i][3] <= b
  BY DEF Logged
<1> HIDE DEF EventKinds
<1>. QED
  BY <1>1, <1>2, <1>3 DEF Logged

LEMMA LoggedEvent ==
    ASSUME NEW j, NEW g, NEW u, NEW x, NEW a \in Nat, Ends(g, u, x), Logged(j, g, a),
           x[1] \in EventKinds \cup {"budget", "token"},
           x[1] # "token" => \A i \in 1..Len(g) : g[i] # x,
           x[1] \in EventKinds => x \in Seen(j, Len(j)),
           x[1] = "budget" => x[3] \in Nat /\ x[3] <= a,
           x[1] \in {"ask", "end"} => Cancelled(j) \/ \E s \in 1..Len(g) : g[s] = Event("start", x[2], x[3])
    PROVE  Logged(j, u, a)
<1> DEFINE n == Len(g)
<1>1. n \in Nat /\ 1..Len(u) = 1..n \cup {n + 1} /\ u[n + 1] = x /\ n + 1 \notin 1..n /\ \A i \in 1..n : u[i] = g[i] /\ i < n + 1
  BY DEF Ends
<1> HIDE DEF n, EventKinds
<1>2. \A i, k \in 1..Len(u) : u[i] = u[k] /\ u[i][1] # "token" => i = k
  BY <1>1 DEF Logged, n
<1>3. \A i \in 1..Len(u) : /\ u[i][1] \in EventKinds \cup {"budget", "token"}
                           /\ u[i][1] \in EventKinds => u[i] \in Seen(j, Len(j))
                           /\ u[i][1] = "budget" => u[i][3] \in Nat /\ u[i][3] <= a
  BY <1>1 DEF Logged, n
<1>4. \A i \in 1..Len(u) : u[i][1] \in {"ask", "end"} => Behind(u, i, j)
  <2>1. \A i \in 1..n : Behind(g, i, j) => Behind(u, i, j)
    BY <1>1 DEF Behind, n
  <2>2. x[1] \in {"ask", "end"} => Behind(u, n + 1, j)
    BY <1>1 DEF Behind, n
  <2>. QED
    BY <1>1, <2>1, <2>2 DEF Logged, n
<1>. QED
  BY <1>2, <1>3, <1>4 DEF Logged

LEMMA StartedEntry ==
    ASSUME NEW j, NEW k, NEW e, NEW g, Ends(j, k, e), Started(j, g),
           e.op[1] = "start" => e.val = "cancelled" \/ \E i \in 1..Len(g) : g[i] = e.op
    PROVE  Started(k, g)
<1>1. 1..Len(k) = 1..Len(j) \cup {Len(j) + 1}
  BY DEF Ends
<1>. QED
  BY <1>1 DEF Started, Ends

LEMMA StartedEvent ==
    ASSUME NEW j, NEW g, NEW u, NEW x, Ends(g, u, x), Started(j, g)
    PROVE  Started(j, u) /\ \E i \in 1..Len(u) : u[i] = x
<1>1. Len(g) \in Nat /\ 1..Len(u) = 1..Len(g) \cup {Len(g) + 1}
  BY DEF Ends
<1>. QED
  BY <1>1 DEF Started, Ends

LEMMA WrittenEntry ==
    ASSUME NEW j, NEW k, NEW e, Ends(j, k, e), Written(j), e.op[3] \in Nat, e.op = Event(e.op[1], e.op[2], e.op[3]),
           e.op[1] \in EventKinds => e.op \notin Seen(j, Len(j))
    PROVE  Written(k)
<1>1. Len(j) \in Nat /\ 1..Len(k) = 1..Len(j) \cup {Len(j) + 1}
  BY DEF Ends
<1>2. e.op[1] \in EventKinds => \A i \in 1..Len(j) : j[i].op # e.op
  BY DEF Seen
<1> HIDE DEF EventKinds
<1>. QED
  BY <1>1, <1>2 DEF Written, Ends

-----------------------------------------------------------------------------
(* No event is in the journal twice; the log has an event for an entry of   *)
(* the journal (Logged), and every start in the journal is in the log or    *)
(* was cancelled (Started); the plan of the attempt has nothing in it that  *)
(* the entries it read have done (Good).                                    *)
EventInv ==
    /\ \E S : journal \in Seq(S)
    /\ \E S : eventLog \in Seq(S)
    /\ \E S : awk \in Seq(S)
    /\ pos \in 0..Len(journal)
    /\ Written(journal) /\ Logged(journal, eventLog, Len(awk)) /\ Started(journal, eventLog)
    /\ loc = NotStarted \/ Good(loc, Seen(journal, pos))

(* The entry of the operation at the head of the plan.                      *)
LEMMA EntryParts ==
    ASSUME NEW l, NEW P, Good(l, P), l.plan # <<>>, NEW v, NEW us
    PROVE  /\ Entry(l, v, us).op = Event(OpKind(l), Tool(l), l.iter) /\ Entry(l, v, us).val = v
           /\ Event(OpKind(l), Tool(l), l.iter)[1] = OpKind(l)
           /\ Event(OpKind(l), Tool(l), l.iter)[2] = Tool(l)
           /\ Event(OpKind(l), Tool(l), l.iter)[3] = l.iter /\ l.iter \in Nat
<1>1. Head(l.plan) = <<OpKind(l), Tool(l)>> /\ l.iter \in Nat
  BY HeadOfPlans DEF Good
<1>2. Entry(l, v, us).op = <<OpKind(l), Tool(l)>> \o <<l.iter>> /\ Entry(l, v, us).val = v
  BY <1>1 DEF Entry
<1>3. ASSUME NEW k, NEW t, NEW n PROVE <<k, t>> \o <<n>> = <<k, t, n>>
  <2> DEFINE X == {k, t, n}
             s == <<k, t>>
             r == <<n>>
             c == s \o r
             d == <<k, t, n>>
  <2>1. s \in Seq(X) /\ r \in Seq(X) /\ d \in Seq(X) /\ Len(s) = 2 /\ Len(r) = 1 /\ Len(d) = 3
    OBVIOUS
  <2>2. s[1] = k /\ s[2] = t /\ r[1] = n /\ d[1] = k /\ d[2] = t /\ d[3] = n
    OBVIOUS
  <2> HIDE DEF s, r, d
  <2> HIDE DEF X
  <2>3. c \in Seq(X) /\ Len(c) = 3 /\ \A i \in 1..3 : c[i] = IF i <= 2 THEN s[i] ELSE r[i - 2]
    <3>1. c \in Seq(X) /\ Len(c) = Len(s) + Len(r)
      BY <2>1, ConcatProperties
    <3>2. \A i \in 1..(Len(s) + Len(r)) : c[i] = IF i <= Len(s) THEN s[i] ELSE r[i - Len(s)]
      BY <2>1, ConcatProperties
    <3>. QED
      BY <2>1, <3>1, <3>2
  <2> HIDE DEF c
  <2>4. \A i \in 1..3 : c[i] = d[i]
    <3>1. 1..3 = {1, 2, 3}
      OBVIOUS
    <3>2. c[1] = k /\ c[2] = t /\ c[3] = n
      BY <2>2, <2>3
    <3>. QED
      BY <2>2, <3>1, <3>2
  <2>5. c = d
    BY <2>1, <2>3, <2>4, SeqEqual
  <2>. QED
    BY <2>5 DEF c, s, r, d
<1>4. Entry(l, v, us).op = Event(OpKind(l), Tool(l), l.iter)
  BY <1>2, <1>3, Zenon DEF Event
<1>6. /\ Event(OpKind(l), Tool(l), l.iter)[1] = OpKind(l)
      /\ Event(OpKind(l), Tool(l), l.iter)[2] = Tool(l)
      /\ Event(OpKind(l), Tool(l), l.iter)[3] = l.iter
  BY DEF Event
<1>7. Entry(l, v, us).val = v
  BY <1>2
<1>8. l.iter \in Nat
  BY <1>1
<1>. QED
  BY <1>4, <1>6, <1>7, <1>8, Zenon

(* What is true of the event at the head, when nothing is left to replay.   *)
LEMMA EventAhead ==
    ASSUME NEW l, NEW P, Good(l, P), l.plan # <<>>, OpKind(l) \in EventKinds
    PROVE  /\ Event(OpKind(l), Tool(l), l.iter) \notin P
           /\ OpKind(l) \in {"ask", "end"} => Event("start", Tool(l), l.iter) \in P
<1>0. l.plan \in Plan
  BY HeadOfPlans DEF Good, EventKinds
<1>1. Head(l.plan) \in ToolOp
  BY <1>0, HeadParts DEF EventKinds
<1>2. /\ Head(l.plan) \in Ops(l.plan)
      /\ OpKind(l) # "start" => \A o \in Ops(l.plan) : o[1] # "start"
  BY <1>0, <1>1, GoodOps
<1>3. \A t : Op("start", t)[1] = "start"
  BY DEF Op
<1>. QED
  BY <1>1, <1>2, <1>3 DEF Good, Orderly, OpKind, Tool

(* The locals after an operation.                                           *)
LEMMA GoodAfter ==
    ASSUME NEW l, NEW v, NEW us, NEW P, Past(P), Good(l, P), l.plan # <<>>
    PROVE  Good(Read(l, v, us), P \cup {Event(OpKind(l), Tool(l), l.iter)})
<1> DEFINE x == Event(OpKind(l), Tool(l), l.iter)
<1>1. CASE OpKind(l) \in EventKinds
  BY <1>1, GoodEvent
<1>2. CASE OpKind(l) \notin EventKinds
  <2>1. Good(Read(l, v, us), P)
    BY <1>2, GoodRead
  <2>2. x[1] \notin EventKinds
    BY <1>2 DEF Event
  <2> DEFINE m == Read(l, v, us)
  <2> HIDE DEF m, x
  <2>3. Good(m, P \cup {x})
    BY <2>1, <2>2, OrderlyPast DEF Good, m
  <2>. QED
    BY <2>3 DEF m, x
<1>. QED
  BY <1>1, <1>2

LEMMA PastSeen ==
    ASSUME NEW j, NEW p \in Nat, p <= Len(j), Len(j) \in Nat, Written(j)
    PROVE  Past(Seen(j, p))
<1>1. \A i \in 1..p : i \in 1..Len(j)
  OBVIOUS
<1>. QED
  BY <1>1 DEF Past, Seen, Written

(* An event at its first place in the log.                                  *)
LEMMA FreshEvent ==
    ASSUME NEW j, NEW g, NEW a, NEW x, Logged(j, g, a), x[1] \in EventKinds, x \notin Seen(j, Len(j))
    PROVE  \A i \in 1..Len(g) : g[i] # x
BY DEF Logged

(* An operation that is written: j the journal, k with its entry e; g the   *)
(* log, u the log after it; a and b the awakeables.                         *)
LEMMA WrittenLogged ==
    ASSUME NEW j, NEW k, NEW e, NEW l, NEW v, NEW g, NEW u, NEW a \in Nat, NEW b \in Nat, a <= b,
           Ends(j, k, e), e.op = Event(OpKind(l), Tool(l), l.iter), e.val = v, OpKind(l) \in EventKinds,
           Good(l, Seen(j, Len(j))), l.plan # <<>>,
           Logged(j, g, a), Started(j, g), Ends(g, u, e.op) \/ (u = g /\ v = "cancelled")
    PROVE  Logged(k, u, b) /\ Started(k, u)
<1> DEFINE x == e.op
<1>1. x[1] = OpKind(l) /\ x[2] = Tool(l) /\ x[3] = l.iter
  BY DEF Event
<1>2. x \notin Seen(j, Len(j)) /\ (x[1] \in {"ask", "end"} => Event("start", x[2], x[3]) \in Seen(j, Len(j)))
  BY <1>1, EventAhead
<1>3. Logged(k, g, b)
  BY LoggedEntry
<1>4. CASE u = g /\ v = "cancelled"
  BY <1>3, <1>4, StartedEntry
<1>5. CASE Ends(g, u, x)
  <2>1. \A i \in 1..Len(g) : g[i] # x
    BY <1>1, <1>2, FreshEvent
  <2>2. x \in Seen(k, Len(k)) /\ (Cancelled(j) => Cancelled(k))
    BY SeenEnds
  <2>3. x[1] \in {"ask", "end"} => Cancelled(k) \/ \E s \in 1..Len(g) : g[s] = Event("start", x[2], x[3])
    <3>1. SUFFICES ASSUME x[1] \in {"ask", "end"} PROVE Cancelled(k) \/ \E s \in 1..Len(g) : g[s] = Event("start", x[2], x[3])
      OBVIOUS
    <3>2. PICK i \in 1..Len(j) : j[i].op = Event("start", x[2], x[3])
      BY <1>2, <3>1 DEF Seen
    <3>3. j[i].op[1] = "start"
      BY <3>2 DEF Event
    <3>4. j[i].val = "cancelled" => Cancelled(k)
      BY <2>2 DEF Cancelled
    <3>. QED
      BY <3>2, <3>3, <3>4 DEF Started
  <2>4. x[1] \in EventKinds /\ x[1] # "budget"
    BY <1>1 DEF EventKinds
  <2>5. Logged(k, u, b)
    <3> HIDE DEF x
    <3>. QED
      BY <1>3, <1>5, <2>1, <2>2, <2>3, <2>4, LoggedEvent
  <2>6. Started(j, u) /\ \E i \in 1..Len(u) : u[i] = x
    BY <1>5, StartedEvent
  <2>7. Started(k, u)
    BY <2>6, StartedEntry
  <2>. QED
    BY <2>5, <2>7
<1>. QED
  BY <1>4, <1>5

(* The request for more budget, numbered by its awakeable.                  *)
LEMMA WrittenBudget ==
    ASSUME NEW j, NEW k, NEW e, NEW g, NEW u, NEW a \in Nat, Ends(j, k, e), e.op[1] # "start",
           Logged(j, g, a), Started(j, g), Ends(g, u, <<"budget", None, a + 1>>) \/ u = g
    PROVE  Logged(k, u, a + 1) /\ Started(k, u)
<1> DEFINE x == <<"budget", None, a + 1>>
<1>1. x[1] = "budget" /\ x[3] = a + 1 /\ a + 1 \in Nat /\ a <= a + 1 /\ ~(a + 1 <= a)
  OBVIOUS
<1> HIDE DEF x
<1>2. Logged(k, g, a + 1) /\ Started(k, g)
  BY <1>1, LoggedEntry, StartedEntry
<1>3. CASE Ends(g, u, x)
  <2>1. \A i \in 1..Len(g) : g[i] # x
    BY <1>1 DEF Logged
  <2>2. x[1] \notin EventKinds /\ x[3] <= a + 1
    BY <1>1 DEF EventKinds
  <2>. QED
    BY <1>1, <1>2, <1>3, <2>1, <2>2, LoggedEvent, StartedEvent
<1>. QED
  BY <1>2, <1>3 DEF x

(* An operation that is in the journal already.                             *)
LEMMA ReplayedEvents ==
    ASSUME EventInv, NEW v, NEW us, Performs(v, us), Replaying, journal[pos + 1] = Entry(loc, v, us), UNCHANGED journal, pos' = pos + 1
    PROVE  EventInv'
<1>0. PICK S : journal \in Seq(S)
  BY DEF EventInv
<1>1. loc # NotStarted /\ loc.plan # <<>> /\ loc' = Read(loc, v, us)
  BY NotStartedKind DEF Performs
<1>2. Good(loc, Seen(journal, pos))
  BY <1>1 DEF EventInv
<1>3. pos \in Nat /\ Len(journal) \in Nat /\ pos <= Len(journal) /\ pos + 1 \in 0..Len(journal)
  BY <1>0 DEF EventInv, Replaying
<1>4. Past(Seen(journal, pos))
  BY <1>3, PastSeen DEF EventInv
<1>5. journal[pos + 1].op = Event(OpKind(loc), Tool(loc), loc.iter)
  BY <1>1, <1>2, EntryParts
<1>6. Seen(journal, pos + 1) = Seen(journal, pos) \cup {Event(OpKind(loc), Tool(loc), loc.iter)}
  <2>1. 1..(pos + 1) = 1..pos \cup {pos + 1}
    BY <1>3
  <2>. QED
    BY <1>5, <2>1 DEF Seen
<1>7. Good(Read(loc, v, us), Seen(journal, pos + 1))
  BY <1>1, <1>2, <1>4, <1>6, GoodAfter
<1>8. Good(loc, Seen(journal, pos))'
  BY <1>1, <1>7 DEF Good, Seen
<1>9. UNCHANGED <<eventLog, awk>>
  BY DEF Performs, Logs
<1>10. (Written(journal) /\ Logged(journal, eventLog, Len(awk)) /\ Started(journal, eventLog))'
  BY <1>9 DEF EventInv, Written, Logged, Started, Seen, Behind, Cancelled
<1>. QED
  BY <1>3, <1>8, <1>9, <1>10 DEF EventInv

(* A new one.                                                               *)
LEMMA NewEvents ==
    ASSUME EventInv, NEW v, NEW us, Performs(v, us), ~Replaying, journal' = Append(journal, Entry(loc, v, us)), pos' = pos + 1
    PROVE  EventInv'
<1>0. PICK S : journal \in Seq(S)
  BY DEF EventInv
<1>1. PICK G : eventLog \in Seq(G)
  BY DEF EventInv
<1>2. PICK W : awk \in Seq(W)
  BY DEF EventInv
<1>3. loc # NotStarted /\ loc.plan # <<>> /\ loc' = Read(loc, v, us) /\ Logs(v)
  BY NotStartedKind DEF Performs
<1>4. pos \in Nat /\ Len(journal) \in Nat /\ pos = Len(journal) /\ Len(awk) \in Nat
  BY <1>0, <1>2 DEF EventInv, Replaying
<1>5. Good(loc, Seen(journal, Len(journal))) /\ Past(Seen(journal, Len(journal)))
  BY <1>3, <1>4, PastSeen DEF EventInv
<1> DEFINE e == Entry(loc, v, us)
           x == Event(OpKind(loc), Tool(loc), loc.iter)
           j == journal
           k == journal'
           g == eventLog
           u == eventLog'
           a == Len(awk)
           b == Len(awk')
<1>6. e.op = x /\ e.val = v /\ x[1] = OpKind(loc) /\ x[2] = Tool(loc) /\ x[3] = loc.iter /\ loc.iter \in Nat
  BY <1>3, <1>5, EntryParts
<1>7. Ends(j, k, e) /\ \E E : k \in Seq(E)
  BY <1>0, AppendEnds
<1>8. pos' \in 0..Len(k) /\ pos' = Len(k)
  BY <1>4, <1>7 DEF Ends
<1>9. Seen(k, pos') = Seen(j, Len(j)) \cup {x}
  <2> HIDE DEF x, e
  <2>1. Seen(k, Len(k)) = Seen(j, Len(j)) \cup {e.op}
    BY <1>7, SeenEnds
  <2>. QED
    BY <1>6, <1>8, <2>1
<1>10. Good(loc', Seen(k, pos'))
  BY <1>3, <1>5, <1>9, GoodAfter
<1>11. Written(k)
  <2>1. x[1] \in EventKinds => x \notin Seen(j, Len(j))
    BY <1>3, <1>5, <1>6, EventAhead
  <2>2. e.op[3] \in Nat /\ e.op = Event(e.op[1], e.op[2], e.op[3])
    BY <1>6
  <2> HIDE DEF e, x
  <2>. QED
    BY <1>6, <1>7, <2>1, <2>2, WrittenEntry DEF EventInv
<1>12. \A y : Ends(g, Append(g, y), y) /\ \E E : Append(g, y) \in Seq(E)
  BY <1>1, AppendEnds
<1>13. Len(Append(awk, "open")) = a + 1 /\ \E E : Append(awk, "open") \in Seq(E)
  BY <1>2, AppendEnds DEF Ends
<1>14. Logged(j, g, a) /\ Started(j, g)
  BY DEF EventInv
<1>15. Logged(k, u, b) /\ Started(k, u) /\ (\E E : u \in Seq(E)) /\ (\E E : awk' \in Seq(E))
  <2>1. CASE OpKind(loc) \in EventKinds
    <3>1. u = Append(g, x) \/ (u = g /\ v = "cancelled")
      BY <1>3, <2>1 DEF Logs, EventOf, EventKinds, Event
    <3>2. awk' = awk \/ awk' = Append(awk, "open")
      BY <1>3, <2>1 DEF Logs
    <3>3. (\E E : u \in Seq(E)) /\ (\E E : awk' \in Seq(E)) /\ b \in Nat /\ a <= b
      <4> HIDE DEF x
      <4>1. \E E : u \in Seq(E)
        BY <1>1, <1>12, <3>1
      <4>2. \E E : awk' \in Seq(E)
        BY <1>2, <1>13, <3>2
      <4>3. b \in Nat /\ a <= b
        BY <1>4, <1>13, <3>2
      <4>. QED
        BY <4>1, <4>2, <4>3
    <3>4. Ends(g, u, e.op) \/ (u = g /\ v = "cancelled")
      BY <1>6, <1>12, <3>1
    <3> HIDE DEF e
    <3>5. Logged(k, u, b) /\ Started(k, u)
      BY <1>3, <1>4, <1>5, <1>6, <1>7, <1>14, <2>1, <3>3, <3>4, WrittenLogged
    <3>. QED
      BY <3>3, <3>5
  <2>2. CASE OpKind(loc) = "budget-ask"
    <3>1. u = Append(g, <<"budget", None, a + 1>>) \/ u = g
      BY <1>3, <2>2 DEF Logs, EventOf
    <3>2. awk' = Append(awk, "open")
      BY <1>3, <2>2 DEF Logs
    <3>3. (\E E : u \in Seq(E)) /\ (\E E : awk' \in Seq(E)) /\ b = a + 1
      BY <1>1, <1>12, <1>13, <3>1, <3>2
    <3>4. Ends(g, u, <<"budget", None, a + 1>>) \/ u = g
      BY <1>12, <3>1
    <3>5. e.op[1] # "start"
      BY <1>6, <2>2
    <3> HIDE DEF e
    <3>6. Logged(k, u, a + 1) /\ Started(k, u)
      BY <1>4, <1>7, <1>14, <3>4, <3>5, WrittenBudget
    <3>. QED
      BY <3>3, <3>6
  <2>3. CASE OpKind(loc) \notin EventKinds \cup {"budget-ask"}
    <3>1. u = g /\ awk' = awk
      BY <1>3, <2>3 DEF Logs
    <3>2. e.op[1] # "start"
      BY <1>6, <2>3 DEF EventKinds
    <3> HIDE DEF e
    <3>3. Logged(k, g, a) /\ Started(k, g)
      BY <1>4, <1>7, <1>14, <3>2, LoggedEntry, StartedEntry
    <3>. QED
      BY <1>1, <1>2, <3>1, <3>3
  <2>. QED
    BY <2>1, <2>2, <2>3
<1>16. Good(loc, Seen(journal, pos))'
  BY <1>10 DEF Good, Seen
<1>17. (Written(journal) /\ Logged(journal, eventLog, Len(awk)) /\ Started(journal, eventLog))'
  BY <1>11, <1>15 DEF Written, Logged, Started, Seen, Behind, Cancelled
<1>. QED
  BY <1>7, <1>8, <1>15, <1>16, <1>17 DEF EventInv

LEMMA NextEvents ==
    ASSUME EventInv, [LoopNext]_loopVars
    PROVE  EventInv'
<1>0. PICK S : journal \in Seq(S)
  BY DEF EventInv
<1>1. PICK G : eventLog \in Seq(G)
  BY DEF EventInv
<1>2. PICK W : awk \in Seq(W)
  BY DEF EventInv
<1>3. Len(journal) \in Nat /\ pos \in Nat /\ pos <= Len(journal) /\ Len(awk) \in Nat
  BY <1>0, <1>2 DEF EventInv
<1>4. CASE Away
  <2>1. UNCHANGED journal /\ ((loc' = NotStarted /\ pos' = 0) \/ UNCHANGED <<loc, pos>>)
    BY <1>4 DEF Away
  <2>2. pos' \in 0..Len(journal') /\ (loc = NotStarted \/ Good(loc, Seen(journal, pos)))'
    <3>1. pos' \in 0..Len(journal')
      BY <1>3, <2>1
    <3>2. UNCHANGED <<loc, pos>> /\ Good(loc, Seen(journal, pos)) => Good(loc, Seen(journal, pos))'
      BY <2>1 DEF Good, Seen
    <3>. QED
      BY <2>1, <3>1, <3>2 DEF EventInv
  <2>3. Len(awk') = Len(awk) /\ \E E : awk' \in Seq(E)
    <3>1. CASE awk' = awk
      BY <1>2, <3>1
    <3>2. CASE \E v : awk' = [awk EXCEPT ![Len(awk)] = v]
      <4>1. PICK v : awk' = [awk EXCEPT ![Len(awk)] = v]
        BY <3>2
      <4>2. awk = [i \in 1..Len(awk) |-> awk[i]] /\ \A i \in 1..Len(awk) : awk[i] \in W
        BY <1>2
      <4> DEFINE n == Len(awk)
                 f == [i \in 1..n |-> IF i = n THEN v ELSE awk[i]]
      <4>3. awk' = f
        BY <4>1, <4>2
      <4>4. f \in Seq(W \cup {v})
        BY <1>3, <4>2, SeqDef
      <4>5. Len(f) = n
        BY <1>3, <4>4
      <4>. QED
        BY <4>3, <4>4, <4>5
    <3>. QED
      BY <1>4, <3>1, <3>2 DEF Away
  <2> DEFINE x == <<"token", None, loc.iter>>
             u == eventLog'
  <2>4. x[1] = "token" /\ x[1] \notin EventKinds
    BY DEF EventKinds
  <2>5. u = eventLog \/ u = Append(eventLog, x)
    BY <1>4 DEF Away
  <2> HIDE DEF x
  <2>6. Logged(journal, u, Len(awk)) /\ Started(journal, u) /\ \E E : u \in Seq(E)
    <3>1. CASE u = eventLog
      BY <1>1, <3>1 DEF EventInv
    <3>2. CASE u = Append(eventLog, x)
      <4>1. Ends(eventLog, u, x) /\ \E E : u \in Seq(E)
        BY <1>1, <3>2, AppendEnds
      <4>2. Logged(journal, u, Len(awk))
        BY <1>3, <2>4, <4>1, LoggedEvent DEF EventInv
      <4>3. Started(journal, u)
        BY <4>1, StartedEvent DEF EventInv
      <4>. QED
        BY <4>1, <4>2, <4>3
    <3>. QED
      BY <2>5, <3>1, <3>2
  <2>7. (Written(journal) /\ Logged(journal, eventLog, Len(awk)) /\ Started(journal, eventLog))'
    BY <2>1, <2>3, <2>6 DEF EventInv, Written, Logged, Started, Seen, Behind, Cancelled
  <2>. QED
    BY <1>0, <2>1, <2>2, <2>3, <2>6, <2>7 DEF EventInv
<1>5. CASE handle
  <2>1. loc' = NewLoop(resolveTools) /\ pos' = 0 /\ UNCHANGED <<journal, eventLog, awk>>
    BY <1>5 DEF handle
  <2>2. Seen(journal, 0) = {}
    BY DEF Seen
  <2>3. Good(NewLoop(resolveTools), Seen(journal, 0))
    BY <2>2, GoodNewLoop
  <2>4. Good(loc, Seen(journal, pos))'
    BY <2>1, <2>3 DEF Good, Seen
  <2>5. (Written(journal) /\ Logged(journal, eventLog, Len(awk)) /\ Started(journal, eventLog))'
    BY <2>1 DEF EventInv, Written, Logged, Started, Seen, Behind, Cancelled
  <2>. QED
    BY <1>0, <1>1, <1>2, <1>3, <2>1, <2>4, <2>5 DEF EventInv
<1>6. CASE Settles
  <2>1. loc.plan # <<>> /\ OpKind(loc) \in Silent /\ loc' = Settle(loc) /\ UNCHANGED <<journal, pos, eventLog, awk>>
    BY <1>6 DEF Settles
  <2>2. loc # NotStarted
    BY <2>1, NotStartedKind DEF Silent
  <2>3. Past(Seen(journal, pos)) /\ Good(loc, Seen(journal, pos))
    BY <1>3, <2>2, PastSeen DEF EventInv
  <2>4. Good(loc', Seen(journal, pos))
    BY <2>1, <2>3, GoodSettle
  <2>5. Good(loc, Seen(journal, pos))'
    BY <2>1, <2>4 DEF Good, Seen
  <2>6. (Written(journal) /\ Logged(journal, eventLog, Len(awk)) /\ Started(journal, eventLog))'
    BY <2>1 DEF EventInv, Written, Logged, Started, Seen, Behind, Cancelled
  <2>. QED
    BY <1>0, <1>1, <1>2, <1>3, <2>1, <2>5, <2>6 DEF EventInv
<1>7. CASE \E v, us : Performs(v, us)
  <2>1. PICK v, us : Performs(v, us)
    BY <1>7
  <2>2. PICK E : JournaledWith(us, v, E)
    BY <2>1 DEF Performs
  <2>. QED
    BY <2>1, <2>2, ReplayedEvents, NewEvents DEF JournaledWith
<1>. QED
  BY <1>4, <1>5, <1>6, <1>7, StepForms DEF Forms

(* Whatever attempts die and whenever a cancel arrives, an event of the     *)
(* handler is in the log once, a person is asked once for one approval, and *)
(* a tool call has its start before its request and its end; for every      *)
(* number of iterations, of attempts of a sub-agent and of faults           *)
(* (emitEvent, emitApprovalRequest; RestateLoop.EventsOnce).                *)
THEOREM EventsAreOnce == LoopSpec => []EventsOnce
<1>1. LoopInit => EventInv
  <2>1. <<>> \in Seq({}) /\ Len(<<>>) = 0
    OBVIOUS
  <2>2. LoopInit => /\ journal = <<>> /\ eventLog = <<>> /\ awk = <<>> /\ pos = 0 /\ loc = NotStarted
    BY DEF LoopInit
  <2>3. Written(<<>>) /\ Logged(<<>>, <<>>, Len(<<>>)) /\ Started(<<>>, <<>>)
    BY <2>1 DEF Written, Logged, Started
  <2>. QED
    BY <2>1, <2>2, <2>3 DEF EventInv
<1>2. EventInv /\ [LoopNext]_loopVars => EventInv'
  BY NextEvents
<1>3. EventInv => EventsOnce
  <2>1. SUFFICES ASSUME EventInv PROVE EventsOnce
    OBVIOUS
  <2>2. Logged(journal, eventLog, Len(awk))
    BY <2>1 DEF EventInv
  <2>3. \A i \in 1..Len(eventLog) : Behind(eventLog, i, journal) =>
            \/ \E s \in Where(<<"start", eventLog[i][2], eventLog[i][3]>>) : s < i
            \/ \E e \in 1..Len(journal) : journal[e].val = "cancelled"
    BY DEF Behind, Where, Event, Cancelled
  <2>. QED
    BY <2>2, <2>3, Zenon DEF EventsOnce, Logged
<1>. QED
  BY <1>1, <1>2, <1>3, PTL DEF LoopSpec
=============================================================================
