---------------------------- MODULE AgentFacade ----------------------------
(***************************************************************************)
(* The agent's methods (pkg/agent/agent.go, agent_run.go) and the          *)
(* registries they read (tool_registry.go, mcp_registry.go,                *)
(* a2a_registry.go, subagent_registry.go).                                 *)
(*                                                                         *)
(* Admission: Run and Stream read the registries of the agent and of every *)
(* agent below it, list the tools of remote servers, and hand a tree of    *)
(* sub-agents to the runtime.  Each List takes the lock of one registry    *)
(* only, so another goroutine may register or unregister in between.       *)
(* Handles: Run and GetAgentRun, and Stream and GetAgentStream, put a      *)
(* handle into the agent's table and a goroutine takes it out when the run *)
(* ends.  The two parts share no state: AgentEdge takes the steps of one   *)
(* of them in a behaviour.                                                 *)
(***************************************************************************)
EXTENDS Integers, Sequences, FiniteSets, SequencesExt

CONSTANTS
  Agents,        \* the agents of the process
  Root,          \* the agent that Run and Stream are called on
  AgentTool,     \* agent -> the name of the tool that delegates to it
  Remote,        \* registered remote server -> the tool names it lists
  Initial,       \* the registries at the start, one function of RegistryOf per choice
  Registrable,   \* the entries other goroutines may register: [at, reg, name]
  MaxDepth,      \* maxSubAgentDepth
  MaxChanges,    \* bound: registrations and removals
  Openers,       \* goroutines that call GetAgentRun or GetAgentStream for one run
  MaxHandles     \* bound: handles made for the run

Servers == DOMAIN Remote
Registries ==
  [Agents -> [tool : Seq(STRING), mcp : Seq(Servers), a2a : Seq(Servers), sub : Seq(Agents)]]
NamesOf == [tool |-> STRING, mcp |-> Servers, a2a |-> Servers, sub |-> Agents]

ASSUME FacadeAssumption ==
  /\ MaxDepth \in Nat \ {0}
  /\ Root \in Agents /\ AgentTool \in [Agents -> STRING]
  /\ \A m \in Servers : Remote[m] \in Seq(STRING)
  /\ Initial \subseteq Registries
  /\ \A e \in Registrable : e.at \in Agents /\ e.reg \in DOMAIN NamesOf /\ e.name \in NamesOf[e.reg]

VARIABLES
  registries,    \* agent -> [tool, mcp, a2a, sub]: names in order of registration
  changes,       \* registrations and removals so far
  call,          \* the admission: [kind, step, work, atStart]
  offered,       \* <<path, names>> for every tool list resolved
  routes,        \* paths of the sub-agents in the spec tree
  surface,       \* whether the run is a "run" or a "stream"
  table,         \* Agent.runs or Agent.streams: the handle stored, or NoHandle
  opener,        \* opener -> [step, handle]
  finished,      \* handles whose Done is closed
  waiting,       \* handles whose awaitCompletion has not ended
  handles,       \* handles made so far
  runOver        \* the run has ended

facadeVars == <<registries, changes, call, offered, routes,
                surface, table, opener, finished, waiting, handles, runOver>>
admissionVars == <<registries, changes, call, offered, routes>>
handleVars == <<surface, table, opener, finished, waiting, handles, runOver>>

EmptyRegistries == [a \in Agents |-> [tool |-> <<>>, mcp |-> <<>>, a2a |-> <<>>, sub |-> <<>>]]
NoHandle == 0
NoCall == [kind |-> "none", step |-> "idle", work |-> <<>>, atStart |-> <<>>]

-----------------------------------------------------------------------------
(* Registries: names in order, one entry per name.                         *)

removeFromOrder(names, n) == RemoveFirst(names, n)

\* Under the registry's lock: a name that is there, or that is not, is an error.
registerLocked(e) ==
  /\ changes < MaxChanges /\ changes' = changes + 1
  /\ e.name \notin Range(registries[e.at][e.reg])
  /\ registries' = [registries EXCEPT ![e.at][e.reg] = Append(@, e.name)]
  /\ UNCHANGED <<call, offered, routes>>

unregisterLocked(e) ==
  /\ changes < MaxChanges /\ changes' = changes + 1
  /\ e.name \in Range(registries[e.at][e.reg])
  /\ registries' = [registries EXCEPT ![e.at][e.reg] = removeFromOrder(@, e.name)]
  /\ UNCHANGED <<call, offered, routes>>

RegisterTool(e) == e.reg = "tool" /\ registerLocked(e)
RegisterMCP(e) == e.reg = "mcp" /\ registerLocked(e)
RegisterA2A(e) == e.reg = "a2a" /\ registerLocked(e)
RegisterSubAgent(e) == e.reg = "sub" /\ registerLocked(e)
UnregisterTool(e) == e.reg = "tool" /\ unregisterLocked(e)
UnregisterMCP(e) == e.reg = "mcp" /\ unregisterLocked(e)
UnregisterA2A(e) == e.reg = "a2a" /\ unregisterLocked(e)
UnregisterSubAgent(e) == e.reg = "sub" /\ unregisterLocked(e)

-----------------------------------------------------------------------------
(* Admission.  The work that is left is a sequence of tasks: resolveTools  *)
(* and resolveSubAgentSpecs of an agent at a path, and the visits of       *)
(* dfsSubAgentDepth.  Reading a registry is one step.                      *)

Tools(path) == [do |-> "tools", path |-> path]
Listing(path, names) == [do |-> "listing", path |-> path, names |-> names]
Skills(path, names) == [do |-> "skills", path |-> path, names |-> names]
SubTools(path, names) == [do |-> "subtools", path |-> path, names |-> names]
Graph(path) == [do |-> "graph", path |-> path]
Visit(trail) == [do |-> "visit", trail |-> trail]
Handler == [do |-> "handler"]
Specs(path) == [do |-> "specs", path |-> path]

At(path) == registries[Last(path)]
Do(task) == call.step = "busy" /\ call.work # <<>> /\ Head(call.work).do = task

Continue(tasks) ==
  call' = [call EXCEPT !.work = tasks \o Tail(@),
                       !.step = IF tasks \o Tail(call.work) = <<>> THEN "admitted" ELSE @]
Refuse == call' = [call EXCEPT !.step = "refused", !.work = <<>>]

Run ==
  /\ call = NoCall
  /\ call' = [kind |-> "run", step |-> "busy", atStart |-> <<registries, changes>>,
              work |-> <<Tools(<<Root>>), Handler, Specs(<<Root>>)>>]
  /\ UNCHANGED <<registries, changes, offered, routes>>

Stream ==
  /\ call = NoCall
  /\ call' = [kind |-> "stream", step |-> "busy", atStart |-> <<registries, changes>>,
              work |-> <<Tools(<<Root>>), Specs(<<Root>>)>>]
  /\ UNCHANGED <<registries, changes, offered, routes>>

\* resolveTools begins with the native tools,
resolveTools ==
  /\ Do("tools")
  /\ LET t == Head(call.work) IN Continue(<<Listing(t.path, At(t.path).tool)>>)
  /\ UNCHANGED <<registries, changes, offered, routes>>

Lists(servers) == FlattenSeq([i \in 1..Len(servers) |-> Remote[servers[i]]])

\* then asks every registered MCP server, which may not answer,
resolveMCPTools ==
  /\ Do("listing")
  /\ LET t == Head(call.work)
     IN \/ Continue(<<Skills(t.path, t.names \o Lists(At(t.path).mcp))>>)
        \/ At(t.path).mcp # <<>> /\ Refuse
  /\ UNCHANGED <<registries, changes, offered, routes>>

\* then every A2A peer,
resolveA2ATools ==
  /\ Do("skills")
  /\ LET t == Head(call.work)
     IN \/ Continue(<<SubTools(t.path, t.names \o Lists(At(t.path).a2a))>>)
        \/ At(t.path).a2a # <<>> /\ Refuse
  /\ UNCHANGED <<registries, changes, offered, routes>>

UniqueNames(names) == IsInjective(names)

\* then adds the tools of the sub-agents and compares all the names,
resolveSubAgentTools ==
  /\ Do("subtools")
  /\ LET t == Head(call.work)
         names == t.names \o [i \in 1..Len(At(t.path).sub) |-> AgentTool[At(t.path).sub[i]]]
     IN IF UniqueNames(names)
        THEN Continue(<<Graph(t.path)>>) /\ offered' = offered \cup {<<t.path, names>>}
        ELSE Refuse /\ UNCHANGED offered
  /\ UNCHANGED <<registries, changes, routes>>

\* and lists the sub-agents again to validate the graph below them.
validateSubAgentRegistry ==
  /\ Do("graph")
  /\ LET subs == At(Head(call.work).path).sub
     IN IF Last(Head(call.work).path) \in Range(subs)
           \/ ~IsInjective([i \in 1..Len(subs) |-> AgentTool[subs[i]]])
        THEN Refuse
        ELSE Continue([i \in 1..Len(subs) |-> Visit(<<subs[i]>>)])
  /\ UNCHANGED <<registries, changes, offered, routes>>

\* Mutant: one level more than the limit.
TooDeepByOne(trail) == Len(trail) > MaxDepth + 1

TooDeep(trail) == Len(trail) > MaxDepth

dfsSubAgentDepth ==
  /\ Do("visit")
  /\ LET trail == Head(call.work).trail
         subs == registries[Last(trail)].sub
     IN IF TooDeep(trail) \/ Range(subs) \cap Range(trail) # {}
        THEN Refuse
        ELSE Continue([i \in 1..Len(subs) |-> Visit(Append(trail, subs[i]))])
  /\ UNCHANGED <<registries, changes, offered, routes>>

\* Run needs an approval handler when there are tools (the default policy asks
\* for every tool); whether the agent has one is its configuration.
hasApprovalTools ==
  /\ Do("handler")
  /\ \/ Continue(<<>>)
     \/ \E o \in offered : o[1] = <<Root>> /\ o[2] # <<>> /\ Refuse
  /\ UNCHANGED <<registries, changes, offered, routes>>

\* The tree of specifications: for each sub-agent its tools, then its own tree.
resolveSubAgentSpecs ==
  /\ Do("specs")
  /\ LET path == Head(call.work).path
         subs == At(path).sub
     IN /\ Continue(FlattenSeq([i \in 1..Len(subs) |->
                      <<Tools(Append(path, subs[i])), Specs(Append(path, subs[i]))>>]))
        /\ routes' = routes \cup {Append(path, subs[i]) : i \in 1..Len(subs)}
  /\ UNCHANGED <<registries, changes, offered>>

-----------------------------------------------------------------------------
(* Handles of one run.                                                     *)

Opening(o, step) == opener[o].step = step
Goto(o, step, h) == opener' = [opener EXCEPT ![o] = [step |-> step, handle |-> h]]

\* The table first.
LookUp(o) ==
  /\ Opening(o, "idle")
  /\ Goto(o, IF table = NoHandle THEN "lookup" ELSE "existing", table)
  /\ UNCHANGED <<surface, table, finished, waiting, handles, runOver>>

GetAgentRun(o) == surface = "run" /\ LookUp(o)
GetAgentStream(o) == surface = "stream" /\ LookUp(o)

\* An existing handle is returned; one that is done is removed by its key.
ExistingHandle(o) ==
  /\ Opening(o, "existing")
  /\ table' = IF opener[o].handle \in finished THEN NoHandle ELSE table
  /\ Goto(o, "done", NoHandle)
  /\ UNCHANGED <<surface, finished, waiting, handles, runOver>>

\* Otherwise the runtime gives a handle, or says that the run is over or unknown.
GetRunHandle(o) ==
  /\ Opening(o, "lookup")
  /\ \/ /\ ~runOver /\ handles < MaxHandles
        /\ handles' = handles + 1
        /\ Goto(o, "register", handles + 1)
     \/ Goto(o, "done", NoHandle) /\ UNCHANGED handles
  /\ UNCHANGED <<surface, table, finished, waiting, runOver>>

\* Mutant: only the first handle of a run gets a goroutine that waits.
WatchFirstOnly(o) ==
  /\ Opening(o, "register")
  /\ table' = opener[o].handle
  /\ waiting' = IF table = NoHandle THEN waiting \cup {opener[o].handle} ELSE waiting
  /\ Goto(o, "done", NoHandle)
  /\ UNCHANGED <<surface, finished, handles, runOver>>

\* Into the table, then the goroutine that waits for the end.
Track(o) ==
  /\ Opening(o, "register")
  /\ table' = opener[o].handle
  /\ waiting' = waiting \cup {opener[o].handle}
  /\ Goto(o, "done", NoHandle)
  /\ UNCHANGED <<surface, finished, handles, runOver>>

newAgentRun(o) == surface = "run" /\ Track(o)
newAgentStream(o) == surface = "stream" /\ Track(o)

\* awaitCompletion: DeleteIf removes the handle only while it is the one stored.
awaitCompletion(h) ==
  /\ h \in waiting \cap finished
  /\ waiting' = waiting \ {h}
  /\ table' = IF table = h THEN NoHandle ELSE table
  /\ UNCHANGED <<surface, opener, finished, handles, runOver>>

\* External: the run ends, and its handles learn of it one by one; a handle
\* that lost its connection closes Done earlier.
RunEnds == ~runOver /\ runOver' = TRUE /\ UNCHANGED <<surface, table, opener, finished, waiting, handles>>

HandleDone(h) ==
  /\ h \in 1..handles \ finished
  /\ finished' = finished \cup {h}
  /\ UNCHANGED <<surface, table, opener, waiting, handles, runOver>>

-----------------------------------------------------------------------------
FacadeInit ==
  /\ registries \in Initial /\ changes = 0
  /\ call = NoCall /\ offered = {} /\ routes = {}
  /\ surface \in {"run", "stream"}
  /\ table = NoHandle /\ finished = {} /\ waiting = {} /\ handles = 0 /\ runOver = FALSE
  /\ opener = [o \in Openers |-> [step |-> "idle", handle |-> NoHandle]]

Admission ==
  \/ Run \/ Stream
  \/ resolveTools \/ resolveMCPTools \/ resolveA2ATools \/ resolveSubAgentTools
  \/ validateSubAgentRegistry \/ dfsSubAgentDepth \/ hasApprovalTools \/ resolveSubAgentSpecs
  \/ \E e \in Registrable : \/ RegisterTool(e) \/ RegisterMCP(e) \/ RegisterA2A(e) \/ RegisterSubAgent(e)
                            \/ UnregisterTool(e) \/ UnregisterMCP(e) \/ UnregisterA2A(e) \/ UnregisterSubAgent(e)

HandleStep ==
  \/ \E o \in Openers :
       \/ GetAgentRun(o) \/ GetAgentStream(o) \/ ExistingHandle(o) \/ GetRunHandle(o)
       \/ newAgentRun(o) \/ newAgentStream(o)
  \/ \E h \in 1..MaxHandles : awaitCompletion(h) \/ HandleDone(h)
  \/ RunEnds

-----------------------------------------------------------------------------
(* Properties.                                                             *)

\* Paths of k sub-agents below the root, in the registries r.
Below(r, k) ==
  {p \in [1..k + 1 -> Agents] :
     p[1] = Root /\ \A i \in 1..k : p[i + 1] \in Range(r[p[i]].sub)}

Undisturbed == call.atStart[2] = changes

\* An admitted call whose registries nobody touched hands the runtime exactly
\* the tree that is registered: within the depth limit, so without a cycle,
\* every delegate tool with a route and every route with a tool; and even when
\* registries change on the way, no tool list has two tools of one name.
AdmittedSound ==
  call.step = "admitted" =>
    /\ \A o \in offered : IsInjective(o[2])
    /\ Undisturbed =>
         LET r == call.atStart[1]
         IN /\ Below(r, MaxDepth + 1) = {}
            /\ routes = UNION {Below(r, k) : k \in 1..MaxDepth}
            /\ \A o \in offered : \A a \in Agents :
                 Append(o[1], a) \in routes =>
                   \E i \in 1..Len(o[2]) : o[2][i] = AgentTool[a]

\* When every handle is done, every call returned and every waiter ended, the
\* table is empty: no finished run is kept for the life of the process.
TableDrains ==
  (/\ \A o \in Openers : opener[o].step \in {"idle", "done"}
   /\ finished = 1..handles /\ waiting = {})
    => table = NoHandle
=============================================================================
