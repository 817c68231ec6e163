---------------------------- MODULE AgentConfig ----------------------------
(***************************************************************************)
(* Building an agent from its options (pkg/agent/config.go,                *)
(* runtime_factory.go) and the worker process of the same agent            *)
(* (worker.go), with the fingerprint that decides whether the worker takes *)
(* the agent's activities (internal/runtime/temporal/fingerprint.go).      *)
(*                                                                         *)
(* Options are applied in the order the caller gives them; a refused build *)
(* may be tried again with a tool registry that the caller owns and that   *)
(* kept what the refused build registered.  The worker is deployed with    *)
(* the options of the agent, or with one more: configuration drift.        *)
(* Times are in units of ten seconds, dollars and prices in whole numbers.  *)
(***************************************************************************)
EXTENDS Integers, Sequences, FiniteSets, SequencesExt

CONSTANTS
  Offered,       \* the options a caller may give: records [opt, v]
  Listed,        \* MCP server, A2A peer or sub-agent -> the tool names it brings
  Self,          \* the agent's own name
  Spends,        \* prompt and completion tokens a run may have used
  MaxOptions,    \* bound: options given to one build
  MaxBuilds      \* bound: builds of the agent that are tried

VARIABLES
  options,       \* the options applied so far: an agentConfig before validation
  asked,         \* the runtimes the options asked for
  given,         \* options given to this build
  stage,         \* "options", "built", "refused"
  builds,        \* builds started
  registry,      \* the caller's ToolRegistry (WithToolRegistry): names in order
  agent,         \* the agent's configuration once built
  worker         \* [status]: "none", "refused", or "built" with its configuration cfg

configVars == <<options, asked, given, stage, builds, registry, agent, worker>>

\* The configuration without WithBudget.
NoBudget == [tokens |-> 0, cost |-> 0, promptPrice |-> 0, completionPrice |-> 0, onExceeded |-> "none",
             extra |-> 0, extraCost |-> 0, approvals |-> 0]
Thirty == 3
MaxApprovalTimeout == 31 * 24 * 360

agentConfig ==
  [factory |-> "none", local |-> FALSE, conflict |-> FALSE, named |-> {}, fallback |-> "",
   mode |-> "", timeout |-> 0, approval |-> 0, iterations |-> 0, budget |-> NoBudget,
   hooks |-> <<>>, retrievers |-> <<>>, retrieverMode |-> "", tools |-> <<>>,
   shared |-> FALSE, servers |-> {}, clients |-> <<>>, peers |-> {}, peerClients |-> <<>>, subs |-> <<>>,
   memory |-> "none", breaker |-> 0, policy |-> "", conversation |-> "none",
   disableLocalWorker |-> FALSE, disableFingerprintCheck |-> FALSE]

ConfigFields == DOMAIN agentConfig
IsBudget(b) == b = [f \in DOMAIN NoBudget |-> b[f]]

\* An option sets a field, and none sets the mark of a conflict; a budget has
\* its fields; the runtimes have names of their own.
ASSUME ConfigAssumption ==
  \A o \in Offered : /\ o.opt \in ConfigFields \ {"conflict"}
                     /\ o.opt = "budget" => IsBudget(o.v)
                     /\ o.opt = "factory" => o.v \notin {"none", "local"}

-----------------------------------------------------------------------------
(* Options.                                                                *)

withRuntimeFactory(c, f) ==
  [c EXCEPT !.conflict = \/ @
                         \/ c.factory \notin {"none", f}
                         \/ c.local,
            !.factory = f]

withLocalConfig(c) ==
  IF c.factory # "none" THEN [c EXCEPT !.conflict = TRUE] ELSE [c EXCEPT !.local = TRUE]

ApplyOption(c, o) ==
  CASE o.opt = "factory" -> withRuntimeFactory(c, o.v)
    [] o.opt = "local" -> withLocalConfig(c)
    [] o.opt = "hooks" -> [c EXCEPT !.hooks = Append(@, o.v)]
    [] OTHER -> [c EXCEPT ![o.opt] = o.v]

-----------------------------------------------------------------------------
(* Validation and defaults, in the order of buildAgentConfig.              *)

validateHookGroups(c) == "" \notin Range(c.hooks) /\ IsInjective(c.hooks)

ValidateDistributed(c) == ~(c.conversation = "inmem" /\ c.disableLocalWorker)

BeforeRegistries(c) ==
  /\ validateHookGroups(c)
  /\ ~c.conflict
  /\ ValidateDistributed(c)
  /\ c.mode \in {"", "interactive", "autonomous"}

\* Register refuses a name that is there; the names before it stay registered.
buildToolRegistry(c, reg) ==
  LET fresh(n) == /\ \A i \in 1..n : c.tools[i] \notin Range(reg)
                  /\ IsInjective(SubSeq(c.tools, 1, n))
      n == CHOOSE k \in 0..Len(c.tools) : fresh(k) /\ (k < Len(c.tools) => ~fresh(k + 1))
  IN [ok |-> n = Len(c.tools), names |-> reg \o SubSeq(c.tools, 1, n)]

\* No client without a name and no two of one name.
validateMCPClients(names) == "" \notin Range(names) /\ IsInjective(names)
validateA2AClients(names) == "" \notin Range(names) /\ IsInjective(names)

\* The configured servers in the order of their keys, then the clients.
buildMCPRegistry(c) == SetToSeq(c.servers) \o c.clients
buildA2ARegistry(c) == SetToSeq(c.peers) \o c.peerClients

\* An agent is not its own sub-agent, and no two have one name.
buildSubAgentRegistry(c) == IsInjective(c.subs) /\ Self \notin Range(c.subs)

BuildRegistries(c) ==
  /\ validateMCPClients(buildMCPRegistry(c)) /\ validateA2AClients(buildA2ARegistry(c))
  /\ buildSubAgentRegistry(c)

validateRetrieverMode(mode) == IF mode = "" THEN "agentic" ELSE mode

resolveRetrieverTools(c) ==
  IF validateRetrieverMode(c.retrieverMode) = "prefetch" THEN <<>> ELSE c.retrievers

resolveMemoryTools(c) == IF c.memory = "ondemand" THEN <<"save_memory">> ELSE <<>>

Brought(names) == FlattenSeq([i \in DOMAIN names |-> Listed[names[i]]])

\* Native, MCP, A2A, sub-agents, memory, retrievers.
ToolNames(c, reg) ==
  reg \o Brought(buildMCPRegistry(c)) \o Brought(buildA2ARegistry(c)) \o Brought(c.subs)
      \o resolveMemoryTools(c) \o resolveRetrieverTools(c)

validateToolNames(names) == IsInjective(names)

DefaultTimeout(c) ==
  IF c.timeout # 0 THEN c.timeout ELSE IF c.mode = "autonomous" THEN 360 ELSE 30

DefaultApproval(c) ==
  IF c.approval = 0 THEN DefaultTimeout(c) - Thirty ELSE c.approval

validateTimeouts(c) ==
  /\ DefaultApproval(c) < DefaultTimeout(c)
  /\ DefaultApproval(c) <= MaxApprovalTimeout

\* A limit on the cost needs both prices; what an approval opens is for "wait" only.
validateBudget(b) ==
  b = NoBudget \/
  /\ \A f \in DOMAIN NoBudget \ {"onExceeded"} : b[f] >= 0
  /\ b.tokens # 0 \/ b.cost # 0
  /\ b.cost > 0 => b.promptPrice > 0 /\ b.completionPrice > 0
  /\ b.onExceeded \in {"", "stop", "wait"}
  /\ b.onExceeded # "wait" => b.extra = 0 /\ b.extraCost = 0 /\ b.approvals = 0

BudgetDefaults(b) ==
  CASE b = NoBudget -> b
    [] b.onExceeded = "wait" -> [b EXCEPT !.extra = IF @ = 0 THEN b.tokens ELSE @,
                                          !.extraCost = IF @ = 0 THEN b.cost ELSE @]
    [] OTHER -> [b EXCEPT !.onExceeded = "stop"]

validateNamedLLMClients(c) == "" \notin c.named

\* The fallback is a named client; the breaker's thresholds (here one) are not negative.
validateErrorControl(c) == (c.fallback # "" => c.fallback \in c.named) /\ c.breaker >= 0

AfterRegistries(c, reg) ==
  /\ validateToolNames(ToolNames(c, reg))
  /\ IsInjective(c.retrievers) \/ validateRetrieverMode(c.retrieverMode) = "prefetch"
  /\ validateTimeouts(c)
  /\ validateBudget(c.budget)
  /\ validateNamedLLMClients(c) /\ validateErrorControl(c)

\* The configuration a build returns: what was asked, with the defaults filled in.
Defaults(c, reg) ==
  [c EXCEPT !.mode = IF @ = "" THEN "interactive" ELSE @,
            !.policy = IF @ = "" THEN "require_all" ELSE @,
            !.retrieverMode = validateRetrieverMode(@),
            !.timeout = DefaultTimeout(c), !.approval = DefaultApproval(c),
            !.iterations = IF @ <= 0 THEN 5 ELSE @,
            !.budget = BudgetDefaults(@),
            !.tools = ToolNames(c, reg)]

\* [ok, cfg, names]: names is the tool registry after the build, refused or not.
buildAgentConfig(c, reg) ==
  LET built == buildToolRegistry(c, reg)
  IN IF ~BeforeRegistries(c) THEN [ok |-> FALSE, names |-> reg]
     ELSE IF built.ok /\ BuildRegistries(c) /\ AfterRegistries(c, built.names)
          THEN [ok |-> TRUE, names |-> built.names, cfg |-> Defaults(c, built.names)]
          ELSE [ok |-> FALSE, names |-> built.names]

-----------------------------------------------------------------------------
(* What the runtime makes of the configuration.                            *)

\* The wait for an approval: the local and the Temporal loop read 0, the
\* Restate loop 0 and less, as "not configured".
approvalTaskTimeout(c) ==
  IF c.approval = 0 \/ c.approval > MaxApprovalTimeout \/ (c.factory = "restate" /\ c.approval < 0)
  THEN MaxApprovalTimeout
  ELSE c.approval

\* The tracker of a run counts with the prices of the process that serves it:
\* does a spend reach the first window of tokens or of dollars?
checkLimits(b, spend) ==
  LET window(extra, max) == IF extra = 0 THEN max ELSE extra
  IN \/ b.tokens > 0 /\ spend.prompt + spend.completion >= window(b.extra, b.tokens)
     \/ b.cost > 0 /\ spend.prompt * b.promptPrice + spend.completion * b.completionPrice
                          >= window(b.extraCost, b.cost)

RequiresApproval(c, tool) == c.policy # "auto"

toolPolicyFingerprint(c) == c.policy

retrieverConfigFingerprint(c) ==
  IF c.retrievers = <<>> /\ c.retrieverMode = "agentic"
  THEN <<>>
  ELSE <<c.retrieverMode, Range(c.retrievers)>>

hookGroupsFingerprint(c) == Range(c.hooks)

mcpConfigFingerprint(c) == <<c.servers, Range(c.clients)>>
a2aConfigFingerprint(c) == <<c.peers, Range(c.peerClients)>>
namedLLMClientsFingerprint(c) == c.named
errorControlFingerprint(c) == <<c.fallback, c.breaker>>

\* Mutant: the digest covers the limit and not the window an approval opens.
PayloadWithoutExtra(b) == <<b.tokens, b.cost, b.onExceeded>>

\* The two prices and MaxApprovals are not in it.
BudgetPayload(b) == <<b.tokens, b.cost, b.onExceeded, b.extra, b.extraCost>>

\* Servers registered in a caller's MCPRegistry are not in it.
ComputeAgentFingerprint(c) ==
  [tools |-> Range(c.tools), policy |-> toolPolicyFingerprint(c), mcp |-> mcpConfigFingerprint(c),
   a2a |-> a2aConfigFingerprint(c), mode |-> c.mode, retrievers |-> retrieverConfigFingerprint(c),
   hooks |-> hookGroupsFingerprint(c), named |-> namedLLMClientsFingerprint(c), errors |-> errorControlFingerprint(c),
   iterations |-> c.iterations, timeout |-> c.timeout, approval |-> c.approval,
   budget |-> BudgetPayload(c.budget)]

verifyAgentFingerprint(caller, serving) ==
  caller.disableFingerprintCheck \/ ComputeAgentFingerprint(caller) = ComputeAgentFingerprint(serving)

-----------------------------------------------------------------------------
ConfigInit ==
  /\ options = agentConfig /\ asked = {} /\ given = 0
  /\ stage = "options" /\ builds = 1 /\ registry = <<>>
  /\ agent = agentConfig /\ worker = [status |-> "none"]

WithOption(o) ==
  /\ stage = "options" /\ given < MaxOptions
  /\ options' = ApplyOption(options, o) /\ given' = given + 1
  /\ asked' = asked \cup (IF o.opt = "factory" THEN {o.v}
                          ELSE IF o.opt = "local" THEN {"local"} ELSE {})
  /\ UNCHANGED <<stage, builds, registry, agent, worker>>

\* buildAgent: the configuration, then the runtime its factory builds.
NewAgent ==
  /\ stage = "options"
  /\ LET r == buildAgentConfig(options, IF options.shared THEN registry ELSE <<>>)
     IN /\ stage' = IF r.ok THEN "built" ELSE "refused"
        /\ agent' = IF r.ok THEN r.cfg ELSE agent
        /\ registry' = IF options.shared THEN r.names ELSE registry
  /\ UNCHANGED <<options, asked, given, builds, worker>>

\* The caller corrects the options and keeps the registry.
TryAgain ==
  /\ stage = "refused" /\ builds < MaxBuilds
  /\ options' = agentConfig /\ asked' = {} /\ given' = 0
  /\ stage' = "options" /\ builds' = builds + 1
  /\ UNCHANGED <<registry, agent, worker>>

\* The worker is another process, with a registry of its own.
NewAgentWorker(drift) ==
  /\ stage = "built" /\ worker.status = "none"
  /\ LET c == IF drift.opt = "none" THEN options ELSE ApplyOption(options, drift)
         r == buildAgentConfig(c, <<>>)
     IN worker' = IF r.ok /\ c.factory = "temporal" /\ ~c.disableFingerprintCheck
                  THEN [status |-> "built", cfg |-> r.cfg] ELSE [status |-> "refused"]
  /\ UNCHANGED <<options, asked, given, stage, builds, registry, agent>>

ConfigNext ==
  \/ \E o \in Offered : WithOption(o)
  \/ NewAgent
  \/ TryAgain
  \/ \E d \in Offered \cup {[opt |-> "none"]} : NewAgentWorker(d)

ConfigSpec == ConfigInit /\ [][ConfigNext]_configVars

-----------------------------------------------------------------------------
(* Properties.                                                             *)

\* What the digest covers of a budget: the limits and the windows, neither the
\* prices nor the number of approvals.
Fingerprinted(b) == [b EXCEPT !.promptPrice = 0, !.completionPrice = 0, !.approvals = 0]

TakesActivities ==
  worker.status = "built" /\ ~agent.disableFingerprintCheck /\ verifyAgentFingerprint(agent, worker.cfg)

\* A worker that takes the agent's activities (equal fingerprints) has what
\* the agent was built with: the same limits in tokens and in dollars, the
\* same window for approvals and for a granted budget, approval for the same
\* tools, the same breaker and fallback model. Where its prices are those of
\* the agent too, it stops a run at the same spend (BuildAgentFingerprintPayload,
\* verifyAgentFingerprint, validateBudget).
WorkerEnforces ==
  TakesActivities =>
    LET w == worker.cfg
    IN /\ approvalTaskTimeout(agent) = approvalTaskTimeout(w)
       /\ Fingerprinted(agent.budget) = Fingerprinted(w.budget)
       /\ agent.breaker = w.breaker /\ agent.fallback = w.fallback
       /\ agent.iterations = w.iterations /\ agent.timeout = w.timeout
       /\ {t \in Range(agent.tools) : RequiresApproval(agent, t)}
            = {t \in Range(w.tools) : RequiresApproval(w, t)}
       /\ /\ agent.budget.promptPrice = w.budget.promptPrice
          /\ agent.budget.completionPrice = w.budget.completionPrice
          => \A u \in Spends : checkLimits(agent.budget, u) = checkLimits(w.budget, u)

\* docs/getting-started/configuration.mdx:186: agent and worker must share
\* identical configuration, and the fingerprint check validates it. Then a
\* worker that takes the activities stops a run at the same spend as the agent's
\* configuration does (BuildAgentFingerprintPayload, NewBudgetTracker).
WorkerStopsAlike ==
  TakesActivities => \A u \in Spends : checkLimits(agent.budget, u) = checkLimits(worker.cfg.budget, u)

=============================================================================
