---------------------------- MODULE MCAgentEdge ----------------------------
EXTENDS AgentEdge
\* Configuration.
TokenLimit(t, e, x, a) ==
  [NoBudget EXCEPT !.tokens = t, !.onExceeded = e, !.extra = x, !.approvals = a]
CostLimit(c, p, q, e, x) ==
  [NoBudget EXCEPT !.cost = c, !.promptPrice = p, !.completionPrice = q, !.onExceeded = e, !.extraCost = x]
MCSpends == [prompt : 0..3, completion : 0..3]
MCOffered ==
  {[opt |-> "factory", v |-> f] : f \in {"temporal", "restate"}} \cup
  {[opt |-> "local"], [opt |-> "shared", v |-> TRUE], [opt |-> "tools", v |-> <<"t", "u">>],
   [opt |-> "tools", v |-> <<"t">>], [opt |-> "servers", v |-> {"m"}], [opt |-> "hooks", v |-> "h"],
   [opt |-> "timeout", v |-> 3], [opt |-> "timeout", v |-> 60], [opt |-> "approval", v |-> 40],
   [opt |-> "mode", v |-> "autonomous"], [opt |-> "policy", v |-> "auto"],
   [opt |-> "fallback", v |-> "f"], [opt |-> "named", v |-> {"f"}],
   [opt |-> "retrievers", v |-> <<"t">>], [opt |-> "retrieverMode", v |-> "prefetch"],
   [opt |-> "clients", v |-> <<"m">>], [opt |-> "peers", v |-> {"x"}], [opt |-> "peerClients", v |-> <<"x">>],
   [opt |-> "subs", v |-> <<"s">>], [opt |-> "subs", v |-> <<"me">>], [opt |-> "memory", v |-> "ondemand"],
   [opt |-> "named", v |-> {""}], [opt |-> "breaker", v |-> 2], [opt |-> "breaker", v |-> 0 - 1],
   [opt |-> "conversation", v |-> "inmem"], [opt |-> "disableLocalWorker", v |-> TRUE],
   [opt |-> "disableFingerprintCheck", v |-> TRUE],
   [opt |-> "budget", v |-> TokenLimit(5, "", 0, 0)], [opt |-> "budget", v |-> TokenLimit(5, "wait", 0, 0)],
   [opt |-> "budget", v |-> TokenLimit(5, "wait", 3, 1)], [opt |-> "budget", v |-> TokenLimit(5, "stop", 3, 0)],
   [opt |-> "budget", v |-> TokenLimit(0, "", 0, 0)], [opt |-> "budget", v |-> CostLimit(6, 1, 2, "wait", 0)],
   [opt |-> "budget", v |-> CostLimit(6, 3, 2, "wait", 6)], [opt |-> "budget", v |-> CostLimit(6, 1, 2, "wait", 3)],
   [opt |-> "budget", v |-> CostLimit(6, 1, 0, "", 0)]}
MCListed == "m" :> <<"u">> @@ "x" :> <<"x_skill">> @@ "s" :> <<"x_skill">> @@ "me" :> <<"subagent_me">>
\* Admission.
MCAgents == {"root", "a", "b", "c"}
MCTool == "root" :> "subagent_root" @@ "a" :> "subagent_a" @@ "b" :> "subagent_b" @@ "c" :> "subagent_c"
\* The peer x has a skill whose tool is named like the tool that delegates to b.
MCRemote == "m" :> <<"mcp_m">> @@ "x" :> <<"subagent_b">>
Entry(a, r, n) == [at |-> a, reg |-> r, name |-> n]
MCInitial ==
  {EmptyRegistries,
   [EmptyRegistries EXCEPT !["root"].tool = <<"t">>, !["root"].mcp = <<"m">>, !["root"].sub = <<"a">>,
                           !["a"].sub = <<"b">>],
   [EmptyRegistries EXCEPT !["root"].sub = <<"a", "b">>, !["a"].sub = <<"c">>, !["b"].a2a = <<"x">>]}
MCRegistrable ==
  {Entry("root", "sub", "b"), Entry("a", "sub", "b"), Entry("b", "sub", "c"), Entry("b", "sub", "root"),
   Entry("root", "a2a", "x"), Entry("root", "tool", "mcp_m"), Entry("a", "mcp", "m"), Entry("root", "sub", "root")}
\* Remote clients and the A2A server.
MCPages == <<<<"read", "write">>, <<"find">>>>
MCAgentTools == {<<>>, <<[name |-> "t", kind |-> "native"]>>}
MCSkills == <<>>
=============================================================================
