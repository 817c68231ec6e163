----------------------------- MODULE AgentEdge -----------------------------
(***************************************************************************)
(* The edge of the SDK: building an agent and its worker (AgentConfig),    *)
(* admitting a run and keeping its handles (AgentFacade), the clients of   *)
(* remote servers (RemoteClients) and the agent as a server (A2AServer).   *)
(* These parts share no state while they run, so one behaviour exercises   *)
(* one of them, chosen at the start.                                       *)
(***************************************************************************)
EXTENDS AgentConfig, AgentFacade, RemoteClients, A2AServer

VARIABLE part   \* the part this behaviour exercises

vars == <<part, configVars, facadeVars, remoteVars, serverVars>>

Init ==
  /\ part \in {"config", "admission", "handles", "clients", "server"}
  /\ ConfigInit /\ RemoteInit /\ ServerInit
  /\ FacadeInit
  /\ part # "admission" => registries = EmptyRegistries
  /\ part # "handles" => surface = "run"
  /\ part # "clients" => client = "mcp"
  /\ part # "server" => ~streams

Next ==
  \/ part = "config" /\ ConfigNext /\ UNCHANGED <<part, facadeVars, remoteVars, serverVars>>
  \/ part = "admission" /\ Admission
       /\ UNCHANGED <<part, configVars, handleVars, remoteVars, serverVars>>
  \/ part = "handles" /\ HandleStep
       /\ UNCHANGED <<part, configVars, admissionVars, remoteVars, serverVars>>
  \/ part = "clients" /\ RemoteNext /\ UNCHANGED <<part, configVars, facadeVars, serverVars>>
  \/ part = "server" /\ ServerNext /\ UNCHANGED <<part, configVars, facadeVars, remoteVars>>

Spec == Init /\ [][Next]_vars
=============================================================================
