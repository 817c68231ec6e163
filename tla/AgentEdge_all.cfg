SPECIFICATION Spec
CONSTANTS
  Offered <- MCOffered
  Listed <- MCListed
  Self = "me"
  Spends <- MCSpends
  MaxOptions = 3
  MaxBuilds = 2
  Agents <- MCAgents
  Root = "root"
  AgentTool <- MCTool
  Remote <- MCRemote
  Initial <- MCInitial
  Registrable <- MCRegistrable
  MaxDepth = 2
  MaxChanges = 2
  Openers = {o1, o2, o3}
  MaxHandles = 3
  Callers = {c1, c2, c3}
  Pages <- MCPages
  Allow = {}
  Block = {"write"}
  RetryAttempts = 2
  MaxInner = 4
  Requests = {r1, r2}
  Tokens = {"secret"}
  Presented = {"none", "secret"}
  AgentTools <- MCAgentTools
  CardSkills <- MCSkills
  MaxDeltas = 2
INVARIANT WorkerEnforces
INVARIANT AdmittedSound
INVARIANT TableDrains
INVARIANT ConnectionsOwned
INVARIANT TaskEndsOnce
CHECK_DEADLOCK FALSE
