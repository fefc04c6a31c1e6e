SPECIFICATION AgentSpec
CONSTANTS
  Attachments = {a1, a2}
  MaxListErrors = 1
  MaxUpdates = 1
  MaxDrops = 1
  NotReady = notReady
  Drain = drain
  Steps = 2
  NeverStop = {TRUE, FALSE}
  NodeTypes <- MCNodeTypes
  MaxFailures = 2
  MaxTaintings = 1
INVARIANTS ReadyIsLimited
PROPERTIES DrainSeen SeenDeletionEndsHook TaintGoes
CHECK_DEADLOCK FALSE
