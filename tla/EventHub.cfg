SPECIFICATION HubSpec
CONSTANTS
  Handles = {h1}
  Identities = {id1, id2, none}
  Queueless = {none}
  Receivers = {r1, r2}
  MsgIds = {m1, m2}
  MaxNodes = 3
  MaxEvents = 2
  QueueSize = 2
  InSize = 1
  NULL = NULL
CHECK_DEADLOCK FALSE
INVARIANT OneOwner
PROPERTY ImplementsPubSub
