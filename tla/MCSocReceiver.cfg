SPECIFICATION Spec
CONSTANTS
  Agents = {u}
  u = u
  None = None
  Fds = {1, 2, 3}
  AgentSlots = {1, 2}
  SseSlots = {1}
CHECK_DEADLOCK FALSE
INVARIANTS  FollowersAreOpen NoDescriptorLost CommandsReachTheAgent
