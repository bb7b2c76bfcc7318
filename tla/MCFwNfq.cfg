SPECIFICATION Spec
CONSTANTS
  remote = remote
  local = local
  bypassed = bypassed
  yara = yara
  Ips = {remote, local, bypassed}
  LocalIps = {local}
  BypassedIps = {bypassed}
  Threats = {yara}
  Damage <- MCDamage
  Payloads <- MCPayloads
  None = None
  Part = Part
  SocketCapacity = 1
CHECK_DEADLOCK FALSE
INVARIANTS DescriptorClosedOnce 
PROPERTIES  AgentIsAccepted
