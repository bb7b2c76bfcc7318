SPECIFICATION Spec
CONSTANTS
  a = a
  b = b
  c = c
  Ips = {a, b, c}
  None = None
  Within <- MCWithin
  MAX_BLOCKLIST_IPS = 2
  Files <- MCFiles
  Absent = Absent
  Broken = Broken
  SocketCapacity = 1
INVARIANTS SettledTableIsFile 
PROPERTY DaemonCatchesUp
