SPECIFICATION Spec
CONSTANTS
  W = 2
  HashBits = 1
  MAX_BLOCKLIST_IPS = 2
  NodeIds = {n1, n2, n3}
  NULL = NULL
  Payloads <- MCPayloads
INVARIANTS TableIsPayload QuietLookupExact 
SYMMETRY Cells
