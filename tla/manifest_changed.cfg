SPECIFICATION Spec
CONSTANTS
  NoEntry = NoEntry
  Entries = {light, sensor}
  Payloads = {plain, detailed}
  MaxRev = 2
INVARIANTS
  ReplacementAccepted
