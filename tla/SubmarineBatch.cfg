SPECIFICATION Spec
CONSTANTS
  Swaps = {s1, s2}
  Ws = ws
  Block = block
  Threads = {ws, block}
  Faults = {"refuse", "dust", "broadcast", "apply"}
  Timeout <- MCTimeout
  Small = {s1}
  Old = {s2}
  OldStatus <- MCGivenUp
  MaxHeight = 3
  MaxCrashes = 0
  MaxUpdates = 1
  Trusted = TRUE
INVARIANTS
  RefundIsOnChain
PROPERTIES
  KeepsContract
