SPECIFICATION Spec
CONSTANTS
  Swaps = {s1}
  Ws = ws
  Block = block
  Threads = {ws, block, rpc}
  Faults = {"refuse", "broadcast", "connection"}
  Timeout <- MCTimeout
  Small = {}
  Old = {}
  OldStatus <- MCGivenUp
  MaxHeight = 3
  MaxCrashes = 1
  MaxUpdates = 1
  Trusted = TRUE
INVARIANTS
  RefundIsOnChain
  StaysRefundable
