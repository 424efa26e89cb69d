SPECIFICATION Spec
CONSTANTS
  Swaps = {s1}
  Ws = ws
  Block = block
  Threads = {ws, block}
  Faults = {"expire"}
  Timeout <- MCTimeout
  Small = {s1}
  Old = {}
  OldStatus <- MCGivenUp
  MaxHeight = 2
  MaxCrashes = 0
  MaxUpdates = 1
  Trusted = TRUE
INVARIANT
  NeverPanics
