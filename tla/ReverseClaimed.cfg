SPECIFICATION Spec
CONSTANTS
  Swaps = {s1}
  Ws = ws
  Block = block
  Threads = {ws, block, rpc}
  Checkers = {block}
  Requests <- MCEach
  Faults = {}
  Cautious = {}
  MaxCrashes = 0
  MaxUpdates = 1
  Trusted = TRUE
PROPERTIES
  SuccessIsFinal
