SPECIFICATION Spec
CONSTANTS
  Swaps = {s1}
  Ws = ws
  Block = block
  Threads = {ws, block, rpc}
  Checkers = {block}
  Requests <- MCEach
  Faults = {"api", "broadcast", "apply", "expire"}
  Cautious = {s1}
  MaxCrashes = 1
  MaxUpdates = 1
  Trusted = FALSE
INVARIANTS
  TypeOK
  PreimageOnlyForLockup
  SuccessIsReceived
PROPERTIES
  KeepsContract
