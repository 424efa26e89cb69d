SPECIFICATION Spec
CONSTANTS
  Swaps = {s1}
  Ws = ws
  Block = block
  Threads = {ws, block}
  Faults = {"api", "refuse", "broadcast", "apply", "dust", "expire"}
  Timeout <- MCTimeout
  Small = {}
  Old = {}
  OldStatus <- MCGivenUp
  MaxHeight = 3
  MaxCrashes = 1
  MaxUpdates = 1
  Trusted = FALSE
INVARIANTS
  TypeOK
  SignedOnlyIfPaid
  ProofOfPayment
PROPERTIES
  KeepsContract
