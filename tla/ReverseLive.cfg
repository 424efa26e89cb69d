SPECIFICATION FairSpec
CONSTANTS
  Swaps = {s1}
  Ws = ws
  Block = block
  Threads = {ws, block}
  Checkers = {block, wallet}
  Requests <- MCAll
  Faults = {"connection", "expire"}
  Cautious = {s1}
  MaxCrashes = 0
  MaxUpdates = 2
  Trusted = TRUE
PROPERTIES
  LockedCoinsAreClaimed
  ClaimedSwapSucceeds
  DirectPaymentSucceeds
