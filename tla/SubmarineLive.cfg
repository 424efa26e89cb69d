SPECIFICATION FairSpec
CONSTANTS
  Swaps = {s1, s2}
  Ws = ws
  Block = block
  Threads = {ws, block}
  Faults = {}
  Timeout <- MCTimeout
  Small = {}
  Old = {s1, s2}
  OldStatus <- MCUnderWay
  MaxHeight = 2
  MaxCrashes = 0
  MaxUpdates = 1
  Trusted = TRUE
PROPERTIES
  CoinsComeBack
  RefundIsRecorded
  PaidSwapSucceeds
