SPECIFICATION Spec
CONSTANTS
  Swaps = {s1}
  Ws = ws
  FromBlock = fromBlock
  ToBlock = toBlock
  Threads = {ws, fromBlock, toBlock}
  Faults = {"api", "broadcast"}
  JobFaults = {"broadcast"}
  Requests <- MCRequests
  Reports = {"TransactionMempool", "TransactionServerMempoool", "TransactionLockupFailed"}
  Timeout <- MCTimeout
  MaxHeight = 2
  Currency = {btc, liquid}
  Modulus = 22
  MaxMoney = 5
  MaxDiscount = 1
  Whole = 4
  Unit = 2
  ServiceFees <- MCServiceFees
  Rates = {1, 7}
  Sizes <- MCSizes
  AbsoluteFeeTolerance = 1
  RelativeFeeTolerance = 1
INVARIANTS
  TypeOK
  PreimageOnlyForLockup
  RecordsAreReal
  NeverOvercharged
PROPERTIES
  KeepsContract
