SPECIFICATION FairSpec
CHECK_DEADLOCK FALSE
CONSTANTS
  Kinds = {"lightning", "chain"}
  Callers = {rpc, wallet}
  MaxCalls = 2
  MaxTicks = 2
  MaxSwaps = 2
INVARIANTS
  TypeOK
  NoDoubleSwap
  EnabledIsRunning
  ReplacedIsStopped
PROPERTIES
  CallsReturn
