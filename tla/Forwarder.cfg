SPECIFICATION FairSpec
CHECK_DEADLOCK FALSE
CONSTANTS
  Receivers = {r1, r2}
  Senders = {block, ws}
  MaxEvents = 3
  SaveValues = TRUE
INVARIANTS
  TypeOK
  History
  RemovesItself
PROPERTIES
  SendersGoOn
  ReceiversEnd
