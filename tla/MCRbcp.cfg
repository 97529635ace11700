SPECIFICATION FairSpec
CONSTANTS
  IdMod = 3
  MaxDataLen = 1
  Addrs = {0, 1}
  Registers = {0}
  Values = {0, 1}
  Lifetime = 2
  InboxLen = 1
  MaxCalls = 4
INVARIANTS TypeOK IdIdentifies OkIsCurrent
PROPERTY CallReturns
CHECK_DEADLOCK FALSE
