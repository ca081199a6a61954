\* Two orchestrators that may die, one of them the operator, one restart.
SPECIFICATION FairSpec
CONSTANTS
  o1 = o1
  o2 = o2
  None = None
  Client = {o1, o2}
  LeaseRequest <- BothSizes
  Asks <- BothAsk
  LeaseId = {l1, l2}
  Total = 3
  TTL = 1
  MaxRestarts = 1
INVARIANTS
  TypeOK
  NeverOversubscribed
PROPERTIES
  SelfHealing
  DrainCompletes
