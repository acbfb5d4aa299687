SPECIFICATION FairSpec
CONSTANTS
  Order = {o1, o2}
  Caller = {c1}
  Hook = {h1, h2}
  Projector = {p1}
  Emits <- Invoices
  Lapsing = {}
  MaxTime = 1
  MaxChanges = 0
  MaxFaults = 1
  NoOrder = NoOrder
  NoEvent = NoEvent
  o1 = o1
  o2 = o2
INVARIANTS
  ProjectedIsPaid
PROPERTIES
  DoneStays
  PurchaseSpec
  PaymentsSurface
CHECK_DEADLOCK FALSE
