SPECIFICATION Spec
CONSTANTS
  Order = {o1}
  Caller = {c1}
  Hook = {h1}
  Projector = {p1}
  Emits <- NewsOfOne
  Lapsing = {}
  MaxTime = 2
  MaxChanges = 2
  MaxFaults = 0
  NoOrder = NoOrder
  NoEvent = NoEvent
  o1 = o1
  o2 = o2
INVARIANTS
  HeldMoneyReleasable
CHECK_DEADLOCK FALSE
