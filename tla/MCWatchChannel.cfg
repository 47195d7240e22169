SPECIFICATION Spec
CONSTANTS
  Receivers = {r0, r1}
  Root = r0
  Free = Free
  MaxSends = 2
INVARIANT ReceiversServed
PROPERTY NoRegress
PROPERTY ImplementsLatestValue
PROPERTY CloseReachesAll
CHECK_DEADLOCK FALSE
