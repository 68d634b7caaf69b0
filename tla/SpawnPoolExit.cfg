SPECIFICATION Spec
CONSTANTS
  r1 = r1 r2 = r2 r3 = r3 a1 = a1 a2 = a2 b1 = b1 b2 = b2
  NoTask = NoTask
  Gone = Gone
  Task = {r1, a1, b1}
  Worker = {w1}
  Root = {r1}
  Kids <- DetachedKids
  Awaits <- DetachedAwaits
  MainAwaits = {r1}
CHECK_DEADLOCK FALSE
PROPERTY ExitReturns
