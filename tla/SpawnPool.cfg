SPECIFICATION Spec
CONSTANTS
  r1 = r1 r2 = r2 r3 = r3 a1 = a1 a2 = a2 b1 = b1 b2 = b2
  NoTask = NoTask
  Gone = Gone
  Task = {r1, r2, r3, a1, a2, b1, b2}
  Worker = {w1, w2}
  Root = {r1, r2, r3}
  Kids <- ForkJoinKids
  Awaits <- ForkJoinAwaits
  MainAwaits = {r1}
INVARIANTS ExitJoinsAll
PROPERTIES TasksComplete ExitReturns
