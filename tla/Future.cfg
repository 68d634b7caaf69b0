SPECIFICATION FairSpec
CONSTANTS
  Fut = {f1}
  Caller = {c1, c2, c3}
  Worker = {w1}
CHECK_DEADLOCK FALSE
INVARIANTS RefsExact FreedFutureGoes
PROPERTIES ImplementsFutureLife AwaitReturns
