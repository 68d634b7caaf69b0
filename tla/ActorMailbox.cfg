SPECIFICATION FairSpec
CONSTANTS
  Caller = {c1, c2}
  Self = Self
  Limit = {1}
  WorkerLimit = 2
INVARIANTS DepthExact MutedHasMessage JoinFindsIdleWorker
PROPERTIES ImplementsActorCall CallsReturn
