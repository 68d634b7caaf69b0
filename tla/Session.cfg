SPECIFICATION SessionSpec
CONSTANTS
  A = A
  B = B
  C = C
  Endpoint = {A, B, C}
  Peer <- ChannelAndSession
  Lo = Lo
  Hi = Hi
  Thread = {Lo, Hi}
  EndOf <- PairEnds
  Message = {"i32", "i64"}
  NoMessage = "none"
  MaxQueue = 2
  X = "X"
  Envs <- SmallEnvs
  Var = {"a", "b"}
  MaxBody = 4
  MaxArm = 2
  MaxControl <- LoBranches
CHECK_DEADLOCK FALSE
INVARIANTS OneReceiver Fidelity NothingLost ClosedOnce ReturnsAreReached
PROPERTIES PeerDropUnblocks SessionEnds
