SPECIFICATION Spec
CONSTANTS
  Payload = {7}
  MaxSlots = 1
  MaxEpoch = 2
  Tags = 4
INVARIANT DroppedStaysStale
