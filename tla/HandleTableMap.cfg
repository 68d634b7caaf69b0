SPECIFICATION FairSpec
CONSTANTS
  Thread = {t1, t2}
  NoThread = NoThread
  MaxIndex = 2
  MaxGen = 2
  MaxPins = 1
  IsMap = TRUE
INVARIANTS LeaseKeepsObject DeferredFreeHasHolder FreeStackExact
PROPERTIES ImplementsHandleLife LeasedContentIsPrivate DeferredFreeHappens
