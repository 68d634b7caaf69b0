SPECIFICATION FairSpec
CONSTANTS
  Proc = {p1, p2}
  NoProc = NoProc
  File = {f1, f2}
  MaxVersion = 1
  NoArchive = NoArchive
  Truncated = Truncated
INVARIANTS ArchiveMatchesKey TempSurvives
PROPERTIES ArchiveImmutable EveryCallEnds
