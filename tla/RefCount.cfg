SPECIFICATION Spec
CONSTANTS
  Thread = {t1, t2, t3}
  MaxRefs = 2
INVARIANTS CountsExact StrongKeepsObject LastReferenceFrees
PROPERTY ZeroStrongIsFinal
SYMMETRY Symmetry
