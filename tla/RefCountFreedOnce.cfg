SPECIFICATION Spec
CONSTANTS
  Thread = {t1, t2}
  MaxRefs = 2
INVARIANT FreedOnce
