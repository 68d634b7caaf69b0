SPECIFICATION Spec
CONSTANTS
  Actor = {a1, a2, a3}
  Outside = {main}
  Quota = {2}
  None = None
SYMMETRY Symmetry
INVARIANTS NoChildOfKilled CountCoversRegistry
