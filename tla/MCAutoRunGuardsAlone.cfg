SPECIFICATION Spec
CONSTANTS
  Procs = {p1, p2, p3}
  SlotCount = 2
  Envs = {e1, e2}
  None = None
SYMMETRY Symmetry
INVARIANT
  RunAlone
