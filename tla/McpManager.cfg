SPECIFICATION Spec
CONSTANTS
  Tasks = {t1, t2}
  Conns = {c1, c2}
  None = None
SYMMETRY Symmetry
CHECK_DEADLOCK FALSE
INVARIANTS OneConnection SettledClient NoToolsWhenOff
