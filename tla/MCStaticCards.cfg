CONSTANTS
  Mutators = {m1, m2}
  Objects = {o1, o2}
  NCells = 2
  CardCells = 2
  MaxBindings = 1
  BindPointers = TRUE
SPECIFICATION Spec
SYMMETRY Symmetric
INVARIANTS
  TypeOK
  OnlyLostForgotten
  StaleOnlyIfMissed
CONSTRAINT BeforeMiss
