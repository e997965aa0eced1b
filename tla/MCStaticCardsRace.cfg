CONSTANTS
  Mutators = {m1, m2}
  Objects = {o1, o2}
  NCells = 2
  CardCells = 2
  MaxBindings = 0
  BindPointers = FALSE
SPECIFICATION Spec
SYMMETRY Symmetric
INVARIANT StaticRemembered
