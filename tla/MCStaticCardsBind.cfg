CONSTANTS
  Mutators = {m1}
  Objects = {o1, o2}
  NCells = 2
  CardCells = 2
  MaxBindings = 1
  BindPointers = TRUE
SPECIFICATION Spec
SYMMETRY Symmetric
INVARIANT StaticRemembered
