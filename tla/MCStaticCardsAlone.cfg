CONSTANTS
  Mutators = {m1}
  Objects = {o1, o2, o3}
  NCells = 5
  CardCells = 2
  MaxBindings = 1
  BindPointers = FALSE
SPECIFICATION Spec
SYMMETRY Symmetric
INVARIANTS
  TypeOK
  StaticRemembered
  NoStaleCell
