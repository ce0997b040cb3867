\* The counter stays below the width of a guint: ids never wrap.
SPECIFICATION Spec
CONSTANTS
  Owner = {o1, o2}
  Name = {n1, n2}
  Addr = {a1, a2, a3}
  IdSpace = 8
  MaxCounter = 4
SYMMETRY Symmetry
INVARIANTS
  ListsExact
  PortUnique
PROPERTIES
  StableIds
  ImplementsRegistry
CHECK_DEADLOCK FALSE
