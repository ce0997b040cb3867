\* A guint of four values: the ids wrap and meet ports still registered.
SPECIFICATION Spec
CONSTANTS
  Owner = {o1, o2}
  Name = {n1}
  Addr = {a1, a2, a3, a4}
  IdSpace = 4
  MaxCounter = 4
SYMMETRY Symmetry
INVARIANTS
  TypeOK
  CacheExact
CHECK_DEADLOCK FALSE
