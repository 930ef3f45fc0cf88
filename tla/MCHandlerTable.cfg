SPECIFICATION Spec
CONSTANTS
  Key = {k1, k2}
  Obj = {o1, o2}
  Prealloc = 2
  MaxSize = 4
INVARIANTS TableExact
PROPERTIES ImplementsHandlerMap
SYMMETRY DataSymmetry
VIEW WithoutCalls
