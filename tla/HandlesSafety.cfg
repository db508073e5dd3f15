SPECIFICATION Spec
CONSTANTS
  Thread = {t1, t2, t3}
  Db = {d1, d2}
  Snap = {s1, s2}
  Iter = {i1, i2}
  Null = Null
  Orphan = Orphan
  Usage = {}
SYMMETRY Symmetry
INVARIANTS TypeOK MemorySafe RefcountExact CountersExact ChildrenInsideDb NoLeak IInv
PROPERTIES ImplementsLifetime
