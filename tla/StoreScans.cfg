SPECIFICATION Spec
CONSTANTS
  Key = {1, 3}
  Value = {v1}
  Missing = Missing
  Closed = Closed
  NoBound = None
  Invalid = Invalid
  Thread = {t1, t2}
  Snap = {s1}
  Iter = {i1}
  Batch = {}
  Limits = {2, 3, None}
  Synced = {TRUE}
  MaxBatch = 1
  MaxUnsynced = 1
SYMMETRY Symmetry
INVARIANTS TypeOK StoreInv
PROPERTIES ImplementsOrderedMap
