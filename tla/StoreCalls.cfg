SPECIFICATION Spec
CONSTANTS
  Key = {1, 2}
  Value = {v1}
  Missing = Missing
  NoBound = None
  Closed = Closed
  Invalid = Invalid
  Thread = {t1, t2}
  Snap = {s1}
  Iter = {}
  Batch = {b1}
  Limits = {None}
  Synced = {FALSE, TRUE}
  MaxBatch = 2
  MaxUnsynced = 1
SYMMETRY Symmetry
PROPERTIES ImplementsOrderedMap
