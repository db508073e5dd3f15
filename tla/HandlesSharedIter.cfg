SPECIFICATION Spec
CONSTANTS
  Thread = {t1, t2}
  Db = {d1, d2}
  Snap = {s1}
  Iter = {i1}
  Null = Null
  Orphan = Orphan
  Usage = {"shared_iter"}
PROPERTIES CleanupIdempotent
CHECK_DEADLOCK FALSE
