SPECIFICATION FairSpec
CONSTANTS
  Thread = {t1, t2}
  Db = {d1, d2}
  Snap = {s1}
  Iter = {i1}
  Null = Null
  Orphan = Orphan
  Usage = {"reinit", "bad_snapshot", "snap_reinit"}
INVARIANTS RefcountExact CountersExact
CHECK_DEADLOCK FALSE
PROPERTY ClosesWhenDropped
