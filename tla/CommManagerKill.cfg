SPECIFICATION Spec
CONSTANTS
  Threads = {t1, t2}
  Conns = {c1, c2, c3}
  NULL = NULL
  End = End
INVARIANTS
  AllConnectionsKilled
