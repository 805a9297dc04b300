SPECIFICATION Spec
SYMMETRY Symmetry
CONSTANTS
  Threads = {t1, t2}
  Streams = {st1, st2, st3}
  Sockets = {s1, s2}
  Remotes = {r1}
  None = None
INVARIANTS SoleUser  DatagramsApart
CHECK_DEADLOCK FALSE
