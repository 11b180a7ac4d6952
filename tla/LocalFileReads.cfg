SPECIFICATION Spec
CONSTANTS
  w1 = w1
  w2 = w2
  r1 = r1
  Writers = {w1, w2}
  Readers = {r1}
  Temps = {t1, t2}
  Dest = Dest
  Original = Original
  None = None
  Partial = Partial
  Size <- MCSize
  PreservingCommits = {"link", "move"}
INVARIANTS
  ReadsAreComplete
CHECK_DEADLOCK FALSE
