SPECIFICATION Spec
CONSTANTS
  Threads = {t1, t2, t3}
  Names = {a}
  Glbs = {g1, g2}
  NoGlb = NoGlb
  Null = Null
SYMMETRY Symmetry
INVARIANT IInv
PROPERTY NeverReplaced
