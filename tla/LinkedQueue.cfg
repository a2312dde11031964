SPECIFICATION Spec
CONSTANTS
  Tasks = {t1, t2, t3, t4, t5}
  Nil = Nil
INVARIANTS
  Represents
  WalkIsContents
