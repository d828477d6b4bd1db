SPECIFICATION Spec
CONSTANTS
  Tasks = {t1, t2, t3, t4, t5, t6}
  VRuntimes = {0, 1, 2}
  Nil = Nil
SYMMETRY Symmetry
INVARIANT TreeIsSound
PROPERTY ImplementsRunQueue
