SPECIFICATION Spec
CONSTANTS
  Threads = {gui, t1, t2}
  Gui = gui
  LIMIT = 3
INVARIANTS
  TypeOK
  Bounded
  NewestKept
