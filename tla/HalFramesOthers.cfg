SPECIFICATION Spec
CONSTANTS
  Boards <- FourBoards
  Task = {t1, t2}
  Message = {m0, m1}
  FirstMsg = m0
INVARIANT FreshTaskStarts
