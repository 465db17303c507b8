SPECIFICATION Spec
CONSTANTS
  t1 = t1
  t2 = t2
  Tasks = {t1, t2}
  Kinds = {"STOP", "START", "CHAT"}
  MaxMessages = 2
  MaxFailures = 0
  MaxPauses = 0
INVARIANT NoWindow
CHECK_DEADLOCK FALSE
