SPECIFICATION Spec
CONSTANTS
  t1 = t1
  t2 = t2
  Tasks = {t1, t2}
  Kinds = {"STOP", "START", "HUMAN", "CHAT", "BOUNCE"}
  MaxMessages = 3
  MaxFailures = 1
  MaxPauses = 1
SYMMETRY Symmetry
INVARIANTS LastWordStands StopHolds FewLateReplies
PROPERTY ImplementsConsentRegister
CHECK_DEADLOCK FALSE
