SPECIFICATION Spec
CONSTANTS
  t1 = t1
  t2 = t2
  o1 = o1
  o2 = o2
  Tasks = {t1, t2}
  Operators = {o1, o2}
  MaxMessages = 3
  MaxRequests = 2
  MaxExpiries = 1
  MaxFailures = 1
SYMMETRY Symmetry
INVARIANTS OneOpenTicket OneLiveConversation HandOverSilences SilenceIsListed WaitsEnd
CHECK_DEADLOCK FALSE
