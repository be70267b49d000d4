CONSTANTS
  c1 = c1
  c2 = c2
  Channels = {c1, c2}
  u1 = u1
  Users = {u1}
  None = None
  Supported = {c1, c2}
  MaxLogins = 3
  MaxRestarts = 1
  Notice = Notice
  CloseTask = CloseTask
  MaxMessages = 2
  MaxRequests = 3
  MaxFaults = 1
SPECIFICATION FairMessagesSpec
INVARIANTS OneConnection InOrder LoggedIsSent
PROPERTIES SupersededCloses ToldBeforeClosed Delivered
CHECK_DEADLOCK FALSE
