SPECIFICATION ClientSpec
CONSTANTS
  Calls = {a1, a2}
  Polls = {p1, p2}
  Blocked = {"b1"}
  None = None
  QUEUE_CAP = 1
  PollSize = 1
  MaxItems = 2
  MaxCalls = 2
  MaxPipes = 2
  MaxExits = 1
INVARIANTS OwnAnswer CancelIsOwn NotificationsKept ListenerStops
SYMMETRY MCSymmetry
CHECK_DEADLOCK FALSE
