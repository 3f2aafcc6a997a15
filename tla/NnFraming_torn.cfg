CONSTANTS
  SizeBytes = 2
  Sizes = {1, 3}
  Spelled = {0, 1, 2, 5}
  MaxFrames = 2
SPECIFICATION Spec
INVARIANT ReceivesOneMessage
CHECK_DEADLOCK FALSE
