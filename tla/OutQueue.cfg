SPECIFICATION QueueSpec
CONSTANTS
  BlockSize = 3
  IovNum = 2
  MaxLines = 3
CHECK_DEADLOCK FALSE
INVARIANTS QueueSound
PROPERTIES ImplementsByteQueue AllIsSent
