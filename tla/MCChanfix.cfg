SPECIFICATION Spec
CONSTANTS
  a = a
  b = b
  c = c
  x = x
  y = y
  Clients = {a, b, c}
  Boards <- MCBoards
  NicksToOp = 2
  WaitMin = 2
  WaitMax = 3
  TimeBetween = 1
  ClientsNeeded = 2
  ChecksNeeded = 1
  Confs = {{"manual_override", "auto_override", "moderate"}, {"auto_override", "reop_disable"}, {"ignore_auto", "moderate"}}
  FirstTS = 2
INVARIANTS NetworkAgrees PassIsFair
PROPERTIES FixIsThorough FixEnds OplessIsFixed
