SPECIFICATION Spec
CONSTANTS
  Callers = {main}
  Owner = main
  Types = {A}
  MaxCalls = 1
  NONE = NONE
  STOP = STOP
INVARIANT SignalOutlivesSetter
CHECK_DEADLOCK FALSE
