\* A label that is cancelled and started again.
CONSTANTS
  Labels = {x}
  Times = {"later"}
  MaxTimers = 2
  NoTimer = NoTimer
CHECK_DEADLOCK FALSE
SPECIFICATION Spec
PROPERTY EventCancelsItsTimer
