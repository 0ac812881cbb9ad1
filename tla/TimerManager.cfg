\* Three timers for two labels: one is cancelled, one restarted, one more left.
\* After Shutdown everything stops: no deadlock check.
CONSTANTS
  Labels = {x, y}
  Times = {"later", "zero", "invalid"}
  MaxTimers = 3
  NoTimer = NoTimer
CHECK_DEADLOCK FALSE
SPECIFICATION FairSpec
INVARIANTS TypeOK ArmedRegistered LateSignalsBounded 
PROPERTIES ArmedFires JoinReturns
