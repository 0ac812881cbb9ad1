CONSTANTS
  Second = 10
  UsecToNsec = 2
  SecondsToUsec = 5
  Rates <- MCRates
  Counts <- MCCounts
  Secs <- MCSecs
  Usecs <- MCUsecs
  MaxNow = 3
  Never = Never
SPECIFICATION Spec
INVARIANTS DelayExact DurationOutcome TimevalOutcome
