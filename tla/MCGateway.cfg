SPECIFICATION FairSpec
CONSTANTS
  r1 = r1
  r2 = r2
  base = base
  c1 = c1
  c2 = c2
  Users <- MCCalls
  Calls <- MCCalls
  Targets <- MCTargets
  Channels <- MCChannels
  NoChannel = NoChannel
  NoLease = NoLease
  Base = base
  MaxWorkers = 1
  MaxStarts = 2
  MaxLosses = 1
  MaxRetries = 1
INVARIANTS TypeOK InUseOpen NothingLeaks ExecutionsBounded
PROPERTIES SignalEndsService AnswerTellsOutcome RequestsEnd

