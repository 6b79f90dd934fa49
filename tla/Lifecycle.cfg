\* One press, two configuration changes.  The program may end.
SPECIFICATION FairSpec
CONSTANTS
  Press = {h1}
  MaxChange = 2
CHECK_DEADLOCK FALSE
INVARIANTS
  TypeOK
  OnePoller
  StopClosesIdle
  ServerKnown
  BotUnlessFailed
  StopFindsChannel
PROPERTIES
  WebReturns
  PollerReturns
