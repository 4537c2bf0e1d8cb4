SPECIFICATION FairSpec
CONSTANTS
  page = page
  robot = robot
  claude = claude
  None = None
  Caller <- Three
  Interval = {1, 3}
  MaxInterval = 3
  RetryAfter = {0, 2}
INVARIANTS TypeOK OneAtATime
PROPERTIES Spaced PauseRespected EverySearchEnds
