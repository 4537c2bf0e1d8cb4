SPECIFICATION LoopFairSpec
CONSTANTS
  t1 = t1
  t2 = t2
  Torrent <- TwoTorrents
  MaxRestarts = 1
  MaxToggles = 1
PROPERTIES ChecksKept AsksServed FinishedIsAsked
