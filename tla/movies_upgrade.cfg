SPECIFICATION Spec
CONSTANTS
  m1 = m1
  low = low
  fixed = fixed
  high = high
  light = light
  None = None
  Movie = {m1}
  Release = {light}
  MovieOf <- MCMovieOf
  Tier <- MCTier
  Quality <- MCQuality
  Detected <- MCDetected
  Repack <- MCRepack
  Recognised = {light}
  Ranked = TRUE
  Window = 0
  RepackWindow = 1
  NewMovie = 1
  ShortInterval = 1
  LongInterval = 2
  Calls <- MCCalls
  MaxEdits = 1
  HandReleases = {light}
  Horizon = 2
INVARIANTS UpgradesAreBetter
