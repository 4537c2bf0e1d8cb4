SPECIFICATION FairSpec
CONSTANTS
  m1 = m1
  low = low
  fixed = fixed
  high = high
  light = light
  None = None
  Movie = {m1}
  Release = {low, high}
  MovieOf <- MCMovieOf
  Tier <- MCTier
  Quality <- MCQuality
  Detected <- MCDetected
  Repack <- MCRepack
  Recognised = {low, high}
  Ranked = TRUE
  Window = 0
  RepackWindow = 0
  NewMovie = 1
  ShortInterval = 1
  LongInterval = 1
  Calls <- MCLiveCalls
  MaxEdits = 1
  HandReleases = {low}
  Horizon = 1
PROPERTIES GapsAreFilled
