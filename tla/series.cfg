SPECIFICATION Spec
CONSTANTS
  s1 = s1
  e1 = e1
  e2 = e2
  low = low
  high = high
  pack = pack
  None = None
  Episode = {e1, e2}
  Season = {s1}
  SeasonOf <- MCSeasonOf
  Release = {low, high, pack}
  Keys <- MCKeys
  Tier <- MCTier
  Quality <- MCQuality
  Repack = {}
  Recognised = {low, pack}
  Window = 0
  RepackWindow = 0
  UpgradeWindow = 1
  Calls <- MCCalls
  Answers <- MCAnswers
  HandReleases = {low}
  MaxEdits = 1
  Horizon = 2
INVARIANTS HuntsSpaced NotOnHand OncePerPass
