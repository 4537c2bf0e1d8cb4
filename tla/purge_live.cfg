SPECIFICATION FairSpec
CONSTANTS
  r1 = r1
  r2 = r2
  m1 = m1
  s1 = s1
  None = None
  Release <- MCReleases
  Movie = {m1}
  Series = {}
  Episode = {}
  Title <- MCTitle
  TitleOf <- SameNames
  NameOf <- SameNames
  WorkOf <- OfMovie
  Covers <- NoEpisode
  HashKnown = {r1}
  Sender = {u1}
  Health <- DeadOrAlive
  MaxPurges = 1
  Grace = 1
  Tolerance = 0
  Renumbers = TRUE
  MaxClock = 1
  MaxId = 2
  MaxRestarts = 1
  SendReleases = {}
  HandReleases = {}
  SavedReleases = {r2}
  PageWorks = {}
  PardonReleases = {}
  CanToggle = TRUE
INVARIANTS SuspensionHolds
PROPERTIES DeadGrabsGo BreakerRearms
