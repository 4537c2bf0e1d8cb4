SPECIFICATION Spec
CONSTANTS
  r1 = r1
  r2 = r2
  m1 = m1
  s1 = s1
  None = None
  Release <- MCReleases
  Movie = {m1}
  Series = {s1}
  Episode = {"S01E01"}
  Title <- MCTitle
  TitleOf <- SameNames
  NameOf <- OtherNames
  WorkOf <- OfBoth
  Covers <- EpisodeOfSeries
  HashKnown = {r1}
  Sender = {u1}
  Health <- DeadOrAlive
  MaxPurges = 1
  Grace = 1
  Tolerance = 0
  Renumbers = FALSE
  MaxClock = 1
  MaxId = 2
  MaxRestarts = 1
  SendReleases = {r1}
  HandReleases = {r1}
  SavedReleases = {}
  PageWorks = {m1}
  PardonReleases = {r1}
  CanToggle = FALSE
INVARIANTS TypeOK NoSecondCopy NeverRegrabsPurged
PROPERTIES DeletesOnlyOwnOld HandPickKept
