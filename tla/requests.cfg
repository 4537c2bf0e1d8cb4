SPECIFICATION FairSpec
CONSTANTS
  m1 = m1
  m2 = m2
  None = None
  Media <- MCMedia
  MaxRequests = 3
  MaxDecisions = 2
  MaxRestarts = 1
  MaxChanges = 1
INVARIANTS OnePendingPerMedia ToldOncePerApproval
PROPERTIES ApprovedBecomesAvailable
