SPECIFICATION EitherSpec
CONSTANTS
  Workers = {w1, w2}
  MaxKey = 13
  Key <- SmallKey
  Stable <- SmallStable
  Steps <- SmallSteps
  Planned <- SmallPlanned
  PageSize = 1
  PageHint = 0
  MaxBuffered = 1
  MaxEmptyPages = 1
  MayFail = TRUE
  MayCancel = TRUE
  Thread = {t1, t2}
  ADVISORY = 4
  MANDATORY = 1
  Lifetimes <- ShortLifetimes
  ATTEMPTS = 2
  Pages = 1
  LastTime = 2
INVARIANTS
  ListingSound
  RangesSound
PROPERTIES
  PromiseKept
  EveryListingEnds
  KeysSafe
  EveryKeyIsGiven
