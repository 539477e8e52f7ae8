SPECIFICATION FairSpec
CONSTANTS
  Rules = {r1}
  Events = {e1, e2}
  Kinds = {k1}
  Handlers = {h1}
  Paths <- Notifying
  LoadMayFail = TRUE
  WriteMayFail = FALSE
  NoRule = NoRule
  NoOne = NoOne
  Unjudged = Unjudged
INVARIANT TypeOK CacheIsFresh
PROPERTY KeepsBook EventsEvaluated RequestsEnd
CHECK_DEADLOCK FALSE
