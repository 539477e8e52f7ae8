SPECIFICATION FairSpec
CONSTANTS
  Rules = {r1}
  Events = {e1}
  Kinds = {k1}
  Handlers = {h1}
  Paths <- AnyPath
  LoadMayFail = FALSE
  WriteMayFail = FALSE
  NoRule = NoRule
  NoOne = NoOne
  Unjudged = Unjudged
PROPERTY EventsEvaluated
CHECK_DEADLOCK FALSE
