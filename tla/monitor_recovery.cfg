SPECIFICATION Spec
CONSTANTS
  Checks = {c1}
  DnsChecks = {}
  Loops = {l1}
  Requests = {h1}
  Targets = {t1}
  Answers = {a1}
  Recordless = {}
  Ops <- NoOps
  DbMayFail = FALSE
  NoCheck = NoCheck
  NoLoop = NoLoop
  NoBaseline = NoBaseline
  Unreachable = Unreachable
INVARIANT LastEventMatchesStatus
