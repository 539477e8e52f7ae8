SPECIFICATION Spec
CONSTANTS
  Checks = {c1}
  DnsChecks = {c1}
  Loops = {l1}
  Requests = {h1}
  Targets = {t1}
  Answers = {a1, a2}
  Recordless = {none}
  Ops <- DnsOps
  DbMayFail = TRUE
  NoCheck = NoCheck
  NoLoop = NoLoop
  NoBaseline = NoBaseline
  Unreachable = Unreachable
INVARIANT TypeOK WarningHasBaseline
