SPECIFICATION Spec
CONSTANTS
  Checks = {c1}
  DnsChecks = {}
  Loops = {l1, l2}
  Requests = {h1}
  Targets = {t1}
  Answers = {a1}
  Recordless = {}
  Ops <- ToggleOps
  DbMayFail = FALSE
  NoCheck = NoCheck
  NoLoop = NoLoop
  NoBaseline = NoBaseline
  Unreachable = Unreachable
INVARIANT ActiveIsExact OutageAnnounced NoSignalLost
PROPERTY CancelledLoopIsSilent
