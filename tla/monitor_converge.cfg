SPECIFICATION FairSpec
CONSTANTS
  Checks = {c1}
  DnsChecks = {}
  Loops = {l1}
  Requests = {h1}
  Targets = {t1}
  Answers = {}
  Recordless = {}
  Ops <- EveryOp
  DbMayFail = FALSE
  NoCheck = NoCheck
  NoLoop = NoLoop
  NoBaseline = NoBaseline
  Unreachable = Unreachable
PROPERTY SchedulerConverges ShutdownDrains DeletedStaysDeleted
