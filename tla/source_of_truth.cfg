SPECIFICATION Spec
CONSTANTS
  j1 = j1
  j2 = j2
  ws = ws
  wk = wk
  wm = wm
  wb = wb
  extra = extra
  extra2 = extra2
  NoWorker = NoWorker
  NoTask = NoTask
  Jobs = {j1}
  Workers <- OneEach
  WorkerQueue <- OneEachQueue
  Attempts <- StemRetry
  MaxStalledCount = 1
  Clock = {0}
  MaxFlows = 3
  FailAt = {}
  LostAt = {}
  CrashQueues = {"stem"}
  BlockQueues = {}
INVARIANTS OutcomeRecorded
CHECK_DEADLOCK FALSE
