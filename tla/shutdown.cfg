SPECIFICATION ProcFairSpec
CONSTANTS
  j1 = j1
  j2 = j2
  ws = ws
  wk = wk
  wm = wm
  wb = wb
  NoWorker = NoWorker
  NoTask = NoTask
  Jobs = {j1}
  Workers <- OneEach
  WorkerQueue <- OneEachQueue
  Attempts <- TwoAttempts
  MaxStalledCount = 1
  Clock = {0}
  MaxFlows = 2
  MaxStops = 1
  FailAt <- AnyStep
  LostAt = {}
  CrashQueues = {"beatmap"}
  BlockQueues = {}
INVARIANTS ClientsOutliveRuns
PROPERTIES StopCompletes EverySongSettles
CHECK_DEADLOCK FALSE
