SPECIFICATION Spec
CONSTANTS
  j1 = j1
  j2 = j2
  ws = ws
  wk = wk
  wm = wm
  wb = wb
  extra = extra
  extra2 = extra2
  NoWorker = NoWorker
  NoTask = NoTask
  Jobs = {j1}
  Workers <- WithSpares
  WorkerQueue <- SpareBoth
  Attempts <- StemRetry
  MaxStalledCount = 1
  Clock = {0}
  MaxFlows = 2
  FailAt = {"download", "detect_kicks"}
  LostAt = {"set_object_key", "add_flow"}
  CrashQueues = {"kick"}
  BlockQueues = {"melody"}
SYMMETRY SpareSymmetry
INVARIANTS MergesOwnChildren ParentsAwaitWork FailureReported
CHECK_DEADLOCK FALSE
