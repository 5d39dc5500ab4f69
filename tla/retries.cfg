SPECIFICATION Spec
CONSTANTS
  j1 = j1
  j2 = j2
  ws = ws
  wk = wk
  wm = wm
  wb = wb
  extra = extra
  extra2 = extra2
  NoWorker = NoWorker
  NoTask = NoTask
  Jobs = {j1}
  Workers <- OneEach
  WorkerQueue <- OneEachQueue
  Attempts <- ThreeAttempts
  MaxStalledCount = 1
  Clock = {1, 2}
  MaxFlows = 3
  FailAt <- AnyStep
  LostAt <- Repeatable
  CrashQueues = {}
  BlockQueues = {}
INVARIANTS ErrorOnlyWhenExhausted OneSeparation OutcomeRecorded AnswersAgree
PROPERTIES LinksStand FollowsLifecycle
CHECK_DEADLOCK FALSE
