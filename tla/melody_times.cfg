SPECIFICATION Spec
CONSTANTS
  Frames = 10
  Hop = 4
  SampleRate = 344
  WaitMs = 30
  MinDur = 17
  MaxDur = 26
  Fades = {1, 2, 3, 4, 5, 6, 9}
  Brightness = {1}
  LaneCounts = {2}
  Bpms = {0, 7}
INVARIANTS TypeOK AttacksMerged NoAttackLost NotesInTurn ShortOnlyWhenCut
CHECK_DEADLOCK FALSE
