SPECIFICATION Spec
CONSTANTS
  Frames = 5
  Hop = 1
  SampleRate = 2
  WaitMs = 30
  MinDur = 1
  MaxDur = 8
  Fades = {1, 2, 3, 4}
  Brightness = {1}
  LaneCounts = {2}
  Bpms = {120}
INVARIANTS ComboCountsBeats
CHECK_DEADLOCK FALSE
