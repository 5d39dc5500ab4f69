SPECIFICATION Spec
CONSTANTS
  Frames = 6
  Hop = 4
  SampleRate = 16
  WaitMs = 30
  MinDur = 1
  MaxDur = 16
  Fades = {1}
  Brightness = {1, 2, 3, 5, 8, 9}
  LaneCounts = {3, 5}
  Bpms = {120}
INVARIANTS LanesBalanced CrowdedByEqualsOnly
CHECK_DEADLOCK FALSE
