SPECIFICATION Spec
CONSTANTS
  Filenames = {"song.mp3", "drums.wav"}
  Frames = 6
  Hop = 512
  SampleRate = 44100
  Loudness = {0, 1, 10, 11}
  Strengths = {0, 1, 2}
  LaneCounts = {1, 2, 3}
INVARIANTS TypeOK HearsDrumStem RhythmKept
CHECK_DEADLOCK FALSE
