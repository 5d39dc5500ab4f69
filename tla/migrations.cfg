SPECIFICATION Spec
CONSTANTS
  Runners = {r1, r2}
  MaxFiles = 3
SYMMETRY RunnerSymmetry
INVARIANTS TypeOK RecordedWasApplied StaleRunnerStops
PROPERTIES InFilenameOrder
