SPECIFICATION FairSpec
CONSTANTS
  p1 = p1
  p2 = p2
  Processes <- TwoProcesses
  MaxFaults = 2
  MaxStops = 1
INVARIANTS TypeOK BucketReady ClientsOutliveRequests HonestReadiness
PROPERTIES SomeProcessServes
