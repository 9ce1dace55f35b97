CONSTANTS
  NumThreads = 2
  MaxRows = 2
  MaxJobs = 2
  Aligns = {1}
SPECIFICATION FairSpec
PROPERTIES CallReturns
CHECK_DEADLOCK FALSE
