SPECIFICATION FairSpec
CONSTANTS
  c1 = c1
  c2 = c2
  c3 = c3
  Calls <- MCCalls
  Jobs <- MCJobs
  Old <- MCOld
  PipeSize = 1
INVARIANTS
  CmdTypeOK
  UploadsInOrder
  ReadYourUploads
  RetriesAreWhole
  BlockingComplete
PROPERTIES
  CommandsEnd
CHECK_DEADLOCK FALSE
