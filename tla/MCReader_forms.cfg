SPECIFICATION FairSpec
CONSTANTS
  InitialCapacity = 2
  Upper <- MCUpper
  Spelling <- MCSpelling
  Sessions <- MCSessions
INVARIANTS TypeOK ReadsBack LastIsRead BootErrorsSeen TextFits
PROPERTIES Ends
