SPECIFICATION Spec
CONSTANTS
  MaxGeneration = 3
  MaxStarts = 2
INVARIANTS TypeOK LitterOnlyFromKills OneSnapshotAfterWait
PROPERTY IsRegister
