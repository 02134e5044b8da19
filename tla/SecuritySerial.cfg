SPECIFICATION FairSpec
CONSTANTS
  Files = {1, 2}
  Private = {1}
  VaultRank <- ReversedRank
  Commands = {c1}
  Overlap = "never"
  MaxVersion = 3
  MaxMaster = 2
  MaxFaults = 2
INVARIANTS
  TypeOK
  CacheDecryptable
  SealedIsBacked
  ExposureOnlyWhenInterrupted
  StaleOnlyAfterHalfImport
  RestoreComplete
  StagingFaithful
PROPERTIES
  RegressionOnlyAfterHalfImport
  ExposureHeals
