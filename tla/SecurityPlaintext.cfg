SPECIFICATION Spec
CONSTANTS
  Files = {1, 2}
  Private = {1}
  VaultRank <- ReversedRank
  Commands = {c1}
  Overlap = "never"
  MaxVersion = 2
  MaxMaster = 1
  MaxFaults = 0
INVARIANT NoPlaintextAtRest
