SPECIFICATION Spec
CONSTANTS
  LocalHosts = {}
  OciHosts = {{"core", "policy"}}
  MaxMade = 2
  MaxFaults = 1
INVARIANT InitYieldsPairs
