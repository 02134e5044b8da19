SPECIFICATION Spec
CONSTANTS
  LocalHosts = {{"database", "core", "oauth"}}
  OciHosts = {{"database", "core"}, {"database", "oauth"}}
  MaxMade = 2
  MaxFaults = 1
INVARIANTS
  TypeOK
  IdentitiesTrusted
  PairsMatch
  CoreCaKeyCurrent
  PasswordOpensCluster
  SigningKeyPublished
PROPERTY InitSyncsCopies
