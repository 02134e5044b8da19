SPECIFICATION Spec
CONSTANTS
  Target = "local"
  Profile = "local"
  Services = {"policy", "database", "core", "oauth", "console", "explorer"}
  Scopes = {"nebula", "core", "console", "explorer"}
  MaxFaults = 1
INVARIANTS
  TypeOK
  StoppedStackIsDown
  ExplorerHasKey
  RunsOnItsFiles
  DeployedStackServes
PROPERTIES
  StartsOverReady
  StopOrder
