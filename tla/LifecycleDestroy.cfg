SPECIFICATION Spec
CONSTANTS
  Target = "local"
  Profile = "local"
  Services = {"policy", "database", "core", "oauth", "console", "explorer"}
  Scopes = {"nebula"}
  MaxFaults = 0
INVARIANT DestroyStopsAll
