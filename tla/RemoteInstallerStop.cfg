SPECIFICATION InstallerSpec
CONSTANTS
  Target = "oci"
  Profile = "cloudflare"
  Services = {"policy", "database", "core", "oauth", "console", "explorer", "playground"}
  Scopes = {"nebula"}
  MaxFaults = 0
INVARIANT StopWorksAfterInstall
