SPECIFICATION Spec
CONSTANTS
  Targets = {"local", "oci"}
  Services = {"core", "explorer"}
  Releases = {"r1"}
  Archs = {"amd64", "arm64"}
  Platforms = {{"amd64"}, {"arm64"}}
  MaxPushes = 2
INVARIANTS
  TypeOK
  RunsHostBuild
  MixedOnlyByBrokenPush
PROPERTIES
  NeverRollsBack
