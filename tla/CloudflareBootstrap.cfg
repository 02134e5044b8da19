SPECIFICATION Spec
CONSTANTS
  Tunnels = {t1}
  NoTunnel = NoTunnel
  MaxRetargets = 0
  MaxFaults = 0
PROPERTY BootstrapAfterDeploy
