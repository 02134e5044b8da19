SPECIFICATION Spec
CONSTANTS
  Tunnels = {t1, t2}
  NoTunnel = NoTunnel
  MaxRetargets = 2
  MaxFaults = 3
INVARIANTS
  TypeOK
  MismatchOnlyAfterRetarget
  InitRepairs
  DestroyLeavesNothing
PROPERTY TunnelServes
