------------------------ MODULE CloudflareTunnelProofs ------------------------
(***************************************************************************)
(* The safety invariants of CloudflareTunnel, for any tunnels and any      *)
(* number of faults and changes of the configuration.                      *)
(***************************************************************************)
EXTENDS CloudflareTunnel, TLAPS

\* Only a change of the configuration, or a source of another tunnel, makes a
\* file name another tunnel.
Current ==
  /\ credentials \notin {NoTunnel, setting} => retargeted \/ credentials = source
  /\ config \notin {NoTunnel, setting} => retargeted

\* What an init has achieved when it reaches a step, and keeps until a destroy.
Progress ==
  /\ pc \in {"config", "unit", "enable"} \/ host = "installed" => credentials # NoTunnel
  /\ pc \in {"unit", "enable"} \/ host = "installed" => config # NoTunnel
  /\ pc = "enable" => unit
  /\ host = "installed" /\ pc \notin {"rmunit", "rmfiles"} => unit /\ enabled

\* A service that serves something else than config.yml names.
Behind ==
  service = "serving" /\ served # config /\ (host = "installed" \/ pc \in {"unit", "enable"}) =>
    rewritten

Removal ==
  /\ pc \in {"disable", "rmunit", "rmfiles"} => service = "stopped" \/ orphaned
  /\ pc = "rmfiles" => ~unit
  /\ host = "clean" /\ pc \in {"idle", "credentials"} =>
       /\ credentials = NoTunnel /\ config = NoTunnel /\ ~unit
       /\ service = "stopped" \/ orphaned

IInv ==
  /\ TypeOK
  /\ Current
  /\ Progress
  /\ Behind
  /\ Removal

USE TunnelsAssumption, BoundsAssumption
USE DEF configuration, product, files, process, history, vars, PC, Idle, Accepted, Stopped, Startable,
        TypeOK, Current, Progress, Behind, Removal

\* A host without a tunnel satisfies the invariant.
LEMMA InitIInv == Init => IInv
<1>1. Init => Flags BY DEF Init, Flags
<1>2. Init => IInv \/ ~Flags BY DEF Init, IInv
<1> QED BY <1>1, <1>2

\* No step gives a flag a value of another kind.
LEMMA NextFlags == IInv /\ [Next]_vars => Flags'
<1> SUFFICES ASSUME IInv, [Next]_vars PROVE Flags'
  OBVIOUS
<1> USE DEF IInv, Flags
<1>1. CASE ProductStep
  BY <1>1 DEF ProductStep, InitProduct, DeployProduct, DestroyProduct
<1>2. CASE \E t \in Tunnels, u \in Tunnels \cup {NoTunnel} : Retarget(t, u)
  BY <1>2 DEF Retarget
<1>3. CASE BeginInit
  BY <1>3 DEF BeginInit
<1>4. CASE CopyCredentials
  BY <1>4 DEF CopyCredentials, CredentialsSource
<1>5. CASE WriteConfig
  BY <1>5 DEF WriteConfig
<1>6. CASE WriteUnit
  BY <1>6 DEF WriteUnit
<1>7. CASE Enable
  BY <1>7 DEF Enable
<1>8. CASE Start \/ Stop \/ Restart
  BY <1>8 DEF Start, Stop, Restart
<1>9. CASE BeginDestroy
  BY <1>9 DEF BeginDestroy
<1>10. CASE StopService
  BY <1>10 DEF StopService
<1>11. CASE StopServiceFails
  BY <1>11 DEF StopServiceFails
<1>12. CASE Disable
  BY <1>12 DEF Disable
<1>13. CASE DisableFails
  BY <1>13 DEF DisableFails
<1>14. CASE RemoveUnit
  BY <1>14 DEF RemoveUnit
<1>15. CASE RemoveFiles
  BY <1>15 DEF RemoveFiles
<1>16. CASE Launch
  BY <1>16 DEF Launch
<1>17. CASE CommandFails
  BY <1>17 DEF CommandFails, Cut
<1>18. CASE Crash
  BY <1>18 DEF Crash
<1>19. CASE Reboot
  BY <1>19 DEF Reboot, Cut
<1>20. CASE UNCHANGED vars
  BY <1>20
<1> QED
  BY <1>1, <1>2, <1>3, <1>4, <1>5, <1>6, <1>7, <1>8, <1>9, <1>10,
     <1>11, <1>12, <1>13, <1>14, <1>15, <1>16, <1>17, <1>18, <1>19, <1>20
     DEF Next, InitStep, DestroyStep

\* Every step of a product command, a tunnel command, systemd or a fault
\* preserves the invariant.
LEMMA NextIInv == IInv /\ [Next]_vars => IInv'
<1> SUFFICES ASSUME IInv, [Next]_vars, Flags' PROVE IInv'
  BY NextFlags
<1> USE DEF IInv
<1>1. CASE ProductStep
  <2>1. ASSUME NEW whole \in BOOLEAN, InitProduct(whole) PROVE IInv'
    BY <2>1 DEF InitProduct
  <2>2. CASE DeployProduct
    BY <2>2 DEF DeployProduct
  <2>3. CASE DestroyProduct
    BY <2>3 DEF DestroyProduct
  <2> QED
    BY <1>1, <2>1, <2>2, <2>3 DEF ProductStep
<1>2. CASE \E t \in Tunnels, u \in Tunnels \cup {NoTunnel} : Retarget(t, u)
  <2>1. TypeOK' BY <1>2 DEF Retarget
  <2>2. Current' BY <1>2 DEF Retarget
  <2>3. Progress' BY <1>2 DEF Retarget
  <2>4. Behind' BY <1>2 DEF Retarget
  <2>5. Removal' BY <1>2 DEF Retarget
  <2> QED BY <2>1, <2>2, <2>3, <2>4, <2>5
<1>3. CASE BeginInit
  BY <1>3 DEF BeginInit
<1>4. CASE CopyCredentials
  <2>1. TypeOK' BY <1>4 DEF CopyCredentials, CredentialsSource
  <2>2. Current' BY <1>4 DEF CopyCredentials, CredentialsSource
  <2>3. Progress' BY <1>4 DEF CopyCredentials, CredentialsSource
  <2>4. Behind' BY <1>4 DEF CopyCredentials, CredentialsSource
  <2>5. Removal' BY <1>4 DEF CopyCredentials, CredentialsSource
  <2> QED BY <2>1, <2>2, <2>3, <2>4, <2>5
<1>5. CASE WriteConfig
  <2>1. TypeOK' BY <1>5 DEF WriteConfig
  <2>2. Current' BY <1>5 DEF WriteConfig
  <2>3. Progress' BY <1>5 DEF WriteConfig
  <2>4. Behind' BY <1>5 DEF WriteConfig
  <2>5. Removal' BY <1>5 DEF WriteConfig
  <2> QED BY <2>1, <2>2, <2>3, <2>4, <2>5
<1>6. CASE WriteUnit
  BY <1>6 DEF WriteUnit
<1>7. CASE Enable
  BY <1>7 DEF Enable
<1>8. CASE Start \/ Stop \/ Restart
  BY <1>8 DEF Start, Stop, Restart
<1>9. CASE BeginDestroy
  BY <1>9 DEF BeginDestroy
<1>10. CASE StopService
  BY <1>10 DEF StopService
<1>11. CASE StopServiceFails
  <2>1. TypeOK' BY <1>11 DEF StopServiceFails
  <2>2. Current' BY <1>11 DEF StopServiceFails
  <2>3. Progress' BY <1>11 DEF StopServiceFails
  <2>4. Behind' BY <1>11 DEF StopServiceFails
  <2>5. Removal' BY <1>11 DEF StopServiceFails
  <2> QED BY <2>1, <2>2, <2>3, <2>4, <2>5
<1>12. CASE Disable
  BY <1>12 DEF Disable
<1>13. CASE DisableFails
  BY <1>13 DEF DisableFails
<1>14. CASE RemoveUnit
  BY <1>14 DEF RemoveUnit
<1>15. CASE RemoveFiles
  BY <1>15 DEF RemoveFiles
<1>16. CASE Launch
  BY <1>16 DEF Launch
<1>17. CASE CommandFails
  BY <1>17 DEF CommandFails, Cut
<1>18. CASE Crash
  BY <1>18 DEF Crash
<1>19. CASE Reboot
  <2>1. /\ service' \in {"activating", "stopped"}
        /\ service' = "activating" => enabled' /\ unit'
    BY <1>19 DEF Reboot
  <2>2. /\ faults < MaxFaults /\ faults' = faults + 1
        /\ served' = NoTunnel /\ ~rewritten' /\ ~orphaned'
        /\ UNCHANGED <<setting, source, env, core, ca, retargeted, retargets>>
    BY <1>19 DEF Reboot
  <2>3. CASE Cut
    BY <2>1, <2>2, <2>3 DEF Cut
  <2>4. CASE Idle /\ UNCHANGED <<files, host, pc>>
    BY <2>1, <2>2, <2>4
  <2> QED
    BY <1>19, <2>3, <2>4 DEF Reboot
<1>20. CASE UNCHANGED vars
  BY <1>20
<1> QED
  BY <1>1, <1>2, <1>3, <1>4, <1>5, <1>6, <1>7, <1>8, <1>9, <1>10,
     <1>11, <1>12, <1>13, <1>14, <1>15, <1>16, <1>17, <1>18, <1>19, <1>20
     DEF Next, InitStep, DestroyStep

\* The inductive invariant holds in every reachable state.
THEOREM Invariance == Spec => []IInv
BY InitIInv, NextIInv, PTL DEF Spec

\* Every variable keeps its type, and cloudflared serves a tunnel exactly
\* while the service is up.
THEOREM TunnelTypeOK == Spec => []TypeOK
BY Invariance, PTL DEF IInv

\* Credentials and configuration (setup.sh:69, 78) disagree only after the
\* configuration changed, or when the configured source is another tunnel's.
THEOREM MismatchNeedsRetarget == Spec => []MismatchOnlyAfterRetarget
<1>1. IInv => MismatchOnlyAfterRetarget BY DEF IInv, MismatchOnlyAfterRetarget, ForeignSource
<1> QED BY <1>1, Invariance, PTL

\* An init that ends well repairs whatever failed commands left.
THEOREM InitCompletes == Spec => []InitRepairs
<1>1. IInv => InitRepairs BY DEF IInv, InitRepairs
<1> QED BY <1>1, Invariance, PTL

\* A destroy that ends well leaves nothing, up to a stop that failed.
THEOREM DestroyCompletes == Spec => []DestroyLeavesNothing
<1>1. IInv => DestroyLeavesNothing BY DEF IInv, DestroyLeavesNothing
<1> QED BY <1>1, Invariance, PTL

=============================================================================
