------------------------- MODULE MCVaultSecretClient -------------------------
(* Instances of VaultSecretClient for model checking.                        *)
EXTENDS VaultSecretClient, TLC

\* Interchangeable clients, and interchangeable contents.
ClientSymmetry == Permutations(Clients) \cup Permutations(Values)

=============================================================================
