------------------------ MODULE MCSecurityPersistence ------------------------
(* Instances of SecurityPersistence for model checking.                      *)
EXTENDS SecurityPersistence

\* Vault lists the files in the reverse of their path order.
ReversedRank == [f \in Files |-> 10 - f]

=============================================================================
