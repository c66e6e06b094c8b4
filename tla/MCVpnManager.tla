---------------------------- MODULE MCVpnManager -----------------------------
(* Constants of the model-checked instances of VpnManager.                 *)
EXTENDS VpnManager, TLC

CONSTANTS e1, e2, r1, r2

OneFamily == [e \in Endpoints |-> "AF_INET"]

\* With one address family the endpoints are interchangeable.
EndpointSymmetry == Permutations(Endpoints)

=============================================================================
