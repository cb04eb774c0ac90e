----------------------------- MODULE MCReplicas -----------------------------
(* The service and the stateful set of a network on their own: the cluster   *)
(* has no room for pods, so the status of every network stays empty.         *)
EXTENDS BitcoinController
NoOrdinals == {}
NoIPs == {}
UpToOne == 0 .. 1
WithNegative == {-1, 0, 2}
=============================================================================
