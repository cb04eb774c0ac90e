----------------------------- MODULE MCRPCClient -----------------------------
(* Two workers, each with a network of its own of one daemon.                 *)
EXTENDS RPCClient, TLC
CONSTANTS c1, c2, d1, d2
TwoNetworks == d1 :> c1 @@ d2 :> c2
=============================================================================
