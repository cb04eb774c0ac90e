----------------------------- MODULE MCWorkQueue -----------------------------
(* Four networks for three workers, so that a key waits while all are busy;   *)
(* the daemons of two of the networks may hang.                               *)
EXTENDS HungCalls
=============================================================================
