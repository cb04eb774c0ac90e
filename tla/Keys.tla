-------------------------------- MODULE Keys --------------------------------
(* The keys namespace/name of the bitcoin networks.  A network, the headless *)
(* service and the stateful set named after it share the key.                *)
CONSTANT Networks
=============================================================================
