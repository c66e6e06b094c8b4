----------------------------- MODULE MCTunStack ------------------------------
(* The model-checked instance of TunDevice.                                 *)
EXTENDS TunDevice

CONSTANTS t1, u1
=============================================================================
