------------------------------ MODULE MCTunnel -------------------------------
(* The model-checked instance of Tunnel.                                   *)
EXTENDS Tunnel

CONSTANT c1
=============================================================================
