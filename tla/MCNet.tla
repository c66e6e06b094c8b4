-------------------------------- MODULE MCNet --------------------------------
(* Constants of the model-checked instances of Net.                             *)
EXTENDS Net

CONSTANTS t1, d1, d2, s1, u1, u2, e1
=============================================================================
