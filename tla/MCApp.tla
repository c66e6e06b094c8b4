-------------------------------- MODULE MCApp --------------------------------
(* Constants of the model-checked instances of Windows.                          *)
EXTENDS Windows

\* Filters in the key spaces of two instances of the old version, and what else one of them left.
OldObjects ==
    {[kind |-> "filter", blocking |-> TRUE, space |-> s, no |-> 1] : s \in {1, 2}}
        \cup {[kind |-> k, blocking |-> FALSE, space |-> 1, no |-> 2] : k \in {"filter", "sublayer", "provider"}}
=============================================================================
