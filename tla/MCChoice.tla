------------------------------ MODULE MCChoice ------------------------------
(* Three branches, one of them without capacity, for checking Choice.      *)
EXTENDS Choice

CONSTANTS a, b

Devices  == <<4, 8, 0>>
Dirs     == {<<>>, <<a>>, <<a, b>>, <<b>>}
OnDisk   == <<{<<a>>}, {<<a>>, <<a, b>>}, {<<b>>}>>
Modified == <<[d \in Dirs |-> 1], [d \in Dirs |-> 1], [d \in Dirs |-> Len(d)]>>
=============================================================================
