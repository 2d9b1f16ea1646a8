------------------------------ MODULE MCMover ------------------------------
(* Model values and plans for checking Mover.                              *)
EXTENDS Mover

CONSTANTS ssd1, ssd2, h1, h2, e, f, g

(* A move between the SSDs, the same path from both SSDs to one HDD, and a *)
(* move to another HDD.                                                    *)
MixedDest == <<ssd2, h1, h1, h2>>
MixedFrom == <<ssd1, ssd1, ssd2, ssd1>>
MixedPath == <<e, f, f, g>>
=============================================================================
