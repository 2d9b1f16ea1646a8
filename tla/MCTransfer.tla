----------------------------- MODULE MCTransfer -----------------------------
(* Model values and moves for checking Transfer.                           *)
EXTENDS Transfer

CONSTANTS a, target

OneSource == <<a>>
OneTarget == <<target>>
=============================================================================
