----------------------------- MODULE MCExecutor -----------------------------
(* Model values and plans for checking Executor.                           *)
EXTENDS Executor

CONSTANTS ssd, h1, h2, h3

(* Two SSD moves, a queue of two and two of one, interleaved.              *)
MixedPlan == <<h1, ssd, h2, ssd, h1, h3>>
=============================================================================
