------------------------------ MODULE MCReport ------------------------------
(* Model values and the plan for checking Report.                          *)
EXTENDS Report

CONSTANTS ssd1, ssd2, h1, h2

(* An empty file between the SSDs, two moves on one route, one on another. *)
RoutesDest == <<ssd2, h1, h2, h1>>
RoutesFrom == <<ssd1, ssd1, ssd1, ssd1>>
RoutesSize == <<0, 1, 2, 1>>
=============================================================================
