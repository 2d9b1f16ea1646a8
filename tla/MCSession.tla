----------------------------- MODULE MCSession -----------------------------
(* Model values for checking Session.                                      *)
EXTENDS Session

CONSTANTS m1, m2, h1, s1, s2, d, t1, t2

TwoFixtures == <<t1, t2>>

With(mode, live_, excluding) == [mode |-> mode, live |-> live_, excluding |-> excluding]

MixedArgs ==
    [m \in {m1, m2} |->
        IF m = m1 THEN {With("human", TRUE, FALSE), With("events", TRUE, TRUE),
                        With("json", FALSE, TRUE)}
        ELSE {With("json", TRUE, TRUE)}]

(* A file that has the name of a fixture, on another SSD.                  *)
PoolFiles == {<<s2, t1>>}
=============================================================================
