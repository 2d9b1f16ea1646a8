----------------------------- MODULE MCPlanner -----------------------------
(* Pools and files for checking Planner: SSDs 1 and 2, HDDs from 3 on.     *)
EXTENDS Planner

CONSTANTS a, b, x, y, z

(* Every usage of the SSDs, some of the HDDs, with and without reserved    *)
(* blocks that are neither used nor free.                                  *)
Usage(hdd) ==
    {[used |-> u, free |-> [c \in Branch |-> Max({0, Total[c] - u[c] - gap})]] :
        u \in {v \in [Branch -> 0..10] : /\ \A h \in HDD : v[h] \in hdd
                                         /\ \A c \in Branch : v[c] <= Total[c]},
        gap \in {0, 1}}

(* Devices of different sizes, one without capacity.  Files 1 and 3 have   *)
(* one path, file 2 exists on HDD 4 and the apparent size of file 5 can be *)
(* more than what its SSD uses: it is sparse and frees 2 of its 12 bytes,  *)
(* but its copy takes them all.                                            *)
Reserves    == <<1, 3, 1, 0, 0>>
Uneven      == <<10, 8, 10, 20, 0>>
UnevenHome  == <<1, 1, 2, 2, 1, 1, 2>>
UnevenSize  == <<1, 2, 4, 3, 12, 1, 1>>
UnevenFrees == <<1, 2, 4, 3, 2, 1, 2>>
UnevenTakes == <<1, 2, 4, 3, 12, 2, 1>>
UnevenDir   == <<<<a>>, <<a, b>>, <<a>>, <<a, b>>, <<b>>, <<a, b>>, <<b>>>>
UnevenName  == <<x, x, x, y, z, z, y>>
UnevenTaken == {<<4, <<a, b>>, x>>}
UnevenDirs  == <<{<<a>>, <<a, b>>, <<b>>}, {<<a>>, <<a, b>>, <<b>>}, {<<a>>, <<b>>},
                 {<<a>>, <<a, b>>, <<b>>}, {}>>
UnevenTimes == [c \in 1..5 |-> [d \in {<<>>, <<a>>, <<a, b>>, <<b>>} |-> Len(d)]]
UnevenUsage == Usage({0, 2, 6, 9})

(* A small pool with two files on each SSD.                                *)
NoReserves == <<0, 0, 0, 0>>
Equal      == <<10, 10, 10, 10>>
LargeHdd   == <<10, 10, 10, 20>>
PairHome   == <<1, 1, 2, 2>>
PairSize   == <<4, 2, 1, 1>>
PairDir    == <<<<>>, <<>>, <<>>, <<>>>>
PairName   == <<x, y, x, z>>
PairDirs   == <<{}, {}, {}, {}>>
RootTimes  == [c \in 1..4 |-> [d \in {<<>>} |-> 0]]
PairUsage  == Usage({2, 10})
=============================================================================
