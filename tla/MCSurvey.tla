------------------------------ MODULE MCSurvey ------------------------------
(* Model values for checking Survey.                                       *)
EXTENDS Survey

CONSTANTS a, b, h, other, disk1, disk2, disk3, rootfs, data, pbs, f, part, link, away

MCDevice == (a :> disk1) @@ (b :> disk2) @@ (h :> disk3)
MCTotal  == (disk1 :> 1) @@ (disk2 :> 2) @@ (disk3 :> 3) @@ (rootfs :> 4)
MCRota   == (disk1 :> FALSE) @@ (disk2 :> FALSE) @@ (disk3 :> TRUE) @@ (rootfs :> FALSE)

Rw(p, r) == [path |-> p, mode |-> "RW", reserve |-> r]
MCLists == {<<>>, <<Rw(a, 0), Rw(b, 1), Rw(h, 0)>>, <<Rw(a, 0), Rw(a, 1), Rw(h, 0)>>,
            <<Rw(a, 0), Rw(h, 0)>>,
            <<Rw(a, 0), [path |-> b, mode |-> "RO", reserve |-> 0], Rw(h, 0)>>}
MCFstab == {[mount |-> m, reserve |-> 1,
             branches |-> <<Rw(a, 0), [path |-> b, reserve |-> 0,
                                       mode |-> IF m = other THEN "RO" ELSE "none"], Rw(h, 1)>>]
               : m \in {Mergerfs, other}}

MCKind == (<<data>> :> "dir") @@ (<<data, pbs>> :> "dir") @@ (<<data, pbs, f>> :> "file")
          @@ (<<data, f>> :> "file") @@ (<<part>> :> "file")
          @@ (<<link>> :> "link") @@ (<<away>> :> "link")
MCGoal == (<<link>> :> <<data>>) @@ (<<away>> :> None)

Full == DOMAIN MCKind
Bare == {<<part>>, <<away>>}
MCSetups ==
    {[mounted |-> {a, b, h, Mergerfs} \ u, tree |-> (a :> Full) @@ (b :> t) @@ (h :> {})]
        : u \in {{}, {a}, {h}, {Mergerfs}}, t \in {Full, Bare}}

Called(e, s, t, m) == [excluded |-> e, scope |-> s, fstab |-> t, mount |-> m]
MCCalls == {Called({<<data>>, <<data, pbs>>}, <<>>, FALSE, None),
            Called({<<data, pbs>>, <<f>>}, <<data>>, FALSE, Mergerfs),
            Called({<<data, pbs>>, <<part, f>>}, <<link>>, FALSE, Mergerfs),
            Called({<<data, pbs>>}, <<link>>, FALSE, Mergerfs),
            Called({}, <<away>>, TRUE, Mergerfs),
            Called({}, <<>>, TRUE, None),
            Called({}, <<>>, TRUE, other),
            Called({}, <<data, f>>, FALSE, None),
            Called({<<"..">>}, <<>>, FALSE, other)}
=============================================================================
