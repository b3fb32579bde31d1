------------------------------ MODULE MCRegrid ------------------------------
(* Features that move and come and go on a line, a corner of a square that *)
(* is periodic in one axis, and a cascade of criteria that only appear on  *)
(* finer cells.                                                            *)
EXTENDS Regrid

At(xs) == [f \in DOMAIN xs |-> <<xs[f]>>]
Kind(from, until, keep) == [from |-> from, until |-> until, keep |-> keep]

Line == [minimum |-> 0, base |-> 1, maxLevel |-> 2, cells |-> 4, buffer |-> 1,
         signalBuffer |-> 1, regridEvery |-> 2, periodic |-> <<TRUE>>,
         kinds |-> <<Kind(0, 2, 2), Kind(0, 1, 2)>>,
         places |-> {At(<<0, 7>>)}, lives |-> {{}, {1, 2}},
         limits |-> {1, 8}, moving |-> TRUE, timeRefinement |-> FALSE, evolveShadow |-> TRUE]
Subcycled == [Line EXCEPT !.periodic = <<FALSE>>, !.timeRefinement = TRUE, !.evolveShadow = FALSE,
                          !.regridEvery = 1, !.buffer = 0, !.limits = {8}]

Square == [minimum |-> 1, base |-> 1, maxLevel |-> 3, cells |-> 4, buffer |-> 0,
           signalBuffer |-> 1, regridEvery |-> 1, periodic |-> <<TRUE, FALSE>>,
           kinds |-> <<Kind(0, 3, 3), Kind(0, 2, 3)>>,
           places |-> {<<<<0, 31>>, <<15, 17>>>>}, lives |-> {{}, {1, 2}},
           limits |-> {1}, moving |-> FALSE, timeRefinement |-> FALSE, evolveShadow |-> FALSE]

Cascade == [minimum |-> 1, base |-> 1, maxLevel |-> 3, cells |-> 4, buffer |-> 0,
            signalBuffer |-> 1, regridEvery |-> 1, periodic |-> <<FALSE>>,
            kinds |-> <<Kind(1, 1, 1), Kind(2, 2, 2), Kind(3, 3, 3), Kind(2, 2, 2), Kind(3, 3, 3)>>,
            places |-> {At(<<1, 1, 5, 30, 25>>)}, lives |-> {{}, {1, 2, 3}, 1..5},
            limits |-> {1}, moving |-> FALSE, timeRefinement |-> FALSE, evolveShadow |-> FALSE]

MCConfigs == {Line, Subcycled, Square, Cascade}
=============================================================================
