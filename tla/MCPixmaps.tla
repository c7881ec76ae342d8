----------------------------- MODULE MCPixmaps -----------------------------
(* Instances of Pixmaps.                                                   *)
EXTENDS PixmapsProps

CONSTANTS p1, p2, p3

\* One size each.
LifeKinds  == (p1 :> {<<"plain", FALSE, 2>>})
              @@ (p2 :> {<<"plain", FALSE, 5>>, <<"dri", TRUE, 5>>})
              @@ (p3 :> {<<"plain", TRUE, 6>>, <<"tiny", FALSE, 1>>})

\* Sizes that leave pools to merge, to pour out and to shrink.
PoolKinds  == (p1 :> {<<"plain", FALSE, 3>>})
              @@ (p2 :> {<<"plain", FALSE, 5>>, <<"plain", FALSE, 6>>})
              @@ (p3 :> {<<"plain", FALSE, 3>>, <<"plain", FALSE, 7>>})

LifeCopies == {<<p1, p3>>}
FewPairs   == {<<p2, p1>>}

Good    == [pool |-> "yes", slow |-> FALSE, fast |-> FALSE, bo |-> TRUE,
            resurrect |-> TRUE, hw |-> TRUE]
Compact == [Good EXCEPT !.slow = TRUE, !.fast = TRUE]
Retried == [Compact EXCEPT !.pool = "retry"]
NoPool  == [Good EXCEPT !.pool = "no", !.hw = FALSE]
Nothing == [NoPool EXCEPT !.bo = FALSE, !.resurrect = FALSE]
AllLuck == {Good, Compact, Retried, NoPool, Nothing}
=============================================================================
