---------------------------- MODULE MCDri2Vblank ----------------------------
(* Requests for Dri2Vblank: at once, soon and far, and an equation. *)
EXTENDS Dri2VblankProps, TLC

CONSTANTS c1, c2

MCTargets   == {0, 2}
MCEquations == {[divisor |-> 0, remainder |-> 0], [divisor |-> 2, remainder |-> 1]}
Symm == Permutations(Events)
=============================================================================
