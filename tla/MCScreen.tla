------------------------------ MODULE MCScreen ------------------------------
(* Two CRTCs, as the hardware has.                                         *)
EXTENDS ScreenProps, TLC

CONSTANTS i, j

Everywhere  == {{0, 1}, {1}}
Shadows     == (0 :> {3}) @@ (1 :> {4})
Rotated     == (0 :> 7..11) @@ (1 :> 12..16)
Turned      == (0 :> {90}) @@ (1 :> {0, 90})
SomePictures == {<<0, i>>, <<2, i>>, <<2, j>>}
=============================================================================
