----------------------------- MODULE MCActuation -----------------------------
(* Instances of Actuation for TLC.                                          *)
EXTENDS Actuation, TLC

CONSTANTS c1, c2

Charging == {"self_consumption", "grid_charging"}

TwoCalls     == {c1, c2}
CallSymmetry == Permutations(TwoCalls)
=============================================================================
