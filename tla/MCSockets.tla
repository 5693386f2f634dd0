----------------------------- MODULE MCSockets -----------------------------
(* Three objects, two descriptor numbers: with three sockets opened one    *)
(* number is used twice.                                                   *)
EXTENDS Sockets, TLC

CONSTANTS a, b, c

MCObjects == {a, b, c}
MCFds == 3 .. 4
Symmetry == Permutations(MCObjects)
=============================================================================
