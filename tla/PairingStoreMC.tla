--------------------------- MODULE PairingStoreMC ---------------------------
(* A model of PairingStore: two codes, so that draws collide and digits    *)
(* are used again.                                                         *)
EXTENDS PairingStore, TLC

CONSTANTS c1, c2, bad, here

MCCodes == {c1, c2}
MCMalformed == {bad}
MCSources == {here}
MCSymmetry == Permutations(MCCodes)
=============================================================================
