--------------------------- MODULE PluginFrameMC ---------------------------
(* A model of PluginFrame: two selections and one that is refused.         *)
EXTENDS PluginFrame, TLC

CONSTANTS s1, s2

MCSelections == {s1, s2}
MCSymmetry == Permutations(MCSelections)
=============================================================================
