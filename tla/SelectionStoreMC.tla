-------------------------- MODULE SelectionStoreMC --------------------------
(* Models of SelectionStore: two keys for the same content, as when two    *)
(* plugins send the same selection, or one key for a long list of assets.  *)
EXTENDS SelectionStore, TLC

CONSTANTS k1, k2, short, long

MCKeys == {k1, k2}
MCManifests == {short, long}
MCManifest == k1 :> short @@ k2 :> short

\* long: asset-1, asset-2, asset-10, of which asset-10 sorts second.
MCDeclared == short :> <<1, 2>> @@ long :> <<1, 3, 2>>
MCLongKeys == {k1}
MCLongManifest == k1 :> long

MCSymmetry == Permutations(MCKeys)
=============================================================================
