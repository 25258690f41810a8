------------------------- MODULE ApplyTransactionMC -------------------------
(* Three files, the second of them created, and three changes by a designer. *)
EXTENDS ApplyTransaction

MCCreates == {2}
=============================================================================
