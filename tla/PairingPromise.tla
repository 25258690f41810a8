--------------------------- MODULE PairingPromise ---------------------------
(***************************************************************************)
(* What a pairing is to the console that opened it and to the plugin that  *)
(* answers it: one offer, at most one device, and no way back.             *)
(***************************************************************************)
EXTENDS Naturals

CONSTANT Sessions

VARIABLES
  phase,    \* of each console session
  answers   \* how many plugins got a credential for its code

Phases == {"none", "waiting", "paired", "closed", "revoked"}

Moves == {<<"none", "waiting">>, <<"waiting", "paired">>, <<"waiting", "closed">>,
          <<"paired", "revoked">>}

Init ==
  /\ phase = [s \in Sessions |-> "none"]
  /\ answers = [s \in Sessions |-> 0]

\* One step may sweep several offers away; an answer is a step of its own.
Next ==
  /\ phase' \in [Sessions -> Phases]
  /\ \A s \in Sessions : phase'[s] = phase[s] \/ <<phase[s], phase'[s]>> \in Moves
  /\ \/ /\ \A s \in Sessions : phase'[s] = "paired" => phase[s] = "paired"
        /\ UNCHANGED answers
     \/ \E s \in Sessions :
          /\ phase[s] = "waiting"
          /\ phase' = [phase EXCEPT ![s] = "paired"]
          /\ answers' = [answers EXCEPT ![s] = @ + 1]

Spec == Init /\ [][Next]_<<phase, answers>>
=============================================================================
