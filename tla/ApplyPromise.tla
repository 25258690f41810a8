---------------------------- MODULE ApplyPromise ----------------------------
(***************************************************************************)
(* What the report of one apply transaction says about the project         *)
(* directory.  Seen from outside the transaction is a single step: the     *)
(* directory is intact until the verdict, and the verdict bounds what it   *)
(* can be afterwards.                                                      *)
(***************************************************************************)
VARIABLES
  project,   \* what is true of every file the report answers for
  verdict,   \* "pending", "applied", "conflict", "failed" or "lost"
  rollback   \* rollback_succeeded of the report: "none", "yes" or "no"

\* As it was verified; as the bundle declares it.  Both are true of no files
\* at all, and neither of a directory that is damaged.
Conditions == {"intact", "changed"}

Init == project = {"intact"} /\ verdict = "pending" /\ rollback = "none"

\* While the verdict is pending only the rollback's outcome can settle.
RollBack ==
  /\ rollback \in {"none", "no"}
  /\ rollback' \in {"yes", "no"}
  /\ UNCHANGED <<project, verdict>>

Ends(reported, outcome) == project' \subseteq Conditions /\ verdict' = reported /\ rollback' = outcome

Succeed == Ends("applied", "none") /\ "changed" \in project'

Refuse == Ends("conflict", "none") /\ "intact" \in project'

Undo == Ends("failed", "yes") /\ "intact" \in project'

FailToUndo == Ends("failed", "no")

\* A failure whose report is silent about the rollback promises nothing:
\* the payload was refused, or removing a temporary failed at the very end.
FailSilently == Ends("failed", "none")

Die == Ends("lost", rollback)

Next ==
  /\ verdict = "pending"
  /\ RollBack \/ Succeed \/ Refuse \/ Undo \/ FailToUndo \/ FailSilently \/ Die

Spec == Init /\ [][Next]_<<project, verdict, rollback>>
=============================================================================
