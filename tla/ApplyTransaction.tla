-------------------------- MODULE ApplyTransaction --------------------------
(***************************************************************************)
(* How a local agent writes one change bundle into a project directory:    *)
(* AgentClient._apply (agent.py) and apply_bundle (apply.py), one action   *)
(* per file visited.  Every file operation may raise OSError, the process  *)
(* may die between any two steps, and a designer may be working in the     *)
(* same directory: nothing locks it.                                       *)
(*                                                                         *)
(* A file's content is what the bundle distinguishes: "absent", "before"   *)
(* (hashing to before_sha256), "after" (hashing to after_sha256), "edited" *)
(* (anything else a designer wrote) and "torn" (a copy that was cut off).  *)
(***************************************************************************)
EXTENDS Integers

CONSTANTS
  N,         \* number of files in the bundle
  Creates,   \* the files whose operation is create; the others are replaced
  MaxEdits   \* bound on the designer's changes while the agent is at work

\* A conversion always emits the package manifest, so no bundle is empty.
ASSUME BundleAssumption == N \in Nat \ {0} /\ Creates \subseteq 1..N
ASSUME EditsAssumption == MaxEdits \in Nat

Files == 1..N
Content == {"absent", "before", "after", "edited", "torn"}

VARIABLES
  pc,         \* the loop the agent is in
  at,         \* the file that loop visits next
  disk,       \* the project directory
  backup,     \* .figma-to-fgui/backups/<job>; "absent" when not copied
  temps,      \* files whose temporary lies beside its target
  committed,  \* how many files were replaced: the length of that list
  rolled,     \* rollback_succeeded: "none" (null), "yes" or "no"
  outcome,    \* what _apply reports
  verified,   \* history: files whose last pre-write check matched
  late,       \* history: those a designer changed after that check
  edits       \* number of designer's changes so far

vars == <<pc, at, disk, backup, temps, committed, rolled, outcome,
          verified, late, edits>>
historyVars == <<verified, late, edits>>

TypeOK ==
  /\ pc \in {"verify", "reverify", "decode", "stage", "commit", "check",
             "rollback", "cleanup", "done", "crashed"}
  /\ at \in 0..N
  /\ disk \in [Files -> Content] /\ backup \in [Files -> Content]
  /\ temps \subseteq Files
  /\ committed \in 0..N
  /\ rolled \in {"none", "yes", "no"}
  /\ outcome \in {"pending", "applied", "conflict", "failed"}
  /\ late \subseteq verified /\ verified \subseteq Files
  /\ edits \in 0..MaxEdits

Expected(f) == IF f \in Creates THEN "absent" ELSE "before"

Init ==
  /\ pc = "verify" /\ at = 1
  /\ disk \in [Files -> {"absent", "before", "edited"}]
  /\ backup = [f \in Files |-> "absent"]
  /\ temps = {} /\ committed = 0
  /\ rolled = "none" /\ outcome = "pending"
  /\ verified = {} /\ late = {} /\ edits = 0

\* Mutant: the loop runs once too often.
AdvancePastEnd(next) ==
  IF at <= N THEN at' = at + 1 /\ pc' = pc
             ELSE at' = 1 /\ pc' = next

\* The loop over the files goes on to the next one, or the next loop starts.
Advance(next) ==
  IF at < N THEN at' = at + 1 /\ pc' = pc
            ELSE at' = 1 /\ pc' = next

Return(what) == pc' = "done" /\ outcome' = what /\ at' = 0
-----------------------------------------------------------------------------
(* verify_pre_write, run by _apply and once more by _prepare; an unreadable *)
(* file raises OSError, which _apply reports as a failure.                 *)

\* Mutant: _prepare does not verify again.
AfterVerifyOnce == "decode"

AfterVerify == IF pc = "verify" THEN "reverify" ELSE "decode"

Verify ==
  /\ pc \in {"verify", "reverify"}
  /\ \/ /\ disk[at] = Expected(at)
        /\ Advance(AfterVerify)
        /\ verified' = IF pc = "reverify" THEN verified \cup {at} ELSE verified
        /\ UNCHANGED outcome
     \/ disk[at] # Expected(at) /\ Return("conflict") /\ UNCHANGED verified
     \/ Return("failed") /\ UNCHANGED verified
  /\ UNCHANGED <<disk, backup, temps, committed, rolled, late, edits>>

\* The rest of _prepare: the payload must decode, hash and parse.
Decode ==
  /\ pc = "decode"
  /\ \/ Advance("stage") /\ UNCHANGED outcome
     \/ Return("failed")
  /\ UNCHANGED <<disk, backup, temps, committed, rolled, historyVars>>
-----------------------------------------------------------------------------
(* apply_bundle's try block.                                               *)

Raise == pc' = "rollback" /\ at' = committed

\* Mutant: no backup is taken.
NotBackedUp(f, copy) == backup

BackedUp(f, copy) == IF f \in Creates THEN backup ELSE [backup EXCEPT ![f] = copy]

Stage ==
  /\ pc = "stage"
  /\ at \in Creates \/ disk[at] # "absent"
  /\ backup' = BackedUp(at, disk[at])
  /\ temps' = temps \cup {at}
  /\ Advance("commit")
  /\ UNCHANGED <<disk, committed, rolled, outcome, historyVars>>

\* OSError before the backup, within it, or in writing the temporary.
StageFails ==
  /\ pc = "stage"
  /\ \/ UNCHANGED <<backup, temps>>
     \/ /\ at \in Creates \/ disk[at] # "absent"
        /\ \/ backup' = BackedUp(at, "torn") /\ temps' = temps
           \/ backup' = BackedUp(at, disk[at]) /\ temps' = temps \cup {at}
  /\ Raise
  /\ UNCHANGED <<disk, committed, rolled, outcome, historyVars>>

Commit ==
  /\ pc = "commit"
  /\ disk' = [disk EXCEPT ![at] = "after"]
  /\ temps' = temps \ {at}
  /\ committed' = at
  /\ Advance("check")
  /\ UNCHANGED <<backup, rolled, outcome, historyVars>>

CommitFails ==
  /\ pc = "commit"
  /\ Raise
  /\ UNCHANGED <<disk, backup, temps, committed, rolled, outcome, historyVars>>

FinalCheck ==
  /\ pc = "check"
  /\ \/ disk[at] = "after" /\ Advance("cleanup")
     \/ Raise
  /\ UNCHANGED <<disk, backup, temps, committed, rolled, outcome, historyVars>>
-----------------------------------------------------------------------------
(* _rollback walks the replaced files backwards and never stops early.     *)

RollingBack == pc = "rollback" /\ at > 0

RollbackStep(restored, ok) ==
  /\ disk' = [disk EXCEPT ![at] = restored]
  /\ rolled' = IF ok THEN rolled ELSE "no"
  /\ at' = at - 1
  /\ UNCHANGED <<pc, backup, temps, committed, outcome, historyVars>>

\* Mutant: created files are left behind.
RestoredReplaced(f) == IF f \in Creates THEN disk[f] ELSE backup[f]

Restored(f) == IF f \in Creates THEN "absent" ELSE backup[f]

Restore == RollingBack /\ RollbackStep(Restored(at), TRUE)

\* unlink fails and leaves the file; copy2 fails before, in or after copying.
RestoreFails ==
  /\ RollingBack
  /\ \/ RollbackStep(disk[at], FALSE)
     \/ at \notin Creates /\ \E c \in {"torn", backup[at]} : RollbackStep(c, FALSE)

\* Mutant: errors met while rolling back are forgotten.
RollbackEndsWell ==
  /\ pc = "rollback" /\ at = 0
  /\ rolled' = "yes"
  /\ pc' = "cleanup"
  /\ UNCHANGED <<at, disk, backup, temps, committed, outcome, historyVars>>

RollbackEnds ==
  /\ pc = "rollback" /\ at = 0
  /\ rolled' = IF rolled = "no" THEN "no" ELSE "yes"
  /\ pc' = "cleanup"
  /\ UNCHANGED <<at, disk, backup, temps, committed, outcome, historyVars>>

\* Mutant: the error is swallowed once it has been rolled back.
CleanupSwallows ==
  /\ pc = "cleanup"
  /\ temps' = {}
  /\ Return("applied")
  /\ UNCHANGED <<disk, backup, committed, rolled, historyVars>>

\* finally: the temporaries are unlinked, then the summary is returned or
\* ApplyFailed propagates with the rollback's verdict.
Cleanup ==
  /\ pc = "cleanup"
  /\ temps' = {}
  /\ Return(IF rolled = "none" THEN "applied" ELSE "failed")
  /\ UNCHANGED <<disk, backup, committed, rolled, historyVars>>

\* An unlink raises: this OSError replaces the pending return or exception,
\* so _apply reports a failure that says nothing about the rollback.
CleanupFails ==
  /\ pc = "cleanup"
  /\ \E f \in Files : temps' = {g \in temps : g >= f}
  /\ rolled' = "none"
  /\ Return("failed")
  /\ UNCHANGED <<disk, backup, committed, historyVars>>
-----------------------------------------------------------------------------
(* The surroundings.  Nothing cleans up after a crash: apply.py keeps no   *)
(* journal and the next start of the agent does not look at the backups.   *)

Crash ==
  /\ pc \notin {"done", "crashed"}
  /\ pc' = "crashed"
  /\ UNCHANGED <<at, disk, backup, temps, committed, rolled, outcome, historyVars>>

DesignerChanges(f) ==
  /\ pc \notin {"done", "crashed"}
  /\ edits < MaxEdits
  /\ \E c \in {"edited", "absent"} \ {disk[f]} : disk' = [disk EXCEPT ![f] = c]
  /\ late' = late \cup ({f} \cap verified)
  /\ edits' = edits + 1
  /\ UNCHANGED <<pc, at, backup, temps, committed, rolled, outcome, verified>>

AgentStep ==
  \/ Verify \/ Decode
  \/ Stage \/ StageFails
  \/ Commit \/ CommitFails
  \/ FinalCheck
  \/ Restore \/ RestoreFails \/ RollbackEnds
  \/ Cleanup \/ CleanupFails

Next == AgentStep \/ Crash \/ \E f \in Files : DesignerChanges(f)

Spec == Init /\ [][Next]_vars
-----------------------------------------------------------------------------
(* Properties.                                                             *)

\* The files the agent answers for: a change made after the last check is
\* not seen by the code (see LocalChangesNeverOverwritten).
Accountable == verified \ late

\* A reported success leaves every declared file with its declared hash and
\* no temporary behind, whichever operations were in the bundle.
AppliedIsComplete ==
  outcome = "applied" =>
    /\ temps = {}
    /\ \A f \in Files \ late : disk[f] = "after"

\* When the report says that the rollback succeeded, every file is what it
\* was before the transaction: created ones gone, replaced ones restored.
RollbackRestores ==
  outcome = "failed" /\ rolled = "yes" =>
    /\ temps = {}
    /\ \A f \in Files \ late : disk[f] = Expected(f)

\* Whatever fails, and wherever the process dies, the previous content of
\* every replaced file is in place or intact among the backups.
NothingIsLost ==
  \A f \in Accountable \ Creates : disk[f] = "before" \/ backup[f] = "before"

\* Unless a designer wrote it after the last check, what a replacement
\* overwrites is exactly the content the bundle was generated against.
OnlyVerifiedContentReplaced ==
  [][\A f \in Files \ late :
       disk[f] # "after" /\ disk'[f] = "after" => disk[f] = Expected(f)]_vars

\* "Concurrent local changes are detected and never overwritten"
\* (local-apply-loop design, acceptance criteria): what a designer wrote is
\* only ever replaced by the designer.
LocalChangesNeverOverwritten ==
  [][\A f \in Files :
       disk[f] = "edited" /\ disk'[f] # "edited" => edits' # edits]_vars

\* The directory as a whole, seen once the agent is through with it.
ProjectView ==
  IF pc \notin {"done", "crashed"} THEN {"intact"}
  ELSE {c \in {"intact", "changed"} : \A f \in Accountable :
          disk[f] = IF c = "intact" THEN Expected(f) ELSE "after"}

Verdict == IF pc = "crashed" THEN "lost" ELSE outcome

Promise == INSTANCE ApplyPromise WITH
             project <- ProjectView, verdict <- Verdict, rollback <- rolled

\* The transaction keeps the promise its report makes about the directory.
ImplementsPromise == Promise!Spec
=============================================================================
