----------------------- MODULE ApplyTransactionProofs -----------------------
(***************************************************************************)
(* Proofs about ApplyTransaction, for bundles of any length, any choice of *)
(* created files and any number of changes by a designer.                  *)
(***************************************************************************)
EXTENDS ApplyTransaction, TLAPS

Looping == {"verify", "reverify", "decode", "stage", "commit", "check"}

\* Where the loops stand: what has been verified, replaced and reported.
Progress ==
  /\ pc \in Looping => at \in Files /\ outcome = "pending" /\ rolled = "none"
  /\ pc = "verify" => verified = {}
  /\ pc = "reverify" => verified = 1..(at - 1)
  /\ pc \in {"decode", "stage", "commit", "check", "rollback", "cleanup"}
       => verified = Files
  /\ committed > 0 => verified = Files
  /\ pc \in {"verify", "reverify", "decode", "stage"} => committed = 0
  /\ pc = "commit" => committed = at - 1
  /\ pc = "check" => committed = N
  /\ pc = "rollback" => at <= committed /\ outcome = "pending" /\ rolled # "yes"
  /\ pc = "cleanup" => outcome = "pending"
  /\ outcome = "applied" => pc = "done" /\ verified = Files
  /\ outcome = "failed" /\ rolled = "yes" => pc = "done" /\ verified = Files

\* A file that was not replaced still has the content that was verified.
Unreplaced ==
  \A f \in Accountable : f > committed => disk[f] = Expected(f)

\* The backups that the stage loop has completed hold the previous content.
Backups ==
  \A f \in Accountable \ Creates :
    \/ f <= committed
    \/ pc = "stage" /\ f < at
    \/ pc \in {"commit", "check"}
    => backup[f] = "before"

\* The replaced files hold the new content until the rollback reaches them;
\* those it restored hold the old one again.
Replaced ==
  \A f \in Accountable :
    /\ pc \in {"commit", "check"} /\ f <= committed => disk[f] = "after"
    /\ pc = "rollback" /\ at < f /\ rolled # "no" => disk[f] = Expected(f)
    /\ pc = "cleanup" /\ rolled = "none" => disk[f] = "after"
    /\ pc = "cleanup" /\ rolled = "yes" => disk[f] = Expected(f)
    /\ outcome = "applied" => disk[f] = "after"
    /\ outcome = "failed" /\ rolled = "yes" => disk[f] = Expected(f)

NoTemps ==
  outcome = "applied" \/ (outcome = "failed" /\ rolled = "yes") => temps = {}

IInv == TypeOK /\ Progress /\ Unreplaced /\ Backups /\ Replaced /\ NoTemps

-----------------------------------------------------------------------------
\* The inductive invariant holds initially.
LEMMA InitInvariant == Init => IInv
<1> SUFFICES ASSUME Init PROVE IInv
  OBVIOUS
<1> USE BundleAssumption, EditsAssumption DEF Init, Files, Content, Accountable
<1>1. TypeOK
  BY DEF TypeOK
<1>2. Progress
  BY DEF Progress, Looping
<1>3. Unreplaced /\ Backups /\ Replaced /\ NoTemps
  BY DEF Unreplaced, Backups, Replaced, NoTemps
<1>4. QED
  BY <1>1, <1>2, <1>3 DEF IInv

\* A verification that matches preserves it.
LEMMA VerifyMatches ==
  ASSUME IInv, pc \in {"verify", "reverify"}, disk[at] = Expected(at),
         Advance(AfterVerify),
         verified' = IF pc = "reverify" THEN verified \cup {at} ELSE verified,
         UNCHANGED <<outcome, disk, backup, temps, committed, rolled, late, edits>>
  PROVE  IInv'
<1> USE BundleAssumption, EditsAssumption
    DEF IInv, Files, Content, Advance, AfterVerify
<1>1. at \in Files /\ N \in Nat /\ at \in Nat /\ committed = 0 /\ outcome = "pending"
      /\ rolled = "none"
  BY DEF Progress, Looping
<1>2. CASE pc = "verify"
  <2>1. verified = {} /\ verified' = {} /\ late = {} /\ late' = {}
    BY <1>2 DEF Progress, TypeOK
  <2>2. TypeOK'
    BY <1>1, <1>2, <2>1 DEF TypeOK
  <2>3. Progress'
    BY <1>1, <1>2, <2>1 DEF Progress, Looping
  <2>4. Unreplaced' /\ Backups' /\ Replaced' /\ NoTemps'
    BY <1>1, <2>1 DEF Unreplaced, Backups, Replaced, NoTemps, Accountable
  <2>5. QED
    BY <2>2, <2>3, <2>4
<1>3. CASE pc = "reverify"
  <2>1. verified = 1..(at - 1) /\ verified' = 1..at
    BY <1>1, <1>3 DEF Progress
  <2>2. pc' \in {"reverify", "decode"} /\ (pc' = "reverify" => at' = at + 1 /\ at < N)
        /\ (pc' = "decode" => at' = 1 /\ at = N)
    BY <1>1, <1>3
  <2>3. TypeOK'
    BY <1>1, <1>3, <2>1, <2>2 DEF TypeOK
  <2>4. Progress'
    <3>1. ASSUME pc' = "reverify"
          PROVE  verified' = 1..(at' - 1) /\ at' \in Files
      <4>1. at' = at + 1 /\ at < N
        BY <3>1, <2>2
      <4>2. at' - 1 = at /\ at' \in Files
        BY <4>1, <1>1
      <4>3. QED
        BY <2>1, <4>2
    <3>2. ASSUME pc' = "decode"
          PROVE  verified' = Files /\ at' \in Files
      <4>1. at' = 1 /\ at = N
        BY <3>2, <2>2
      <4>2. at' \in Files
        BY <4>1, BundleAssumption DEF Files
      <4>3. verified' = 1..N
        BY <2>1, <4>1
      <4>4. QED
        BY <4>2, <4>3
    <3>3. QED
      BY <1>1, <2>2, <3>1, <3>2 DEF Progress, Looping
  <2>5. Unreplaced'
    BY <1>1, <1>3, <2>1 DEF Unreplaced, Accountable, Expected, TypeOK
  <2>6. Backups' /\ Replaced' /\ NoTemps'
    BY <1>1, <2>1, <2>2 DEF Backups, Replaced, NoTemps, Accountable
  <2>7. QED
    BY <2>3, <2>4, <2>5, <2>6
<1>4. QED
  BY <1>2, <1>3

\* So does an early return: the conflict and the errors before the try block.
LEMMA EarlyReturn ==
  ASSUME IInv, pc \in {"verify", "reverify", "decode"},
         NEW what \in {"conflict", "failed"}, Return(what),
         UNCHANGED <<verified, disk, backup, temps, committed, rolled, late, edits>>
  PROVE  IInv'
<1> USE BundleAssumption, EditsAssumption DEF IInv, Files, Content, Return
<1>1. committed = 0 /\ rolled = "none"
  BY DEF Progress, Looping
<1>2. TypeOK'
  BY DEF TypeOK
<1>3. Progress'
  BY <1>1 DEF Progress, Looping
<1>4. Unreplaced' /\ Backups' /\ Replaced' /\ NoTemps'
  BY <1>1 DEF Unreplaced, Backups, Replaced, NoTemps, Accountable, Expected
<1>5. QED
  BY <1>2, <1>3, <1>4

\* The pre-write checks preserve the invariant.
LEMMA VerifyInvariant == IInv /\ Verify => IInv'
BY VerifyMatches, EarlyReturn DEF Verify

\* So does decoding the payloads.
LEMMA DecodeInvariant == IInv /\ Decode => IInv'
<1> SUFFICES ASSUME IInv, Decode PROVE IInv'
  OBVIOUS
<1>1. CASE Return("failed")
  BY <1>1, EarlyReturn DEF Decode, historyVars
<1>2. CASE Advance("stage") /\ UNCHANGED outcome
  <2> USE BundleAssumption, EditsAssumption, <1>2
      DEF IInv, Files, Content, Advance, Decode, historyVars
  <2>1. at \in 1..N /\ committed = 0 /\ rolled = "none" /\ outcome = "pending"
    BY DEF Progress, Looping
  <2>2. TypeOK'
    BY <2>1 DEF TypeOK
  <2>3. Progress'
    BY <2>1 DEF Progress, Looping
  <2>4. Unreplaced' /\ Replaced' /\ NoTemps'
    BY <2>1 DEF Unreplaced, Replaced, NoTemps, Accountable, Expected
  <2>5. Backups'
    BY <2>1 DEF Backups, Accountable, TypeOK
  <2>6. QED
    BY <2>2, <2>3, <2>4, <2>5
<1>3. QED
  BY <1>1, <1>2 DEF Decode

\* Staging a file backs up what Unreplaced says is still there.
LEMMA StageInvariant == IInv /\ Stage => IInv'
<1> SUFFICES ASSUME IInv, Stage PROVE IInv'
  OBVIOUS
<1> USE BundleAssumption, EditsAssumption DEF IInv, Files, Content, Advance
<1>1. /\ at \in 1..N /\ committed = 0 /\ rolled = "none" /\ outcome = "pending"
      /\ verified = 1..N /\ verified' = verified /\ late' = late /\ disk' = disk
      /\ committed' = committed /\ rolled' = rolled /\ outcome' = outcome
      /\ edits' = edits
  BY DEF Stage, historyVars, Progress, Looping
<1>2. /\ pc' \in {"stage", "commit"}
      /\ pc' = "stage" => at' = at + 1 /\ at < N
      /\ pc' = "commit" => at' = 1 /\ at = N
  BY <1>1 DEF Stage
<1>3. IF at \in Creates THEN backup' = backup
                         ELSE backup' = [backup EXCEPT ![at] = disk[at]]
  BY DEF Stage, BackedUp
<1>4. TypeOK'
  BY <1>1, <1>2, <1>3 DEF TypeOK, Stage
<1>5. Progress'
  BY <1>1, <1>2 DEF Progress, Looping
<1>6. Unreplaced' /\ Replaced' /\ NoTemps'
  BY <1>1, <1>2 DEF Unreplaced, Replaced, NoTemps, Accountable, Expected
<1>7. Backups'
  <2> SUFFICES ASSUME NEW f \in (Accountable \ Creates)',
                      (pc' = "stage" /\ f < at') \/ pc' = "commit"
               PROVE  backup'[f] = "before"
    BY <1>1, <1>2 DEF Backups, Accountable
  <2>1. f \in Accountable \ Creates /\ f \in 1..N /\ f <= at
    BY <1>1, <1>2 DEF Accountable
  <2>2. CASE f = at
    BY <1>1, <1>3, <2>1, <2>2 DEF Unreplaced, Expected, TypeOK
  <2>3. CASE f < at
    BY <1>1, <1>3, <2>1, <2>3 DEF Backups, Stage, TypeOK
  <2>4. QED
    BY <1>1, <2>1, <2>2, <2>3
<1>8. QED
  BY <1>4, <1>5, <1>6, <1>7

\* An OSError in the try block: the rollback starts with every file that was
\* not replaced as it was, and every replaced one backed up.
LEMMA RaiseInvariant ==
  ASSUME IInv, pc \in {"stage", "commit", "check"}, Raise,
         temps' \subseteq Files, backup' \in [Files -> Content],
         \A f \in Files : f <= committed => backup'[f] = backup[f],
         UNCHANGED <<disk, committed, rolled, outcome, verified, late, edits>>
  PROVE  IInv'
<1> USE BundleAssumption, EditsAssumption DEF IInv, Files, Content, Raise
<1>1. /\ verified = 1..N /\ rolled = "none" /\ outcome = "pending"
      /\ committed \in 0..N /\ verified' = verified /\ at' = committed
      /\ pc' = "rollback"
  BY DEF Progress, Looping, TypeOK
<1>2. TypeOK'
  BY <1>1 DEF TypeOK
<1>3. Progress'
  BY <1>1 DEF Progress, Looping
<1>4. Unreplaced' /\ NoTemps'
  BY <1>1 DEF Unreplaced, NoTemps, Accountable, Expected
<1>5. Backups'
  BY <1>1 DEF Backups, Accountable
<1>6. Replaced'
  BY <1>1 DEF Replaced, Unreplaced, Accountable, Expected
<1>7. QED
  BY <1>2, <1>3, <1>4, <1>5, <1>6

\* The two failing actions, and a failing final check, are such errors.
LEMMA FailureInvariant == IInv /\ (StageFails \/ CommitFails) => IInv'
<1>1. ASSUME IInv, StageFails PROVE IInv'
  <2> USE BundleAssumption DEF IInv
  <2>1. at \in Files /\ committed = 0
    BY <1>1 DEF StageFails, Progress, Looping
  <2>2. temps' \subseteq Files /\ backup' \in [Files -> Content]
    BY <1>1, <2>1 DEF StageFails, BackedUp, TypeOK, Content
  <2>3. \A f \in Files : f <= committed => backup'[f] = backup[f]
    BY <2>1 DEF Files
  <2>4. QED
    BY <1>1, <2>2, <2>3, RaiseInvariant DEF StageFails, historyVars
<1>2. ASSUME IInv, CommitFails PROVE IInv'
  BY <1>2, RaiseInvariant DEF CommitFails, historyVars, IInv, TypeOK
<1>3. QED
  BY <1>1, <1>2

\* Replacing a file preserves the invariant.
LEMMA CommitInvariant == IInv /\ Commit => IInv'
<1> SUFFICES ASSUME IInv, Commit PROVE IInv'
  OBVIOUS
<1> USE BundleAssumption, EditsAssumption DEF IInv, Files, Content, Advance
<1>1. /\ at \in 1..N /\ committed = at - 1 /\ rolled = "none" /\ outcome = "pending"
      /\ verified = 1..N /\ verified' = verified /\ late' = late
      /\ committed' = at /\ rolled' = rolled /\ outcome' = outcome
      /\ backup' = backup /\ edits' = edits /\ pc = "commit"
  BY DEF Commit, historyVars, Progress, Looping
<1>2. /\ pc' \in {"commit", "check"}
      /\ pc' = "commit" => at' = at + 1 /\ at < N
      /\ pc' = "check" => at' = 1 /\ at = N
  BY <1>1 DEF Commit
<1>3. disk' = [disk EXCEPT ![at] = "after"]
  BY DEF Commit
<1>4. TypeOK'
  BY <1>1, <1>2, <1>3 DEF TypeOK, Commit
<1>5. Progress'
  BY <1>1, <1>2 DEF Progress, Looping
<1>6. Unreplaced'
  BY <1>1, <1>3 DEF Unreplaced, Accountable, Expected, TypeOK
<1>7. Backups'
  BY <1>1 DEF Backups, Accountable
<1>8. Replaced' /\ NoTemps'
  BY <1>1, <1>2, <1>3 DEF Replaced, NoTemps, Accountable, TypeOK
<1>9. QED
  BY <1>4, <1>5, <1>6, <1>7, <1>8

\* Checking a file's final hash preserves it, whether or not it matches.
LEMMA FinalCheckInvariant == IInv /\ FinalCheck => IInv'
<1> SUFFICES ASSUME IInv, FinalCheck PROVE IInv'
  OBVIOUS
<1>1. CASE Raise
  BY <1>1, RaiseInvariant DEF FinalCheck, historyVars, IInv, TypeOK
<1>2. CASE Advance("cleanup")
  <2> USE BundleAssumption, EditsAssumption, <1>2 DEF IInv, Files, Content
  <2>1. /\ at \in 1..N /\ committed = N /\ rolled = "none" /\ outcome = "pending"
        /\ verified = 1..N /\ verified' = verified /\ late' = late /\ disk' = disk
        /\ committed' = committed /\ rolled' = rolled /\ outcome' = outcome
        /\ backup' = backup /\ temps' = temps /\ edits' = edits /\ pc = "check"
    BY DEF FinalCheck, historyVars, Progress, Looping
  <2>2. pc' \in {"check", "cleanup"} /\ at' \in 1..N
    BY <2>1 DEF Advance
  <2>3. TypeOK'
    BY <2>1, <2>2 DEF TypeOK
  <2>4. Progress'
    BY <2>1, <2>2 DEF Progress, Looping
  <2>5. Unreplaced' /\ Backups' /\ NoTemps'
    BY <2>1, <2>2 DEF Unreplaced, Backups, NoTemps, Accountable, Expected
  <2>6. Replaced'
    BY <2>1, <2>2 DEF Replaced, Accountable
  <2>7. QED
    BY <2>3, <2>4, <2>5, <2>6
<1>3. QED
  BY <1>1, <1>2 DEF FinalCheck

\* One step of the rollback: a file it restores holds its old content, and
\* one it could not restore is remembered in rolled.
LEMMA RollbackStepInvariant ==
  ASSUME IInv, RollingBack, NEW restored \in Content, NEW ok \in BOOLEAN,
         ok /\ at \in Accountable => restored = Expected(at),
         RollbackStep(restored, ok)
  PROVE  IInv'
<1> USE BundleAssumption, EditsAssumption DEF IInv, Files, Content
<1>1. /\ at \in 1..N /\ committed \in 1..N /\ at <= committed /\ outcome = "pending"
      /\ verified = 1..N /\ verified' = verified /\ late' = late /\ rolled # "yes"
      /\ committed' = committed /\ outcome' = outcome /\ temps' = temps
      /\ backup' = backup /\ edits' = edits /\ pc = "rollback" /\ pc' = pc
      /\ at' = at - 1
  BY DEF RollingBack, RollbackStep, historyVars, Progress, TypeOK
<1>2. /\ disk' = [disk EXCEPT ![at] = restored]
      /\ rolled' = IF ok THEN rolled ELSE "no"
  BY DEF RollbackStep
<1>3. TypeOK'
  BY <1>1, <1>2 DEF TypeOK
<1>4. Progress'
  BY <1>1, <1>2 DEF Progress, Looping
<1>5. Unreplaced' /\ Backups' /\ NoTemps'
  BY <1>1, <1>2 DEF Unreplaced, Backups, NoTemps, Accountable, Expected, TypeOK
<1>6. Replaced'
  <2> SUFFICES ASSUME NEW f \in Accountable', at' < f, rolled' # "no"
               PROVE  disk'[f] = Expected(f)
    BY <1>1 DEF Replaced, Expected, Accountable
  <2>1. f \in Accountable /\ f \in 1..N /\ ok /\ rolled # "no" /\ at <= f
    BY <1>1, <1>2 DEF Accountable
  <2>2. CASE f = at
    BY <1>1, <1>2, <2>1, <2>2 DEF TypeOK
  <2>3. CASE at < f
    BY <1>1, <1>2, <2>1, <2>3 DEF Replaced, TypeOK
  <2>4. QED
    BY <1>1, <2>1, <2>2, <2>3
<1>7. QED
  BY <1>3, <1>4, <1>5, <1>6

\* Restoring a file, or failing to, is such a step; so is the end of the loop.
LEMMA RollbackInvariant == IInv /\ (Restore \/ RestoreFails \/ RollbackEnds) => IInv'
<1>1. ASSUME IInv, Restore PROVE IInv'
  <2>1. at \in Files /\ at <= committed
    BY <1>1, BundleAssumption DEF Restore, RollingBack, IInv, Progress, TypeOK, Files
  <2>2. at \in Accountable => Restored(at) = Expected(at)
    BY <1>1, <2>1 DEF Restored, Expected, IInv, Backups
  <2>3. Restored(at) \in Content
    BY <1>1, <2>1 DEF Restored, IInv, TypeOK, Content
  <2>4. QED
    BY <1>1, <2>2, <2>3, RollbackStepInvariant DEF Restore
<1>2. ASSUME IInv, RestoreFails PROVE IInv'
  <2>1. at \in Files
    BY <1>2, BundleAssumption DEF RestoreFails, RollingBack, IInv, TypeOK, Files
  <2>2. disk[at] \in Content /\ backup[at] \in Content /\ "torn" \in Content
    BY <1>2, <2>1 DEF IInv, TypeOK, Content
  <2>3. QED
    BY <1>2, <2>2, RollbackStepInvariant DEF RestoreFails
<1>3. ASSUME IInv, RollbackEnds PROVE IInv'
  <2> USE BundleAssumption, EditsAssumption, <1>3 DEF IInv, Files, Content
  <2>1. /\ at = 0 /\ verified = 1..N /\ verified' = verified /\ late' = late
        /\ disk' = disk /\ committed' = committed /\ outcome' = outcome
        /\ backup' = backup /\ temps' = temps /\ edits' = edits
        /\ pc = "rollback" /\ pc' = "cleanup" /\ at' = at /\ outcome = "pending"
        /\ rolled' = IF rolled = "no" THEN "no" ELSE "yes"
    BY DEF RollbackEnds, historyVars, Progress
  <2>2. TypeOK'
    BY <2>1 DEF TypeOK
  <2>3. Progress'
    BY <2>1 DEF Progress, Looping
  <2>4. Unreplaced' /\ Backups' /\ NoTemps'
    BY <2>1 DEF Unreplaced, Backups, NoTemps, Accountable, Expected
  <2>5. Replaced'
    BY <2>1 DEF Replaced, Accountable, Expected
  <2>6. QED
    BY <2>2, <2>3, <2>4, <2>5
<1>4. QED
  BY <1>1, <1>2, <1>3

\* The return of apply_bundle, and a temporary that cannot be removed.
LEMMA CleanupInvariant == IInv /\ (Cleanup \/ CleanupFails) => IInv'
<1> SUFFICES ASSUME IInv, Cleanup \/ CleanupFails PROVE IInv'
  OBVIOUS
<1> USE BundleAssumption, EditsAssumption DEF IInv, Files, Content
<1>1. /\ pc = "cleanup" /\ pc' = "done" /\ at' = 0 /\ verified = 1..N
      /\ verified' = verified /\ late' = late /\ disk' = disk /\ edits' = edits
      /\ committed' = committed /\ backup' = backup
  BY DEF Cleanup, CleanupFails, Return, historyVars, Progress
<1>2. \/ temps' = {} /\ outcome' = "applied" /\ rolled = "none" /\ rolled' = rolled
      \/ temps' = {} /\ outcome' = "failed" /\ rolled # "none" /\ rolled' = rolled
      \/ temps' \subseteq temps /\ outcome' = "failed" /\ rolled' = "none"
  BY DEF Cleanup, CleanupFails, Return
<1>3. TypeOK'
  <2>1. temps' \subseteq 1..N
    BY <1>2 DEF TypeOK
  <2>2. rolled' \in {"none", "yes", "no"} /\ outcome' \in {"applied", "failed"}
    BY <1>2 DEF TypeOK
  <2>3. QED
    BY <1>1, <2>1, <2>2 DEF TypeOK
<1>4. Progress'
  BY <1>1, <1>2 DEF Progress, Looping
<1>5. Unreplaced' /\ Backups' /\ NoTemps'
  BY <1>1, <1>2 DEF Unreplaced, Backups, NoTemps, Accountable, Expected
<1>6. Replaced'
  BY <1>1, <1>2 DEF Replaced, Accountable, Expected
<1>7. QED
  BY <1>3, <1>4, <1>5, <1>6

\* The death of the process changes nothing in the directory.
LEMMA CrashInvariant == IInv /\ Crash => IInv'
<1> SUFFICES ASSUME IInv, Crash PROVE IInv'
  OBVIOUS
<1> USE DEF IInv, Files, Content, Crash, historyVars
<1>1. TypeOK'
  BY DEF TypeOK
<1>2. Progress'
  BY DEF Progress, Looping
<1>3. Unreplaced' /\ Backups' /\ Replaced' /\ NoTemps'
  BY DEF Unreplaced, Backups, Replaced, NoTemps, Accountable, Expected, Progress
<1>4. QED
  BY <1>1, <1>2, <1>3

\* A designer's change concerns no file the agent still answers for.
LEMMA DesignerInvariant ==
  ASSUME IInv, NEW f \in Files, DesignerChanges(f)
  PROVE  IInv'
<1> USE EditsAssumption DEF IInv
<1>1. /\ UNCHANGED <<pc, at, backup, temps, committed, rolled, outcome, verified>>
      /\ late' = late \cup ({f} \cap verified) /\ edits' = edits + 1 /\ edits < MaxEdits
      /\ pc \notin {"done", "crashed"}
  BY DEF DesignerChanges
<1>2. PICK c \in {"edited", "absent"} : disk' = [disk EXCEPT ![f] = c]
  BY DEF DesignerChanges
<1>3. TypeOK'
  <2>1. disk' \in [Files -> Content]
    BY <1>2 DEF TypeOK, Content
  <2>2. edits' \in 0..MaxEdits
    BY <1>1 DEF TypeOK
  <2>3. late' \subseteq verified' /\ verified' \subseteq Files
    BY <1>1 DEF TypeOK
  <2>4. QED
    BY <1>1, <2>1, <2>2, <2>3 DEF TypeOK
<1>4. Progress'
  BY <1>1 DEF Progress, Looping
<1>5. Accountable' \subseteq Accountable
      /\ \A g \in Accountable' : disk'[g] = disk[g]
  <2>1. f \notin Accountable'
    BY <1>1 DEF Accountable
  <2>2. Accountable' \subseteq Accountable /\ Accountable \subseteq Files
    BY <1>1 DEF Accountable, TypeOK
  <2>3. QED
    BY <1>2, <2>1, <2>2 DEF TypeOK
<1>6. Unreplaced' /\ Backups'
  BY <1>1, <1>5 DEF Unreplaced, Backups, Expected
<1>7. Replaced' /\ NoTemps'
  BY <1>1, <1>5 DEF Replaced, NoTemps, Expected
<1>8. QED
  BY <1>3, <1>4, <1>6, <1>7

\* Every step preserves the invariant.
LEMMA StepInvariant == IInv /\ [Next]_vars => IInv'
<1> SUFFICES ASSUME IInv, [Next]_vars PROVE IInv'
  OBVIOUS
<1>1. CASE AgentStep
  BY <1>1, VerifyInvariant, DecodeInvariant, StageInvariant, FailureInvariant,
     CommitInvariant, FinalCheckInvariant, RollbackInvariant, CleanupInvariant
     DEF AgentStep
<1>2. CASE Crash
  BY <1>2, CrashInvariant
<1>3. CASE \E f \in Files : DesignerChanges(f)
  BY <1>3, DesignerInvariant
<1>4. CASE UNCHANGED vars
  BY <1>4 DEF vars, IInv, TypeOK, Progress, Unreplaced, Backups, Replaced, NoTemps,
     Accountable, Expected
<1>5. QED
  BY <1>1, <1>2, <1>3, <1>4 DEF Next

\* The inductive invariant holds in every reachable state.
THEOREM Invariance == Spec => []IInv
<1>1. Init => IInv
  BY InitInvariant
<1>2. IInv /\ [Next]_vars => IInv'
  BY StepInvariant
<1>3. QED
  BY <1>1, <1>2, PTL DEF Spec
-----------------------------------------------------------------------------
\* Type correctness of apply_bundle's state for every bundle.
THEOREM TypeCorrectness == Spec => []TypeOK
<1>1. IInv => TypeOK
  BY DEF IInv
<1>2. QED
  BY <1>1, Invariance, PTL

\* A reported success means that every file has its declared content.
THEOREM SuccessIsComplete == Spec => []AppliedIsComplete
<1>1. IInv => AppliedIsComplete
  BY DEF IInv, AppliedIsComplete, Progress, Replaced, NoTemps, Accountable
<1>2. QED
  BY <1>1, Invariance, PTL

\* A rollback that reports success has put everything back.
THEOREM RollbackIsComplete == Spec => []RollbackRestores
<1>1. IInv => RollbackRestores
  BY DEF IInv, RollbackRestores, Progress, Replaced, NoTemps, Accountable
<1>2. QED
  BY <1>1, Invariance, PTL

\* Errors at any point, and a crash at any point, lose no previous content.
THEOREM PreviousContentSurvives == Spec => []NothingIsLost
<1>1. IInv => NothingIsLost
  <2> SUFFICES ASSUME IInv, NEW f \in Accountable \ Creates
               PROVE  disk[f] = "before" \/ backup[f] = "before"
    BY DEF NothingIsLost
  <2>1. f \in Nat /\ committed \in Nat
    BY BundleAssumption DEF IInv, TypeOK, Accountable, Files
  <2>2. CASE f <= committed
    BY <2>2 DEF IInv, Backups
  <2>3. CASE f > committed
    BY <2>3 DEF IInv, Unreplaced, Expected
  <2>4. QED
    BY <2>1, <2>2, <2>3
<1>2. QED
  BY <1>1, Invariance, PTL

\* A replacement only ever overwrites the content the bundle was made for,
\* unless a designer wrote the file after its last check.
THEOREM ReplacesVerifiedContent == Spec => OnlyVerifiedContentReplaced
<1>1. ASSUME IInv, Next, NEW f \in Files \ late,
             disk[f] # "after", disk'[f] = "after"
      PROVE  disk[f] = Expected(f)
  <2> USE BundleAssumption, <1>1 DEF IInv
  <2>1. CASE Commit
    <3>1. /\ at \in Files /\ committed = at - 1 /\ verified = Files
          /\ disk' = [disk EXCEPT ![at] = "after"]
      BY <2>1 DEF Commit, Progress, Looping
    <3>2. f = at /\ f \in Accountable /\ f > committed
      BY <3>1 DEF TypeOK, Accountable, Files
    <3>3. QED
      BY <3>2 DEF Unreplaced
  <2>2. CASE Restore \/ RestoreFails
    <3>1. /\ at \in Files /\ at <= committed /\ verified = Files
          /\ \E c \in {Restored(at), disk[at], "torn", backup[at]} :
               disk' = [disk EXCEPT ![at] = c]
          /\ at \in Creates => \E c \in {"absent", disk[at]} :
               disk' = [disk EXCEPT ![at] = c]
      BY <2>2 DEF Restore, RestoreFails, RollingBack, RollbackStep, Restored,
                  Progress, TypeOK, Files
    <3>2. f = at
      BY <3>1 DEF TypeOK
    <3>3. at \notin Creates
      BY <3>1, <3>2 DEF TypeOK
    <3>4. backup[f] = "before"
      BY <3>1, <3>2, <3>3 DEF Backups, Accountable
    <3>5. QED
      BY <3>1, <3>2, <3>3, <3>4 DEF TypeOK, Restored
  <2>3. CASE \E g \in Files : DesignerChanges(g)
    BY <2>3 DEF DesignerChanges, TypeOK
  <2>4. CASE disk' = disk
    BY <2>4
  <2>5. QED
    BY <2>1, <2>2, <2>3, <2>4
       DEF Next, AgentStep, Verify, Decode, Stage, StageFails, CommitFails,
           FinalCheck, RollbackEnds, Cleanup, CleanupFails, Crash
<1>2. IInv /\ [Next]_vars =>
        [\A f \in Files \ late :
           disk[f] # "after" /\ disk'[f] = "after" => disk[f] = Expected(f)]_vars
  BY <1>1
<1>3. QED
  BY <1>2, Invariance, PTL DEF Spec, OnlyVerifiedContentReplaced
-----------------------------------------------------------------------------
\* Until the agent is through, the report can only gain a rollback verdict.
LEMMA WorkKeepsPromise ==
  ASSUME IInv, Next, pc \notin {"done", "crashed"}, pc' \notin {"done", "crashed"}
  PROVE  Promise!Next \/ UNCHANGED <<ProjectView, Verdict, rolled>>
<1>1. outcome = "pending" /\ UNCHANGED outcome
  BY DEF IInv, TypeOK, Progress, Looping, Next, AgentStep, Verify, Decode, Return, Stage,
         StageFails, Commit, CommitFails, FinalCheck, Restore, RestoreFails, RollbackStep,
         RollbackEnds, Cleanup, CleanupFails, Crash, DesignerChanges
<1>2. UNCHANGED <<ProjectView, Verdict>> /\ Verdict = "pending"
  BY <1>1 DEF ProjectView, Verdict
<1>3. \/ UNCHANGED rolled
      \/ rolled \in {"none", "no"} /\ rolled' \in {"yes", "no"}
  <2>1. CASE Restore \/ RestoreFails \/ RollbackEnds
    BY <2>1 DEF IInv, TypeOK, Progress, Restore, RestoreFails, RollingBack, RollbackStep,
                RollbackEnds
  <2>2. CASE ~(Restore \/ RestoreFails \/ RollbackEnds)
    BY <2>2 DEF Next, AgentStep, Verify, Decode, Stage, StageFails, Commit, CommitFails,
                FinalCheck, Cleanup, CleanupFails, Return, Crash, DesignerChanges
  <2>3. QED
    BY <2>1, <2>2
<1>4. QED
  BY <1>2, <1>3 DEF Promise!Next, Promise!RollBack

\* The step that ends the transaction reports no more than is true.
LEMMA EndKeepsPromise ==
  ASSUME IInv, IInv', Next, pc \notin {"done", "crashed"}, pc' \in {"done", "crashed"}
  PROVE  Promise!Next
<1>1. Verdict = "pending" /\ ProjectView' \subseteq Promise!Conditions
  BY DEF IInv, TypeOK, Progress, Looping, ProjectView, Verdict, Promise!Conditions
<1>2. ASSUME Crash PROVE Promise!Die
  BY <1>1, <1>2 DEF Crash, Verdict, Promise!Die, Promise!Ends
<1>3. ASSUME NEW what \in {"conflict", "failed"}, Return(what), UNCHANGED <<disk, rolled>>,
             pc \in {"verify", "reverify", "decode"}, UNCHANGED <<verified, late>>
      PROVE  Promise!Refuse \/ Promise!FailSilently
  <2>1. rolled' = "none" /\ Verdict' = what /\ pc' = "done" /\ committed = 0
    BY <1>3 DEF Return, Verdict, IInv, Progress, Looping
  <2>2. \A f \in Accountable : disk[f] = Expected(f)
    BY <2>1, BundleAssumption DEF IInv, TypeOK, Unreplaced, Accountable, Files
  <2>3. "intact" \in ProjectView'
    BY <2>1, <2>2, <1>3 DEF ProjectView, Accountable, Expected
  <2>4. QED
    BY <1>1, <2>1, <2>3 DEF Promise!Refuse, Promise!FailSilently, Promise!Ends
<1>4. ASSUME Cleanup PROVE Promise!Succeed \/ Promise!Undo \/ Promise!FailToUndo
  <2>1. /\ pc' = "done" /\ rolled' = rolled /\ Verdict' = outcome'
        /\ outcome' = IF rolled = "none" THEN "applied" ELSE "failed"
    BY <1>4 DEF Cleanup, Return, Verdict
  <2>2. CASE rolled = "none"
    <3>1. "changed" \in ProjectView'
      BY <2>1, <2>2 DEF IInv, Replaced, ProjectView
    <3>2. QED
      BY <1>1, <2>1, <2>2, <3>1 DEF Promise!Succeed, Promise!Ends
  <2>3. CASE rolled = "yes"
    <3>1. "intact" \in ProjectView'
      BY <2>1, <2>3 DEF IInv, Replaced, ProjectView
    <3>2. QED
      BY <1>1, <2>1, <2>3, <3>1 DEF Promise!Undo, Promise!Ends
  <2>4. CASE rolled = "no"
    BY <1>1, <2>1, <2>4 DEF Promise!FailToUndo, Promise!Ends
  <2>5. QED
    BY <2>2, <2>3, <2>4 DEF IInv, TypeOK
<1>5. ASSUME CleanupFails PROVE Promise!FailSilently
  BY <1>1, <1>5 DEF CleanupFails, Return, Verdict, Promise!FailSilently, Promise!Ends
<1>6. QED
  <2>1. CASE Crash
    BY <1>1, <1>2, <2>1 DEF Promise!Next
  <2>2. CASE Cleanup \/ CleanupFails
    BY <1>1, <1>4, <1>5, <2>2 DEF Promise!Next
  <2>3. CASE Verify \/ Decode
    <3>1. PICK what \in {"conflict", "failed"} : Return(what)
      BY <2>3 DEF Verify, Decode, Advance, AfterVerify, IInv, TypeOK
    <3>2. UNCHANGED <<disk, rolled, verified, late>> /\ pc \in {"verify", "reverify", "decode"}
      BY <2>3 DEF Verify, Decode, Advance, AfterVerify, historyVars
    <3>3. QED
      BY <1>1, <1>3, <3>1, <3>2 DEF Promise!Next
  <2>4. QED
    BY <2>1, <2>2, <2>3 DEF Next, AgentStep, Stage, StageFails, Commit, CommitFails,
       FinalCheck, Restore, RestoreFails, RollingBack, RollbackStep, RollbackEnds,
       Advance, Raise, DesignerChanges

\* Every step of the transaction is a step of its promise, or none.
LEMMA StepKeepsPromise ==
  IInv /\ IInv' /\ [Next]_vars => [Promise!Next]_<<ProjectView, Verdict, rolled>>
<1> SUFFICES ASSUME IInv, IInv', [Next]_vars
             PROVE  Promise!Next \/ UNCHANGED <<ProjectView, Verdict, rolled>>
  OBVIOUS
<1>1. CASE UNCHANGED vars
  BY <1>1 DEF vars, ProjectView, Verdict, Accountable, Expected
<1>2. CASE Next
  <2>1. pc \notin {"done", "crashed"}
    BY <1>2 DEF Next, AgentStep, Verify, Decode, Stage, StageFails, Commit, CommitFails,
       FinalCheck, Restore, RestoreFails, RollingBack, RollbackStep, RollbackEnds,
       Cleanup, CleanupFails, Crash, DesignerChanges
  <2>2. QED
    BY <1>2, <2>1, WorkKeepsPromise, EndKeepsPromise
<1>3. QED
  BY <1>1, <1>2

\* What the agent reports is what apply_bundle did, for every bundle, however
\* the writes, the rollback, the process and the designer behave.
THEOREM Refinement == Spec => ImplementsPromise
<1>1. Init => Promise!Init
  BY DEF Init, Promise!Init, ProjectView, Verdict
<1>2. QED
  BY <1>1, StepKeepsPromise, Invariance, PTL DEF Spec, ImplementsPromise, Promise!Spec
=============================================================================
