--------------------------- MODULE JobStoreProofs ---------------------------
(***************************************************************************)
(* Proofs about JobStore, for any sets of agents, projects and jobs.       *)
(***************************************************************************)
EXTENDS JobStore, TLAPS

\* Jobs that claim_next has returned.
HandedOut(j) == status[j] \in {"applying", "applied", "failed"}

\* The history agrees with the status column.
ClaimsMatchStatus ==
  \A j \in Jobs :
    IF HandedOut(j) THEN claims[j] = 1 /\ claimant[j] \in Agents
                    ELSE claims[j] = 0 /\ claimant[j] = None

\* A job in progress still belongs to its claimant, or was rebound.
ClaimantStillBound ==
  \A j \in Jobs :
    status[j] = "applying" /\ j \notin rebound => OwnedBy(j, claimant[j])

IInv ==
  /\ TypeOK
  /\ OnlyCleanBundlesAreReviewed
  /\ ResultMatchesStatus
  /\ ClaimsMatchStatus
  /\ ClaimantStillBound
  /\ ReportedByClaimant
-----------------------------------------------------------------------------
\* An empty database satisfies the invariant.
LEMMA InitInvariant == Init => IInv
BY NoneIsNoRow
   DEF Init, IInv, TypeOK, OnlyCleanBundlesAreReviewed, ResultMatchesStatus,
       ClaimsMatchStatus, HandedOut, ClaimantStillBound, ReportedByClaimant

\* A step that gives one job j another status, none of them concerning a claim
\* or a report, preserves it.
LEMMA MoveInvariant ==
  ASSUME IInv, NEW j \in Jobs, NEW to \in {"ready_for_review", "conversion_failed",
                                           "approved", "rejected"},
         status[j] \in {"absent", "ready_for_review"},
         status' = [status EXCEPT ![j] = to],
         to # "conversion_failed" => artifact[j] = "clean",
         NEW p \in Projects \cup {None},
         project' = [project EXCEPT ![j] = p],
         UNCHANGED <<registered, binding, artifact, result, claimant, claims, rebound>>
  PROVE  IInv'
<1> USE DEF IInv
<1>1. TypeOK'
  BY DEF TypeOK, JobStatus
<1>2. /\ status'[j] = to
      /\ \A k \in Jobs \ {j} : status'[k] = status[k] /\ project'[k] = project[k]
  BY DEF TypeOK
<1>3. OnlyCleanBundlesAreReviewed'
  BY <1>2 DEF OnlyCleanBundlesAreReviewed
<1>4. ResultMatchesStatus'
  BY <1>2 DEF ResultMatchesStatus
<1>5. ClaimsMatchStatus'
  BY <1>2 DEF ClaimsMatchStatus, HandedOut
<1>6. ClaimantStillBound'
  BY <1>2 DEF ClaimantStillBound, OwnedBy
<1>7. ReportedByClaimant'
  BY DEF ReportedByClaimant
<1>8. QED
  BY <1>1, <1>3, <1>4, <1>5, <1>6, <1>7

\* Creating a job, in either of its two ways.
LEMMA CreateInvariant ==
  ASSUME IInv, NEW j \in Jobs,
         \/ \E p \in Projects : ConversionFails(j, p)
         \/ \E p \in Projects, ok \in BOOLEAN : StoreBundle(j, p, ok)
         \/ InsertJob(j)
  PROVE  IInv'
<1>1. CASE \E p \in Projects : ConversionFails(j, p)
  BY <1>1, MoveInvariant DEF ConversionFails, Unused, historyVars
<1>2. CASE \E p \in Projects, ok \in BOOLEAN : StoreBundle(j, p, ok)
  <2> USE <1>2 DEF IInv, StoreBundle, Unused, historyVars
  <2>1. /\ status[j] = "absent" /\ artifact[j] = "none"
        /\ UNCHANGED <<registered, binding, status, result, claimant, claims, rebound>>
        /\ \E p \in Projects : project' = [project EXCEPT ![j] = p]
        /\ \E x \in {"clean", "errors"} : artifact' = [artifact EXCEPT ![j] = x]
    OBVIOUS
  <2>2. TypeOK'
    BY <2>1 DEF TypeOK
  <2>3. OnlyCleanBundlesAreReviewed'
    BY <2>1 DEF OnlyCleanBundlesAreReviewed, TypeOK
  <2>4. ResultMatchesStatus' /\ ClaimsMatchStatus' /\ ReportedByClaimant'
    BY <2>1 DEF ResultMatchesStatus, ClaimsMatchStatus, HandedOut, ReportedByClaimant
  <2>5. ClaimantStillBound'
    BY <2>1 DEF ClaimantStillBound, OwnedBy, TypeOK
  <2>6. QED
    BY <2>2, <2>3, <2>4, <2>5
<1>3. CASE InsertJob(j)
  <2>1. project[j] \in Projects \cup {None} /\ project' = [project EXCEPT ![j] = project[j]]
    BY <1>3 DEF InsertJob, IInv, TypeOK
  <2>2. InitialStatus(j) \in {"ready_for_review", "conversion_failed"}
        /\ (InitialStatus(j) # "conversion_failed" => artifact[j] = "clean")
    BY DEF InitialStatus
  <2>3. QED
    BY <1>3, <2>1, <2>2, MoveInvariant DEF InsertJob, historyVars
<1>4. QED
  BY <1>1, <1>2, <1>3

\* The reviewer's decision.
LEMMA ReviewInvariant ==
  ASSUME IInv, NEW j \in Jobs, ApproveJob(j) \/ RejectJob(j)
  PROVE  IInv'
<1>1. project[j] \in Projects \cup {None} /\ project' = [project EXCEPT ![j] = project[j]]
  BY DEF ApproveJob, RejectJob, IInv, TypeOK
<1>2. status[j] = "ready_for_review" /\ artifact[j] = "clean"
  BY DEF ApproveJob, RejectJob, AwaitsReview, IInv, OnlyCleanBundlesAreReviewed
<1>3. QED
  BY <1>1, <1>2, MoveInvariant DEF ApproveJob, RejectJob, historyVars

\* Handing a job to the agent that is bound to its project.
LEMMA ClaimInvariant ==
  ASSUME IInv, NEW a \in Agents, NEW j \in Jobs, ClaimNext(a, j)
  PROVE  IInv'
<1> USE DEF IInv
<1>1. /\ status[j] = "approved" /\ OwnedBy(j, a)
      /\ status' = [status EXCEPT ![j] = "applying"]
      /\ claimant' = [claimant EXCEPT ![j] = a]
      /\ claims' = [claims EXCEPT ![j] = claims[j] + 1]
      /\ UNCHANGED <<registered, binding, artifact, project, result, rebound>>
  BY DEF ClaimNext, Claimable
<1>2. claims[j] = 0
  BY <1>1 DEF ClaimsMatchStatus, HandedOut
<1>3. TypeOK'
  BY <1>1 DEF TypeOK, JobStatus
<1>4. OnlyCleanBundlesAreReviewed' /\ ResultMatchesStatus'
  BY <1>1 DEF OnlyCleanBundlesAreReviewed, ResultMatchesStatus, TypeOK
<1>5. ClaimsMatchStatus'
  BY <1>1, <1>2 DEF ClaimsMatchStatus, HandedOut, TypeOK
<1>6. ClaimantStillBound'
  BY <1>1 DEF ClaimantStillBound, OwnedBy, TypeOK
<1>7. ReportedByClaimant'
  <2>1. result[j] = None
    BY <1>1 DEF ResultMatchesStatus
  <2>2. QED
    BY <1>1, <2>1 DEF ReportedByClaimant, TypeOK
<1>8. QED
  BY <1>3, <1>4, <1>5, <1>6, <1>7

\* Recording a report, which only the agent bound to the project may post.
LEMMA RecordInvariant ==
  ASSUME IInv, NEW j \in Jobs, NEW r \in ApplyResult, RecordApplyResult(j, r)
  PROVE  IInv'
<1> USE DEF IInv
<1>1. /\ status[j] = "applying" /\ OwnedBy(j, r.agent)
      /\ status' = [status EXCEPT ![j] = r.status]
      /\ result' = [result EXCEPT ![j] = r]
      /\ UNCHANGED <<registered, binding, artifact, project, claimant, claims, rebound>>
  BY DEF RecordApplyResult, Recordable, historyVars
<1>2. r.status \in {"applied", "failed"} /\ r.agent \in Agents /\ r # None
  BY NoneIsNoRow DEF ApplyResult
<1>3. TypeOK'
  BY <1>1, <1>2 DEF TypeOK, JobStatus
<1>4. OnlyCleanBundlesAreReviewed' /\ ResultMatchesStatus'
  BY <1>1, <1>2 DEF OnlyCleanBundlesAreReviewed, ResultMatchesStatus, TypeOK
<1>5. ClaimsMatchStatus' /\ ClaimantStillBound'
  BY <1>1, <1>2 DEF ClaimsMatchStatus, HandedOut, ClaimantStillBound, OwnedBy, TypeOK
<1>6. ReportedByClaimant'
  BY <1>1 DEF ReportedByClaimant, ClaimantStillBound, OwnedBy, TypeOK
<1>7. QED
  BY <1>3, <1>4, <1>5, <1>6

\* Binding a project again: the jobs it takes from their claimants are those
\* that rebound remembers.
LEMMA BindInvariant ==
  ASSUME IInv, NEW p \in Projects, NEW a \in Agents, BindProject(p, a)
  PROVE  IInv'
<1> USE DEF IInv
<1>1. /\ binding' = [binding EXCEPT ![p] = a] /\ rebound \subseteq rebound'
      /\ rebound' \subseteq Jobs
      /\ \A j \in Jobs : project[j] = p /\ status[j] = "applying" /\ binding[p] # a
                         => j \in rebound'
      /\ UNCHANGED <<registered, artifact, project, status, result, claimant, claims>>
  BY DEF BindProject, TypeOK
<1>2. TypeOK'
  BY <1>1 DEF TypeOK
<1>3. OnlyCleanBundlesAreReviewed' /\ ResultMatchesStatus' /\ ClaimsMatchStatus'
  BY <1>1 DEF OnlyCleanBundlesAreReviewed, ResultMatchesStatus, ClaimsMatchStatus,
              HandedOut
<1>4. ClaimantStillBound'
  BY <1>1 DEF ClaimantStillBound, OwnedBy, TypeOK
<1>5. ReportedByClaimant'
  BY <1>1 DEF ReportedByClaimant
<1>6. QED
  BY <1>2, <1>3, <1>4, <1>5

\* Registering an agent touches no job.
LEMMA RegisterInvariant ==
  ASSUME IInv, NEW a \in Agents, RegisterAgent(a)
  PROVE  IInv'
BY DEF RegisterAgent, historyVars, IInv, TypeOK, OnlyCleanBundlesAreReviewed,
       ResultMatchesStatus, ClaimsMatchStatus, HandedOut, ClaimantStillBound,
       OwnedBy, ReportedByClaimant

\* Every step preserves the invariant.
LEMMA StepInvariant == IInv /\ [Next]_storeVars => IInv'
<1>1. ASSUME IInv, UNCHANGED storeVars PROVE IInv'
  BY <1>1 DEF storeVars, IInv, TypeOK, OnlyCleanBundlesAreReviewed,
     ResultMatchesStatus, ClaimsMatchStatus, HandedOut, ClaimantStillBound,
     OwnedBy, ReportedByClaimant
<1>2. QED
  BY <1>1, RegisterInvariant, BindInvariant, CreateInvariant, ReviewInvariant,
     ClaimInvariant, RecordInvariant DEF Next

\* The inductive invariant holds in every reachable state.
THEOREM Invariance == Spec => []IInv
BY InitInvariant, StepInvariant, PTL DEF Spec
-----------------------------------------------------------------------------
\* The tables are well formed, for any number of agents, projects and jobs.
THEOREM TypeCorrectness == Spec => []TypeOK
BY Invariance, PTL DEF IInv

\* Conversion errors never reach a reviewer or an agent.
THEOREM CleanBundlesOnly == Spec => []OnlyCleanBundlesAreReviewed
BY Invariance, PTL DEF IInv

\* The status column and the apply_results table always agree.
THEOREM TablesAgree == Spec => []ResultMatchesStatus
BY Invariance, PTL DEF IInv

\* However many agents poll, a job is handed out at most once.
THEOREM SingleAssignment == Spec => []AtMostOneAssignment
<1>1. IInv => AtMostOneAssignment
  BY DEF IInv, ClaimsMatchStatus, AtMostOneAssignment
<1>2. QED
  BY <1>1, Invariance, PTL

\* The verdict is the claimant's, unless the project was rebound meanwhile.
THEOREM ReportsComeFromClaimant == Spec => []ReportedByClaimant
BY Invariance, PTL DEF IInv

\* No transaction touches a report that was recorded.
LEMMA RecordedStays ==
  ASSUME IInv, [Next]_storeVars, NEW j \in Jobs, result[j] # None
  PROVE  result'[j] = result[j]
<1>1. CASE \E k \in Jobs, r \in ApplyResult : RecordApplyResult(k, r)
  BY <1>1 DEF RecordApplyResult, Recordable, IInv, TypeOK
<1>2. CASE result' = result
  BY <1>2
<1>3. QED
  BY <1>1, <1>2
     DEF Next, RegisterAgent, BindProject, ConversionFails, StoreBundle, InsertJob,
         ApproveJob, RejectJob, ClaimNext, storeVars

\* A recorded report stays as it is.
THEOREM ReportsStand == Spec => ReportsAreFinal
<1>1. IInv /\ [Next]_storeVars =>
        [\A j \in Jobs : result[j] # None => result'[j] = result[j]]_storeVars
  BY RecordedStays
<1>2. QED
  BY <1>1, Invariance, PTL DEF Spec, ReportsAreFinal
-----------------------------------------------------------------------------
\* Every step of the store is a step of the job lifecycle, or none.
LEMMA StepImplementsLifecycle ==
  IInv /\ [Next]_storeVars => [Lifecycle!Next]_<<status, claimant>>
<1> SUFFICES ASSUME IInv, Next
             PROVE  Lifecycle!Next \/ UNCHANGED <<status, claimant>>
  BY DEF storeVars
<1>1. ASSUME NEW j \in Jobs,
             \/ \E p \in Projects : ConversionFails(j, p)
             \/ InsertJob(j)
      PROVE  Lifecycle!Next
  <2>1. Lifecycle!Create(j)
    BY <1>1 DEF ConversionFails, InsertJob, Unused, InitialStatus, historyVars,
                Lifecycle!Create, Lifecycle!Move
  <2>2. QED
    BY <2>1 DEF Lifecycle!Next
<1>2. ASSUME NEW j \in Jobs, ApproveJob(j) \/ RejectJob(j)
      PROVE  Lifecycle!Next
  <2>1. Lifecycle!Decide(j)
    BY <1>2 DEF ApproveJob, RejectJob, AwaitsReview, historyVars,
                Lifecycle!Decide, Lifecycle!Move
  <2>2. QED
    BY <2>1 DEF Lifecycle!Next
<1>3. ASSUME NEW a \in Agents, NEW j \in Jobs, ClaimNext(a, j)
      PROVE  Lifecycle!Next
  <2>1. status[j] = "approved" /\ claimant[j] = None
    BY <1>3 DEF ClaimNext, Claimable, IInv, ClaimsMatchStatus, HandedOut
  <2>2. Lifecycle!HandOut(j, a)
    BY <1>3, <2>1 DEF ClaimNext, Lifecycle!HandOut, Lifecycle!Move
  <2>3. QED
    BY <2>2 DEF Lifecycle!Next
<1>4. ASSUME NEW j \in Jobs, NEW r \in ApplyResult, RecordApplyResult(j, r)
      PROVE  Lifecycle!Next
  <2>1. status[j] = "applying" /\ claimant[j] # None
    BY <1>4, NoneIsNoRow DEF RecordApplyResult, Recordable, IInv, ClaimsMatchStatus,
                             HandedOut
  <2>2. r.status \in {"applied", "failed"}
    BY DEF ApplyResult
  <2>3. Lifecycle!Conclude(j)
    BY <1>4, <2>1, <2>2 DEF RecordApplyResult, historyVars, Lifecycle!Conclude,
                            Lifecycle!Move
  <2>4. QED
    BY <2>3 DEF Lifecycle!Next
<1>5. QED
  BY <1>1, <1>2, <1>3, <1>4
     DEF Next, RegisterAgent, BindProject, StoreBundle, historyVars

\* The store implements the lifecycle.
THEOREM Refinement == Spec => ImplementsLifecycle
<1>1. Init => Lifecycle!Init
  BY DEF Init, Lifecycle!Init
<1>2. QED
  BY <1>1, StepImplementsLifecycle, Invariance, PTL
     DEF Spec, ImplementsLifecycle, Lifecycle!Spec, Lifecycle!lifecycleVars
=============================================================================
