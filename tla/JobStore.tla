------------------------------ MODULE JobStore ------------------------------
(***************************************************************************)
(* The job service's database (job_store.py) and the handler that fills it *)
(* (create_conversion_job in api.py).  Every JobStore method that writes   *)
(* runs in one BEGIN IMMEDIATE transaction, so each is one atomic action;  *)
(* creating a job is two steps, the artifact file first and the row        *)
(* second, and a crash may come between them.  A call that raises leaves   *)
(* the database as it was and is a stuttering step.                        *)
(***************************************************************************)
EXTENDS Integers, FiniteSets

CONSTANTS
  Agents,    \* agent identifiers
  Projects,  \* project identifiers
  Jobs,      \* job identifiers, compared by ORDER BY jobs.job_id
  Details,   \* what two reports with the same status may differ in
  None       \* SQL NULL, or no row

ASSUME JobIdsAreOrdered == Jobs \subseteq Nat

ApplyResult ==
  [agent : Agents, project : Projects, status : {"applied", "failed"},
   detail : Details]

ASSUME NoneIsNoRow ==
  None \notin Agents /\ None \notin Projects /\ None \notin ApplyResult

VARIABLES
  registered,  \* rows of the agents table
  binding,     \* project_bindings: the agent of each project, or None
  artifact,    \* ArtifactStore: the change bundle stored for each job
  project,     \* jobs.project_id, fixed when the handler starts on the job
  status,      \* jobs.status, "absent" before the row is inserted
  result,      \* apply_results: the report recorded for each job, or None
  claimant,    \* history: the agent claim_next returned the job to, or None
  claims,      \* history: how many times claim_next returned the job
  rebound      \* history: the jobs whose project was rebound while applying

storeVars == <<registered, binding, artifact, project, status, result,
               claimant, claims, rebound>>
historyVars == <<claimant, claims, rebound>>

JobStatus == {"ready_for_review", "conversion_failed", "approved",
              "applying", "applied", "failed", "rejected"}

TypeOK ==
  /\ registered \subseteq Agents
  /\ binding \in [Projects -> Agents \cup {None}]
  /\ artifact \in [Jobs -> {"none", "clean", "errors"}]
  /\ project \in [Jobs -> Projects \cup {None}]
  /\ status \in [Jobs -> JobStatus \cup {"absent"}]
  /\ result \in [Jobs -> ApplyResult \cup {None}]
  /\ claimant \in [Jobs -> Agents \cup {None}]
  /\ claims \in [Jobs -> Nat]
  /\ rebound \subseteq Jobs

Init ==
  /\ registered = {}
  /\ binding = [p \in Projects |-> None]
  /\ artifact = [j \in Jobs |-> "none"]
  /\ project = [j \in Jobs |-> None]
  /\ status = [j \in Jobs |-> "absent"]
  /\ result = [j \in Jobs |-> None]
  /\ claimant = [j \in Jobs |-> None]
  /\ claims = [j \in Jobs |-> 0]
  /\ rebound = {}
-----------------------------------------------------------------------------
(* Agents and bindings.  A project may be bound again, to any registered   *)
(* agent and at any time: the upsert looks at no job.                      *)

RegisterAgent(a) ==
  /\ registered' = registered \cup {a}
  /\ UNCHANGED <<binding, artifact, project, status, result, historyVars>>

BindProject(p, a) ==
  /\ a \in registered
  /\ binding' = [binding EXCEPT ![p] = a]
  /\ rebound' = IF binding[p] = a THEN rebound
                ELSE rebound \cup {j \in Jobs : project[j] = p /\ status[j] = "applying"}
  /\ UNCHANGED <<registered, artifact, project, status, result, claimant, claims>>
-----------------------------------------------------------------------------
(* create_conversion_job.  ConversionFails is conversion_failure(): the    *)
(* conversion raised and no artifact exists.  Otherwise artifacts.put      *)
(* comes first, then create_job with the status the diagnostics dictate.   *)

Unused(j) == status[j] = "absent" /\ artifact[j] = "none"

ConversionFails(j, p) ==
  /\ Unused(j)
  /\ project' = [project EXCEPT ![j] = p]
  /\ status' = [status EXCEPT ![j] = "conversion_failed"]
  /\ UNCHANGED <<registered, binding, artifact, result, historyVars>>

StoreBundle(j, p, applicable) ==
  /\ Unused(j)
  /\ project' = [project EXCEPT ![j] = p]
  /\ artifact' = [artifact EXCEPT ![j] = IF applicable THEN "clean" ELSE "errors"]
  /\ UNCHANGED <<registered, binding, status, result, historyVars>>

\* Mutants: the status enum's unused first member; diagnostics not consulted.
InitialStatusCreated(j) == "created"
InitialStatusUnchecked(j) == "ready_for_review"

InitialStatus(j) ==
  IF artifact[j] = "clean" THEN "ready_for_review" ELSE "conversion_failed"

InsertJob(j) ==
  /\ status[j] = "absent"
  /\ artifact[j] # "none"
  /\ status' = [status EXCEPT ![j] = InitialStatus(j)]
  /\ UNCHANGED <<registered, binding, artifact, project, result, historyVars>>
-----------------------------------------------------------------------------
(* Review.  Repeating the decision a job already carries returns the job   *)
(* and changes nothing; any other status raises InvalidTransition.         *)

\* Mutant: only the jobs already decided are refused.
AwaitsReviewOrFailed(j) == status[j] \in {"ready_for_review", "conversion_failed"}

AwaitsReview(j) == status[j] = "ready_for_review"

ApproveJob(j) ==
  /\ AwaitsReview(j)
  /\ status' = [status EXCEPT ![j] = "approved"]
  /\ UNCHANGED <<registered, binding, artifact, project, result, historyVars>>

RejectJob(j) ==
  /\ AwaitsReview(j)
  /\ status' = [status EXCEPT ![j] = "rejected"]
  /\ UNCHANGED <<registered, binding, artifact, project, result, historyVars>>
-----------------------------------------------------------------------------
(* Assignment and report.  The database keeps no claimant: whoever is      *)
(* bound to the project when a call arrives owns the job.                  *)

OwnedBy(j, a) == project[j] # None /\ binding[project[j]] = a

\* Mutant: the claim query also selects the jobs in progress.
ClaimableAgain(j, a) == status[j] \in {"approved", "applying"} /\ OwnedBy(j, a)

Claimable(j, a) == status[j] = "approved" /\ OwnedBy(j, a)

ClaimNext(a, j) ==
  /\ Claimable(j, a)
  /\ \A k \in Jobs : Claimable(k, a) => j <= k
  /\ status' = [status EXCEPT ![j] = "applying"]
  /\ claimant' = [claimant EXCEPT ![j] = a]
  /\ claims' = [claims EXCEPT ![j] = @ + 1]
  /\ UNCHANGED <<registered, binding, artifact, project, result, rebound>>

\* get_assignment_artifact_job: whether the bundle is served (read only).
ArtifactServed(a, j) == status[j] = "applying" /\ OwnedBy(j, a)

\* Mutants: no check of the reporter; a later report replaces an earlier one.
RecordableByAnyone(j, r) ==
  result[j] = None /\ status[j] = "applying" /\ r.project = project[j]
RecordableAgain(j, r) ==
  status[j] \in {"applying", "applied", "failed"} /\ OwnedBy(j, r.agent)

\* The first report of a job; a repeated identical one is acknowledged below.
Recordable(j, r) ==
  /\ result[j] = None
  /\ status[j] = "applying"
  /\ OwnedBy(j, r.agent)
  /\ r.project = project[j]

\* Mutant: the job row is not saved with the report.
RecordReportOnly(j, r) ==
  /\ Recordable(j, r)
  /\ result' = [result EXCEPT ![j] = r]
  /\ UNCHANGED <<registered, binding, artifact, project, status, historyVars>>

RecordApplyResult(j, r) ==
  /\ Recordable(j, r)
  /\ result' = [result EXCEPT ![j] = r]
  /\ status' = [status EXCEPT ![j] = r.status]
  /\ UNCHANGED <<registered, binding, artifact, project, historyVars>>
-----------------------------------------------------------------------------
Next ==
  \/ \E a \in Agents : RegisterAgent(a)
  \/ \E p \in Projects, a \in Agents : BindProject(p, a)
  \/ \E j \in Jobs, p \in Projects : ConversionFails(j, p)
  \/ \E j \in Jobs, p \in Projects, ok \in BOOLEAN : StoreBundle(j, p, ok)
  \/ \E j \in Jobs : InsertJob(j) \/ ApproveJob(j) \/ RejectJob(j)
  \/ \E a \in Agents, j \in Jobs : ClaimNext(a, j)
  \/ \E j \in Jobs, r \in ApplyResult : RecordApplyResult(j, r)

Spec == Init /\ [][Next]_storeVars
-----------------------------------------------------------------------------
(* Properties.                                                             *)

\* A job whose conversion reported an ERROR, and one whose bundle was never
\* stored, cannot get past conversion_failed, so no agent can be handed it
\* (api.py computes the status, the artifact is put before the row).
OnlyCleanBundlesAreReviewed ==
  \A j \in Jobs :
    status[j] \notin {"absent", "conversion_failed"} => artifact[j] = "clean"

\* The apply_results row and the status column, two tables written by one
\* transaction, always tell the same story.
ResultMatchesStatus ==
  \A j \in Jobs :
    IF status[j] \in {"applied", "failed"}
    THEN result[j] # None /\ result[j].status = status[j]
    ELSE result[j] = None

\* No interleaving of polls, rebindings and reports hands a job out twice:
\* a changeset is applied by at most one agent, at most once.
AtMostOneAssignment == \A j \in Jobs : claims[j] <= 1

\* The verdict recorded for a job comes from the agent that was handed it,
\* unless the project was bound to another agent in the meantime.
ReportedByClaimant ==
  \A j \in Jobs :
    result[j] # None /\ j \notin rebound => result[j].agent = claimant[j]

\* A recorded report is never replaced, whatever is posted afterwards.
ReportsAreFinal ==
  [][\A j \in Jobs : result[j] # None => result'[j] = result[j]]_storeVars

Lifecycle == INSTANCE JobLifecycle WITH phase <- status, holder <- claimant

\* The store implements the lifecycle its clients rely on.
ImplementsLifecycle == Lifecycle!Spec
=============================================================================
