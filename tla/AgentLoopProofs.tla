-------------------------- MODULE AgentLoopProofs --------------------------
(***************************************************************************)
(* Proofs about AgentLoop, for any agents, worker processes, directories,  *)
(* projects and jobs, and any number of faults, edits and bindings.        *)
(***************************************************************************)
EXTENDS AgentLoop, JobStoreProofs

Contents ==
  {Source[p].main : p \in Projects} \cup {Source[p].rest : p \in Projects}
    \cup {Edited, Damaged} \cup Jobs
Command == [project : Projects, dir : Dirs, seen : [Projects -> Dirs \cup {None}]]

LocalTypes ==
  /\ TypeInv
  /\ content \in [Dirs -> [{"main", "rest"} -> Contents]]
  /\ cli \in Command \cup {None}
  /\ project \in [Jobs -> Projects]

\* Where one worker stands: what it holds is its own and still in progress,
\* nothing of it was written yet, and what it is about to report is true.
HoldsOwn(w) ==
  job[w] # None => status[job[w]] = "applying" /\ claimant[job[w]] = AgentOf[w]

NothingYet(w) == pc[w] \in {"select", "fetch", "apply", "write"} => written[job[w]] = None

ReportIsTrue(w) ==
  report[w] # None =>
    /\ report[w].agent = AgentOf[w] /\ report[w].project = project[job[w]]
    /\ report[w].status = "applied" => written[job[w]] # None
    /\ report[w].status = "failed" /\ report[w].detail # "unsure" => written[job[w]] = None

\* What it selected, and checked, is still what is there.
SelectionHolds(w) ==
  pc[w] \in {"fetch", "apply", "write"} =>
    /\ dir[w] \in Dirs
    /\ w \notin touched =>
         /\ project[job[w]] \in Uploaded => content[dir[w]] = Source[project[job[w]]]
         /\ pc[w] = "write" => Matches(w)

WorkerIsRight(w) == HoldsOwn(w) /\ NothingYet(w) /\ ReportIsTrue(w) /\ SelectionHolds(w)
WorkersAreRight == \A w \in Workers : WorkerIsRight(w)

\* No two workers hold one job, and a job in progress was not dropped.
HeldOnce == \A v, w \in Workers : job[v] # None /\ job[v] = job[w] => v = w
NotDropped ==
  \A j \in Jobs : status[j] = "applying" /\ j \notin lost \cup rebound =>
    \E w \in Workers : job[w] = j

\* A job that was not handed out was not written, and what a bundle wrote is
\* found only where its job was written.
NotWrittenBefore == \A j \in Jobs : ~HandedOut(j) => written[j] = None
FilesOfWritten == \A j \in Jobs : written[j] = None => \A d \in Dirs : content[d].main # j

\* The inductive invariant: that of the store, and the workers' around it.
LoopInv ==
  /\ IInv /\ LocalTypes /\ WorkersAreRight /\ HeldOnce /\ NotDropped
  /\ NotWrittenBefore /\ FilesOfWritten /\ VerdictMatchesDirectory
-----------------------------------------------------------------------------
(* What the steps have in common.                                          *)

\* A worker that did nothing stays right, if nobody else touches its job or,
\* without its being told, its directory.
LEMMA OthersStayRight ==
  ASSUME NEW v \in Workers, WorkerIsRight(v),
         pc'[v] = pc[v], job'[v] = job[v], dir'[v] = dir[v], report'[v] = report[v],
         project' = project,
         job[v] # None => /\ status'[job[v]] = status[job[v]]
                          /\ claimant'[job[v]] = claimant[job[v]]
                          /\ written'[job[v]] = written[job[v]],
         v \notin touched' => v \notin touched /\ (dir[v] \in Dirs => content'[dir[v]] = content[dir[v]]),
         pc[v] = "idle" <=> job[v] = None, report[v] # None => pc[v] = "report"
  PROVE  WorkerIsRight(v)'
<1>1. HoldsOwn(v)'
  BY DEF WorkerIsRight, HoldsOwn
<1>2. NothingYet(v)'
  BY DEF WorkerIsRight, NothingYet
<1>3. ReportIsTrue(v)'
  BY DEF WorkerIsRight, ReportIsTrue
<1>4. SelectionHolds(v)'
  BY DEF WorkerIsRight, SelectionHolds, Matches
<1>5. QED
  BY <1>1, <1>2, <1>3, <1>4 DEF WorkerIsRight

\* A worker whose poll is over is right whatever the rest does.
LEMMA IdleIsRight ==
  ASSUME NEW w \in Workers, pc'[w] = "idle", job'[w] = None, report'[w] = None
  PROVE  WorkerIsRight(w)'
BY DEF WorkerIsRight, HoldsOwn, NothingYet, ReportIsTrue, SelectionHolds

LEMMA PollEnds ==
  ASSUME LocalTypes, NEW w \in Workers, EndPoll(w)
  PROVE  /\ pc' \in [Workers -> Steps] /\ job' \in [Workers -> Jobs \cup {None}]
         /\ dir' \in [Workers -> Dirs \cup {None}]
         /\ report' \in [Workers -> ApplyResult \cup {None}]
         /\ pc'[w] = "idle" /\ job'[w] = None /\ report'[w] = None
         /\ \A v \in Workers \ {w} : /\ pc'[v] = pc[v] /\ job'[v] = job[v]
                                     /\ dir'[v] = dir[v] /\ report'[v] = report[v]
         /\ \A v \in Workers : (pc'[v] = "idle") <=> (job'[v] = None)
         /\ \A v \in Workers : (pc'[v] = "report") <=> (report'[v] # None)
<1>1. "idle" \in Steps
  BY DEF Steps
<1>2. /\ pc' = [pc EXCEPT ![w] = "idle"] /\ job' = [job EXCEPT ![w] = None]
      /\ dir' = [dir EXCEPT ![w] = None] /\ report' = [report EXCEPT ![w] = None]
  BY DEF EndPoll, Goto
<1>3. /\ pc \in [Workers -> Steps] /\ job \in [Workers -> Jobs \cup {None}]
      /\ dir \in [Workers -> Dirs \cup {None}] /\ report \in [Workers -> ApplyResult \cup {None}]
  BY DEF LocalTypes, TypeInv
<1>4. /\ pc' \in [Workers -> Steps] /\ job' \in [Workers -> Jobs \cup {None}]
      /\ dir' \in [Workers -> Dirs \cup {None}]
      /\ report' \in [Workers -> ApplyResult \cup {None}]
      /\ pc'[w] = "idle" /\ job'[w] = None /\ report'[w] = None
      /\ \A v \in Workers \ {w} : /\ pc'[v] = pc[v] /\ job'[v] = job[v]
                                  /\ dir'[v] = dir[v] /\ report'[v] = report[v]
  BY <1>1, <1>2, <1>3
<1>5. \A v \in Workers : (pc'[v] = "idle") <=> (job'[v] = None)
  BY <1>4 DEF LocalTypes, TypeInv
<1>6. \A v \in Workers : (pc'[v] = "report") <=> (report'[v] # None)
  BY <1>4 DEF LocalTypes, TypeInv
<1>7. QED
  BY <1>4, <1>5, <1>6

\* A worker that has an answer for the server.
LEMMA AnswerFacts ==
  ASSUME LocalTypes, NEW w \in Workers, job[w] # None,
         NEW verdict \in {"applied", "failed"}, NEW detail \in Details,
         Answer(w, verdict, detail)
  PROVE  /\ pc' \in [Workers -> Steps] /\ report' \in [Workers -> ApplyResult \cup {None}]
         /\ pc'[w] = "report" /\ report'[w] # None
         /\ report'[w].agent = AgentOf[w] /\ report'[w].project = project[job[w]]
         /\ report'[w].status = verdict /\ report'[w].detail = detail
         /\ \A v \in Workers \ {w} : pc'[v] = pc[v] /\ report'[v] = report[v]
         /\ \A v \in Workers : (pc'[v] = "idle") <=> (job[v] = None)
         /\ \A v \in Workers : (pc'[v] = "report") <=> (report'[v] # None)
<1>1. PICK r : r = [agent |-> AgentOf[w], project |-> project[job[w]], status |-> verdict, detail |-> detail]
  OBVIOUS
<1>2. "report" \in Steps /\ job[w] \in Jobs
  BY DEF Steps, LocalTypes, TypeInv
<1>3. r \in ApplyResult /\ r # None
  BY <1>1, <1>2, WorkersAssumption, NoneIsNoRow DEF ApplyResult, LocalTypes
<1>4. r.agent = AgentOf[w] /\ r.project = project[job[w]] /\ r.status = verdict /\ r.detail = detail
  BY <1>1
<1>5. pc' = [pc EXCEPT ![w] = "report"] /\ report' = [report EXCEPT ![w] = r]
  BY <1>1 DEF Answer, Goto
<1>6. pc \in [Workers -> Steps] /\ report \in [Workers -> ApplyResult \cup {None}]
  BY DEF LocalTypes, TypeInv
<1>7. /\ pc' \in [Workers -> Steps] /\ report' \in [Workers -> ApplyResult \cup {None}]
      /\ pc'[w] = "report" /\ report'[w] = r
      /\ \A v \in Workers \ {w} : pc'[v] = pc[v] /\ report'[v] = report[v]
  BY <1>2, <1>3, <1>5, <1>6
<1>8. \A v \in Workers : (pc'[v] = "idle") <=> (job[v] = None)
  BY <1>7 DEF LocalTypes, TypeInv
<1>9. \A v \in Workers : (pc'[v] = "report") <=> (report'[v] # None)
  BY <1>3, <1>7 DEF LocalTypes, TypeInv
<1>10. QED
  BY <1>3, <1>4, <1>7, <1>8, <1>9

LEMMA StepFacts ==
  ASSUME LocalTypes, NEW w \in Workers, NEW step \in Steps \ {"idle", "report"}, Goto(w, step)
  PROVE  /\ pc' \in [Workers -> Steps] /\ pc'[w] = step
         /\ \A v \in Workers \ {w} : pc'[v] = pc[v]
BY DEF Goto, LocalTypes, TypeInv

\* What a fault counts.
LEMMA FaultFacts ==
  ASSUME LocalTypes, NEW j \in Jobs, Fault(j)
  PROVE  faults' \in 0..MaxFaults /\ lost' \subseteq Jobs /\ lost \subseteq lost' /\ j \in lost'
BY BoundsAssumption DEF Fault, LocalTypes, TypeInv

LEMMA StoreSteps == IInv /\ (Next \/ UNCHANGED storeVars) => IInv'
BY StepInvariant

LEMMA JobsAreNotNone == None \notin Jobs
BY ContentsAssumption
-----------------------------------------------------------------------------
(* Claiming a job and selecting its directory.                             *)

LEMMA ClaimFacts ==
  ASSUME LoopInv, NEW w \in Workers, NEW j \in Jobs, ClaimNext(AgentOf[w], j)
  PROVE  /\ IInv' /\ status'[j] = "applying" /\ claimant'[j] = AgentOf[w]
         /\ \A k \in Jobs \ {j} : status'[k] = status[k] /\ claimant'[k] = claimant[k]
         /\ UNCHANGED <<registered, binding, artifact, project, result, rebound>>
         /\ written[j] = None /\ \A v \in Workers : job[v] # j
<1>1. AgentOf[w] \in Agents
  BY WorkersAssumption
<1>2. IInv'
  BY <1>1, StoreSteps DEF LoopInv, Next
<1>3. /\ status[j] = "approved"
      /\ status' = [status EXCEPT ![j] = "applying"] /\ claimant' = [claimant EXCEPT ![j] = AgentOf[w]]
      /\ UNCHANGED <<registered, binding, artifact, project, result, rebound>>
  BY DEF ClaimNext, Claimable
<1>4. status \in [Jobs -> JobStatus \cup {"absent"}] /\ claimant \in [Jobs -> Agents \cup {None}]
  BY DEF LoopInv, IInv, TypeOK
<1>5. /\ status'[j] = "applying" /\ claimant'[j] = AgentOf[w]
      /\ \A k \in Jobs \ {j} : status'[k] = status[k] /\ claimant'[k] = claimant[k]
  BY <1>3, <1>4
<1>6. written[j] = None
  BY <1>3 DEF LoopInv, NotWrittenBefore, HandedOut
<1>7. \A v \in Workers : job[v] # j
  BY <1>3, JobsAreNotNone DEF LoopInv, WorkersAreRight, WorkerIsRight, HoldsOwn
<1>8. QED
  BY <1>2, <1>3, <1>5, <1>6, <1>7

\* The jobs' side of a claim.
LEMMA ClaimKeepsJobs ==
  ASSUME LoopInv, NEW w \in Workers, NEW j \in Jobs, ClaimNext(AgentOf[w], j),
         UNCHANGED <<content, written>>
  PROVE  NotWrittenBefore' /\ FilesOfWritten' /\ VerdictMatchesDirectory'
<1>1. /\ IInv' /\ status'[j] = "applying" /\ result' = result
      /\ \A k \in Jobs \ {j} : status'[k] = status[k]
  BY ClaimFacts
<1>2. NotWrittenBefore' /\ FilesOfWritten'
  BY <1>1 DEF LoopInv, NotWrittenBefore, FilesOfWritten, HandedOut
<1>3. VerdictMatchesDirectory'
  BY <1>1 DEF LoopInv, VerdictMatchesDirectory
<1>4. QED
  BY <1>2, <1>3

LEMMA ClaimKeeps ==
  ASSUME LoopInv, NEW w \in Workers, Claim(w)
  PROVE  LoopInv'
<1>1. PICK j \in Jobs : ClaimNext(AgentOf[w], j) /\ job' = [job EXCEPT ![w] = j]
  BY DEF Claim
<1>2. /\ pc[w] = "idle" /\ Goto(w, "select")
      /\ UNCHANGED <<dir, report, loaded, config, cli, binds, content, touched, written, edits, lost, faults>>
  BY DEF Claim, cliVars, dirVars
<1>3. /\ IInv' /\ status'[j] = "applying" /\ claimant'[j] = AgentOf[w]
      /\ \A k \in Jobs \ {j} : status'[k] = status[k] /\ claimant'[k] = claimant[k]
      /\ UNCHANGED <<registered, binding, artifact, project, result, rebound>>
      /\ written[j] = None /\ \A v \in Workers : job[v] # j
  BY <1>1, ClaimFacts
<1>4. /\ pc' \in [Workers -> Steps] /\ pc'[w] = "select"
      /\ \A v \in Workers \ {w} : pc'[v] = pc[v]
  <2>1. "select" \in Steps \ {"idle", "report"}
    BY DEF Steps
  <2>2. QED
    BY <1>2, <2>1, StepFacts DEF LoopInv
<1>5. /\ job \in [Workers -> Jobs \cup {None}] /\ job' \in [Workers -> Jobs \cup {None}] /\ job'[w] = j
      /\ \A v \in Workers \ {w} : job'[v] = job[v]
  BY <1>1 DEF LoopInv, LocalTypes, TypeInv
<1>6. report[w] = None
  BY <1>2 DEF LoopInv, LocalTypes, TypeInv
<1>7. LocalTypes'
  <2>1. \A v \in Workers : (pc'[v] = "idle") <=> (job'[v] = None)
    BY <1>4, <1>5, JobsAreNotNone DEF LoopInv, LocalTypes, TypeInv
  <2>2. \A v \in Workers : (pc'[v] = "report") <=> (report'[v] # None)
    BY <1>2, <1>4, <1>6 DEF LoopInv, LocalTypes, TypeInv
  <2>3. QED
    BY <1>2, <1>3, <1>4, <1>5, <2>1, <2>2 DEF LoopInv, LocalTypes, TypeInv, IInv
<1>8. WorkersAreRight'
  <2>1. WorkerIsRight(w)'
    BY <1>2, <1>3, <1>4, <1>5, <1>6
       DEF WorkerIsRight, HoldsOwn, NothingYet, ReportIsTrue, SelectionHolds
  <2>2. ASSUME NEW v \in Workers \ {w} PROVE WorkerIsRight(v)'
    <3>1. job[v] # None => job[v] \in Jobs \ {j}
      BY <1>3, <1>5
    <3>2. QED
      BY <1>2, <1>3, <1>4, <1>5, <3>1, OthersStayRight
         DEF LoopInv, WorkersAreRight, LocalTypes, TypeInv
  <2>3. QED
    BY <2>1, <2>2 DEF WorkersAreRight
<1>9. HeldOnce'
  BY <1>3, <1>5 DEF LoopInv, HeldOnce
<1>10. NotDropped'
  <2>1. ASSUME NEW k \in Jobs, status'[k] = "applying", k \notin lost' \cup rebound'
        PROVE  \E v \in Workers : job'[v] = k
    <3>1. CASE k = j
      BY <1>5, <3>1
    <3>2. CASE k # j
      <4>1. PICK v \in Workers : job[v] = k
        BY <1>2, <1>3, <2>1, <3>2 DEF LoopInv, NotDropped
      <4>2. job[w] = None
        BY <1>2 DEF LoopInv, LocalTypes, TypeInv
      <4>3. v # w
        BY <4>1, <4>2, JobsAreNotNone
      <4>4. QED
        BY <1>5, <4>1, <4>3
    <3>3. QED
      BY <3>1, <3>2
  <2>2. QED
    BY <2>1 DEF NotDropped
<1>11. QED
  BY <1>1, <1>2, <1>3, <1>7, <1>8, <1>9, <1>10, ClaimKeepsJobs DEF LoopInv

LEMMA ClaimReplyLostKeeps ==
  ASSUME LoopInv, NEW w \in Workers, ClaimReplyLost(w)
  PROVE  LoopInv'
<1>1. PICK j \in Jobs : ClaimNext(AgentOf[w], j) /\ Fault(j)
  BY DEF ClaimReplyLost
<1>2. UNCHANGED <<pc, job, dir, report, loaded, config, cli, binds, content, touched, written, edits>>
  BY DEF ClaimReplyLost, localVars, cliVars, dirVars
<1>3. /\ IInv' /\ status'[j] = "applying" /\ claimant'[j] = AgentOf[w]
      /\ \A k \in Jobs \ {j} : status'[k] = status[k] /\ claimant'[k] = claimant[k]
      /\ UNCHANGED <<registered, binding, artifact, project, result, rebound>>
      /\ written[j] = None /\ \A v \in Workers : job[v] # j
  BY <1>1, ClaimFacts
<1>4. faults' \in 0..MaxFaults /\ lost' \subseteq Jobs /\ lost \subseteq lost' /\ j \in lost'
  BY <1>1, FaultFacts DEF LoopInv
<1>5. LocalTypes'
  BY <1>2, <1>3, <1>4 DEF LoopInv, LocalTypes, TypeInv, IInv
<1>6. WorkersAreRight'
  <2>1. ASSUME NEW v \in Workers PROVE WorkerIsRight(v)'
    <3>1. job[v] # None => job[v] \in Jobs \ {j}
      BY <1>3 DEF LoopInv, LocalTypes, TypeInv
    <3>2. QED
      BY <1>2, <1>3, <3>1, OthersStayRight DEF LoopInv, WorkersAreRight, LocalTypes, TypeInv
  <2>2. QED
    BY <2>1 DEF WorkersAreRight
<1>7. HeldOnce' /\ NotDropped'
  BY <1>2, <1>3, <1>4 DEF LoopInv, HeldOnce, NotDropped
<1>8. QED
  BY <1>1, <1>2, <1>3, <1>5, <1>6, <1>7, ClaimKeepsJobs DEF LoopInv

\* What does not change the store, nor what was written where.
LEMMA JobsKept ==
  ASSUME LoopInv, UNCHANGED <<storeVars, written>>,
         \A j \in Jobs, d \in Dirs : content'[d].main = j => content[d].main = j
  PROVE  IInv' /\ NotWrittenBefore' /\ FilesOfWritten' /\ VerdictMatchesDirectory'
<1>1. IInv'
  BY StoreSteps DEF LoopInv
<1>2. NotWrittenBefore' /\ FilesOfWritten' /\ VerdictMatchesDirectory'
  BY DEF LoopInv, NotWrittenBefore, FilesOfWritten, VerdictMatchesDirectory, HandedOut, storeVars
<1>3. QED
  BY <1>1, <1>2

\* The other workers, when one worker takes a step that leaves the store alone.
LEMMA OthersKept ==
  ASSUME LoopInv, NEW w \in Workers, UNCHANGED <<storeVars, written, content>>,
         \A v \in Workers \ {w} : /\ pc'[v] = pc[v] /\ job'[v] = job[v]
                                  /\ dir'[v] = dir[v] /\ report'[v] = report[v]
                                  /\ v \notin touched' => v \notin touched,
         WorkerIsRight(w)'
  PROVE  WorkersAreRight'
<1>1. ASSUME NEW v \in Workers \ {w} PROVE WorkerIsRight(v)'
  BY OthersStayRight DEF LoopInv, WorkersAreRight, LocalTypes, TypeInv, storeVars
<1>2. QED
  BY <1>1 DEF WorkersAreRight

LEMMA SelectKeeps ==
  ASSUME LoopInv, NEW w \in Workers, Select(w)
  PROVE  LoopInv'
<1>1. /\ pc[w] = "select"
      /\ UNCHANGED <<storeVars, job, loaded, config, cli, binds, content, written, edits, lost, faults>>
  BY DEF Select, cliVars
<1>2. job[w] \in Jobs /\ job[w] # None /\ report[w] = None
  BY <1>1 DEF LoopInv, LocalTypes, TypeInv
<1>3. IInv' /\ NotWrittenBefore' /\ FilesOfWritten' /\ VerdictMatchesDirectory'
  BY <1>1, JobsKept
<1>4. HeldOnce' /\ NotDropped'
  BY <1>1 DEF LoopInv, HeldOnce, NotDropped, storeVars
<1>5. UNCHANGED <<status, claimant, project>>
  BY <1>1 DEF storeVars
<1>6. HoldsOwn(w) /\ written[job[w]] = None
  BY <1>1 DEF LoopInv, WorkersAreRight, WorkerIsRight, NothingYet
<1>7. ASSUME NEW d \in Dirs, Candidates(w, job[w]) = {d}, dir' = [dir EXCEPT ![w] = d],
             Goto(w, "fetch"), touched' = touched \ {w}, UNCHANGED report
      PROVE  LocalTypes' /\ WorkersAreRight'
  <2>1. "fetch" \in Steps \ {"idle", "report"}
    BY DEF Steps
  <2>2. /\ pc' \in [Workers -> Steps] /\ pc'[w] = "fetch"
        /\ \A v \in Workers \ {w} : pc'[v] = pc[v]
    BY <1>7, <2>1, StepFacts DEF LoopInv
  <2>3. /\ dir' \in [Workers -> Dirs \cup {None}] /\ dir'[w] = d
        /\ \A v \in Workers \ {w} : dir'[v] = dir[v]
    BY <1>7 DEF LoopInv, LocalTypes, TypeInv
  <2>4. LocalTypes'
    <3>1. \A v \in Workers : (pc'[v] = "idle") <=> (job'[v] = None)
      BY <1>1, <1>2, <2>2 DEF LoopInv, LocalTypes, TypeInv
    <3>2. \A v \in Workers : (pc'[v] = "report") <=> (report'[v] # None)
      BY <1>2, <1>7, <2>2 DEF LoopInv, LocalTypes, TypeInv
    <3>3. QED
      BY <1>1, <1>3, <1>5, <1>7, <2>2, <2>3, <3>1, <3>2 DEF LoopInv, LocalTypes, TypeInv, IInv
  <2>5. project[job[w]] \in Uploaded => content[d] = Source[project[job[w]]]
    BY <1>7 DEF Candidates
  <2>6. WorkerIsRight(w)'
    <3>1. HoldsOwn(w)' /\ NothingYet(w)' /\ ReportIsTrue(w)'
      BY <1>1, <1>2, <1>5, <1>6, <1>7 DEF HoldsOwn, NothingYet, ReportIsTrue
    <3>2. SelectionHolds(w)'
      BY <1>1, <1>5, <2>2, <2>3, <2>5 DEF SelectionHolds
    <3>3. QED
      BY <3>1, <3>2 DEF WorkerIsRight
  <2>7. QED
    BY <1>1, <1>7, <2>2, <2>3, <2>4, <2>6, OthersKept
<1>8. ASSUME Answer(w, "failed", "selection_required"), UNCHANGED <<dir, touched>>
      PROVE  LocalTypes' /\ WorkersAreRight'
  <2>1. "selection_required" \in Details
    BY DetailsAssumption
  <2>2. /\ pc' \in [Workers -> Steps] /\ report' \in [Workers -> ApplyResult \cup {None}]
        /\ pc'[w] = "report" /\ report'[w] # None
        /\ report'[w].agent = AgentOf[w] /\ report'[w].project = project[job[w]]
        /\ report'[w].status = "failed"
        /\ \A v \in Workers \ {w} : pc'[v] = pc[v] /\ report'[v] = report[v]
        /\ \A v \in Workers : (pc'[v] = "idle") <=> (job[v] = None)
        /\ \A v \in Workers : (pc'[v] = "report") <=> (report'[v] # None)
    BY <1>2, <1>8, <2>1, AnswerFacts DEF LoopInv
  <2>3. LocalTypes'
    BY <1>1, <1>3, <1>5, <1>8, <2>2 DEF LoopInv, LocalTypes, TypeInv, IInv
  <2>4. WorkerIsRight(w)'
    BY <1>1, <1>2, <1>5, <1>6, <2>2 DEF WorkerIsRight, HoldsOwn, NothingYet, ReportIsTrue, SelectionHolds
  <2>5. QED
    BY <1>1, <1>8, <2>2, <2>3, <2>4, OthersKept
<1>9. LocalTypes' /\ WorkersAreRight'
  BY <1>7, <1>8 DEF Select
<1>10. QED
  BY <1>3, <1>4, <1>9 DEF LoopInv
\* A poll that ends, by an answer or without one, disturbs no other worker.
LEMMA PollEndKeeps ==
  ASSUME LoopInv, NEW w \in Workers, job[w] # None, EndPoll(w),
         project' = project, lost \subseteq lost', rebound \subseteq rebound',
         \A j \in Jobs \ {job[w]} : /\ status'[j] = status[j] /\ claimant'[j] = claimant[j]
                                    /\ written'[j] = written[j],
         \A v \in Workers \ {w} : v \notin touched' =>
            v \notin touched /\ (dir[v] \in Dirs => content'[dir[v]] = content[dir[v]]),
         status'[job[w]] = "applying" => job[w] \in lost' \cup rebound'
  PROVE  WorkersAreRight' /\ HeldOnce' /\ NotDropped'
<1>1. /\ pc'[w] = "idle" /\ job'[w] = None /\ report'[w] = None
      /\ \A v \in Workers \ {w} : /\ pc'[v] = pc[v] /\ job'[v] = job[v]
                                  /\ dir'[v] = dir[v] /\ report'[v] = report[v]
  BY PollEnds DEF LoopInv
<1>2. job \in [Workers -> Jobs \cup {None}] /\ job[w] \in Jobs
  BY DEF LoopInv, LocalTypes, TypeInv
<1>3. WorkersAreRight'
  <2>1. WorkerIsRight(w)'
    BY <1>1, IdleIsRight
  <2>2. ASSUME NEW v \in Workers \ {w} PROVE WorkerIsRight(v)'
    <3>1. job[v] # None => job[v] \in Jobs \ {job[w]}
      BY <1>2 DEF LoopInv, HeldOnce
    <3>2. QED
      BY <1>1, <3>1, OthersStayRight DEF LoopInv, WorkersAreRight, LocalTypes, TypeInv
  <2>3. QED
    BY <2>1, <2>2 DEF WorkersAreRight
<1>4. HeldOnce'
  BY <1>1 DEF LoopInv, HeldOnce
<1>5. NotDropped'
  <2>1. ASSUME NEW k \in Jobs, status'[k] = "applying", k \notin lost' \cup rebound'
        PROVE  \E v \in Workers : job'[v] = k
    <3>1. k # job[w] /\ status[k] = "applying" /\ k \notin lost \cup rebound
      BY <2>1
    <3>2. PICK v \in Workers : job[v] = k
      BY <3>1 DEF LoopInv, NotDropped
    <3>3. QED
      BY <1>1, <3>1, <3>2
  <2>2. QED
    BY <2>1 DEF NotDropped
<1>6. QED
  BY <1>3, <1>4, <1>5

LEMMA PollEndTypes ==
  ASSUME LoopInv, NEW w \in Workers, EndPoll(w), IInv', project' = project, UNCHANGED cliVars,
         loaded' \in [Workers -> [Projects -> Dirs \cup {None}]],
         content' \in [Dirs -> [{"main", "rest"} -> Contents]],
         touched' \subseteq Workers, lost' \subseteq Jobs,
         written' \in [Jobs -> Dirs \cup {None}], faults' \in 0..MaxFaults, UNCHANGED edits
  PROVE  LocalTypes'
<1>1. TypeOK'
  BY DEF IInv
<1>2. /\ pc' \in [Workers -> Steps] /\ job' \in [Workers -> Jobs \cup {None}]
      /\ dir' \in [Workers -> Dirs \cup {None}]
      /\ report' \in [Workers -> ApplyResult \cup {None}]
      /\ \A v \in Workers : (pc'[v] = "idle") <=> (job'[v] = None)
      /\ \A v \in Workers : (pc'[v] = "report") <=> (report'[v] # None)
  BY PollEnds DEF LoopInv
<1>3. UNCHANGED <<config, cli, binds>>
  BY DEF cliVars
<1>4. \A d \in Dirs : DOMAIN content'[d] = {"main", "rest"}
  OBVIOUS
<1>5. TypeInv'
  BY <1>1, <1>2, <1>3, <1>4 DEF LoopInv, LocalTypes, TypeInv
<1>6. QED
  BY <1>3, <1>5 DEF LoopInv, LocalTypes, Contents, Command

\* Nothing of what the types are about has changed.
LEMMA SameTypes ==
  ASSUME LoopInv, UNCHANGED <<loaded, cliVars, dirVars, lost, faults>>
  PROVE  /\ loaded' \in [Workers -> [Projects -> Dirs \cup {None}]]
         /\ content' \in [Dirs -> [{"main", "rest"} -> Contents]]
         /\ touched' \subseteq Workers /\ lost' \subseteq Jobs
         /\ written' \in [Jobs -> Dirs \cup {None}] /\ faults' \in 0..MaxFaults
BY DEF LoopInv, LocalTypes, TypeInv, dirVars

\* The server refuses the bundle only to an agent that lost the project.
LEMMA FetchKeeps ==
  ASSUME LoopInv, NEW w \in Workers, Fetch(w)
  PROVE  LoopInv'
<1>1. /\ pc[w] = "fetch"
      /\ UNCHANGED <<storeVars, loaded, cliVars, dirVars, lost, faults>>
      /\ UNCHANGED <<project, status, claimant, rebound, content, touched, written, edits>>
  BY DEF Fetch, storeVars, dirVars
<1>2. job[w] \in Jobs /\ job[w] # None /\ report[w] = None
  BY <1>1 DEF LoopInv, LocalTypes, TypeInv
<1>3. IInv' /\ NotWrittenBefore' /\ FilesOfWritten' /\ VerdictMatchesDirectory'
  BY <1>1, JobsKept
<1>4. CASE ArtifactServed(AgentOf[w], job[w])
  <2>1. Goto(w, "apply") /\ UNCHANGED <<job, dir, report>>
    BY <1>4 DEF Fetch
  <2>2. /\ pc' \in [Workers -> Steps] /\ pc'[w] = "apply"
        /\ \A v \in Workers \ {w} : pc'[v] = pc[v]
    <3>1. "apply" \in Steps \ {"idle", "report"}
      BY DEF Steps
    <3>2. QED
      BY <2>1, <3>1, StepFacts DEF LoopInv
  <2>3. HeldOnce' /\ NotDropped'
    BY <1>1, <2>1 DEF LoopInv, HeldOnce, NotDropped
  <2>4. LocalTypes'
    <3>1. \A v \in Workers : (pc'[v] = "idle") <=> (job'[v] = None)
      BY <1>2, <2>1, <2>2, <1>1 DEF LoopInv, LocalTypes, TypeInv
    <3>2. \A v \in Workers : (pc'[v] = "report") <=> (report'[v] # None)
      BY <1>2, <2>1, <2>2 DEF LoopInv, LocalTypes, TypeInv
    <3>3. QED
      BY <1>1, <1>3, <2>1, <2>2, <3>1, <3>2 DEF LoopInv, LocalTypes, TypeInv, IInv, cliVars, Contents
  <2>5. WorkerIsRight(w)
    BY DEF LoopInv, WorkersAreRight
  <2>6. WorkerIsRight(w)'
    <3>1. HoldsOwn(w)' /\ NothingYet(w)' /\ ReportIsTrue(w)'
      BY <1>1, <1>2, <2>1, <2>5 DEF WorkerIsRight, HoldsOwn, NothingYet, ReportIsTrue
    <3>2. SelectionHolds(w)'
      BY <1>1, <2>1, <2>2, <2>5 DEF WorkerIsRight, SelectionHolds
    <3>3. QED
      BY <3>1, <3>2 DEF WorkerIsRight
  <2>7. WorkersAreRight'
    BY <1>1, <2>1, <2>2, <2>6, OthersKept
  <2>8. QED
    BY <1>3, <2>3, <2>4, <2>7 DEF LoopInv
<1>5. CASE ~ArtifactServed(AgentOf[w], job[w])
  <2>1. EndPoll(w)
    BY <1>5 DEF Fetch
  <2>2. status[job[w]] = "applying" /\ claimant[job[w]] = AgentOf[w]
    BY <1>2 DEF LoopInv, WorkersAreRight, WorkerIsRight, HoldsOwn
  <2>3. job[w] \in rebound
    BY <1>2, <1>5, <2>2 DEF ArtifactServed, LoopInv, IInv, ClaimantStillBound
  <2>4. WorkersAreRight' /\ HeldOnce' /\ NotDropped'
    BY <1>1, <1>2, <2>1, <2>3, PollEndKeeps
  <2>5. LocalTypes'
    BY <1>1, <1>3, <2>1, SameTypes, PollEndTypes
  <2>6. QED
    BY <1>3, <2>4, <2>5 DEF LoopInv
<1>6. QED
  BY <1>4, <1>5

LEMMA FetchFailsKeeps ==
  ASSUME LoopInv, NEW w \in Workers, FetchFails(w)
  PROVE  LoopInv'
<1>1. /\ pc[w] = "fetch" /\ Fault(job[w]) /\ EndPoll(w)
      /\ UNCHANGED <<storeVars, loaded, cliVars>>
      /\ UNCHANGED <<project, status, claimant, rebound, content, touched, written, edits>>
  BY DEF FetchFails, storeVars, dirVars
<1>2. job[w] \in Jobs /\ job[w] # None
  BY <1>1 DEF LoopInv, LocalTypes, TypeInv
<1>3. IInv' /\ NotWrittenBefore' /\ FilesOfWritten' /\ VerdictMatchesDirectory'
  BY <1>1, JobsKept
<1>4. faults' \in 0..MaxFaults /\ lost' \subseteq Jobs /\ lost \subseteq lost' /\ job[w] \in lost'
  BY <1>1, <1>2, FaultFacts DEF LoopInv
<1>5. WorkersAreRight' /\ HeldOnce' /\ NotDropped'
  BY <1>1, <1>2, <1>4, PollEndKeeps
<1>6. LocalTypes'
  <2>1. /\ loaded' \in [Workers -> [Projects -> Dirs \cup {None}]]
        /\ content' \in [Dirs -> [{"main", "rest"} -> Contents]]
        /\ touched' \subseteq Workers /\ written' \in [Jobs -> Dirs \cup {None}]
    BY <1>1 DEF LoopInv, LocalTypes, TypeInv
  <2>2. QED
    BY <1>1, <1>3, <1>4, <2>1, PollEndTypes
<1>7. QED
  BY <1>3, <1>5, <1>6 DEF LoopInv
-----------------------------------------------------------------------------
(* Verifying and writing.                                                  *)

LEMMA VerifyKeeps ==
  ASSUME LoopInv, NEW w \in Workers, Verify(w)
  PROVE  LoopInv'
<1>1. /\ pc[w] = "apply"
      /\ UNCHANGED <<storeVars, job, dir, loaded, cliVars, dirVars, lost, faults>>
      /\ UNCHANGED <<project, status, claimant, rebound, content, touched, written, edits>>
  BY DEF Verify, storeVars, dirVars
<1>2. job[w] \in Jobs /\ job[w] # None /\ report[w] = None
  BY <1>1 DEF LoopInv, LocalTypes, TypeInv
<1>3. IInv' /\ NotWrittenBefore' /\ FilesOfWritten' /\ VerdictMatchesDirectory'
  BY <1>1, JobsKept
<1>4. HeldOnce' /\ NotDropped'
  BY <1>1 DEF LoopInv, HeldOnce, NotDropped
<1>5. WorkerIsRight(w) /\ written[job[w]] = None
  BY <1>1 DEF LoopInv, WorkersAreRight, WorkerIsRight, NothingYet
<1>6. CASE Matches(w)
  <2>1. Goto(w, "write") /\ UNCHANGED report
    BY <1>6 DEF Verify
  <2>2. /\ pc' \in [Workers -> Steps] /\ pc'[w] = "write"
        /\ \A v \in Workers \ {w} : pc'[v] = pc[v]
    <3>1. "write" \in Steps \ {"idle", "report"}
      BY DEF Steps
    <3>2. QED
      BY <2>1, <3>1, StepFacts DEF LoopInv
  <2>3. LocalTypes'
    <3>1. \A v \in Workers : (pc'[v] = "idle") <=> (job'[v] = None)
      BY <1>2, <2>1, <2>2, <1>1 DEF LoopInv, LocalTypes, TypeInv
    <3>2. \A v \in Workers : (pc'[v] = "report") <=> (report'[v] # None)
      BY <1>2, <2>1, <2>2 DEF LoopInv, LocalTypes, TypeInv
    <3>3. QED
      BY <1>1, <1>3, <2>1, <2>2, <3>1, <3>2 DEF LoopInv, LocalTypes, TypeInv, IInv, cliVars, Contents
  <2>4. WorkerIsRight(w)'
    <3>1. HoldsOwn(w)' /\ NothingYet(w)' /\ ReportIsTrue(w)'
      BY <1>1, <1>2, <1>5, <2>1 DEF WorkerIsRight, HoldsOwn, NothingYet, ReportIsTrue
    <3>2. SelectionHolds(w)'
      BY <1>1, <1>5, <1>6, <2>1, <2>2 DEF WorkerIsRight, SelectionHolds, Matches
    <3>3. QED
      BY <3>1, <3>2 DEF WorkerIsRight
  <2>5. WorkersAreRight'
    BY <1>1, <2>1, <2>2, <2>4, OthersKept
  <2>6. QED
    BY <1>3, <1>4, <2>3, <2>5 DEF LoopInv
<1>7. CASE ~Matches(w)
  <2>1. Answer(w, "failed", "local_project_changed") /\ "local_project_changed" \in Details
    BY <1>7, DetailsAssumption DEF Verify
  <2>2. /\ pc' \in [Workers -> Steps] /\ report' \in [Workers -> ApplyResult \cup {None}]
        /\ pc'[w] = "report" /\ report'[w] # None
        /\ report'[w].agent = AgentOf[w] /\ report'[w].project = project[job[w]]
        /\ report'[w].status = "failed"
        /\ \A v \in Workers \ {w} : pc'[v] = pc[v] /\ report'[v] = report[v]
        /\ \A v \in Workers : (pc'[v] = "idle") <=> (job[v] = None)
        /\ \A v \in Workers : (pc'[v] = "report") <=> (report'[v] # None)
    BY <1>2, <2>1, AnswerFacts DEF LoopInv
  <2>3. LocalTypes'
    BY <1>1, <1>3, <2>2 DEF LoopInv, LocalTypes, TypeInv, IInv, cliVars, Contents
  <2>4. WorkerIsRight(w)'
    BY <1>1, <1>2, <1>5, <2>2 DEF WorkerIsRight, HoldsOwn, NothingYet, ReportIsTrue, SelectionHolds
  <2>5. WorkersAreRight'
    BY <1>1, <2>2, <2>4, OthersKept
  <2>6. QED
    BY <1>3, <1>4, <2>3, <2>5 DEF LoopInv
<1>8. QED
  BY <1>6, <1>7
\* What a transaction leaves behind, as the other workers and the jobs see it.
LEMMA LeaveFacts ==
  ASSUME LoopInv, NEW w \in Workers, pc[w] = "write",
         NEW new \in {content[dir[w]].main, Damaged, job[w]}, Leave(w, new)
  PROVE  /\ content' \in [Dirs -> [{"main", "rest"} -> Contents]]
         /\ written' \in [Jobs -> Dirs \cup {None}] /\ touched' \subseteq Workers
         /\ \A j \in Jobs \ {job[w]} : written'[j] = written[j]
         /\ new = job[w] => written'[job[w]] # None
         /\ new # job[w] => written'[job[w]] = None
         /\ content[dir[w]].main # job[w]
         /\ \A v \in Workers \ {w} : v \notin touched' =>
              v \notin touched /\ (dir[v] \in Dirs => content'[dir[v]] = content[dir[v]])
         /\ FilesOfWritten'
<1>1. /\ content \in [Dirs -> [{"main", "rest"} -> Contents]]
      /\ written \in [Jobs -> Dirs \cup {None}] /\ touched \subseteq Workers
      /\ job[w] \in Jobs
  BY DEF LoopInv, LocalTypes, TypeInv
<1>2. dir[w] \in Dirs /\ written[job[w]] = None
  BY DEF LoopInv, WorkersAreRight, WorkerIsRight, SelectionHolds, NothingYet
<1>3. content[dir[w]].main # job[w]
  BY <1>1, <1>2 DEF LoopInv, FilesOfWritten
<1>4. new \in Contents
  BY <1>1, <1>2 DEF Contents
<1>5. /\ content' \in [Dirs -> [{"main", "rest"} -> Contents]]
      /\ content'[dir[w]].main = new
      /\ \A d \in Dirs \ {dir[w]} : content'[d] = content[d]
      /\ new = content[dir[w]].main => content' = content
  BY <1>1, <1>2, <1>4 DEF Leave
<1>6. dir[w] # None
  BY <1>2, DirsAssumption
<1>7. /\ written' \in [Jobs -> Dirs \cup {None}]
      /\ \A j \in Jobs \ {job[w]} : written'[j] = written[j]
      /\ new = job[w] => written'[job[w]] = dir[w]
      /\ new # job[w] => written'[job[w]] = None
  BY <1>1, <1>2 DEF Leave
<1>8. touched' \subseteq Workers
  BY <1>1 DEF Leave
<1>9. ASSUME NEW v \in Workers \ {w}, v \notin touched'
      PROVE  v \notin touched /\ (dir[v] \in Dirs => content'[dir[v]] = content[dir[v]])
  <2>1. CASE new = content[dir[w]].main
    BY <1>5, <1>9, <2>1 DEF Leave
  <2>2. CASE new # content[dir[w]].main
    <3>1. v \notin touched /\ dir[v] # dir[w]
      BY <1>9, <2>2 DEF Leave
    <3>2. QED
      BY <1>5, <3>1
  <2>3. QED
    BY <2>1, <2>2
<1>10. ASSUME NEW j \in Jobs, written'[j] = None, NEW d \in Dirs
       PROVE  content'[d].main # j
  <2>1. written[j] = None
    BY <1>2, <1>7, <1>10
  <2>2. content[d].main # j
    BY <2>1 DEF LoopInv, FilesOfWritten
  <2>3. CASE d # dir[w]
    BY <1>5, <2>2, <2>3
  <2>4. CASE d = dir[w]
    <3>1. Damaged # j
      BY ContentsAssumption
    <3>2. new = j => j = job[w]
      BY <2>2, <2>4, <3>1
    <3>3. new # j
      BY <1>6, <1>7, <1>10, <3>2
    <3>4. QED
      BY <1>5, <2>4, <3>3
  <2>5. QED
    BY <2>3, <2>4
<1>11. FilesOfWritten'
  BY <1>10 DEF FilesOfWritten
<1>12. QED
  BY <1>3, <1>5, <1>6, <1>7, <1>8, <1>9, <1>11

\* A job in progress has no verdict yet, and counts as handed out.
LEMMA WritingKeepsJobs ==
  ASSUME LoopInv, NEW j \in Jobs, status[j] = "applying", UNCHANGED storeVars,
         \A k \in Jobs \ {j} : written'[k] = written[k]
  PROVE  IInv' /\ NotWrittenBefore' /\ VerdictMatchesDirectory'
<1>1. UNCHANGED <<status, result>>
  BY DEF storeVars
<1>2. IInv'
  BY StoreSteps DEF LoopInv
<1>3. NotWrittenBefore'
  BY <1>1 DEF LoopInv, NotWrittenBefore, HandedOut
<1>4. VerdictMatchesDirectory'
  BY <1>1 DEF LoopInv, VerdictMatchesDirectory
<1>5. QED
  BY <1>2, <1>3, <1>4

\* A transaction that is done, with what it left and what it says.
LEMMA WrittenAndAnswered ==
  ASSUME LoopInv, NEW w \in Workers, pc[w] = "write",
         UNCHANGED <<storeVars, job, dir, loaded, cliVars, edits, lost, faults>>,
         NEW new \in {content[dir[w]].main, Damaged, job[w]}, Leave(w, new),
         NEW verdict \in {"applied", "failed"}, NEW detail \in Details,
         Answer(w, verdict, detail),
         verdict = "applied" => new = job[w],
         verdict = "failed" /\ detail # "unsure" => new = content[dir[w]].main
  PROVE  LoopInv'
<1>1. UNCHANGED <<project, status, claimant, rebound, result, config, cli, binds>>
  BY DEF storeVars, cliVars
<1>2. job[w] \in Jobs /\ job[w] # None
  BY DEF LoopInv, LocalTypes, TypeInv
<1>3. HoldsOwn(w) /\ status[job[w]] = "applying"
  BY <1>2 DEF LoopInv, WorkersAreRight, WorkerIsRight, HoldsOwn
<1>4. /\ content' \in [Dirs -> [{"main", "rest"} -> Contents]]
      /\ written' \in [Jobs -> Dirs \cup {None}] /\ touched' \subseteq Workers
      /\ \A j \in Jobs \ {job[w]} : written'[j] = written[j]
      /\ new = job[w] => written'[job[w]] # None
      /\ new # job[w] => written'[job[w]] = None
      /\ content[dir[w]].main # job[w]
      /\ \A v \in Workers \ {w} : v \notin touched' =>
           v \notin touched /\ (dir[v] \in Dirs => content'[dir[v]] = content[dir[v]])
      /\ FilesOfWritten'
  BY LeaveFacts
<1>5. /\ pc' \in [Workers -> Steps] /\ report' \in [Workers -> ApplyResult \cup {None}]
      /\ pc'[w] = "report" /\ report'[w] # None
      /\ report'[w].agent = AgentOf[w] /\ report'[w].project = project[job[w]]
      /\ report'[w].status = verdict /\ report'[w].detail = detail
      /\ \A v \in Workers \ {w} : pc'[v] = pc[v] /\ report'[v] = report[v]
      /\ \A v \in Workers : (pc'[v] = "idle") <=> (job[v] = None)
      /\ \A v \in Workers : (pc'[v] = "report") <=> (report'[v] # None)
  BY <1>2, AnswerFacts DEF LoopInv
<1>6. IInv' /\ NotWrittenBefore' /\ VerdictMatchesDirectory'
  BY <1>2, <1>3, <1>4, WritingKeepsJobs
<1>7. LocalTypes'
  <2>1. \A d \in Dirs : DOMAIN content'[d] = {"main", "rest"}
    BY <1>4
  <2>2. TypeInv'
    BY <1>1, <1>4, <1>5, <1>6, <2>1 DEF LoopInv, LocalTypes, TypeInv, IInv
  <2>3. QED
    BY <1>1, <1>4, <2>2 DEF LoopInv, LocalTypes, Contents
<1>8. WorkersAreRight'
  <2>1. WorkerIsRight(w)'
    <3>1. HoldsOwn(w)'
      BY <1>1, <1>3 DEF HoldsOwn
    <3>2. NothingYet(w)' /\ SelectionHolds(w)'
      BY <1>5 DEF NothingYet, SelectionHolds
    <3>3. ReportIsTrue(w)'
      BY <1>1, <1>4, <1>5 DEF ReportIsTrue
    <3>4. QED
      BY <3>1, <3>2, <3>3 DEF WorkerIsRight
  <2>2. ASSUME NEW v \in Workers \ {w} PROVE WorkerIsRight(v)'
    <3>1. job[v] # None => job[v] \in Jobs \ {job[w]}
      BY <1>2 DEF LoopInv, HeldOnce, LocalTypes, TypeInv
    <3>2. QED
      BY <1>1, <1>4, <1>5, <3>1, OthersStayRight DEF LoopInv, WorkersAreRight, LocalTypes, TypeInv
  <2>3. QED
    BY <2>1, <2>2 DEF WorkersAreRight
<1>9. HeldOnce' /\ NotDropped'
  BY <1>1 DEF LoopInv, HeldOnce, NotDropped
<1>10. QED
  BY <1>4, <1>6, <1>7, <1>8, <1>9 DEF LoopInv

LEMMA WriteKeeps ==
  ASSUME LoopInv, NEW w \in Workers, Write(w)
  PROVE  LoopInv'
<1>1. /\ pc[w] = "write"
      /\ UNCHANGED <<storeVars, job, dir, loaded, cliVars, edits, lost, faults>>
  BY DEF Write
<1>2. {"ok", "local_project_changed", "rolled_back", "unsure"} \subseteq Details
  BY DetailsAssumption
<1>3. CASE Leave(w, job[w]) /\ Answer(w, "applied", "ok")
  BY <1>1, <1>2, <1>3, WrittenAndAnswered
<1>4. CASE Leave(w, content[dir[w]].main) /\ Answer(w, "failed", "local_project_changed")
  BY <1>1, <1>2, <1>4, WrittenAndAnswered
<1>5. CASE Leave(w, content[dir[w]].main) /\ Answer(w, "failed", "rolled_back")
  BY <1>1, <1>2, <1>5, WrittenAndAnswered
<1>6. ASSUME NEW new \in {content[dir[w]].main, Damaged, job[w]},
             Leave(w, new), Answer(w, "failed", "unsure")
      PROVE  LoopInv'
  BY <1>1, <1>2, <1>6, WrittenAndAnswered
<1>7. QED
  BY <1>3, <1>4, <1>5, <1>6 DEF Write
-----------------------------------------------------------------------------
(* Reporting, and the death of a worker.                                   *)

LEMMA ReporterFacts ==
  ASSUME LoopInv, NEW w \in Workers, pc[w] = "report"
  PROVE  /\ job[w] \in Jobs /\ job[w] # None /\ report[w] \in ApplyResult
         /\ status[job[w]] = "applying" /\ claimant[job[w]] = AgentOf[w]
         /\ result[job[w]] = None
         /\ report[w].agent = AgentOf[w] /\ report[w].project = project[job[w]]
         /\ report[w].status \in {"applied", "failed"}
         /\ report[w].status = "applied" => written[job[w]] # None
         /\ report[w].status = "failed" /\ report[w].detail # "unsure" => written[job[w]] = None
<1>1. job[w] \in Jobs /\ job[w] # None /\ report[w] \in ApplyResult /\ report[w] # None
  BY DEF LoopInv, LocalTypes, TypeInv
<1>2. WorkerIsRight(w)
  BY DEF LoopInv, WorkersAreRight
<1>3. /\ status[job[w]] = "applying" /\ claimant[job[w]] = AgentOf[w]
      /\ report[w].agent = AgentOf[w] /\ report[w].project = project[job[w]]
      /\ report[w].status = "applied" => written[job[w]] # None
      /\ report[w].status = "failed" /\ report[w].detail # "unsure" => written[job[w]] = None
  BY <1>1, <1>2 DEF WorkerIsRight, HoldsOwn, ReportIsTrue
<1>4. result[job[w]] = None
  BY <1>1, <1>3 DEF LoopInv, IInv, ResultMatchesStatus
<1>5. report[w].status \in {"applied", "failed"}
  BY <1>1 DEF ApplyResult
<1>6. QED
  BY <1>1, <1>3, <1>4, <1>5

\* The verdict the server takes is the one the worker could vouch for.
LEMMA RecordFacts ==
  ASSUME LoopInv, NEW w \in Workers, pc[w] = "report",
         RecordApplyResult(job[w], report[w]), UNCHANGED <<content, written>>
  PROVE  /\ IInv' /\ NotWrittenBefore' /\ FilesOfWritten' /\ VerdictMatchesDirectory'
         /\ status'[job[w]] # "applying" /\ UNCHANGED <<project, claimant, rebound>>
         /\ \A j \in Jobs \ {job[w]} : status'[j] = status[j]
<1>1. /\ job[w] \in Jobs /\ report[w] \in ApplyResult /\ status[job[w]] = "applying"
      /\ report[w].status \in {"applied", "failed"}
      /\ report[w].status = "applied" => written[job[w]] # None
      /\ report[w].status = "failed" /\ report[w].detail # "unsure" => written[job[w]] = None
  BY ReporterFacts
<1>2. /\ result' = [result EXCEPT ![job[w]] = report[w]]
      /\ status' = [status EXCEPT ![job[w]] = report[w].status]
      /\ UNCHANGED <<registered, binding, artifact, project, claimant, claims, rebound>>
  BY DEF RecordApplyResult, historyVars
<1>3. IInv'
  BY <1>1, StoreSteps DEF LoopInv, Next
<1>4. status \in [Jobs -> JobStatus \cup {"absent"}] /\ result \in [Jobs -> ApplyResult \cup {None}]
  BY DEF LoopInv, IInv, TypeOK
<1>5. /\ result'[job[w]] = report[w] /\ status'[job[w]] = report[w].status
      /\ \A j \in Jobs \ {job[w]} : status'[j] = status[j] /\ result'[j] = result[j]
  BY <1>1, <1>2, <1>4
<1>6. NotWrittenBefore'
  BY <1>1, <1>5 DEF LoopInv, NotWrittenBefore, HandedOut
<1>7. FilesOfWritten'
  BY DEF LoopInv, FilesOfWritten
<1>8. VerdictMatchesDirectory'
  BY <1>1, <1>5 DEF LoopInv, VerdictMatchesDirectory
<1>9. QED
  BY <1>1, <1>2, <1>3, <1>5, <1>6, <1>7, <1>8

\* A refusal means that the project was rebound: no other reason is left.
LEMMA ReportKeeps ==
  ASSUME LoopInv, NEW w \in Workers, Report(w)
  PROVE  LoopInv'
<1>1. /\ pc[w] = "report" /\ EndPoll(w)
      /\ UNCHANGED <<loaded, cliVars, dirVars, lost, faults>>
      /\ UNCHANGED <<content, touched, written, edits>>
  BY DEF Report, dirVars
<1>2. /\ job[w] \in Jobs /\ job[w] # None /\ report[w] \in ApplyResult
      /\ status[job[w]] = "applying" /\ claimant[job[w]] = AgentOf[w]
      /\ result[job[w]] = None
      /\ report[w].agent = AgentOf[w] /\ report[w].project = project[job[w]]
  BY <1>1, ReporterFacts
<1>3. CASE RecordApplyResult(job[w], report[w])
  <2>1. /\ IInv' /\ NotWrittenBefore' /\ FilesOfWritten' /\ VerdictMatchesDirectory'
        /\ status'[job[w]] # "applying" /\ UNCHANGED <<project, claimant, rebound>>
        /\ \A j \in Jobs \ {job[w]} : status'[j] = status[j]
    BY <1>1, <1>3, RecordFacts
  <2>2. WorkersAreRight' /\ HeldOnce' /\ NotDropped'
    BY <1>1, <1>2, <2>1, PollEndKeeps
  <2>3. LocalTypes'
    BY <1>1, <2>1, SameTypes, PollEndTypes
  <2>4. QED
    BY <2>1, <2>2, <2>3 DEF LoopInv
<1>4. CASE ~Recordable(job[w], report[w]) /\ UNCHANGED storeVars
  <2>1. job[w] \in rebound
    BY <1>2, <1>4 DEF Recordable, LoopInv, IInv, ClaimantStillBound
  <2>2. UNCHANGED <<project, status, claimant, rebound>>
    BY <1>4 DEF storeVars
  <2>3. IInv' /\ NotWrittenBefore' /\ FilesOfWritten' /\ VerdictMatchesDirectory'
    BY <1>1, <1>4, JobsKept
  <2>4. WorkersAreRight' /\ HeldOnce' /\ NotDropped'
    BY <1>1, <1>2, <2>1, <2>2, PollEndKeeps
  <2>5. LocalTypes'
    BY <1>1, <2>2, <2>3, SameTypes, PollEndTypes
  <2>6. QED
    BY <2>3, <2>4, <2>5 DEF LoopInv
<1>5. QED
  BY <1>3, <1>4 DEF Report

LEMMA ReportLostKeeps ==
  ASSUME LoopInv, NEW w \in Workers, ReportLost(w)
  PROVE  LoopInv'
<1>1. /\ pc[w] = "report" /\ EndPoll(w) /\ Fault(job[w])
      /\ UNCHANGED <<loaded, cliVars, dirVars>>
      /\ UNCHANGED <<content, touched, written, edits>>
  BY DEF ReportLost, dirVars
<1>2. job[w] \in Jobs /\ job[w] # None
  BY <1>1, ReporterFacts
<1>3. faults' \in 0..MaxFaults /\ lost' \subseteq Jobs /\ lost \subseteq lost' /\ job[w] \in lost'
  BY <1>1, <1>2, FaultFacts DEF LoopInv
<1>4. /\ IInv' /\ NotWrittenBefore' /\ FilesOfWritten' /\ VerdictMatchesDirectory'
      /\ UNCHANGED <<project, claimant, rebound>>
      /\ \A j \in Jobs \ {job[w]} : status'[j] = status[j]
  <2>1. CASE RecordApplyResult(job[w], report[w])
    BY <1>1, <2>1, RecordFacts
  <2>2. CASE UNCHANGED storeVars
    BY <1>1, <2>2, JobsKept DEF storeVars
  <2>3. QED
    BY <2>1, <2>2 DEF ReportLost
<1>5. WorkersAreRight' /\ HeldOnce' /\ NotDropped'
  BY <1>1, <1>2, <1>3, <1>4, PollEndKeeps
<1>6. LocalTypes'
  <2>1. /\ loaded' \in [Workers -> [Projects -> Dirs \cup {None}]]
        /\ content' \in [Dirs -> [{"main", "rest"} -> Contents]]
        /\ touched' \subseteq Workers /\ written' \in [Jobs -> Dirs \cup {None}]
    BY <1>1 DEF LoopInv, LocalTypes, TypeInv
  <2>2. QED
    BY <1>1, <1>3, <1>4, <2>1, PollEndTypes
<1>7. QED
  BY <1>4, <1>5, <1>6 DEF LoopInv

\* agent run starts with what agent.json holds.
LEMMA ReloadFacts ==
  ASSUME LoopInv, NEW w \in Workers, loaded' = [loaded EXCEPT ![w] = config[AgentOf[w]]]
  PROVE  loaded' \in [Workers -> [Projects -> Dirs \cup {None}]]
<1>1. AgentOf[w] \in Agents
  BY WorkersAssumption
<1>2. config[AgentOf[w]] \in [Projects -> Dirs \cup {None}]
  BY <1>1 DEF LoopInv, LocalTypes, TypeInv
<1>3. QED
  BY <1>2 DEF LoopInv, LocalTypes, TypeInv

\* A dead worker leaves a job in progress, and the directory as it was.
LEMMA CrashKeeps ==
  ASSUME LoopInv, NEW w \in Workers, Crash(w)
  PROVE  LoopInv'
<1>1. /\ pc[w] # "idle" /\ Fault(job[w]) /\ EndPoll(w)
      /\ loaded' = [loaded EXCEPT ![w] = config[AgentOf[w]]]
      /\ UNCHANGED <<storeVars, cliVars, edits>>
      /\ UNCHANGED <<project, status, claimant, rebound>>
  BY DEF Crash, storeVars
<1>2. job[w] \in Jobs /\ job[w] # None
  BY <1>1 DEF LoopInv, LocalTypes, TypeInv
<1>3. faults' \in 0..MaxFaults /\ lost' \subseteq Jobs /\ lost \subseteq lost' /\ job[w] \in lost'
  BY <1>1, <1>2, FaultFacts DEF LoopInv
<1>4. status[job[w]] = "applying"
  BY <1>2 DEF LoopInv, WorkersAreRight, WorkerIsRight, HoldsOwn
<1>5. /\ content' \in [Dirs -> [{"main", "rest"} -> Contents]]
      /\ written' \in [Jobs -> Dirs \cup {None}] /\ touched' \subseteq Workers
      /\ \A j \in Jobs \ {job[w]} : written'[j] = written[j]
      /\ \A v \in Workers \ {w} : v \notin touched' =>
           v \notin touched /\ (dir[v] \in Dirs => content'[dir[v]] = content[dir[v]])
      /\ FilesOfWritten'
  <2>1. CASE pc[w] = "write"
    <3>1. PICK new \in {content[dir[w]].main, Damaged, job[w]} : Leave(w, new)
      BY <2>1 DEF Crash
    <3>2. QED
      BY <2>1, <3>1, LeaveFacts
  <2>2. CASE pc[w] # "write"
    <3>1. UNCHANGED <<content, written, touched>>
      BY <2>2 DEF Crash
    <3>2. QED
      BY <3>1 DEF LoopInv, LocalTypes, TypeInv, FilesOfWritten
  <2>3. QED
    BY <2>1, <2>2
<1>6. IInv' /\ NotWrittenBefore' /\ VerdictMatchesDirectory'
  BY <1>1, <1>2, <1>4, <1>5, WritingKeepsJobs
<1>7. WorkersAreRight' /\ HeldOnce' /\ NotDropped'
  BY <1>1, <1>2, <1>3, <1>5, PollEndKeeps
<1>8. LocalTypes'
  BY <1>1, <1>3, <1>5, <1>6, ReloadFacts, PollEndTypes
<1>9. QED
  BY <1>5, <1>6, <1>7, <1>8 DEF LoopInv
-----------------------------------------------------------------------------
(* What goes on around the workers.                                        *)

\* A step of the server that concerns no job in progress or concluded.
LEMMA ServerStepKeeps ==
  ASSUME LoopInv, Next \/ UNCHANGED storeVars,
         UNCHANGED <<localVars, dirVars, project, claimant, result>>,
         rebound \subseteq rebound', lost \subseteq lost',
         \A j \in Jobs : \/ status'[j] = status[j]
                         \/ status[j] = "ready_for_review" /\ status'[j] = "approved"
  PROVE  /\ IInv' /\ WorkersAreRight' /\ HeldOnce' /\ NotDropped'
         /\ NotWrittenBefore' /\ FilesOfWritten' /\ VerdictMatchesDirectory'
<1>1. UNCHANGED <<pc, job, dir, report, content, touched, written, edits>>
  BY DEF localVars, dirVars
<1>2. IInv'
  BY StoreSteps DEF LoopInv
<1>3. ASSUME NEW v \in Workers PROVE WorkerIsRight(v)'
  <2>1. job[v] # None => job[v] \in Jobs /\ status[job[v]] = "applying"
    BY DEF LoopInv, LocalTypes, TypeInv, WorkersAreRight, WorkerIsRight, HoldsOwn
  <2>2. job[v] # None => status'[job[v]] = status[job[v]]
    BY <2>1
  <2>3. QED
    BY <1>1, <2>2, OthersStayRight DEF LoopInv, WorkersAreRight, LocalTypes, TypeInv
<1>4. HeldOnce' /\ NotDropped'
  BY <1>1 DEF LoopInv, HeldOnce, NotDropped
<1>5. NotWrittenBefore' /\ FilesOfWritten'
  BY <1>1 DEF LoopInv, NotWrittenBefore, FilesOfWritten, HandedOut
<1>6. VerdictMatchesDirectory'
  BY <1>1 DEF LoopInv, VerdictMatchesDirectory
<1>7. QED
  BY <1>2, <1>3, <1>4, <1>5, <1>6 DEF WorkersAreRight

LEMMA AroundTypes ==
  ASSUME LoopInv, IInv', UNCHANGED <<localVars, project>>,
         loaded' \in [Workers -> [Projects -> Dirs \cup {None}]],
         config' \in [Agents -> [Projects -> Dirs \cup {None}]],
         cli' \in Command \cup {None},
         content' \in [Dirs -> [{"main", "rest"} -> Contents]], touched' \subseteq Workers,
         UNCHANGED <<written, lost>>,
         faults' \in 0..MaxFaults, edits' \in 0..MaxEdits, binds' \in 0..MaxBinds
  PROVE  LocalTypes'
<1>1. UNCHANGED <<pc, job, dir, report>>
  BY DEF localVars
<1>2. \A d \in Dirs : DOMAIN content'[d] = {"main", "rest"}
  OBVIOUS
<1>3. TypeInv'
  BY <1>1, <1>2 DEF LoopInv, LocalTypes, TypeInv, IInv
<1>4. QED
  BY <1>3 DEF LoopInv, LocalTypes, Contents, Command

LEMMA RestartKeeps ==
  ASSUME LoopInv, NEW w \in Workers, Restart(w)
  PROVE  LoopInv'
<1>1. /\ loaded' = [loaded EXCEPT ![w] = config[AgentOf[w]]]
      /\ UNCHANGED <<storeVars, localVars, cliVars, dirVars, lost, faults>>
      /\ UNCHANGED <<status, project, claimant, result, rebound, config, cli, binds,
                     content, touched, written, edits>>
  BY DEF Restart, storeVars, cliVars, dirVars
<1>2. /\ IInv' /\ WorkersAreRight' /\ HeldOnce' /\ NotDropped'
      /\ NotWrittenBefore' /\ FilesOfWritten' /\ VerdictMatchesDirectory'
  BY <1>1, ServerStepKeeps
<1>3. loaded' \in [Workers -> [Projects -> Dirs \cup {None}]]
  BY <1>1, ReloadFacts
<1>4. LocalTypes'
  BY <1>1, <1>2, <1>3, AroundTypes DEF LoopInv, LocalTypes, TypeInv
<1>5. QED
  BY <1>2, <1>4 DEF LoopInv

LEMMA CliBindKeeps ==
  ASSUME LoopInv, NEW p \in Projects, NEW d \in Dirs, CliBind(p, d)
  PROVE  LoopInv'
<1>1. /\ binds < MaxBinds /\ binds' = binds + 1 /\ BindProject(p, Home[d])
      /\ cli' = [project |-> p, dir |-> d, seen |-> config[Home[d]]]
      /\ UNCHANGED <<localVars, loaded, config, dirVars, lost, faults>>
      /\ UNCHANGED <<content, touched, written, edits>>
  BY DEF CliBind, dirVars
<1>2. /\ UNCHANGED <<project, status, claimant, result>> /\ rebound \subseteq rebound'
  BY <1>1 DEF BindProject
<1>3. Home[d] \in Agents
  BY DirsAssumption
<1>4. Next
  BY <1>1, <1>3 DEF Next
<1>5. /\ IInv' /\ WorkersAreRight' /\ HeldOnce' /\ NotDropped'
      /\ NotWrittenBefore' /\ FilesOfWritten' /\ VerdictMatchesDirectory'
  BY <1>1, <1>2, <1>4, ServerStepKeeps
<1>6. config[Home[d]] \in [Projects -> Dirs \cup {None}]
  BY <1>3 DEF LoopInv, LocalTypes, TypeInv
<1>7. cli' \in Command
  BY <1>1, <1>6 DEF Command
<1>8. binds' \in 0..MaxBinds
  BY <1>1, BoundsAssumption DEF LoopInv, LocalTypes, TypeInv
<1>9. LocalTypes'
  BY <1>1, <1>2, <1>5, <1>7, <1>8, AroundTypes DEF LoopInv, LocalTypes, TypeInv
<1>10. QED
  BY <1>5, <1>9 DEF LoopInv

LEMMA CliSaveKeeps ==
  ASSUME LoopInv, CliSave
  PROVE  LoopInv'
<1>1. /\ cli # None /\ cli' = None
      /\ config' = [config EXCEPT ![Home[cli.dir]] = [cli.seen EXCEPT ![cli.project] = cli.dir]]
      /\ UNCHANGED <<storeVars, localVars, loaded, binds, dirVars, lost, faults>>
      /\ UNCHANGED <<status, project, claimant, result, rebound, content, touched, written, edits>>
  BY DEF CliSave, storeVars, dirVars
<1>2. /\ IInv' /\ WorkersAreRight' /\ HeldOnce' /\ NotDropped'
      /\ NotWrittenBefore' /\ FilesOfWritten' /\ VerdictMatchesDirectory'
  BY <1>1, ServerStepKeeps
<1>3. cli.dir \in Dirs /\ cli.project \in Projects /\ cli.seen \in [Projects -> Dirs \cup {None}]
  BY <1>1 DEF LoopInv, LocalTypes, Command
<1>4. PICK kept \in [Projects -> Dirs \cup {None}] : kept = [cli.seen EXCEPT ![cli.project] = cli.dir]
  BY <1>3
<1>5. config \in [Agents -> [Projects -> Dirs \cup {None}]]
  BY DEF LoopInv, LocalTypes, TypeInv
<1>6. config' \in [Agents -> [Projects -> Dirs \cup {None}]]
  BY <1>1, <1>4, <1>5
<1>7. LocalTypes'
  BY <1>1, <1>2, <1>6, AroundTypes DEF LoopInv, LocalTypes, TypeInv
<1>8. QED
  BY <1>2, <1>7 DEF LoopInv

LEMMA CliDiesKeeps ==
  ASSUME LoopInv, CliDies
  PROVE  LoopInv'
<1>1. /\ faults < MaxFaults /\ faults' = faults + 1 /\ cli' = None
      /\ UNCHANGED <<storeVars, localVars, loaded, config, binds, dirVars, lost>>
      /\ UNCHANGED <<status, project, claimant, result, rebound, content, touched, written, edits>>
  BY DEF CliDies, storeVars, dirVars
<1>2. /\ IInv' /\ WorkersAreRight' /\ HeldOnce' /\ NotDropped'
      /\ NotWrittenBefore' /\ FilesOfWritten' /\ VerdictMatchesDirectory'
  BY <1>1, ServerStepKeeps
<1>3. faults' \in 0..MaxFaults
  BY <1>1, BoundsAssumption DEF LoopInv, LocalTypes, TypeInv
<1>4. LocalTypes'
  BY <1>1, <1>2, <1>3, AroundTypes DEF LoopInv, LocalTypes, TypeInv
<1>5. QED
  BY <1>2, <1>4 DEF LoopInv

LEMMA CliRegisterKeeps ==
  ASSUME LoopInv, NEW a \in Agents, CliRegister(a)
  PROVE  LoopInv'
<1>1. /\ binds < MaxBinds /\ binds' = binds + 1 /\ RegisterAgent(a)
      /\ config' = [config EXCEPT ![a] = NoBindings]
      /\ UNCHANGED <<localVars, loaded, cli, dirVars, lost, faults>>
      /\ UNCHANGED <<content, touched, written, edits>>
  BY DEF CliRegister, dirVars
<1>2. UNCHANGED <<status, project, claimant, result, rebound>>
  BY <1>1 DEF RegisterAgent, historyVars
<1>3. Next
  BY <1>1 DEF Next
<1>4. /\ IInv' /\ WorkersAreRight' /\ HeldOnce' /\ NotDropped'
      /\ NotWrittenBefore' /\ FilesOfWritten' /\ VerdictMatchesDirectory'
  BY <1>1, <1>2, <1>3, ServerStepKeeps
<1>5. config' \in [Agents -> [Projects -> Dirs \cup {None}]]
  BY <1>1 DEF NoBindings, LoopInv, LocalTypes, TypeInv
<1>6. binds' \in 0..MaxBinds
  BY <1>1, BoundsAssumption DEF LoopInv, LocalTypes, TypeInv
<1>7. LocalTypes'
  BY <1>1, <1>2, <1>4, <1>5, <1>6, AroundTypes DEF LoopInv, LocalTypes, TypeInv
<1>8. QED
  BY <1>4, <1>7 DEF LoopInv

LEMMA ReviewKeeps ==
  ASSUME LoopInv, NEW j \in Jobs, Review(j)
  PROVE  LoopInv'
<1>1. /\ ApproveJob(j) /\ UNCHANGED <<localVars, loaded, cliVars, dirVars, lost, faults>>
      /\ UNCHANGED <<config, cli, binds, content, touched, written, edits>>
  BY DEF Review, cliVars, dirVars
<1>2. UNCHANGED <<project, claimant, result, rebound>>
  BY <1>1 DEF ApproveJob, historyVars
<1>3. \A k \in Jobs : \/ status'[k] = status[k]
                      \/ status[k] = "ready_for_review" /\ status'[k] = "approved"
  BY <1>1 DEF ApproveJob, AwaitsReview, LoopInv, IInv, TypeOK
<1>4. Next
  BY <1>1 DEF Next
<1>5. /\ IInv' /\ WorkersAreRight' /\ HeldOnce' /\ NotDropped'
      /\ NotWrittenBefore' /\ FilesOfWritten' /\ VerdictMatchesDirectory'
  BY <1>1, <1>2, <1>3, <1>4, ServerStepKeeps
<1>6. LocalTypes'
  BY <1>1, <1>2, <1>5, AroundTypes DEF LoopInv, LocalTypes, TypeInv
<1>7. QED
  BY <1>5, <1>6 DEF LoopInv

\* A designer tells nobody, but the history remembers who had looked.
LEMMA DesignerEditsKeeps ==
  ASSUME LoopInv, NEW d \in Dirs, NEW part \in {"main", "rest"}, DesignerEdits(d, part)
  PROVE  LoopInv'
<1>1. /\ edits < MaxEdits /\ edits' = edits + 1
      /\ content' = [content EXCEPT ![d][part] = Edited]
      /\ touched' = touched \cup {w \in Workers : dir[w] = d}
      /\ UNCHANGED <<storeVars, localVars, loaded, cliVars, written, lost, faults>>
      /\ UNCHANGED <<status, project, claimant, result, rebound, pc, job, dir, report,
                     config, cli, binds>>
  BY DEF DesignerEdits, storeVars, localVars, cliVars
<1>2. /\ content \in [Dirs -> [{"main", "rest"} -> Contents]] /\ touched \subseteq Workers
  BY DEF LoopInv, LocalTypes, TypeInv
<1>3. Edited \in Contents
  BY DEF Contents
<1>4. /\ content' \in [Dirs -> [{"main", "rest"} -> Contents]]
      /\ \A e \in Dirs \ {d} : content'[e] = content[e]
      /\ content'[d].main \in {content[d].main, Edited}
  BY <1>1, <1>2, <1>3
<1>5. \A j \in Jobs, e \in Dirs : content'[e].main = j => content[e].main = j
  BY <1>4, ContentsAssumption
<1>6. IInv' /\ NotWrittenBefore' /\ FilesOfWritten' /\ VerdictMatchesDirectory'
  BY <1>1, <1>5, JobsKept
<1>7. touched' \subseteq Workers
  BY <1>1, <1>2
<1>8. edits' \in 0..MaxEdits
  BY <1>1, BoundsAssumption DEF LoopInv, LocalTypes, TypeInv
<1>9. LocalTypes'
  BY <1>1, <1>4, <1>6, <1>7, <1>8, AroundTypes DEF LoopInv, LocalTypes, TypeInv
<1>10. WorkersAreRight'
  <2>1. ASSUME NEW v \in Workers PROVE WorkerIsRight(v)'
    <3>1. v \notin touched' => v \notin touched /\ (dir[v] \in Dirs => content'[dir[v]] = content[dir[v]])
      BY <1>1, <1>4
    <3>2. QED
      BY <1>1, <3>1, OthersStayRight DEF LoopInv, WorkersAreRight, LocalTypes, TypeInv
  <2>2. QED
    BY <2>1 DEF WorkersAreRight
<1>11. HeldOnce' /\ NotDropped'
  BY <1>1 DEF LoopInv, HeldOnce, NotDropped
<1>12. QED
  BY <1>6, <1>9, <1>10, <1>11 DEF LoopInv
-----------------------------------------------------------------------------
(* The invariant of the whole.                                             *)

LEMMA LoopInitInvariant == LoopInit => LoopInv
<1> SUFFICES ASSUME LoopInit PROVE LoopInv
  OBVIOUS
<1>1. PICK bound \in [Projects -> Dirs] :
        /\ binding = [p \in Projects |-> Home[bound[p]]]
        /\ config = [a \in Agents |-> [p \in Projects |-> IF Home[bound[p]] = a THEN bound[p] ELSE None]]
  BY DEF LoopInit
<1>2. /\ registered = Agents /\ artifact = [j \in Jobs |-> "clean"]
      /\ project \in [Jobs -> Projects] /\ status = [j \in Jobs |-> "ready_for_review"]
      /\ result = [j \in Jobs |-> None] /\ claimant = [j \in Jobs |-> None]
      /\ claims = [j \in Jobs |-> 0] /\ rebound = {}
  BY DEF LoopInit
<1>3. /\ pc = [w \in Workers |-> "idle"] /\ job = [w \in Workers |-> None]
      /\ dir = [w \in Workers |-> None] /\ report = [w \in Workers |-> None]
      /\ loaded = [w \in Workers |-> config[AgentOf[w]]] /\ cli = None
      /\ content \in [Dirs -> {Source[p] : p \in Projects}]
      /\ touched = {} /\ written = [j \in Jobs |-> None] /\ lost = {}
      /\ faults = 0 /\ edits = 0 /\ binds = 0
  BY DEF LoopInit
<1>4. TypeOK
  <2>1. binding \in [Projects -> Agents \cup {None}]
    BY <1>1, DirsAssumption
  <2>2. status \in [Jobs -> JobStatus \cup {"absent"}]
    BY <1>2 DEF JobStatus
  <2>3. QED
    BY <1>2, <2>1, <2>2 DEF TypeOK
<1>5. IInv
  BY <1>2, <1>4, NoneIsNoRow
     DEF IInv, OnlyCleanBundlesAreReviewed, ResultMatchesStatus, ClaimsMatchStatus, HandedOut,
         ClaimantStillBound, ReportedByClaimant
<1>6. content \in [Dirs -> [{"main", "rest"} -> Contents]]
  <2>1. ASSUME NEW p \in Projects PROVE Source[p] \in [{"main", "rest"} -> Contents]
    <3>1. Source[p] = [part \in {"main", "rest"} |-> Source[p][part]]
      BY SourceAssumption
    <3>2. Source[p]["main"] \in Contents /\ Source[p]["rest"] \in Contents
      BY DEF Contents
    <3>3. QED
      BY <3>1, <3>2
  <2>2. QED
    BY <1>3, <2>1
<1>7. config \in [Agents -> [Projects -> Dirs \cup {None}]]
  BY <1>1
<1>8. loaded \in [Workers -> [Projects -> Dirs \cup {None}]]
  BY <1>3, <1>7, WorkersAssumption
<1>9. LocalTypes
  <2>1. /\ pc \in [Workers -> Steps] /\ job \in [Workers -> Jobs \cup {None}]
        /\ dir \in [Workers -> Dirs \cup {None}] /\ report \in [Workers -> ApplyResult \cup {None}]
        /\ written \in [Jobs -> Dirs \cup {None}]
    BY <1>3 DEF Steps
  <2>2. /\ faults \in 0..MaxFaults /\ edits \in 0..MaxEdits /\ binds \in 0..MaxBinds
    BY <1>3, BoundsAssumption
  <2>3. \A d \in Dirs : DOMAIN content[d] = {"main", "rest"}
    BY <1>6
  <2>4. /\ \A w \in Workers : (pc[w] = "idle") <=> (job[w] = None)
        /\ \A w \in Workers : (pc[w] = "report") <=> (report[w] # None)
    BY <1>3
  <2>5. TypeInv
    BY <1>3, <1>4, <1>7, <1>8, <2>1, <2>2, <2>3, <2>4 DEF TypeInv
  <2>6. QED
    BY <1>2, <1>3, <1>6, <2>5 DEF LocalTypes
<1>10. WorkersAreRight
  BY <1>3 DEF WorkersAreRight, WorkerIsRight, HoldsOwn, NothingYet, ReportIsTrue, SelectionHolds
<1>11. HeldOnce /\ NotDropped
  BY <1>2, <1>3 DEF HeldOnce, NotDropped
<1>12. NotWrittenBefore /\ VerdictMatchesDirectory
  BY <1>2, <1>3 DEF NotWrittenBefore, VerdictMatchesDirectory
<1>13. FilesOfWritten
  <2>1. ASSUME NEW j \in Jobs, NEW d \in Dirs PROVE content[d].main # j
    BY <1>3, ContentsAssumption
  <2>2. QED
    BY <2>1 DEF FilesOfWritten
<1>14. QED
  BY <1>5, <1>9, <1>10, <1>11, <1>12, <1>13 DEF LoopInv

LEMMA StutterKeeps == LoopInv /\ UNCHANGED vars => LoopInv'
<1> SUFFICES ASSUME LoopInv, UNCHANGED vars PROVE LoopInv'
  OBVIOUS
<1>1. /\ UNCHANGED <<storeVars, localVars, loaded, cliVars, dirVars, lost, faults>>
      /\ UNCHANGED <<status, project, claimant, result, rebound, config, cli, binds,
                     content, touched, written, edits>>
  BY DEF vars, storeVars, cliVars, dirVars
<1>2. /\ IInv' /\ WorkersAreRight' /\ HeldOnce' /\ NotDropped'
      /\ NotWrittenBefore' /\ FilesOfWritten' /\ VerdictMatchesDirectory'
  BY <1>1, ServerStepKeeps
<1>3. LocalTypes'
  BY <1>1, <1>2, AroundTypes DEF LoopInv, LocalTypes, TypeInv
<1>4. QED
  BY <1>2, <1>3 DEF LoopInv

LEMMA LoopStepInvariant == LoopInv /\ [LoopNext]_vars => LoopInv'
<1> SUFFICES ASSUME LoopInv, [LoopNext]_vars PROVE LoopInv'
  OBVIOUS
<1>1. ASSUME NEW w \in Workers, PollStep(w) PROVE LoopInv'
  BY <1>1, ClaimKeeps, SelectKeeps, FetchKeeps, VerifyKeeps, WriteKeeps, ReportKeeps DEF PollStep
<1>2. ASSUME NEW w \in Workers, FaultStep(w) PROVE LoopInv'
  BY <1>2, ClaimReplyLostKeeps, FetchFailsKeeps, ReportLostKeeps, CrashKeeps DEF FaultStep
<1>3. ASSUME NEW w \in Workers, Restart(w) PROVE LoopInv'
  BY <1>3, RestartKeeps
<1>4. ASSUME NEW p \in Projects, NEW d \in Dirs, CliBind(p, d) PROVE LoopInv'
  BY <1>4, CliBindKeeps
<1>5. CASE CliSave
  BY <1>5, CliSaveKeeps
<1>6. CASE CliDies
  BY <1>6, CliDiesKeeps
<1>7. ASSUME NEW a \in Agents, CliRegister(a) PROVE LoopInv'
  BY <1>7, CliRegisterKeeps
<1>8. ASSUME NEW d \in Dirs, NEW part \in {"main", "rest"}, DesignerEdits(d, part) PROVE LoopInv'
  BY <1>8, DesignerEditsKeeps
<1>9. ASSUME NEW j \in Jobs, Review(j) PROVE LoopInv'
  BY <1>9, ReviewKeeps
<1>10. CASE UNCHANGED vars
  BY <1>10, StutterKeeps
<1>11. QED
  BY <1>1, <1>2, <1>3, <1>4, <1>5, <1>6, <1>7, <1>8, <1>9, <1>10 DEF LoopNext

\* The agents, the server, the command line and the designers together keep
\* the invariant (agent.py, cli.py and job_store.py, whatever is lost).
THEOREM LoopInvariance == LoopSpec => []LoopInv
BY LoopInitInvariant, LoopStepInvariant, PTL DEF LoopSpec

\* Every worker is where poll_once can be, with what it holds there.
THEOREM LoopTypeCorrectness == LoopSpec => []TypeInv
<1>1. LoopInv => TypeInv
  BY DEF LoopInv, LocalTypes
<1>2. QED
  BY <1>1, LoopInvariance, PTL

\* A job in progress is in the hands of exactly one worker, unless a call was
\* lost, a worker died or the project was bound to another agent.
THEOREM JobsInProgressAreHeld == LoopSpec => []InProgressIsHeld
<1>1. LoopInv => InProgressIsHeld
  <2>1. SUFFICES ASSUME LoopInv, NEW j \in Jobs, status[j] = "applying", j \notin lost \cup rebound
                 PROVE  \E w \in Workers : \A v \in Workers : (job[v] = j) <=> (v = w)
    BY DEF InProgressIsHeld
  <2>2. PICK w \in Workers : job[w] = j
    BY <2>1 DEF LoopInv, NotDropped
  <2>3. \A v \in Workers : job[v] = j => v = w
    BY <2>1, <2>2, JobsAreNotNone DEF LoopInv, HeldOnce
  <2>4. QED
    BY <2>2, <2>3
<1>2. QED
  BY <1>1, LoopInvariance, PTL

\* What the console shows of a job agrees with what its bundle did to the
\* directory, whatever was lost, edited or bound again in between.
THEOREM VerdictsAreTrue == LoopSpec => []VerdictMatchesDirectory
<1>1. LoopInv => VerdictMatchesDirectory
  BY DEF LoopInv
<1>2. QED
  BY <1>1, LoopInvariance, PTL

\* A bundle goes only into a directory that held the version it was generated
\* from when the worker selected it, and that nobody has changed since.
THEOREM BundlesGoWhereTheyBelong == LoopSpec => AppliedToItsVersion
<1>1. ASSUME LoopInv, NEW w \in Workers \ touched, pc[w] = "write"
      PROVE  \/ content[dir[w]] = Source[project[job[w]]]
             \/ Matches(w) /\ project[job[w]] \notin Uploaded
  BY <1>1 DEF LoopInv, WorkersAreRight, WorkerIsRight, SelectionHolds
<1>2. LoopInv =>
        \A w \in Workers \ touched :
          pc[w] = "write" /\ content'[dir[w]].main = job[w] =>
            \/ content[dir[w]] = Source[project[job[w]]]
            \/ Matches(w) /\ project[job[w]] \notin Uploaded
  BY <1>1
<1>3. QED
  BY <1>2, LoopInvariance, PTL DEF AppliedToItsVersion

\* The store's promises hold for the calls the agents really make: no job is
\* assigned twice, a verdict comes from the agent that was handed the job and
\* agrees with the status column.
THEOREM StoreKeepsItsPromises ==
  LoopSpec => [](AtMostOneAssignment /\ ReportedByClaimant /\ ResultMatchesStatus)
<1>1. LoopInv => AtMostOneAssignment /\ ReportedByClaimant /\ ResultMatchesStatus
  BY DEF LoopInv, IInv, ClaimsMatchStatus, AtMostOneAssignment
<1>2. QED
  BY <1>1, LoopInvariance, PTL
\* Whatever the agents do, the database takes only steps of JobStore: each
\* call is one of its transactions, or leaves it alone.
LEMMA StoreStep == LoopInv /\ [LoopNext]_vars => [Next]_storeVars
<1> SUFFICES ASSUME LoopInv, LoopNext PROVE Next \/ UNCHANGED storeVars
  BY DEF vars
<1>1. ASSUME NEW w \in Workers, Claim(w) \/ ClaimReplyLost(w) PROVE Next
  BY <1>1, WorkersAssumption DEF Claim, ClaimReplyLost, Next
<1>2. ASSUME NEW w \in Workers, Report(w) \/ ReportLost(w) PROVE Next \/ UNCHANGED storeVars
  <2>1. job[w] \in Jobs /\ report[w] \in ApplyResult
    BY <1>2, ReporterFacts DEF Report, ReportLost
  <2>2. QED
    BY <1>2, <2>1 DEF Report, ReportLost, Next
<1>3. ASSUME NEW w \in Workers,
             Select(w) \/ Fetch(w) \/ FetchFails(w) \/ Verify(w) \/ Write(w) \/ Crash(w) \/ Restart(w)
      PROVE  UNCHANGED storeVars
  BY <1>3 DEF Select, Fetch, FetchFails, Verify, Write, Crash, Restart
<1>4. ASSUME NEW p \in Projects, NEW d \in Dirs, CliBind(p, d) PROVE Next
  BY <1>4, DirsAssumption DEF CliBind, Next
<1>5. ASSUME NEW a \in Agents, CliRegister(a) PROVE Next
  BY <1>5 DEF CliRegister, Next
<1>6. ASSUME NEW j \in Jobs, Review(j) PROVE Next
  BY <1>6 DEF Review, Next
<1>7. ASSUME CliSave \/ CliDies \/ \E d \in Dirs, part \in {"main", "rest"} : DesignerEdits(d, part)
      PROVE  UNCHANGED storeVars
  BY <1>7 DEF CliSave, CliDies, DesignerEdits
<1>8. QED
  BY <1>1, <1>2, <1>3, <1>4, <1>5, <1>6, <1>7 DEF LoopNext, PollStep, FaultStep

\* Every step of the agents' loop is, for the database, a transaction of
\* job_store.py or nothing at all, so what holds of its steps holds here.
THEOREM LoopUsesTheStore == LoopSpec => [][Next]_storeVars
BY StoreStep, LoopInvariance, PTL DEF LoopSpec

\* A report taken from an agent is never replaced, not even when the reply to
\* it was lost and the job's other deliveries follow.
THEOREM ReportsStandInTheLoop == LoopSpec => ReportsAreFinal
<1>1. LoopInv /\ [Next]_storeVars => \A j \in Jobs : result[j] # None => result'[j] = result[j]
  BY RecordedStays DEF LoopInv
<1>2. QED
  BY <1>1, LoopInvariance, LoopUsesTheStore, PTL DEF ReportsAreFinal

\* In the loop, too, a job only moves along the lifecycle its clients rely on.
THEOREM JobsFollowTheLifecycle == LoopSpec => [][Lifecycle!Next]_<<status, claimant>>
<1>1. LoopInv /\ [Next]_storeVars => [Lifecycle!Next]_<<status, claimant>>
  BY StepImplementsLifecycle DEF LoopInv
<1>2. QED
  BY <1>1, LoopInvariance, LoopUsesTheStore, PTL
=============================================================================
