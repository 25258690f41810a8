------------------------------ MODULE AgentLoop ------------------------------
(***************************************************************************)
(* The Windows agents around the job store: AgentClient.poll_once and      *)
(* _apply (agent.py), the agent run, bind and register commands (cli.py),  *)
(* the HTTP calls between them and the server, and the project directories *)
(* in which designers work at the same time.  The server's side of every   *)
(* call is an action of JobStore; a call whose request or reply is lost    *)
(* raises httpx.HTTPError, which agent run swallows before it polls again. *)
(*                                                                         *)
(* One apply transaction is two steps here, its first check and the rest;  *)
(* ApplyPromise says what the second may leave behind.                     *)
(***************************************************************************)
EXTENDS JobStore

CONSTANTS
  Workers,     \* agent processes: agent run, or agent poll --once
  AgentOf,     \* the identity in each worker's agent.json
  Dirs,        \* local project directories
  Home,        \* the agent on whose machine each directory lies
  Source,      \* the project content each project's jobs are generated from
  Uploaded,    \* projects uploaded as a ZIP: their jobs carry a fingerprint
  Edited,      \* the content of files a designer saved
  Damaged,     \* the content of a partly written project
  MaxFaults, MaxEdits, MaxBinds  \* bounds: lost calls and crashes, edits, CLI calls

ASSUME WorkersAssumption == AgentOf \in [Workers -> Agents]
ASSUME DirsAssumption == Home \in [Dirs -> Agents] /\ None \notin Dirs
ASSUME SourceAssumption ==
  /\ Uploaded \subseteq Projects
  /\ \A p \in Projects : Source[p] = [part \in {"main", "rest"} |-> Source[p][part]]
\* A file a bundle wrote holds the number of its job, and no other file does.
ASSUME ContentsAssumption ==
  \A j \in Jobs : /\ j \notin {Edited, Damaged, None}
                 /\ \A p \in Projects : Source[p].main # j /\ Source[p].rest # j
ASSUME BoundsAssumption ==
  MaxFaults \in Nat /\ MaxEdits \in Nat /\ MaxBinds \in Nat
\* Diagnostic codes of a report, and what it says of the rollback.
ASSUME DetailsAssumption ==
  Details = {"ok", "selection_required", "local_project_changed",
             "rolled_back", "unsure"}

VARIABLES
  pc,        \* where poll_once stands in each worker
  job,       \* the assignment it holds, or None
  dir,       \* the directory it selected, or None
  report,    \* the result it is about to post, or None
  loaded,    \* the project bindings it read when it started
  config,    \* the bindings in each agent's agent.json
  cli,       \* the agent bind command in progress, or None
  content,   \* each directory: the files bundles touch, and all the others
  touched,   \* history: workers whose directory others changed since select
  written,   \* history: the directory each job's bundle went into, or None
  lost,      \* history: jobs with a lost call, or whose worker died
  faults, edits, binds  \* how much of each bound is used

localVars == <<pc, job, dir, report>>
cliVars == <<config, cli, binds>>
dirVars == <<content, touched, written, edits>>
vars == <<storeVars, localVars, loaded, cliVars, dirVars, lost, faults>>

Steps == {"idle", "select", "fetch", "apply", "write", "report"}
NoBindings == [p \in Projects |-> None]

TypeInv ==
  /\ TypeOK
  /\ pc \in [Workers -> Steps] /\ job \in [Workers -> Jobs \cup {None}]
  /\ dir \in [Workers -> Dirs \cup {None}]
  /\ report \in [Workers -> ApplyResult \cup {None}]
  /\ loaded \in [Workers -> [Projects -> Dirs \cup {None}]]
  /\ config \in [Agents -> [Projects -> Dirs \cup {None}]]
  /\ \A d \in Dirs : DOMAIN content[d] = {"main", "rest"}
  /\ touched \subseteq Workers /\ lost \subseteq Jobs
  /\ written \in [Jobs -> Dirs \cup {None}]
  /\ faults \in 0..MaxFaults /\ edits \in 0..MaxEdits /\ binds \in 0..MaxBinds
  /\ \A w \in Workers : (pc[w] = "idle") <=> (job[w] = None)
  /\ \A w \in Workers : (pc[w] = "report") <=> (report[w] # None)

\* Every project is bound and waits for review with one or more jobs; the
\* directories hold what was uploaded, or copies of one another.
LoopInit ==
  /\ registered = Agents
  /\ \E bound \in [Projects -> Dirs] :
       /\ binding = [p \in Projects |-> Home[bound[p]]]
       /\ config = [a \in Agents |-> [p \in Projects |->
                      IF Home[bound[p]] = a THEN bound[p] ELSE None]]
  /\ artifact = [j \in Jobs |-> "clean"]
  /\ project \in [Jobs -> Projects]
  /\ status = [j \in Jobs |-> "ready_for_review"]
  /\ result = [j \in Jobs |-> None] /\ claimant = [j \in Jobs |-> None]
  /\ claims = [j \in Jobs |-> 0] /\ rebound = {}
  /\ pc = [w \in Workers |-> "idle"] /\ job = [w \in Workers |-> None]
  /\ dir = [w \in Workers |-> None] /\ report = [w \in Workers |-> None]
  /\ loaded = [w \in Workers |-> config[AgentOf[w]]]
  /\ cli = None
  /\ content \in [Dirs -> {Source[p] : p \in Projects}]
  /\ touched = {} /\ written = [j \in Jobs |-> None] /\ lost = {}
  /\ faults = 0 /\ edits = 0 /\ binds = 0

Goto(w, step) == pc' = [pc EXCEPT ![w] = step]

\* Mutant: the result outlives the poll.
EndPollKeepsReport(w) ==
  /\ Goto(w, "idle")
  /\ job' = [job EXCEPT ![w] = None]
  /\ dir' = [dir EXCEPT ![w] = None]
  /\ UNCHANGED report

\* poll_once is over, by return or by an exception.
EndPoll(w) ==
  /\ Goto(w, "idle")
  /\ job' = [job EXCEPT ![w] = None]
  /\ dir' = [dir EXCEPT ![w] = None]
  /\ report' = [report EXCEPT ![w] = None]

Answer(w, verdict, detail) ==
  /\ Goto(w, "report")
  /\ report' = [report EXCEPT ![w] =
       [agent |-> AgentOf[w], project |-> project[job[w]],
        status |-> verdict, detail |-> detail]]

Fault(j) == /\ faults < MaxFaults
            /\ faults' = faults + 1
            /\ lost' = lost \cup {j}
-----------------------------------------------------------------------------
(* poll_once, one action per call it makes.                                *)

Claim(w) ==
  /\ pc[w] = "idle"
  /\ \E j \in Jobs : ClaimNext(AgentOf[w], j) /\ job' = [job EXCEPT ![w] = j]
  /\ Goto(w, "select")
  /\ UNCHANGED <<dir, report, loaded, cliVars, dirVars, lost, faults>>

\* The claim is committed but its reply does not arrive.
ClaimReplyLost(w) ==
  /\ pc[w] = "idle"
  /\ \E j \in Jobs : ClaimNext(AgentOf[w], j) /\ Fault(j)
  /\ UNCHANGED <<localVars, loaded, cliVars, dirVars>>

\* Mutant: the fingerprint is not consulted.
BoundDirectory(w, j) == {loaded[w][project[j]]} \ {None}

\* select_project: the job's own binding, or with a fingerprint every bound
\* directory that is now, file by file, what was uploaded.
Candidates(w, j) ==
  IF project[j] \notin Uploaded
  THEN {loaded[w][project[j]]} \ {None}
  ELSE {d \in {loaded[w][p] : p \in Projects} \ {None} :
          content[d] = Source[project[j]]}

\* Mutant: poll_once gives up on a job it has no directory for.
SelectSilently(w) ==
  /\ pc[w] = "select"
  /\ \/ /\ \E d \in Dirs : /\ Candidates(w, job[w]) = {d}
                           /\ dir' = [dir EXCEPT ![w] = d]
        /\ Goto(w, "fetch") /\ touched' = touched \ {w}
        /\ UNCHANGED <<job, report>>
     \/ /\ \A d \in Dirs : Candidates(w, job[w]) # {d}
        /\ EndPoll(w) /\ UNCHANGED touched
  /\ UNCHANGED <<storeVars, loaded, cliVars, content, written, edits, lost, faults>>

Select(w) ==
  /\ pc[w] = "select"
  /\ \/ /\ \E d \in Dirs : /\ Candidates(w, job[w]) = {d}
                           /\ dir' = [dir EXCEPT ![w] = d]
        /\ Goto(w, "fetch") /\ touched' = touched \ {w}
        /\ UNCHANGED report
     \/ /\ \A d \in Dirs : Candidates(w, job[w]) # {d}
        /\ Answer(w, "failed", "selection_required")
        /\ UNCHANGED <<dir, touched>>
  /\ UNCHANGED <<storeVars, job, loaded, cliVars, content, written, edits, lost, faults>>

\* The server refuses the bundle of a job whose project was bound elsewhere:
\* raise_for_status ends the poll.
Fetch(w) ==
  /\ pc[w] = "fetch"
  /\ IF ArtifactServed(AgentOf[w], job[w])
     THEN Goto(w, "apply") /\ UNCHANGED <<job, dir, report>>
     ELSE EndPoll(w)
  /\ UNCHANGED <<storeVars, loaded, cliVars, dirVars, lost, faults>>

\* A lost call, or a stored bundle that can no longer be read.
FetchFails(w) ==
  /\ pc[w] = "fetch"
  /\ Fault(job[w])
  /\ EndPoll(w)
  /\ UNCHANGED <<storeVars, loaded, cliVars, dirVars>>
-----------------------------------------------------------------------------
(* _apply.  The bundle's before_sha256 cover the files it touches.         *)

Matches(w) == content[dir[w]].main = Source[project[job[w]]].main

Verify(w) ==
  /\ pc[w] = "apply"
  /\ IF Matches(w) THEN Goto(w, "write") /\ UNCHANGED report
                   ELSE Answer(w, "failed", "local_project_changed")
  /\ UNCHANGED <<storeVars, job, dir, loaded, cliVars, dirVars, lost, faults>>

\* What the transaction leaves in the files it touches.
Leave(w, new) ==
  /\ content' = [content EXCEPT ![dir[w]].main = new]
  /\ written' = IF new = job[w] THEN [written EXCEPT ![job[w]] = dir[w]] ELSE written
  /\ touched' = IF new = content[dir[w]].main THEN touched
                ELSE touched \cup {v \in Workers \ {w} : dir[v] = dir[w]}

\* Mutant: a failure that does not know what it left claims a rollback.
WriteClaimsRollback(w) ==
  /\ pc[w] = "write"
  /\ \/ Leave(w, job[w]) /\ Answer(w, "applied", "ok")
     \/ \E new \in {content[dir[w]].main, Damaged, job[w]} :
          Leave(w, new) /\ Answer(w, "failed", "rolled_back")
  /\ UNCHANGED <<storeVars, job, dir, loaded, cliVars, edits, lost, faults>>

Write(w) ==
  /\ pc[w] = "write"
  /\ \/ Leave(w, job[w]) /\ Answer(w, "applied", "ok")
     \/ /\ ~Matches(w) /\ Leave(w, content[dir[w]].main)
        /\ Answer(w, "failed", "local_project_changed")
     \/ Leave(w, content[dir[w]].main) /\ Answer(w, "failed", "rolled_back")
     \/ \E new \in {content[dir[w]].main, Damaged, job[w]} :
          Leave(w, new) /\ Answer(w, "failed", "unsure")
  /\ UNCHANGED <<storeVars, job, dir, loaded, cliVars, edits, lost, faults>>

\* Recorded, or refused with 409: either way the poll is over and the
\* report is gone.
Report(w) ==
  /\ pc[w] = "report"
  /\ \/ RecordApplyResult(job[w], report[w])
     \/ ~Recordable(job[w], report[w]) /\ UNCHANGED storeVars
  /\ EndPoll(w)
  /\ UNCHANGED <<loaded, cliVars, dirVars, lost, faults>>

\* The request, or only the reply, is lost.
ReportLost(w) ==
  /\ pc[w] = "report"
  /\ RecordApplyResult(job[w], report[w]) \/ UNCHANGED storeVars
  /\ Fault(job[w])
  /\ EndPoll(w)
  /\ UNCHANGED <<loaded, cliVars, dirVars>>
-----------------------------------------------------------------------------
(* Worker processes, the command line, and the designers.                  *)

\* agent run reads agent.json when it starts and never again.
Restart(w) ==
  /\ pc[w] = "idle"
  /\ loaded' = [loaded EXCEPT ![w] = config[AgentOf[w]]]
  /\ UNCHANGED <<storeVars, localVars, cliVars, dirVars, lost, faults>>

Crash(w) ==
  /\ pc[w] # "idle"
  /\ Fault(job[w])
  /\ EndPoll(w)
  /\ loaded' = [loaded EXCEPT ![w] = config[AgentOf[w]]]
  /\ IF pc[w] = "write"
     THEN \E new \in {content[dir[w]].main, Damaged, job[w]} : Leave(w, new)
     ELSE UNCHANGED <<content, written, touched>>
  /\ UNCHANGED <<storeVars, cliVars, edits>>

\* agent bind: the server first, the local file second.
CliBind(p, d) ==
  /\ cli = None /\ binds < MaxBinds
  /\ BindProject(p, Home[d])
  /\ cli' = [project |-> p, dir |-> d, seen |-> config[Home[d]]]
  /\ binds' = binds + 1
  /\ UNCHANGED <<localVars, loaded, config, dirVars, lost, faults>>

CliSave ==
  /\ cli # None
  /\ config' = [config EXCEPT ![Home[cli.dir]] = [cli.seen EXCEPT ![cli.project] = cli.dir]]
  /\ cli' = None
  /\ UNCHANGED <<storeVars, localVars, loaded, binds, dirVars, lost, faults>>

\* The reply to the binding is lost, or the command dies, before the save.
CliDies ==
  /\ cli # None
  /\ faults < MaxFaults /\ faults' = faults + 1
  /\ cli' = None
  /\ UNCHANGED <<storeVars, localVars, loaded, config, binds, dirVars, lost>>

\* agent register writes a fresh agent.json, without any project.
CliRegister(a) ==
  /\ cli = None /\ binds < MaxBinds
  /\ RegisterAgent(a)
  /\ config' = [config EXCEPT ![a] = NoBindings]
  /\ binds' = binds + 1
  /\ UNCHANGED <<localVars, loaded, cli, dirVars, lost, faults>>

DesignerEdits(d, part) ==
  /\ edits < MaxEdits /\ content[d][part] # Edited
  /\ content' = [content EXCEPT ![d][part] = Edited]
  /\ touched' = touched \cup {w \in Workers : dir[w] = d}
  /\ edits' = edits + 1
  /\ UNCHANGED <<storeVars, localVars, loaded, cliVars, written, lost, faults>>

Review(j) ==
  /\ ApproveJob(j)
  /\ UNCHANGED <<localVars, loaded, cliVars, dirVars, lost, faults>>
-----------------------------------------------------------------------------
PollStep(w) ==
  \/ Claim(w) \/ Select(w) \/ Fetch(w)
  \/ Verify(w) \/ Write(w) \/ Report(w)

FaultStep(w) == ClaimReplyLost(w) \/ FetchFails(w) \/ ReportLost(w) \/ Crash(w)

LoopNext ==
  \/ \E w \in Workers : PollStep(w) \/ FaultStep(w) \/ Restart(w)
  \/ \E p \in Projects, d \in Dirs : CliBind(p, d)
  \/ CliSave \/ CliDies
  \/ \E a \in Agents : CliRegister(a)
  \/ \E d \in Dirs, part \in {"main", "rest"} : DesignerEdits(d, part)
  \/ \E j \in Jobs : Review(j)

LoopSpec == LoopInit /\ [][LoopNext]_vars

\* agent run polls for ever and every call it makes returns or times out.
FairSpec == LoopSpec /\ \A w \in Workers : WF_vars(PollStep(w))
-----------------------------------------------------------------------------
(* Properties.                                                             *)

\* A job in progress is in the hands of exactly one worker.  Short of a
\* lost call, a dead worker or a rebinding nothing strands it in applying.
InProgressIsHeld ==
  \A j \in Jobs :
    status[j] = "applying" /\ j \notin lost \cup rebound =>
      \E w \in Workers : \A v \in Workers : (job[v] = j) <=> (v = w)

\* The verdict the server holds tells the truth about the directory: an
\* applied job's bundle is what was written, and after a conflict, a missing
\* directory or a completed rollback its bundle was never left behind.
VerdictMatchesDirectory ==
  \A j \in Jobs :
    /\ status[j] = "applied" => written[j] # None
    /\ status[j] = "failed" /\ result[j].detail # "unsure" => written[j] = None

\* Each bundle goes only into a directory that then held the version it was
\* generated from - the whole project, if it was uploaded - unless a designer
\* or another worker wrote there after this one had selected it.
AppliedToItsVersion ==
  [][\A w \in Workers \ touched :
       pc[w] = "write" /\ content'[dir[w]].main = job[w] =>
         \/ content[dir[w]] = Source[project[job[w]]]
         \/ Matches(w) /\ project[job[w]] \notin Uploaded]_vars

\* An approved job of a bound project is applied or failed in the end.
ApprovedJobsConclude ==
  \A j \in Jobs : status[j] = "approved" ~> status[j] \in {"applied", "failed"}
=============================================================================
