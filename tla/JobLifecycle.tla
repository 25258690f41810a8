---------------------------- MODULE JobLifecycle ----------------------------
(***************************************************************************)
(* What the job table promises its clients, whatever happens underneath:   *)
(* a job carries one JobStatus (service_contracts.py), a reviewer decides  *)
(* it at most once, an agent is handed it at most once, and the verdict an *)
(* agent reports is final and is only ever reported for a job that was     *)
(* handed out.  "absent" stands for a job id that has no row yet.          *)
(***************************************************************************)
CONSTANTS
  Jobs,     \* job identifiers
  Agents,   \* local agents that may be handed a job
  None      \* not an agent

VARIABLES
  phase,    \* the status of each job
  holder    \* the agent each job was handed to, or None

lifecycleVars == <<phase, holder>>

JobStatus == {"ready_for_review", "conversion_failed", "approved",
              "applying", "applied", "failed", "rejected"}

Init ==
  /\ phase = [j \in Jobs |-> "absent"]
  /\ holder = [j \in Jobs |-> None]

Move(j, from, to) ==
  /\ phase[j] = from
  /\ phase' = [phase EXCEPT ![j] = to]

Create(j) ==
  /\ \/ Move(j, "absent", "ready_for_review")
     \/ Move(j, "absent", "conversion_failed")
  /\ UNCHANGED holder

Decide(j) ==
  /\ \/ Move(j, "ready_for_review", "approved")
     \/ Move(j, "ready_for_review", "rejected")
  /\ UNCHANGED holder

HandOut(j, a) ==
  /\ holder[j] = None
  /\ Move(j, "approved", "applying")
  /\ holder' = [holder EXCEPT ![j] = a]

Conclude(j) ==
  /\ holder[j] # None
  /\ \/ Move(j, "applying", "applied")
     \/ Move(j, "applying", "failed")
  /\ UNCHANGED holder

Next == \E j \in Jobs :
  \/ Create(j)
  \/ Decide(j)
  \/ \E a \in Agents : HandOut(j, a)
  \/ Conclude(j)

Spec == Init /\ [][Next]_lifecycleVars
=============================================================================
