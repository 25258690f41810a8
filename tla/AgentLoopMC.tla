---------------------------- MODULE AgentLoopMC ----------------------------
(* Models of AgentLoop.  Two: two agents, each with a worker and with      *)
(* directories of its own.  One: an agent with two workers at once.        *)
EXTENDS AgentLoop, TLC

CONSTANTS a1, a2, w1, w2, d1, d2, p1, p2, v1, v2

MCJobs == 1..2
MCProjects == {p1, p2}
MCUploaded == {p1}
MCDetails == {"ok", "selection_required", "local_project_changed",
              "rolled_back", "unsure"}
MCWorkers == {w1, w2}
MCDirs == {d1, d2}

\* p1 was uploaded; p2's jobs come from a fixture with other contents.
MCSource == p1 :> [main |-> v1, rest |-> v1] @@ p2 :> [main |-> v2, rest |-> v2]

TwoAgents == {a1, a2}
TwoAgentOf == w1 :> a1 @@ w2 :> a2
TwoHome == d1 :> a1 @@ d2 :> a2

OneAgents == {a1}
OneAgentOf == w1 :> a1 @@ w2 :> a1
OneHome == d1 :> a1 @@ d2 :> a1
=============================================================================
