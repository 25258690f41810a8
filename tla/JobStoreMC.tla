----------------------------- MODULE JobStoreMC -----------------------------
(* A model of JobStore: two agents, two projects, two jobs.                *)
EXTENDS JobStore, TLC

CONSTANTS a1, a2, p1, p2

MCAgents == {a1, a2}
MCProjects == {p1, p2}
MCJobs == 1..2
MCDetails == {"first", "second"}

\* Agents, and projects, are interchangeable; job ids are ordered.
MCSymmetry == Permutations(MCAgents) \cup Permutations(MCProjects)
=============================================================================
