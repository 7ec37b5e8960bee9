------------------------------ MODULE MCSubAgents ------------------------------
(* Constants of the small instance of SubAgents that TLC checks. *)
EXTENDS SubAgents

CONSTANTS explorer, worker        \* agents
CONSTANTS open, done              \* todo lists

ExplorerAndWorker ==
  [a \in {explorer, worker} |-> IF a = explorer THEN "Explore" ELSE "general-purpose"]
================================================================================
