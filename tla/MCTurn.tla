--------------------------------- MODULE MCTurn ---------------------------------
(* Small instances of AgentTurn. *)
EXTENDS AgentTurn

\* Everything is free; one costly tool waits for a human; all of them do.
Free == [tool \in Tool |-> "auto"]
Guarded == [Free EXCEPT !["optimization"] = "human_approves"]
Closed == [tool \in Tool |-> "human_confirms"]

MCPolicies == {Guarded, Closed}
MCFree == {Free}
MCClosed == {Closed}
=============================================================================
