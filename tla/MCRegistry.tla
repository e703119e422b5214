-------------------------------- MODULE MCRegistry --------------------------------
(* Small instances of PromptRegistry: one stage, with its seed and up to two       *)
(* prompts more.                                                                  *)
EXTENDS PromptRegistry

CONSTANTS planner, p1, p2, p3

MCSeed == [s \in {planner} |-> p1]
=============================================================================
