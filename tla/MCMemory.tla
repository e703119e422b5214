-------------------------------- MODULE MCMemory --------------------------------
(* Small instances of MemoryService. *)
EXTENDS MemoryService, TLC

CONSTANTS v1, v2

MCSlot == {"intent", "active_simulation_run"}

Correct(s, v) == [kind |-> "set", slot |-> s, value |-> v]
Freeze(s) == [kind |-> "freeze", slot |-> s, value |-> None]
Unfreeze(s) == [kind |-> "unfreeze", slot |-> s, value |-> None]

\* What the user approves of a gate proposal, a refused correction, a frozen
\* slot, a frozen slot corrected and released in one decision, nothing at all.
MCDecision ==
  {<<Correct("intent", v1), Correct(Params, v1)>>,
   <<Correct("active_simulation_run", None), Freeze("intent")>>,
   <<Correct("intent", v2), Unfreeze("intent")>>,
   <<Correct("intent", Junk)>>}

\* Two decisions are enough to make two commits collide.
MCShortDecision == {<<Correct("intent", v1)>>, <<Freeze("intent")>>}

MCIntentOnly == {"intent"}
MCOneDecision == {<<Correct("intent", v1)>>}

MCMetrics == {"intent", "metrics"}
\* Corrections of the wrong type, well-formed ones, and a list that poisons the
\* state.
MCMixedDecision ==
  {<<Correct("metrics", Malformed)>>, <<Correct("intent", Junk), Freeze("intent")>>}
MCBadDecision == {<<Correct("metrics", Malformed)>>, <<Correct("metrics", v1)>>}

MCValues == Permutations({v1, v2})
=============================================================================
