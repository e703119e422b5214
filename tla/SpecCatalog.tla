------------------------------- MODULE SpecCatalog -------------------------------
(***************************************************************************)
(* What the spec repository promises its readers: versions are published     *)
(* once and stay, and of the published ones a single one is current, from    *)
(* the first activation on and for ever.                                     *)
(***************************************************************************)
CONSTANTS Version, NoVersion

VARIABLES
  published,  \* the versions stored
  current     \* the one get_active_spec returns, NoVersion before the first

Init == published = {} /\ current = NoVersion

Publish ==
  /\ published' \in SUBSET Version
  /\ published \subseteq published'
  /\ UNCHANGED current

Activate ==
  \E v \in published : current' = v /\ UNCHANGED published

Next == Publish \/ Activate

Spec == Init /\ [][Next]_<<published, current>>
=============================================================================
