------------------------------- MODULE AuditTrail -------------------------------
(***************************************************************************)
(* What the durable side of analytical memory promises (the docstrings of   *)
(* memory/state/audit.py and memory/coordinator/coordinator.py): there is   *)
(* one trail of transitions, it is only ever extended, and whenever the     *)
(* stored image changes, the trail published with it explains that image.   *)
(***************************************************************************)
EXTENDS Coordinator

VARIABLES
  trail,   \* the transitions a reader of the database can see
  image    \* the analytical state stored next to them

Init == trail = <<>> /\ image = Blank

Extends(new, old) == Len(old) =< Len(new) /\ SubSeq(new, 1, Len(old)) = old

\* Any number of transitions become visible together with the state they
\* lead to.
Publish ==
  /\ Extends(trail', trail)
  /\ GapFree(trail')
  /\ Explains(trail', image')

Spec == Init /\ [][Publish]_<<trail, image>>
=============================================================================
