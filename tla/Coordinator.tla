------------------------------ MODULE Coordinator ------------------------------
(***************************************************************************)
(* The state one MemoryCoordinator owns (memory/coordinator/coordinator.py) *)
(* and what each of its mutators computes.  A coordinator is the record     *)
(*                                                                         *)
(*   state      the ActiveAnalyticalState (memory/state/active.py)          *)
(*   audit      _audit_log, the StateTransitions in the order of appending  *)
(*   persisted  _persisted_count, how many of them are believed to be in    *)
(*              the database                                               *)
(*                                                                         *)
(* Slot values are opaque.  What matters about one is whether it is set at  *)
(* all (None stands for None and for the empty list) and whether the        *)
(* pydantic model accepts it (Malformed stands for a list whose elements    *)
(* it rejects, which only a user correction can store).                     *)
(***************************************************************************)
EXTENDS Integers, Sequences

CONSTANTS
  Slot,       \* the editable slots under study
  Value,      \* well-formed slot values
  None,       \* an unset slot
  Malformed   \* a list value that pydantic refuses to validate

\* memory/service.py, _REACTIVE_EDITABLE_SLOTS
EditableSlots ==
  {"intent", "metrics", "active_simulation_run", "active_optimization_run",
   "active_scenarios"}
ListSlots == {"metrics", "active_scenarios"}
RunSlots == {"active_simulation_run", "active_optimization_run"}

\* The slot name a gate proposal carries for display; no slot has it.
Params == "params"
SlotName == Slot \cup {Params}

\* A proposed value of the wrong type: an unknown intent, a run id that is
\* not a string, metrics that are not a list.
Junk == "junk"

\* What a transition records as `after' for freeze_slot and unfreeze_slot.
Pinned == "pinned"
Unpinned == "unpinned"
Pins == {Pinned, Unpinned}

ASSUME SlotAssumption == Slot \subseteq EditableSlots /\ "intent" \in Slot
ASSUME ValueAssumption ==
  /\ None # Malformed
  /\ Value \cap {None, Malformed, Junk, Pinned, Unpinned} = {}
  /\ {None, Malformed} \cap {Junk, Pinned, Unpinned} = {}

Val == Value \cup {None, Malformed}
NoTurn == -1
Op == {"set", "overwrite", "clear"}

State == [val : [Slot -> Val], frozen : SUBSET SlotName, version : Nat,
          lastTurn : Nat, prov : [Slot -> Nat \cup {NoTurn}]]
Transition == [slot : SlotName, op : Op, after : Val \cup Pins,
               turn : Nat, va : Nat]
CoordinatorType == [state : State, audit : Seq(Transition), persisted : Nat]

Blank == [val |-> [s \in Slot |-> None], frozen |-> {}, version |-> 0,
          lastTurn |-> 0, prov |-> [s \in Slot |-> NoTurn]]
Fresh == [state |-> Blank, audit |-> <<>>, persisted |-> 0]

\* frozen() re-validates a dump of the state: one malformed list and no
\* reader gets a snapshot any more.
Readable(st) == \A s \in Slot : st.val[s] # Malformed

-----------------------------------------------------------------------------
(* The mutators. *)

\* _mutate: a frozen slot is left alone without a word; otherwise value,
\* version, last turn, provenance and audit entry change together.
Mutate(c, s, v, turn, op) ==
  IF s \in c.state.frozen THEN c
  ELSE [c EXCEPT
          !.state = [val      |-> [c.state.val EXCEPT ![s] = v],
                     frozen   |-> c.state.frozen,
                     version  |-> c.state.version + 1,
                     lastTurn |-> turn,
                     prov     |-> [c.state.prov EXCEPT ![s] = turn]],
          !.audit = Append(c.audit, [slot |-> s, op |-> op, after |-> v,
                                     turn |-> turn,
                                     va |-> c.state.version + 1])]

\* freeze_slot and unfreeze_slot: a new version and an audit entry under the
\* slot's own name, whether or not the pin changes; last_turn_id stays.
Pin(c, s, turn, pin) ==
  [c EXCEPT
     !.state = [val      |-> c.state.val,
                frozen   |-> IF pin = Pinned THEN c.state.frozen \cup {s}
                             ELSE c.state.frozen \ {s},
                version  |-> c.state.version + 1,
                lastTurn |-> c.state.lastTurn,
                prov     |-> c.state.prov],
     !.audit = Append(c.audit, [slot |-> s,
                                op |-> IF pin = Pinned THEN "set" ELSE "clear",
                                after |-> pin, turn |-> turn,
                                va |-> c.state.version + 1])]

\* set_intent and set_active_*_run, called by the workflow nodes.
SetIntent(c, v, turn) == Mutate(c, "intent", v, turn, "set")
SetActiveRun(c, s, v, turn) ==
  Mutate(c, s, v, turn, IF c.state.val[s] = None THEN "set" ELSE "overwrite")

\* Mutant: the type checks of _apply_mutation are gone.
AcceptsAny(s, v) == s \in Slot

\* _apply_mutation: which corrections reach _mutate, and as what value.
Accepts(s, v) ==
  \/ s = "intent" /\ v \in Value
  \/ s \in RunSlots /\ v \in Value \cup {None}
  \/ s \in ListSlots

Stored(s, v) == IF s \in ListSlots /\ v = Junk THEN None ELSE v

\* Mutant: a correction is stamped with the running turn, not the proposal's.
ApplyMutationNow(c, s, v, turn) ==
  IF ~Accepts(s, v) THEN c
  ELSE Mutate(c, s, Stored(s, v), c.state.lastTurn + 1,
              IF s = "intent" THEN "set" ELSE "overwrite")

ApplyMutation(c, s, v, turn) ==
  IF ~Accepts(s, v) THEN c
  ELSE Mutate(c, s, Stored(s, v), turn,
              IF s = "intent" THEN "set" ELSE "overwrite")

-----------------------------------------------------------------------------
(* Reading a log of transitions. *)

\* The positions in log that write the value of slot s, those that pin or
\* unpin the name s, and those that write any value.
Writes(log, s) == {i \in 1..Len(log) : log[i].slot = s /\ log[i].after \notin Pins}
PinMoves(log, s) == {i \in 1..Len(log) : log[i].slot = s /\ log[i].after \in Pins}
AnyWrite(log) == {i \in 1..Len(log) : log[i].after \notin Pins}

\* i is the last of the positions I.
IsLast(i, I) == i \in I /\ \A j \in I : j =< i

\* State st is what replaying log on the blank state gives.
Explains(log, st) ==
  /\ st.version = Len(log)
  /\ \A s \in Slot :
       \/ Writes(log, s) = {} /\ st.val[s] = None /\ st.prov[s] = NoTurn
       \/ \E i \in Writes(log, s) :
            /\ IsLast(i, Writes(log, s))
            /\ st.val[s] = log[i].after
            /\ st.prov[s] = log[i].turn
  /\ \A s \in SlotName :
       s \in st.frozen <=> \E i \in PinMoves(log, s) :
                             /\ IsLast(i, PinMoves(log, s))
                             /\ log[i].after = Pinned
  /\ \/ AnyWrite(log) = {} /\ st.lastTurn = 0
     \/ \E i \in AnyWrite(log) :
          IsLast(i, AnyWrite(log)) /\ st.lastTurn = log[i].turn

\* Versions number the transitions 1, 2, 3, ... with no gap and no repeat.
GapFree(log) == \A i \in 1..Len(log) : log[i].va = i
=============================================================================
