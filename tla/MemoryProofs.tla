------------------------------ MODULE MemoryProofs ------------------------------
(***************************************************************************)
(* Proofs about MemoryService, for any threads, slots, values, decisions    *)
(* and faults.                                                              *)
(***************************************************************************)
EXTENDS MemoryService, SequenceTheorems, TLAPS

(* Facts about the operators of Coordinator. *)

\* A fresh coordinator is a coordinator.
LEMMA FreshType == Blank \in State /\ Fresh \in CoordinatorType
BY DEF Blank, Fresh, State, CoordinatorType, Val, NoTurn

\* _mutate keeps the types, on a slot of the state and a value it can hold.
LEMMA MutateType ==
  ASSUME NEW c \in CoordinatorType, NEW s \in Slot, NEW v \in Val,
         NEW turn \in Nat, NEW op \in Op
  PROVE  Mutate(c, s, v, turn, op) \in CoordinatorType
<1> DEFINE st == [val |-> [c.state.val EXCEPT ![s] = v],
                  frozen |-> c.state.frozen,
                  version |-> c.state.version + 1,
                  lastTurn |-> turn,
                  prov |-> [c.state.prov EXCEPT ![s] = turn]]
           tr == [slot |-> s, op |-> op, after |-> v, turn |-> turn,
                  va |-> c.state.version + 1]
<1>1. st \in State
  BY DEF CoordinatorType, State
<1>2. tr \in Transition
  BY DEF CoordinatorType, State, Transition, SlotName
<1>3. Append(c.audit, tr) \in Seq(Transition)
  BY <1>2 DEF CoordinatorType
<1>4. [c EXCEPT !.state = st, !.audit = Append(c.audit, tr)] \in CoordinatorType
  BY <1>1, <1>3 DEF CoordinatorType
<1> QED
  BY <1>4 DEF Mutate

\* freeze_slot and unfreeze_slot keep the types.
LEMMA PinType ==
  ASSUME NEW c \in CoordinatorType, NEW s \in SlotName, NEW turn \in Nat,
         NEW pin \in Pins
  PROVE  Pin(c, s, turn, pin) \in CoordinatorType
<1> DEFINE st == [val |-> c.state.val,
                  frozen |-> IF pin = Pinned THEN c.state.frozen \cup {s}
                             ELSE c.state.frozen \ {s},
                  version |-> c.state.version + 1,
                  lastTurn |-> c.state.lastTurn,
                  prov |-> c.state.prov]
           tr == [slot |-> s, op |-> IF pin = Pinned THEN "set" ELSE "clear",
                  after |-> pin, turn |-> turn, va |-> c.state.version + 1]
<1>1. st \in State
  BY DEF CoordinatorType, State
<1>2. tr \in Transition
  BY DEF CoordinatorType, State, Transition, Op, Pins
<1>3. Append(c.audit, tr) \in Seq(Transition)
  BY <1>2 DEF CoordinatorType
<1>4. [c EXCEPT !.state = st, !.audit = Append(c.audit, tr)] \in CoordinatorType
  BY <1>1, <1>3 DEF CoordinatorType
<1> QED
  BY <1>4 DEF Pin

\* What a correction stores is always a value a slot can hold.
LEMMA StoredType ==
  ASSUME NEW s \in SlotName, NEW v \in Val \cup {Junk}, Accepts(s, v)
  PROVE  Stored(s, v) \in Val
BY ValueAssumption DEF Accepts, Stored, Val, RunSlots, ListSlots

\* The mutators built on _mutate keep the types.
LEMMA SetterTypes ==
  ASSUME NEW c \in CoordinatorType, NEW turn \in Nat
  PROVE  /\ \A v \in Value : SetIntent(c, v, turn) \in CoordinatorType
         /\ \A s \in Slot, v \in Value : SetActiveRun(c, s, v, turn) \in CoordinatorType
         /\ \A s \in SlotName, v \in Val \cup {Junk} :
              ApplyMutation(c, s, v, turn) \in CoordinatorType
<1>0. {"set", "overwrite"} \subseteq Op
  BY DEF Op
<1>1. ASSUME NEW v \in Value
      PROVE  SetIntent(c, v, turn) \in CoordinatorType
  BY <1>0, MutateType, SlotAssumption DEF SetIntent, Val
<1>2. ASSUME NEW s \in Slot, NEW v \in Value
      PROVE  SetActiveRun(c, s, v, turn) \in CoordinatorType
  BY <1>0, MutateType DEF SetActiveRun, Val
<1>3. ASSUME NEW s \in SlotName, NEW v \in Val \cup {Junk}
      PROVE  ApplyMutation(c, s, v, turn) \in CoordinatorType
  <2>1. CASE ~Accepts(s, v)
    BY <2>1 DEF ApplyMutation
  <2>2. CASE Accepts(s, v)
    <3>1. s \in Slot
      BY <2>2, SlotAssumption DEF Accepts, SlotName, RunSlots, ListSlots, Params
    <3>2. Stored(s, v) \in Val
      BY <2>2, StoredType
    <3> QED
      BY <2>2, <3>1, <3>2, <1>0, MutateType DEF ApplyMutation
  <2> QED
    BY <2>1, <2>2
<1> QED
  BY <1>1, <1>2, <1>3

-----------------------------------------------------------------------------
(* The audit log explains the state, and every mutator keeps it so. *)

\* What a pin stands for: after a transition that froze a slot, the slot is
\* still frozen in st or a later transition released it, and none wrote it in
\* between.
Heeds(entries, st) ==
  /\ \A i \in 1..Len(entries) :
       entries[i].after = Pinned =>
         \/ entries[i].slot \in st.frozen
         \/ \E k \in i..Len(entries) : entries[k].slot = entries[i].slot /\ entries[k].after = Unpinned
  /\ \A i, j \in 1..Len(entries) :
       /\ i < j /\ entries[i].slot = entries[j].slot
       /\ entries[i].after = Pinned /\ entries[j].after \notin Pins
       => \E k \in i..j : entries[k].slot = entries[i].slot /\ entries[k].after = Unpinned

Sound(c) ==
  /\ Heeds(c.audit, c.state)
  /\ GapFree(c.audit)
  /\ Explains(c.audit, c.state)
  /\ Readable(c.state)

\* A fresh coordinator has nothing to explain.
LEMMA FreshSound == Sound(Fresh)
BY ValueAssumption
   DEF Sound, Heeds, Fresh, Blank, GapFree, Explains, Readable, Writes, PinMoves, AnyWrite

\* Reading a log with one more transition.
LEMMA AppendReads ==
  ASSUME NEW entries \in Seq(Transition), NEW tr \in Transition
  PROVE  LET L == Append(entries, tr)
             n == Len(entries) + 1
         IN /\ Len(L) = n /\ L[n] = tr /\ \A i \in 1..Len(entries) : L[i] = entries[i]
            /\ \A s : Writes(L, s) = IF tr.slot = s /\ tr.after \notin Pins
                                     THEN Writes(entries, s) \cup {n} ELSE Writes(entries, s)
            /\ \A s : PinMoves(L, s) = IF tr.slot = s /\ tr.after \in Pins
                                       THEN PinMoves(entries, s) \cup {n}
                                       ELSE PinMoves(entries, s)
            /\ AnyWrite(L) = IF tr.after \notin Pins
                             THEN AnyWrite(entries) \cup {n} ELSE AnyWrite(entries)
<1> DEFINE L == Append(entries, tr)
           n == Len(entries) + 1
<1>1. /\ Len(L) = n /\ L[n] = tr /\ \A i \in 1..Len(entries) : L[i] = entries[i]
      /\ Len(entries) \in Nat
  OBVIOUS
<1>2. 1..n = (1..Len(entries)) \cup {n} /\ n \notin 1..Len(entries)
  BY <1>1
<1> HIDE DEF L, n
<1>3. ASSUME NEW s
      PROVE  Writes(L, s) = IF tr.slot = s /\ tr.after \notin Pins
                            THEN Writes(entries, s) \cup {n} ELSE Writes(entries, s)
  BY <1>1, <1>2 DEF Writes
<1>4. ASSUME NEW s
      PROVE  PinMoves(L, s) = IF tr.slot = s /\ tr.after \in Pins
                              THEN PinMoves(entries, s) \cup {n} ELSE PinMoves(entries, s)
  BY <1>1, <1>2 DEF PinMoves
<1>5. AnyWrite(L) = IF tr.after \notin Pins
                    THEN AnyWrite(entries) \cup {n} ELSE AnyWrite(entries)
  BY <1>1, <1>2 DEF AnyWrite
<1> QED
  BY <1>1, <1>3, <1>4, <1>5 DEF L, n

\* A new position at the end is the last one.
LEMMA NewestIsLast ==
  ASSUME NEW n \in Nat, NEW I \in SUBSET (1..n)
  PROVE  IsLast(n + 1, I \cup {n + 1})
BY DEF IsLast

\* Pins are heeded by one more transition: by a write of a slot that is not
\* frozen, and by a pin that moves as the state's frozen slots do.
LEMMA HeedsOneMore ==
  ASSUME NEW entries \in Seq(Transition), NEW st, Heeds(entries, st),
         NEW tr \in Transition, NEW st1,
         \/ /\ tr.after \notin Pins /\ tr.slot \notin st.frozen
            /\ st1.frozen = st.frozen
         \/ /\ tr.after \in Pins
            /\ st1.frozen = IF tr.after = Pinned THEN st.frozen \cup {tr.slot}
                            ELSE st.frozen \ {tr.slot}
  PROVE  Heeds(Append(entries, tr), st1)
<1> DEFINE L == Append(entries, tr)
           n == Len(entries)
<1>1. /\ n \in Nat /\ Len(L) = n + 1 /\ L[n + 1] = tr
      /\ \A i \in 1..n : L[i] = entries[i]
  OBVIOUS
<1>2. Pinned # Unpinned /\ Pins = {Pinned, Unpinned}
  BY DEF Pins, Pinned, Unpinned
<1>3. /\ \A i \in 1..n : entries[i].after = Pinned =>
           \/ entries[i].slot \in st.frozen
           \/ \E k \in i..n : entries[k].slot = entries[i].slot /\ entries[k].after = Unpinned
      /\ \A i, j \in 1..n :
           /\ i < j /\ entries[i].slot = entries[j].slot
           /\ entries[i].after = Pinned /\ entries[j].after \notin Pins
           => \E k \in i..j : entries[k].slot = entries[i].slot /\ entries[k].after = Unpinned
  BY DEF Heeds
<1> HIDE DEF L, n
<1>4. ASSUME NEW i \in 1..(n + 1), L[i].after = Pinned, L[i].slot \notin st1.frozen
      PROVE  \E k \in i..(n + 1) : L[k].slot = L[i].slot /\ L[k].after = Unpinned
  <2>1. i \in 1..n
    BY <1>1, <1>2, <1>4
  <2>2. CASE L[i].slot \in st.frozen
    BY <1>1, <1>2, <1>4, <2>1, <2>2
  <2>3. CASE L[i].slot \notin st.frozen
    <3>1. PICK k \in i..n : entries[k].slot = entries[i].slot /\ entries[k].after = Unpinned
      BY <1>1, <1>3, <1>4, <2>1, <2>3
    <3>2. k \in 1..n /\ k \in i..(n + 1)
      BY <1>1, <2>1
    <3> QED
      BY <1>1, <2>1, <3>1, <3>2
  <2> QED
    BY <2>2, <2>3
<1>5. ASSUME NEW i \in 1..(n + 1), NEW j \in 1..(n + 1),
             i < j, L[i].slot = L[j].slot, L[i].after = Pinned, L[j].after \notin Pins
      PROVE  \E k \in i..j : L[k].slot = L[i].slot /\ L[k].after = Unpinned
  <2>1. i \in 1..n /\ L[i] = entries[i]
    BY <1>1, <1>5
  <2>2. CASE j = n + 1
    <3>1. L[i].slot \notin st.frozen
      BY <1>1, <1>5, <2>2
    <3>2. PICK k \in i..n : entries[k].slot = entries[i].slot /\ entries[k].after = Unpinned
      BY <1>3, <1>5, <2>1, <3>1
    <3>3. k \in 1..n /\ k \in i..j
      BY <1>1, <2>1, <2>2
    <3> QED
      BY <1>1, <2>1, <3>2, <3>3
  <2>3. CASE j \in 1..n
    <3>1. PICK k \in i..j : entries[k].slot = entries[i].slot /\ entries[k].after = Unpinned
      BY <1>1, <1>3, <1>5, <2>1, <2>3
    <3>2. k \in 1..n
      BY <1>1, <2>1, <2>3
    <3> QED
      BY <1>1, <2>1, <3>1, <3>2
  <2> QED
    BY <1>1, <2>2, <2>3
<1> QED
  BY <1>1, <1>4, <1>5 DEF Heeds, L

\* _mutate keeps a sound coordinator sound.
LEMMA MutateSound ==
  ASSUME NEW c \in CoordinatorType, Sound(c), NEW s \in Slot,
         NEW v \in Val \ {Malformed}, NEW turn \in Nat, NEW op \in Op
  PROVE  Sound(Mutate(c, s, v, turn, op))
<1>1. CASE s \in c.state.frozen
  BY <1>1 DEF Mutate
<1>2. CASE s \notin c.state.frozen
  <2> DEFINE tr == [slot |-> s, op |-> op, after |-> v, turn |-> turn,
                    va |-> c.state.version + 1]
             st == [val |-> [c.state.val EXCEPT ![s] = v],
                    frozen |-> c.state.frozen,
                    version |-> c.state.version + 1,
                    lastTurn |-> turn,
                    prov |-> [c.state.prov EXCEPT ![s] = turn]]
             L == Append(c.audit, tr)
             n == Len(c.audit)
  <2>1. /\ c.audit \in Seq(Transition) /\ n \in Nat /\ c.state.version = n
        /\ tr \in Transition /\ v \notin Pins
        /\ c.state.val \in [Slot -> Val] /\ DOMAIN c.state.prov = Slot
    <3>1. c.state \in State /\ c.audit \in Seq(Transition) /\ n \in Nat
      BY DEF CoordinatorType
    <3>2. c.state.version = n
      BY DEF Sound, Explains
    <3>3. v \notin Pins
      BY ValueAssumption DEF Val, Pins
    <3>4. tr \in Transition
      BY <3>1 DEF State, Transition, SlotName
    <3> QED
      BY <3>1, <3>2, <3>3, <3>4 DEF State
  <2>2. Mutate(c, s, v, turn, op).audit = L /\ Mutate(c, s, v, turn, op).state = st
    BY <1>2 DEF Mutate, CoordinatorType
  <2>14. Heeds(L, st)
    <3>1. /\ tr.after \notin Pins /\ tr.slot \notin c.state.frozen
          /\ st.frozen = c.state.frozen /\ tr \in Transition
          /\ Heeds(c.audit, c.state) /\ c.audit \in Seq(Transition)
      BY <1>2, <2>1 DEF Sound
    <3> HIDE DEF tr, st
    <3> QED
      BY <3>1, HeedsOneMore
  <2>3. /\ Len(L) = n + 1 /\ L[n + 1] = tr /\ \A i \in 1..n : L[i] = c.audit[i]
        /\ \A x : Writes(L, x) = IF x = s THEN Writes(c.audit, x) \cup {n + 1}
                                 ELSE Writes(c.audit, x)
        /\ \A x : PinMoves(L, x) = PinMoves(c.audit, x)
        /\ AnyWrite(L) = AnyWrite(c.audit) \cup {n + 1}
    <3>1. tr.slot = s /\ tr.after \notin Pins
      BY <2>1
    <3>2. c.audit \in Seq(Transition) /\ tr \in Transition
      BY <2>1
    <3> HIDE DEF tr
    <3>3. /\ Len(L) = n + 1 /\ L[n + 1] = tr
          /\ \A i \in 1..n : L[i] = c.audit[i]
          /\ AnyWrite(L) = AnyWrite(c.audit) \cup {n + 1}
      BY <3>1, <3>2, AppendReads
    <3>4. \A x : PinMoves(L, x) = PinMoves(c.audit, x)
      BY <3>1, <3>2, AppendReads
    <3>5. ASSUME NEW x
          PROVE  Writes(L, x) = IF x = s THEN Writes(c.audit, x) \cup {n + 1}
                                ELSE Writes(c.audit, x)
      <4>1. Writes(L, x) = IF tr.slot = x /\ tr.after \notin Pins
                           THEN Writes(c.audit, x) \cup {n + 1}
                           ELSE Writes(c.audit, x)
        BY <3>2, AppendReads
      <4>2. CASE x = s
        BY <4>1, <4>2, <3>1
      <4>3. CASE x # s
        BY <4>1, <4>3, <3>1
      <4> QED
        BY <4>2, <4>3
    <3> QED
      BY <3>3, <3>4, <3>5
  <2>4. /\ \A x : Writes(c.audit, x) \in SUBSET (1..n)
        /\ \A x : PinMoves(c.audit, x) \in SUBSET (1..n)
        /\ AnyWrite(c.audit) \in SUBSET (1..n)
    BY DEF Writes, PinMoves, AnyWrite
  <2>5. IsLast(n + 1, Writes(L, s)) /\ IsLast(n + 1, AnyWrite(L))
    <3>1. /\ IsLast(n + 1, Writes(c.audit, s) \cup {n + 1})
          /\ IsLast(n + 1, AnyWrite(c.audit) \cup {n + 1})
      <4> HIDE DEF n
      <4> QED
        BY <2>1, <2>4, NewestIsLast
    <3> QED
      BY <2>3, <3>1
  <2>6. tr.slot = s /\ tr.after = v /\ tr.turn = turn /\ tr.va = n + 1
    BY <2>1
  <2>7. /\ st.version = n + 1 /\ st.lastTurn = turn /\ st.frozen = c.state.frozen
        /\ st.val[s] = v /\ st.prov[s] = turn
        /\ \A x \in Slot \ {s} : st.val[x] = c.state.val[x]
                              /\ st.prov[x] = c.state.prov[x]
    BY <2>1
  <2> HIDE DEF tr, st, L, n
  <2>8. GapFree(L)
    <3>1. \A i \in 1..(n + 1) : i \in 1..n \/ i = n + 1
      BY <2>1
    <3>2. \A i \in 1..n : c.audit[i].va = i
      BY DEF Sound, GapFree, n
    <3> QED
      BY <2>3, <2>6, <3>1, <3>2 DEF GapFree
  <2>9. \A x \in Slot :
          \/ Writes(L, x) = {} /\ st.val[x] = None /\ st.prov[x] = NoTurn
          \/ \E i \in Writes(L, x) : /\ IsLast(i, Writes(L, x))
                                     /\ st.val[x] = L[i].after
                                     /\ st.prov[x] = L[i].turn
    <3> SUFFICES ASSUME NEW x \in Slot
                 PROVE  \/ Writes(L, x) = {} /\ st.val[x] = None /\ st.prov[x] = NoTurn
                        \/ \E i \in Writes(L, x) : /\ IsLast(i, Writes(L, x))
                                                   /\ st.val[x] = L[i].after
                                                   /\ st.prov[x] = L[i].turn
      OBVIOUS
    <3>1. CASE x = s
      BY <3>1, <2>3, <2>5, <2>6, <2>7
    <3>2. CASE x # s
      <4>1. \/ /\ Writes(c.audit, x) = {} /\ c.state.val[x] = None
               /\ c.state.prov[x] = NoTurn
            \/ \E i \in Writes(c.audit, x) : /\ IsLast(i, Writes(c.audit, x))
                                             /\ c.state.val[x] = c.audit[i].after
                                             /\ c.state.prov[x] = c.audit[i].turn
        BY DEF Sound, Explains
      <4> QED
        BY <3>2, <4>1, <2>3, <2>4, <2>7
    <3> QED
      BY <3>1, <3>2
  <2>10. \A x \in SlotName :
           x \in st.frozen <=> \E i \in PinMoves(L, x) :
                                 /\ IsLast(i, PinMoves(L, x)) /\ L[i].after = Pinned
    <3>1. \A x \in SlotName :
            x \in c.state.frozen <=> \E i \in PinMoves(c.audit, x) :
                                       /\ IsLast(i, PinMoves(c.audit, x))
                                       /\ c.audit[i].after = Pinned
      BY DEF Sound, Explains
    <3> QED
      BY <3>1, <2>3, <2>4, <2>7
  <2>11. \E i \in AnyWrite(L) : IsLast(i, AnyWrite(L)) /\ st.lastTurn = L[i].turn
    BY <2>3, <2>5, <2>6, <2>7
  <2>12. Explains(L, st)
    BY <2>3, <2>7, <2>9, <2>10, <2>11 DEF Explains
  <2>13. Readable(st)
    BY <2>7 DEF Sound, Readable
  <2> QED
    BY <2>2, <2>8, <2>12, <2>13, <2>14 DEF Sound
<1> QED
  BY <1>1, <1>2

\* freeze_slot and unfreeze_slot keep a sound coordinator sound.
LEMMA PinSound ==
  ASSUME NEW c \in CoordinatorType, Sound(c), NEW s \in SlotName,
         NEW turn \in Nat, NEW pin \in Pins
  PROVE  Sound(Pin(c, s, turn, pin))
<1> DEFINE tr == [slot |-> s, op |-> IF pin = Pinned THEN "set" ELSE "clear",
                  after |-> pin, turn |-> turn, va |-> c.state.version + 1]
           st == [val |-> c.state.val,
                  frozen |-> IF pin = Pinned THEN c.state.frozen \cup {s}
                             ELSE c.state.frozen \ {s},
                  version |-> c.state.version + 1,
                  lastTurn |-> c.state.lastTurn,
                  prov |-> c.state.prov]
           L == Append(c.audit, tr)
           n == Len(c.audit)
<1>1. /\ c.audit \in Seq(Transition) /\ n \in Nat /\ c.state.version = n
      /\ tr \in Transition
  BY DEF CoordinatorType, State, Transition, Op, Pins, Sound, Explains
<1>2. Pin(c, s, turn, pin).audit = L /\ Pin(c, s, turn, pin).state = st
  BY DEF Pin, CoordinatorType
<1>14. Heeds(L, st)
  <2>1. /\ tr.after = pin /\ tr.slot = s /\ tr \in Transition
        /\ st.frozen = IF pin = Pinned THEN c.state.frozen \cup {s}
                       ELSE c.state.frozen \ {s}
        /\ Heeds(c.audit, c.state) /\ c.audit \in Seq(Transition)
    BY <1>1 DEF Sound
  <2> HIDE DEF tr, st
  <2> QED
    BY <2>1, HeedsOneMore
<1>3. /\ Len(L) = n + 1 /\ L[n + 1] = tr /\ \A i \in 1..n : L[i] = c.audit[i]
      /\ \A x : Writes(L, x) = Writes(c.audit, x)
      /\ \A x : PinMoves(L, x) = IF x = s THEN PinMoves(c.audit, x) \cup {n + 1}
                                 ELSE PinMoves(c.audit, x)
      /\ AnyWrite(L) = AnyWrite(c.audit)
  <2>1. tr.slot = s /\ tr.after \in Pins
    BY <1>1
  <2> HIDE DEF tr
  <2> QED
    BY <1>1, <2>1, AppendReads
<1>4. /\ \A x : Writes(c.audit, x) \in SUBSET (1..n)
      /\ \A x : PinMoves(c.audit, x) \in SUBSET (1..n)
      /\ AnyWrite(c.audit) \in SUBSET (1..n)
  BY DEF Writes, PinMoves, AnyWrite
<1>5. IsLast(n + 1, PinMoves(L, s))
  <2>1. IsLast(n + 1, PinMoves(c.audit, s) \cup {n + 1})
    <3> HIDE DEF n
    <3> QED
      BY <1>1, <1>4, NewestIsLast
  <2> QED
    BY <1>3, <2>1
<1>6. tr.after = pin /\ tr.va = n + 1
  BY <1>1
<1>7. /\ st.version = n + 1 /\ st.lastTurn = c.state.lastTurn
      /\ st.val = c.state.val /\ st.prov = c.state.prov
      /\ st.frozen = IF pin = Pinned THEN c.state.frozen \cup {s}
                     ELSE c.state.frozen \ {s}
  BY <1>1
<1> HIDE DEF tr, st, L, n
<1>8. GapFree(L)
  <2>1. \A i \in 1..(n + 1) : i \in 1..n \/ i = n + 1
    BY <1>1
  <2>2. \A i \in 1..n : c.audit[i].va = i
    BY DEF Sound, GapFree, n
  <2> QED
    BY <1>3, <1>6, <2>1, <2>2 DEF GapFree
<1>9. \A x \in Slot :
        \/ Writes(L, x) = {} /\ st.val[x] = None /\ st.prov[x] = NoTurn
        \/ \E i \in Writes(L, x) : /\ IsLast(i, Writes(L, x))
                                   /\ st.val[x] = L[i].after
                                   /\ st.prov[x] = L[i].turn
  <2>1. \A x \in Slot :
          \/ /\ Writes(c.audit, x) = {} /\ c.state.val[x] = None
             /\ c.state.prov[x] = NoTurn
          \/ \E i \in Writes(c.audit, x) : /\ IsLast(i, Writes(c.audit, x))
                                           /\ c.state.val[x] = c.audit[i].after
                                           /\ c.state.prov[x] = c.audit[i].turn
    BY DEF Sound, Explains
  <2> QED
    BY <2>1, <1>3, <1>4, <1>7
<1>10. \A x \in SlotName :
         x \in st.frozen <=> \E i \in PinMoves(L, x) :
                               /\ IsLast(i, PinMoves(L, x)) /\ L[i].after = Pinned
  <2>1. \A x \in SlotName :
          x \in c.state.frozen <=> \E i \in PinMoves(c.audit, x) :
                                     /\ IsLast(i, PinMoves(c.audit, x))
                                     /\ c.audit[i].after = Pinned
    BY DEF Sound, Explains
  <2> SUFFICES ASSUME NEW x \in SlotName
               PROVE  x \in st.frozen <=> \E i \in PinMoves(L, x) :
                                            /\ IsLast(i, PinMoves(L, x))
                                            /\ L[i].after = Pinned
    OBVIOUS
  <2>2. CASE x # s
    BY <2>1, <2>2, <1>3, <1>4, <1>7
  <2>3. CASE x = s
    <3>1. \A i : IsLast(i, PinMoves(L, s)) => i = n + 1
      <4>1. PinMoves(L, s) \subseteq 1..(n + 1)
        BY <1>1, <1>3, <1>4
      <4> QED
        BY <1>1, <1>5, <4>1 DEF IsLast
    <3>2. L[n + 1].after = pin
      BY <1>3, <1>6
    <3>3. Pinned # Unpinned /\ pin \in {Pinned, Unpinned}
      BY DEF Pins, Pinned, Unpinned
    <3> QED
      BY <2>3, <3>1, <3>2, <3>3, <1>5, <1>7 DEF IsLast
  <2> QED
    BY <2>2, <2>3
<1>11. \/ AnyWrite(L) = {} /\ st.lastTurn = 0
       \/ \E i \in AnyWrite(L) : IsLast(i, AnyWrite(L)) /\ st.lastTurn = L[i].turn
  <2>1. \/ AnyWrite(c.audit) = {} /\ c.state.lastTurn = 0
        \/ \E i \in AnyWrite(c.audit) : /\ IsLast(i, AnyWrite(c.audit))
                                        /\ c.state.lastTurn = c.audit[i].turn
    BY DEF Sound, Explains
  <2> QED
    BY <2>1, <1>3, <1>4, <1>7
<1>12. Explains(L, st)
  BY <1>3, <1>7, <1>9, <1>10, <1>11 DEF Explains
<1>13. Readable(st)
  BY <1>7 DEF Sound, Readable
<1> QED
  BY <1>2, <1>8, <1>12, <1>13, <1>14 DEF Sound

\* So do the mutators built on _mutate, unless a malformed list is stored.
LEMMA SetterSound ==
  ASSUME NEW c \in CoordinatorType, Sound(c), NEW turn \in Nat
  PROVE  /\ \A v \in Value : Sound(SetIntent(c, v, turn))
         /\ \A s \in Slot, v \in Value : Sound(SetActiveRun(c, s, v, turn))
         /\ \A s \in SlotName, v \in (Val \cup {Junk}) \ {Malformed} :
              Sound(ApplyMutation(c, s, v, turn))
<1>0. /\ {"set", "overwrite"} \subseteq Op
      /\ Value \subseteq Val \ {Malformed} /\ None \in Val \ {Malformed}
  BY ValueAssumption DEF Op, Val
<1>1. ASSUME NEW v \in Value PROVE Sound(SetIntent(c, v, turn))
  BY <1>0, MutateSound, SlotAssumption DEF SetIntent
<1>2. ASSUME NEW s \in Slot, NEW v \in Value
      PROVE  Sound(SetActiveRun(c, s, v, turn))
  BY <1>0, MutateSound DEF SetActiveRun
<1>3. ASSUME NEW s \in SlotName, NEW v \in (Val \cup {Junk}) \ {Malformed}
      PROVE  Sound(ApplyMutation(c, s, v, turn))
  <2>1. CASE ~Accepts(s, v)
    BY <2>1 DEF ApplyMutation
  <2>2. CASE Accepts(s, v)
    <3>1. s \in Slot
      BY <2>2, SlotAssumption DEF Accepts, SlotName, RunSlots, ListSlots, Params
    <3>2. Stored(s, v) \in Val \ {Malformed}
      BY <2>2, <1>0, StoredType DEF Stored
    <3> QED
      BY <2>2, <3>1, <3>2, <1>0, MutateSound DEF ApplyMutation
  <2> QED
    BY <2>1, <2>2
<1> QED
  BY <1>1, <1>2, <1>3

----------------------------------------------------------------------------

(* Type correctness needs to know that a call which works on a coordinator *)
(* has one.                                                                *)
WorkLabel == {"apply", "resolve", "result"} \cup PersistLabel
CoordKnown == \A t \in Thread : pc[t] \in WorkLabel => loc[t].coord \in Thread
TypeInv == TypeOK /\ CoordKnown

\* The local variables of an idle thread.
LEMMA Start0Type == Start0 \in Locals
BY FreshType DEF Start0, Locals, Label, PersistLabel

\* Answering a request.
LEMMA FinishType ==
  ASSUME TypeInv, NEW t \in Thread,
         NEW r \in {"none", "ok", "badRequest", "error"}, Finish(t, r)
  PROVE  /\ pc' \in [Thread -> Label] /\ loc' \in [Thread -> Locals]
         /\ CoordKnown'
<1>1. [Start0 EXCEPT !.resp = r, !.applied = loc[t].applied] \in Locals
  BY Start0Type DEF TypeInv, TypeOK, Locals
<1>2. loc' \in [Thread -> Locals]
  BY <1>1 DEF Finish, TypeInv, TypeOK
<1>3. pc' \in [Thread -> Label]
  BY DEF Finish, Go, TypeInv, TypeOK, Label
<1>4. CoordKnown'
  BY DEF Finish, Go, TypeInv, TypeOK, CoordKnown, WorkLabel, PersistLabel
<1> QED
  BY <1>2, <1>3, <1>4

\* Moving on with new local variables.
LEMMA MoveType ==
  ASSUME TypeInv, NEW t \in Thread, NEW l \in Label, NEW x \in Locals,
         pc' = [pc EXCEPT ![t] = l], loc' = [loc EXCEPT ![t] = x],
         l \in WorkLabel => x.coord \in Thread
  PROVE  /\ pc' \in [Thread -> Label] /\ loc' \in [Thread -> Locals]
         /\ CoordKnown'
BY DEF TypeInv, TypeOK, CoordKnown

\* Moving on with the local variables as they are.
LEMMA StayType ==
  ASSUME TypeInv, NEW t \in Thread, NEW l \in Label,
         pc' = [pc EXCEPT ![t] = l], loc' = loc,
         l \in WorkLabel => loc[t].coord \in Thread
  PROVE  /\ pc' \in [Thread -> Label] /\ loc' \in [Thread -> Locals]
         /\ CoordKnown'
BY DEF TypeInv, TypeOK, CoordKnown

\* Leaving persist_to_db.
LEMMA PersistedType ==
  ASSUME TypeInv, NEW t \in Thread, pc[t] \in PersistLabel, Persisted(t)
  PROVE  /\ pc' \in [Thread -> Label] /\ loc' \in [Thread -> Locals]
         /\ CoordKnown'
<1>1. CASE loc[t].next = "idle"
  BY <1>1, FinishType DEF Persisted
<1>2. CASE loc[t].next # "idle"
  <2> DEFINE x == [loc[t] EXCEPT !.dump = Blank, !.rowVer = 0, !.isNew = FALSE,
                                 !.batch = <<>>, !.next = "idle"]
  <2>1. loc[t] \in Locals
    BY DEF TypeInv, TypeOK
  <2>2. x \in Locals
    <3>1. <<>> \in Seq(Transition) /\ "idle" \in Label
      BY DEF Label
    <3> QED
      BY <2>1, <3>1, FreshType DEF Locals
  <2>6. x.coord = loc[t].coord
    BY <2>1 DEF Locals
  <2>3. loc[t].coord \in Thread
    BY DEF TypeInv, CoordKnown, WorkLabel
  <2>4. loc[t].next \in Label
    BY <2>1 DEF Locals
  <2>5. loc' = [loc EXCEPT ![t] = x] /\ pc' = [pc EXCEPT ![t] = loc[t].next]
    BY <1>2 DEF Persisted, Go
  <2> QED
    BY <2>2, <2>3, <2>4, <2>5, <2>6, MoveType
<1> QED
  BY <1>1, <1>2

\* A step of _get_or_load.
LEMMA LoadingType ==
  ASSUME TypeInv, NEW t \in Thread, NEW v \in {"no", "state", "audit"},
         pc' = pc, loc' = [loc EXCEPT ![t].loading = v]
  PROVE  /\ pc' \in [Thread -> Label] /\ loc' \in [Thread -> Locals]
         /\ CoordKnown'
<1> DEFINE x == [loc[t] EXCEPT !.loading = v]
<1>1. loc[t] \in Locals /\ pc \in [Thread -> Label] /\ loc \in [Thread -> Locals]
  BY DEF TypeInv, TypeOK
<1>2. x \in Locals
  BY <1>1 DEF Locals
<1>3. x.coord = loc[t].coord
  BY <1>1 DEF Locals
<1>4. loc' = [loc EXCEPT ![t] = x] /\ pc' = [pc EXCEPT ![t] = pc[t]]
  BY <1>1
<1>5. pc[t] \in WorkLabel => x.coord \in Thread
  BY <1>3 DEF TypeInv, CoordKnown
<1>6. pc[t] \in Label
  BY <1>1
<1> HIDE DEF x
<1> QED
  BY <1>2, <1>4, <1>5, <1>6, MoveType

\* Every action keeps the types.
LEMMA TypeStep == TypeInv /\ [Next]_vars => TypeInv'
<1> SUFFICES ASSUME TypeInv, [Next]_vars PROVE TypeInv'
  OBVIOUS
<1>st. /\ Start0 \in Locals /\ Fresh \in CoordinatorType
       /\ NoRow \in Row /\ BareRow \in Row /\ Blank \in State
  BY Start0Type, FreshType DEF NoRow, BareRow, Row
<1>T. /\ cache \in Thread \cup {Nil} /\ obj \in [Thread -> CoordinatorType]
      /\ proposals \in SUBSET Proposal /\ row \in Row /\ log \in Seq(Transition)
      /\ commits \in SUBSET CommitRow /\ pc \in [Thread -> Label]
      /\ loc \in [Thread -> Locals] /\ started \in Nat
  BY DEF TypeInv, TypeOK
<1>ck. CoordKnown
  BY DEF TypeInv
<1> USE DEF TypeInv
<1>1. ASSUME NEW t \in Thread, LoadState(t) PROVE TypeInv'
  <2>1. [Fresh EXCEPT !.state = row.state] \in CoordinatorType
    BY <1>T, <1>st DEF Row, CoordinatorType
  <2>2. obj' \in [Thread -> CoordinatorType]
    BY <1>1, <1>T, <1>st, <2>1 DEF LoadState
  <2>3. \E v \in {"no", "state", "audit"} : loc' = [loc EXCEPT ![t].loading = v]
    BY <1>1 DEF LoadState
  <2>4. pc' = pc
    BY <1>1 DEF LoadState
  <2>5. loc' \in [Thread -> Locals] /\ CoordKnown'
    BY <2>3, <2>4, LoadingType
  <2> QED
    BY <1>1, <1>T, <2>2, <2>5 DEF LoadState, TypeOK
<1>2. ASSUME NEW t \in Thread, LoadAudit(t) PROVE TypeInv'
  <2>1. ASSUME NEW p \in Orders(log)
        PROVE  [i \in 1..Len(log) |-> log[p[i]]] \in Seq(Transition)
    <3>1. \A i \in 1..Len(log) : p[i] \in 1..Len(log)
      BY <1>T DEF Orders
    <3>2. \A i \in 1..Len(log) : log[p[i]] \in Transition
      BY <1>T, <3>1
    <3> QED
      BY <1>T, <3>2
  <2>2. obj' \in [Thread -> CoordinatorType]
    <3>1. CASE obj' = [obj EXCEPT ![t] = Fresh]
      BY <3>1, <1>T, <1>st
    <3>2. ASSUME NEW p \in Orders(log),
                 obj' = [obj EXCEPT
                           ![t].audit = [i \in 1..Len(log) |-> log[p[i]]],
                           ![t].persisted = Len(log)]
          PROVE  obj' \in [Thread -> CoordinatorType]
      <4>1. Len(log) \in Nat
        BY <1>T
      <4> DEFINE a == [i \in 1..Len(log) |-> log[p[i]]]
      <4>2. a \in Seq(Transition)
        BY <2>1
      <4>3. [[obj[t] EXCEPT !.audit = a] EXCEPT !.persisted = Len(log)]
              \in CoordinatorType
        BY <1>T, <4>1, <4>2 DEF CoordinatorType
      <4> QED
        BY <3>2, <4>3, <1>T
    <3> QED
      BY <1>2, <3>1, <3>2 DEF LoadAudit
  <2>3. loc' \in [Thread -> Locals] /\ CoordKnown'
    BY <1>2, LoadingType DEF LoadAudit
  <2> QED
    BY <1>2, <1>T, <2>2, <2>3 DEF LoadAudit, TypeOK
<1>3. ASSUME NEW t \in Thread, Install(t) PROVE TypeInv'
  <2>1. loc' \in [Thread -> Locals] /\ CoordKnown'
    BY <1>3, LoadingType DEF Install
  <2> QED
    BY <1>3, <1>T, <2>1 DEF Install, TypeOK
<1>4. ASSUME NEW t \in Thread, NEW l \in Label \ WorkLabel, NEW x \in Locals,
             Begin(t, l, x)
      PROVE  TypeInv'
  <2>1. pc' \in [Thread -> Label] /\ loc' \in [Thread -> Locals] /\ CoordKnown'
    BY <1>4, MoveType DEF Begin, Go
  <2> QED
    BY <1>4, <1>T, <2>1 DEF Begin, TypeOK
<1>5. ASSUME NEW t \in Thread, Start(t) PROVE TypeInv'
  <2>1. CASE StartTurn(t)
    <3>1. PICK q \in Query, b \in BOOLEAN :
            Begin(t, "register", [Start0 EXCEPT !.query = q, !.bypass = b])
      BY <2>1 DEF StartTurn
    <3>2. [Start0 EXCEPT !.query = q, !.bypass = b] \in Locals
      BY <1>st DEF Locals
    <3>3. "register" \in Label \ WorkLabel
      BY DEF Label, WorkLabel, PersistLabel
    <3> QED
      BY <3>1, <3>2, <3>3, <1>4
  <2>2. CASE StartProposal(t)
    <3>1. "ask" \in Label \ WorkLabel
      BY DEF Label, WorkLabel, PersistLabel
    <3> QED
      BY <2>2, <3>1, <1>st, <1>4 DEF StartProposal
  <2>3. CASE StartCommit(t)
    <3>1. PICK d \in Decision, n \in {p.turn : p \in proposals} \cup {0},
               r \in BOOLEAN :
            Begin(t, "commit",
                  [Start0 EXCEPT !.todo = d, !.turn = n, !.resume = r])
      BY <2>3 DEF StartCommit
    <3>2. n \in Nat /\ d \in Seq(Change)
      BY <1>T, DecisionAssumption DEF Proposal
    <3>3. [Start0 EXCEPT !.todo = d, !.turn = n, !.resume = r] \in Locals
      BY <1>st, <3>2 DEF Locals
    <3>4. "commit" \in Label \ WorkLabel
      BY DEF Label, WorkLabel, PersistLabel
    <3> QED
      BY <3>1, <3>3, <3>4, <1>4
  <2>4. CASE StartRead(t)
    <3>1. "read" \in Label \ WorkLabel
      BY DEF Label, WorkLabel, PersistLabel
    <3> QED
      BY <2>4, <3>1, <1>T, <1>st, MoveType DEF StartRead, Go, TypeOK
  <2> QED
    BY <1>5, <2>1, <2>2, <2>3, <2>4 DEF Start
<1>6. ASSUME NEW t \in Thread, Read(t) PROVE TypeInv'
  BY <1>6, <1>T, FinishType DEF Read, TypeOK
<1>7. ASSUME NEW t \in Thread, Register(t) PROVE TypeInv'
  <2>1. "plan" \in Label /\ "plan" \notin WorkLabel
    BY DEF Label, WorkLabel, PersistLabel
  <2>2. pc' \in [Thread -> Label] /\ loc' \in [Thread -> Locals] /\ CoordKnown'
    BY <1>7, <2>1, StayType DEF Register, Go
  <2> QED
    BY <1>7, <1>T, <1>st, <2>2 DEF Register, TypeOK
\* The four statements that read last_turn_id.
<1>8. ASSUME NEW t \in Thread, NEW l \in Label \ WorkLabel, NEW n \in 0..1,
             cache # Nil, Go(t, l),
             loc' = [loc EXCEPT ![t].turn = Cached.state.lastTurn + n]
      PROVE  pc' \in [Thread -> Label] /\ loc' \in [Thread -> Locals] /\ CoordKnown'
  <2> DEFINE x == [loc[t] EXCEPT !.turn = Cached.state.lastTurn + n]
  <2>1. Cached.state.lastTurn + n \in Nat
    BY <1>8, <1>T DEF Cached, CoordinatorType, State
  <2>0. loc[t] \in Locals
    BY <1>T
  <2>2. x \in Locals
    <3> HIDE DEF Cached
    <3> DEFINE k == Cached.state.lastTurn + n
    <3>1. k \in Nat
      BY <2>1
    <3> HIDE DEF k
    <3>2. [loc[t] EXCEPT !.turn = k] \in Locals
      BY <2>0, <3>1 DEF Locals
    <3> QED
      BY <3>2 DEF k
  <2>3. loc' = [loc EXCEPT ![t] = x]
    BY <1>8, <1>T
  <2> HIDE DEF x
  <2> QED
    BY <1>8, <2>2, <2>3, MoveType DEF Go
<1>9. \A t \in Thread : Cached.state.lastTurn \in Int \/ cache = Nil
  BY <1>T DEF Cached, CoordinatorType, State
<1>lab. {"intent", "route", "run", "record", "gate", "ask", "propose", "plan",
         "commit"} \subseteq Label \ WorkLabel
  BY DEF Label, WorkLabel, PersistLabel
<1>10. ASSUME NEW t \in Thread, Plan(t) PROVE TypeInv'
  <2>1. CASE Readable(Cached.state)
    BY <1>10, <2>1, <1>8, <1>lab, <1>T DEF Plan, Ready, TypeOK
  <2>2. CASE ~Readable(Cached.state)
    BY <1>10, <2>2, <1>lab, <1>T, StayType DEF Plan, Ready, Go, TypeOK
  <2> QED
    BY <2>1, <2>2
\* Entering persist_to_db.
<1>11. ASSUME NEW t \in Thread, NEW l \in Label, NEW x \in Locals,
              x.coord \in Thread, PersistThen(t, l, x)
       PROVE  pc' \in [Thread -> Label] /\ loc' \in [Thread -> Locals] /\ CoordKnown'
  <2>1. [x EXCEPT !.next = l] \in Locals
    BY DEF Locals
  <2>2. [x EXCEPT !.next = l].coord = x.coord
    BY DEF Locals
  <2>3. "dump" \in Label
    BY DEF Label, PersistLabel
  <2> QED
    BY <1>11, <2>1, <2>2, <2>3, MoveType DEF PersistThen, Go
<1>12. ASSUME NEW t \in Thread, cache # Nil
       PROVE  /\ [loc[t] EXCEPT !.coord = cache] \in Locals
              /\ [loc[t] EXCEPT !.coord = cache].coord \in Thread
              /\ loc[t].turn \in Nat /\ Cached \in CoordinatorType /\ cache \in Thread
  <2>1. cache \in Thread /\ loc[t] \in Locals
    BY <1>12, <1>T
  <2>2. Cached \in CoordinatorType
    BY <2>1, <1>T DEF Cached
  <2> HIDE DEF TypeInv
  <2>3. loc[t].turn \in Nat
    BY <2>1 DEF Locals
  <2>4. [loc[t] EXCEPT !.coord = cache] \in Locals
    BY <2>1 DEF Locals
  <2>5. [loc[t] EXCEPT !.coord = cache].coord \in Thread
    BY <2>1 DEF Locals
  <2> QED
    BY <2>1, <2>2, <2>3, <2>4, <2>5
<1>13. ASSUME NEW t \in Thread, Intent(t) PROVE TypeInv'
  <2>1. cache # Nil /\ "route" \in Label
    BY <1>13 DEF Intent, Ready, Label
  <2>2. PICK v \in Value : Update(cache, SetIntent(Cached, v, loc[t].turn))
    BY <1>13 DEF Intent
  <2>3. obj' \in [Thread -> CoordinatorType]
    BY <2>1, <2>2, <1>12, <1>T, SetterTypes DEF Update
  <2>4. pc' \in [Thread -> Label] /\ loc' \in [Thread -> Locals] /\ CoordKnown'
    BY <1>13, <2>1, <1>11, <1>12 DEF Intent
  <2> QED
    BY <1>13, <1>T, <2>3, <2>4 DEF Intent, TypeOK
<1>14. ASSUME NEW t \in Thread, Route(t) PROVE TypeInv'
  <2>1. pc' \in [Thread -> Label] /\ loc' \in [Thread -> Locals] /\ CoordKnown'
    BY <1>14, <1>lab, FinishType, StayType DEF Route, Go
  <2> QED
    BY <1>14, <1>T, <2>1 DEF Route, TypeOK
<1>15. ASSUME NEW t \in Thread, Run(t) PROVE TypeInv'
  <2>1. CASE Readable(Cached.state)
    <3>1. loc' = [loc EXCEPT ![t].turn = Cached.state.lastTurn + 0]
      BY <1>15, <2>1, <1>9 DEF Run, Ready
    <3>2. cache # Nil /\ Go(t, "record") /\ "record" \in Label \ WorkLabel
      BY <1>15, <2>1, <1>lab DEF Run, Ready
    <3>3. pc' \in [Thread -> Label] /\ loc' \in [Thread -> Locals] /\ CoordKnown'
      <4>1. 0 \in 0..1
        OBVIOUS
      <4> QED
        BY <3>1, <3>2, <4>1, <1>8
    <3> QED
      BY <1>15, <3>3, <1>T DEF Run, TypeOK
  <2>2. CASE ~Readable(Cached.state)
    BY <1>15, <2>2, <1>T, FinishType DEF Run, TypeOK
  <2> QED
    BY <2>1, <2>2
<1>16. ASSUME NEW t \in Thread, Record(t) PROVE TypeInv'
  <2>1. cache # Nil /\ "idle" \in Label
    BY <1>16 DEF Record, Ready, Label
  <2>2. obj' \in [Thread -> CoordinatorType]
    <3>1. CASE UNCHANGED obj
      BY <3>1, <1>T
    <3>2. ASSUME NEW s \in Slot \cap RunSlots, NEW v \in Value,
                 Update(cache, SetActiveRun(Cached, s, v, loc[t].turn))
          PROVE  obj' \in [Thread -> CoordinatorType]
      BY <3>2, <2>1, <1>12, <1>T, SetterTypes DEF Update
    <3> QED
      BY <1>16, <3>1, <3>2 DEF Record
  <2>3. pc' \in [Thread -> Label] /\ loc' \in [Thread -> Locals] /\ CoordKnown'
    BY <1>16, <2>1, <1>11, <1>12 DEF Record
  <2> QED
    BY <1>16, <1>T, <2>2, <2>3 DEF Record, TypeOK
<1>17. ASSUME NEW t \in Thread, Gate(t) PROVE TypeInv'
  <2>1. CASE Readable(Cached.state)
    BY <1>17, <2>1, <1>8, <1>lab, <1>T DEF Gate, Ready, TypeOK
  <2>2. CASE ~Readable(Cached.state)
    BY <1>17, <2>2, <1>T, FinishType DEF Gate, TypeOK
  <2> QED
    BY <2>1, <2>2
<1>18. ASSUME NEW t \in Thread, Ask(t) PROVE TypeInv'
  <2>1. CASE Readable(Cached.state)
    BY <1>18, <2>1, <1>8, <1>lab, <1>T DEF Ask, Ready, TypeOK
  <2>2. CASE ~Readable(Cached.state)
    BY <1>18, <2>2, <1>T, FinishType DEF Ask, TypeOK
  <2> QED
    BY <2>1, <2>2
<1>19. ASSUME NEW t \in Thread, Propose(t) PROVE TypeInv'
  <2>1. [turn |-> loc[t].turn, query |-> loc[t].query] \in Proposal
    BY <1>T DEF Proposal, Locals
  <2>2. proposals' \in SUBSET Proposal
    BY <1>19, <1>T, <2>1 DEF Propose
  <2>3. pc' \in [Thread -> Label] /\ loc' \in [Thread -> Locals] /\ CoordKnown'
    BY <1>19, FinishType DEF Propose
  <2> QED
    BY <1>19, <1>T, <2>2, <2>3 DEF Propose, TypeOK
<1>20. ASSUME NEW t \in Thread, Commit(t) PROVE TypeInv'
  <2>1. ASSUME NEW p \in proposals, Go(t, "snapshot"),
               loc' = [loc EXCEPT ![t].query = p.query]
        PROVE  pc' \in [Thread -> Label] /\ loc' \in [Thread -> Locals] /\ CoordKnown'
    <3> DEFINE x == [loc[t] EXCEPT !.query = p.query]
    <3>0. loc[t] \in Locals /\ p.query \in Query \cup {NoQuery}
      BY <1>T DEF Proposal
    <3>1. x \in Locals
      BY <3>0 DEF Locals
    <3>2. loc' = [loc EXCEPT ![t] = x]
      BY <2>1, <1>T
    <3>3. "snapshot" \in Label /\ "snapshot" \notin WorkLabel
      BY DEF Label, WorkLabel, PersistLabel
    <3> HIDE DEF x
    <3> QED
      BY <2>1, <3>1, <3>2, <3>3, MoveType DEF Go
  <2>2. pc' \in [Thread -> Label] /\ loc' \in [Thread -> Locals] /\ CoordKnown'
    BY <1>20, <2>1, FinishType DEF Commit
  <2> QED
    BY <1>20, <1>T, <2>2 DEF Commit, TypeOK
<1>21. ASSUME NEW t \in Thread, Snapshot(t) PROVE TypeInv'
  <2>1. CASE Readable(Cached.state)
    <3> DEFINE x == [loc[t] EXCEPT !.coord = cache, !.frozen = Cached.state.frozen,
                                   !.before = Cached.state.version]
    <3>1. cache \in Thread /\ loc[t] \in Locals
      BY <1>21, <1>T DEF Snapshot, Ready
    <3>2. Cached.state.frozen \in SUBSET SlotName /\ Cached.state.version \in Nat
      BY <3>1, <1>T DEF Cached, CoordinatorType, State
    <3>3. x \in Locals /\ x.coord \in Thread
      BY <3>1, <3>2 DEF Locals
    <3>4. loc' = [loc EXCEPT ![t] = x] /\ pc' = [pc EXCEPT ![t] = "apply"]
      BY <1>21, <2>1 DEF Snapshot, Go
    <3>5. "apply" \in Label
      BY DEF Label
    <3>6. pc' \in [Thread -> Label] /\ loc' \in [Thread -> Locals] /\ CoordKnown'
      <4> HIDE DEF x
      <4> QED
        BY <3>3, <3>4, <3>5, MoveType
    <3> QED
      BY <1>21, <3>6, <1>T DEF Snapshot, TypeOK
  <2>2. CASE ~Readable(Cached.state)
    BY <1>21, <2>2, <1>T, FinishType DEF Snapshot, TypeOK
  <2> QED
    BY <2>1, <2>2
\* At a statement of WorkLabel there is a coordinator to work on.
<1>22. ASSUME NEW t \in Thread, pc[t] \in WorkLabel
       PROVE  /\ loc[t] \in Locals /\ loc[t].coord \in Thread
              /\ obj[loc[t].coord] \in CoordinatorType
  BY <1>22, <1>T, <1>ck DEF CoordKnown
<1>23. ASSUME NEW t \in Thread, Apply(t) PROVE TypeInv'
  <2> DEFINE ch == Head(loc[t].todo)
             o == loc[t].coord
             rest == [loc[t] EXCEPT !.todo = Tail(@)]
  <2>1. pc[t] = "apply" /\ "apply" \in WorkLabel /\ "apply" \in Label
    BY <1>23 DEF Apply, WorkLabel, Label
  <2>2. loc[t] \in Locals /\ o \in Thread /\ obj[o] \in CoordinatorType
    BY <2>1, <1>22
  <2>3. ch \in Change /\ Tail(loc[t].todo) \in Seq(Change) /\ loc[t].turn \in Nat
    <3>1. loc[t].todo \in Seq(Change) /\ loc[t].todo # <<>> /\ loc[t].turn \in Nat
      BY <1>23, <2>2 DEF Apply, Locals
    <3> QED
      BY <3>1
  <2>4. rest \in Locals /\ rest.coord = o
    BY <2>2, <2>3 DEF Locals
  <2>5. /\ [rest EXCEPT !.skipped = @ \cup {ch.slot}] \in Locals
        /\ [rest EXCEPT !.skipped = @ \cup {ch.slot}].coord = o
        /\ [rest EXCEPT !.applied = @ \cup {ch.slot}] \in Locals
        /\ [rest EXCEPT !.applied = @ \cup {ch.slot}].coord = o
    <3> HIDE DEF rest, ch
    <3> QED
      BY <2>3, <2>4 DEF Locals, Change
  <2>6. ApplyMutation(obj[o], ch.slot, ch.value, loc[t].turn) \in CoordinatorType
    BY <2>2, <2>3, SetterTypes DEF Change
  <2>7. \A pin \in Pins : Pin(obj[o], ch.slot, loc[t].turn, pin) \in CoordinatorType
    BY <2>2, <2>3, PinType DEF Change
  <2>8. (IF ch.kind = "freeze" THEN Pinned ELSE Unpinned) \in Pins
    BY DEF Pins
  <2> HIDE DEF ch, o, rest
  <2>9. obj' \in [Thread -> CoordinatorType]
    BY <1>23, <2>2, <2>6, <2>7, <2>8, <1>T DEF Apply, Update, ch, o, rest
  <2>10. \E x \in Locals : x.coord = o /\ loc' = [loc EXCEPT ![t] = x]
    BY <1>23, <2>4, <2>5 DEF Apply, ch, o, rest
  <2>11. pc' = [pc EXCEPT ![t] = "apply"]
    BY <1>23, <2>1, <1>T DEF Apply
  <2>12. pc' \in [Thread -> Label] /\ loc' \in [Thread -> Locals] /\ CoordKnown'
    BY <2>1, <2>2, <2>10, <2>11, MoveType
  <2> QED
    BY <1>23, <2>9, <2>12, <1>T DEF Apply, TypeOK
<1>24. ASSUME NEW t \in Thread, Applied(t) PROVE TypeInv'
  <2>1. pc[t] \in WorkLabel /\ "resolve" \in Label
    BY <1>24 DEF Applied, WorkLabel, Label
  <2>2. pc' \in [Thread -> Label] /\ loc' \in [Thread -> Locals] /\ CoordKnown'
    BY <1>24, <2>1, <1>22, <1>11 DEF Applied
  <2> QED
    BY <1>24, <2>2, <1>T DEF Applied, TypeOK
<1>25. ASSUME NEW t \in Thread, Resolve(t) PROVE TypeInv'
  <2>1. pc[t] \in WorkLabel /\ "result" \in Label
    BY <1>25 DEF Resolve, WorkLabel, Label
  <2>2. pc' \in [Thread -> Label] /\ loc' \in [Thread -> Locals] /\ CoordKnown'
    BY <1>25, <2>1, <1>22, FinishType, StayType DEF Resolve, Go
  <2>3. proposals' \in SUBSET Proposal
    BY <1>25, <1>T DEF Resolve
  <2> QED
    BY <1>25, <2>2, <2>3, <1>T DEF Resolve, TypeOK
<1>26. ASSUME NEW t \in Thread, Result(t) PROVE TypeInv'
  <2>1. pc[t] \in WorkLabel
    BY <1>26 DEF Result, WorkLabel
  <2>2. loc[t] \in Locals /\ obj[loc[t].coord] \in CoordinatorType
    BY <2>1, <1>22
  <2>3. [before |-> loc[t].before, after |-> obj[loc[t].coord].state.version,
         turn |-> loc[t].turn, applied |-> loc[t].applied,
         skipped |-> loc[t].skipped] \in CommitRow
    BY <2>2 DEF CommitRow, Locals, CoordinatorType, State
  <2>4. commits' \in SUBSET CommitRow
    BY <1>26, <2>3, <1>T DEF Result
  <2>5. [Start0 EXCEPT !.query = loc[t].query, !.bypass = TRUE] \in Locals
    BY <2>2, <1>st DEF Locals
  <2>6. pc' \in [Thread -> Label] /\ loc' \in [Thread -> Locals] /\ CoordKnown'
    <3>1. "plan" \in Label /\ "plan" \notin WorkLabel
      BY <1>lab
    <3>2. \/ Finish(t, "badRequest") \/ Finish(t, "ok")
          \/ Go(t, "plan") /\ loc' = [loc EXCEPT ![t] = [Start0 EXCEPT
                                 !.query = loc[t].query, !.bypass = TRUE]]
      BY <1>26 DEF Result
    <3> QED
      BY <2>5, <3>1, <3>2, FinishType, MoveType DEF Go
  <2> QED
    BY <1>26, <2>4, <2>6, <1>T DEF Result, TypeOK
<1>27. ASSUME NEW t \in Thread, Dump(t) PROVE TypeInv'
  <2>1. pc[t] \in WorkLabel /\ "open" \in Label
    BY <1>27 DEF Dump, WorkLabel, PersistLabel, Label
  <2>2. loc[t] \in Locals /\ loc[t].coord \in Thread
        /\ obj[loc[t].coord].state \in State
    BY <2>1, <1>22 DEF CoordinatorType
  <2> DEFINE x == [loc[t] EXCEPT !.dump = obj[loc[t].coord].state]
  <2>3. x \in Locals /\ x.coord \in Thread
    BY <2>2 DEF Locals
  <2>4. loc' = [loc EXCEPT ![t] = x] /\ pc' = [pc EXCEPT ![t] = "open"]
    BY <1>27, <1>T DEF Dump, Go
  <2>5. pc' \in [Thread -> Label] /\ loc' \in [Thread -> Locals] /\ CoordKnown'
    <3> HIDE DEF x
    <3> QED
      BY <2>1, <2>3, <2>4, MoveType
  <2> QED
    BY <1>27, <2>5, <1>T DEF Dump, TypeOK
<1>28. ASSUME NEW t \in Thread, Open(t) PROVE TypeInv'
  <2>1. pc[t] \in WorkLabel /\ pc[t] \in PersistLabel
        /\ {"insert", "slice"} \subseteq Label
    BY <1>28 DEF Open, WorkLabel, PersistLabel, Label
  <2>2. pc' \in [Thread -> Label] /\ loc' \in [Thread -> Locals] /\ CoordKnown'
    BY <1>28, <2>1, <1>22, PersistedType, StayType DEF Open, Go
  <2> QED
    BY <1>28, <2>2, <1>T DEF Open, TypeOK
<1>29. ASSUME NEW t \in Thread, Insert(t) PROVE TypeInv'
  <2>1. pc[t] \in WorkLabel /\ pc[t] \in PersistLabel /\ "slice" \in Label
    BY <1>29 DEF Insert, WorkLabel, PersistLabel, Label
  <2>2. loc[t] \in Locals /\ loc[t].coord \in Thread
    BY <2>1, <1>22
  <2> DEFINE x == [loc[t] EXCEPT !.isNew = TRUE]
  <2>3. x \in Locals /\ x.coord \in Thread
    BY <2>2 DEF Locals
  <2>4. \/ Persisted(t)
        \/ loc' = [loc EXCEPT ![t] = x] /\ pc' = [pc EXCEPT ![t] = "slice"]
    BY <1>29, <1>T DEF Insert, Go
  <2>5. pc' \in [Thread -> Label] /\ loc' \in [Thread -> Locals] /\ CoordKnown'
    <3> HIDE DEF x
    <3> QED
      BY <2>1, <2>3, <2>4, MoveType, PersistedType
  <2> QED
    BY <1>29, <2>5, <1>T DEF Insert, TypeOK
<1>30. ASSUME NEW t \in Thread, Slice(t) PROVE TypeInv'
  <2> DEFINE c == obj[loc[t].coord]
             b == SubSeq(c.audit, c.persisted + 1, Len(c.audit))
             x == [loc[t] EXCEPT !.rowVer = c.state.version, !.batch = b]
  <2>1. pc[t] \in WorkLabel /\ "count" \in Label
    BY <1>30 DEF Slice, WorkLabel, PersistLabel, Label
  <2>2. loc[t] \in Locals /\ loc[t].coord \in Thread /\ c.state.version \in Nat
        /\ c.audit \in Seq(Transition) /\ c.persisted \in Nat
    BY <2>1, <1>22 DEF CoordinatorType, State
  <2>3. b \in Seq(Transition)
    BY <2>2
  <2>4. x \in Locals /\ x.coord \in Thread
    <3> HIDE DEF b, c
    <3> QED
      BY <2>2, <2>3 DEF Locals
  <2>5. loc' = [loc EXCEPT ![t] = x] /\ pc' = [pc EXCEPT ![t] = "count"]
    BY <1>30 DEF Slice, Go
  <2>6. pc' \in [Thread -> Label] /\ loc' \in [Thread -> Locals] /\ CoordKnown'
    <3> HIDE DEF x
    <3> QED
      BY <2>1, <2>4, <2>5, MoveType
  <2> QED
    BY <1>30, <2>6, <1>T DEF Slice, TypeOK
<1>31. ASSUME NEW t \in Thread, Count(t) PROVE TypeInv'
  <2>1. pc[t] \in WorkLabel /\ "flush" \in Label
    BY <1>31 DEF Count, WorkLabel, PersistLabel, Label
  <2>2. loc[t].coord \in Thread /\ obj[loc[t].coord] \in CoordinatorType
    BY <2>1, <1>22
  <2>3. obj' \in [Thread -> CoordinatorType]
    <3> DEFINE o == loc[t].coord
    <3>1. Len(obj[o].audit) \in Nat
      BY <2>2 DEF CoordinatorType
    <3>2. [obj[o] EXCEPT !.persisted = Len(obj[o].audit)] \in CoordinatorType
      BY <2>2, <3>1 DEF CoordinatorType
    <3>3. obj' = [obj EXCEPT ![o] = [obj[o] EXCEPT !.persisted = Len(obj[o].audit)]]
      BY <1>31, <2>2, <1>T DEF Count
    <3> QED
      BY <2>2, <3>2, <3>3, <1>T
  <2>4. pc' \in [Thread -> Label] /\ loc' \in [Thread -> Locals] /\ CoordKnown'
    BY <1>31, <2>1, <2>2, StayType DEF Count, Go
  <2> QED
    BY <1>31, <2>3, <2>4, <1>T DEF Count, TypeOK
<1>32. ASSUME NEW t \in Thread, Flush(t) PROVE TypeInv'
  <2>1. pc[t] \in WorkLabel /\ pc[t] \in PersistLabel
    BY <1>32 DEF Flush, WorkLabel, PersistLabel
  <2>2. loc[t].dump \in State /\ loc[t].rowVer \in Nat /\ loc[t].batch \in Seq(Transition)
    BY <2>1, <1>22 DEF Locals
  <2>3. row' \in Row
    BY <1>32, <2>2, <1>T DEF Flush, Row
  <2>4. log' \in Seq(Transition)
    <3>1. log \o loc[t].batch \in Seq(Transition)
      BY <2>2, <1>T
    <3> QED
      BY <1>32, <3>1, <1>T DEF Flush
  <2>5. pc' \in [Thread -> Label] /\ loc' \in [Thread -> Locals] /\ CoordKnown'
    BY <1>32, <2>1, PersistedType DEF Flush
  <2> QED
    BY <1>32, <2>3, <2>4, <2>5, <1>T DEF Flush, TypeOK
<1>33. CASE Delete
  BY <1>33, <1>T, <1>st, <1>ck DEF Delete, TypeOK, CoordKnown
<1>34. CASE Crash
  <2>1. "idle" \in Label /\ "idle" \notin WorkLabel
    BY DEF Label, WorkLabel, PersistLabel
  <2> QED
    BY <1>34, <2>1, <1>T, <1>st DEF Crash, TypeOK, CoordKnown
<1>35. CASE UNCHANGED vars
  BY <1>35, <1>T, <1>ck DEF vars, TypeOK, CoordKnown
<1> QED
  BY <1>1, <1>2, <1>3, <1>5, <1>6, <1>7, <1>10, <1>13, <1>14, <1>15, <1>16, <1>17,
     <1>18, <1>19, <1>20, <1>21, <1>23, <1>24, <1>25, <1>26, <1>27, <1>28, <1>29,
     <1>30, <1>31, <1>32, <1>33, <1>34, <1>35 DEF Next, Serve

\* The types hold, and no call works on a coordinator it does not have.
LEMMA TypeInvariant == Spec => []TypeInv
<1>1. Init => TypeInv
  BY Start0Type, FreshType
     DEF Init, TypeInv, TypeOK, CoordKnown, NoRow, Row, Label, WorkLabel, PersistLabel
<1> QED
  BY <1>1, TypeStep, PTL DEF Spec

\* Every reachable state is well typed, whatever interleaves and fails.
THEOREM TypeCorrect == Spec => []TypeOK
BY TypeInvariant, PTL DEF TypeInv

-----------------------------------------------------------------------------
(***************************************************************************)
(* One thread at a time, whatever the threads' values and decisions are and *)
(* however often the process dies or cannot reach the database: the stored  *)
(* audit trail explains the stored state, and the stored side of            *)
(* MemoryService implements AuditTrail.                                     *)
(***************************************************************************)

(* The circumstances: requests do not overlap; no SELECT and no COMMIT fails *)
(* and nobody deletes the session; no decision carries a malformed list.    *)
OneThread == \A t, u \in Thread : t = u
Benign ==
  /\ OneThread
  /\ Faults \cap {"load", "commit", "delete"} = {}
  /\ \A d \in Decision : \A i \in 1..Len(d) : d[i].value # Malformed

(* The inductive invariant.  DurableTraceable alone is not inductive: what a *)
(* COMMIT writes was computed four statements earlier from the cached       *)
(* coordinator, so the invariant says how each intermediate value relates   *)
(* to that coordinator and to the rows.                                     *)
StoreSound ==
  IF row.kind = "full"
  THEN /\ row.ver = Len(log) /\ GapFree(log) /\ Explains(log, row.state)
       /\ Readable(row.state) /\ Heeds(log, row.state)
  ELSE log = <<>> /\ row.state = Blank
CacheSound ==
  cache # Nil => Sound(Cached) /\ Cached.persisted =< Len(Cached.audit)
\* What the database has of the cached audit log.
Level(t) ==
  cache # Nil =>
    IF pc[t] = "flush"
    THEN /\ log \o loc[t].batch = Cached.audit
         /\ Cached.persisted = Len(Cached.audit)
    ELSE log = SubSeq(Cached.audit, 1, Cached.persisted)
Working(t) == pc[t] \in WorkLabel => cache = t /\ loc[t].coord = t
Writing(t) ==
  /\ pc[t] \in PersistLabel => loc[t].next \in {"idle", "route", "resolve"}
  /\ pc[t] \in PersistLabel \ {"dump"} => loc[t].dump = obj[t].state
  /\ pc[t] \in {"count", "flush"} => loc[t].rowVer = obj[t].state.version
  /\ pc[t] = "count" =>
       loc[t].batch = SubSeq(obj[t].audit, obj[t].persisted + 1, Len(obj[t].audit))
Inserting(t) ==
  /\ loc[t].isNew => pc[t] \in {"slice", "count", "flush"} /\ row.kind = "none"
  /\ pc[t] \in {"slice", "count", "flush"} => loc[t].isNew \/ row.kind # "none"
Loading(t) ==
  /\ loc[t].loading # "no" => cache = Nil /\ pc[t] \in Entry
  /\ loc[t].loading = "state" =>
       row.kind = "full" /\ obj[t] = [Fresh EXCEPT !.state = row.state]
  /\ loc[t].loading = "audit" =>
       Sound(obj[t]) /\ obj[t].audit = log /\ obj[t].persisted = Len(log)
Wanted(t) == \A i \in 1..Len(loc[t].todo) : loc[t].todo[i].value # Malformed
Local(t) ==
  Level(t) /\ Working(t) /\ Writing(t) /\ Inserting(t) /\ Loading(t) /\ Wanted(t)

DInv == TypeInv /\ StoreSound /\ CacheSound /\ \A t \in Thread : Local(t)

-----------------------------------------------------------------------------
(* Prefixes of a log. *)

LEMMA AppendPrefix ==
  ASSUME NEW S, NEW a \in Seq(S), NEW x \in S
  PROVE  \A k \in 0..Len(a) : SubSeq(Append(a, x), 1, k) = SubSeq(a, 1, k)
<1> SUFFICES ASSUME NEW k \in 0..Len(a)
             PROVE  SubSeq(Append(a, x), 1, k) = SubSeq(a, 1, k)
  OBVIOUS
<1>1. Append(a, x) \in Seq(S) /\ Len(a) \in Nat /\ Len(Append(a, x)) = Len(a) + 1
      /\ \A i \in 1..Len(a) : Append(a, x)[i] = a[i]
  OBVIOUS
<1> QED
  BY <1>1

LEMMA WholeLog == ASSUME NEW S, NEW a \in Seq(S) PROVE SubSeq(a, 1, Len(a)) = a
OBVIOUS

\* A log is what is stored of it followed by what is not.
LEMMA PrefixAndRest ==
  ASSUME NEW S, NEW a \in Seq(S), NEW k \in 0..Len(a)
  PROVE  SubSeq(a, 1, k) \o SubSeq(a, k + 1, Len(a)) = a
<1>1. 1 \in 1..Len(a) + 1 /\ k \in 1 - 1..Len(a) /\ Len(a) \in k..Len(a)
  OBVIOUS
<1>2. SubSeq(a, 1, k) \o SubSeq(a, k + 1, Len(a)) = SubSeq(a, 1, Len(a))
  BY <1>1, ConcatAdjacentSubSeq
<1> QED
  BY <1>2, WholeLog

\* A mutator leaves what is stored of the log alone.
Grows(c, d) ==
  /\ d.persisted = c.persisted /\ Len(c.audit) =< Len(d.audit)
  /\ \A k \in 0..Len(c.audit) : SubSeq(d.audit, 1, k) = SubSeq(c.audit, 1, k)

LEMMA MutateGrows ==
  ASSUME NEW c \in CoordinatorType, NEW s \in Slot, NEW v \in Val,
         NEW turn \in Nat, NEW op \in Op
  PROVE  Grows(c, Mutate(c, s, v, turn, op))
<1>1. CASE s \in c.state.frozen
  BY <1>1 DEF Mutate, Grows, CoordinatorType
<1>2. CASE s \notin c.state.frozen
  <2> DEFINE tr == [slot |-> s, op |-> op, after |-> v, turn |-> turn,
                    va |-> c.state.version + 1]
  <2>1. tr \in Transition /\ c.audit \in Seq(Transition)
    BY DEF CoordinatorType, State, Transition, SlotName
  <2>2. /\ Mutate(c, s, v, turn, op).audit = Append(c.audit, tr)
        /\ Mutate(c, s, v, turn, op).persisted = c.persisted
    BY <1>2 DEF Mutate, CoordinatorType
  <2> HIDE DEF tr
  <2> QED
    BY <2>1, <2>2, AppendPrefix DEF Grows
<1> QED
  BY <1>1, <1>2

LEMMA PinGrows ==
  ASSUME NEW c \in CoordinatorType, NEW s \in SlotName, NEW turn \in Nat,
         NEW pin \in Pins
  PROVE  Grows(c, Pin(c, s, turn, pin))
<1> DEFINE tr == [slot |-> s, op |-> IF pin = Pinned THEN "set" ELSE "clear",
                  after |-> pin, turn |-> turn, va |-> c.state.version + 1]
<1>1. tr \in Transition /\ c.audit \in Seq(Transition)
  BY DEF CoordinatorType, State, Transition, Op
<1>2. /\ Pin(c, s, turn, pin).audit = Append(c.audit, tr)
      /\ Pin(c, s, turn, pin).persisted = c.persisted
  BY DEF Pin, CoordinatorType
<1> HIDE DEF tr
<1> QED
  BY <1>1, <1>2, AppendPrefix DEF Grows

LEMMA SetterGrows ==
  ASSUME NEW c \in CoordinatorType, NEW turn \in Nat
  PROVE  /\ \A v \in Value : Grows(c, SetIntent(c, v, turn))
         /\ \A s \in Slot, v \in Value : Grows(c, SetActiveRun(c, s, v, turn))
         /\ \A s \in SlotName, v \in Val \cup {Junk} :
              Grows(c, ApplyMutation(c, s, v, turn))
<1>0. {"set", "overwrite"} \subseteq Op /\ Value \subseteq Val
  BY DEF Op, Val
<1>1. ASSUME NEW v \in Value PROVE Grows(c, SetIntent(c, v, turn))
  BY <1>0, MutateGrows, SlotAssumption DEF SetIntent
<1>2. ASSUME NEW s \in Slot, NEW v \in Value
      PROVE  Grows(c, SetActiveRun(c, s, v, turn))
  BY <1>0, MutateGrows DEF SetActiveRun
<1>3. ASSUME NEW s \in SlotName, NEW v \in Val \cup {Junk}
      PROVE  Grows(c, ApplyMutation(c, s, v, turn))
  <2>1. CASE ~Accepts(s, v)
    BY <2>1 DEF ApplyMutation, Grows, CoordinatorType
  <2>2. CASE Accepts(s, v)
    <3>1. s \in Slot
      BY <2>2, SlotAssumption DEF Accepts, SlotName, RunSlots, ListSlots, Params
    <3>2. Stored(s, v) \in Val
      BY <2>2, StoredType
    <3> QED
      BY <2>2, <3>1, <3>2, <1>0, MutateGrows DEF ApplyMutation
  <2> QED
    BY <2>1, <2>2
<1> QED
  BY <1>1, <1>2, <1>3

-----------------------------------------------------------------------------
(* Steps, by what they do to the coordinator and to the rows. *)

\* With one thread the object in the cache is that thread's.
LEMMA CachedIsMine ==
  ASSUME OneThread, TypeInv, NEW t \in Thread, cache # Nil
  PROVE  cache = t
BY DEF OneThread, TypeInv, TypeOK

\* The thread arrives at a statement that does not depend on what an earlier
\* statement of _persist_postgres computed.
InTransaction == {"open", "insert", "slice", "count", "flush"}
LEMMA Arrive ==
  ASSUME OneThread, TypeInv, NEW t \in Thread, NEW l \in Label, NEW x \in Locals,
         pc' = [pc EXCEPT ![t] = l], loc' = [loc EXCEPT ![t] = x],
         l \notin InTransaction, x.loading = "no", ~x.isNew,
         l = "dump" => x.next \in {"idle", "route", "resolve"},
         l \in WorkLabel => cache' = t /\ x.coord = t,
         \A i \in 1..Len(x.todo) : x.todo[i].value # Malformed,
         cache' # Nil =>
           log' = SubSeq(obj'[cache'].audit, 1, obj'[cache'].persisted)
  PROVE  \A u \in Thread : Local(u)'
<1> SUFFICES Local(t)'
  BY DEF OneThread
<1>1. pc'[t] = l /\ loc'[t] = x
  BY DEF TypeInv, TypeOK
<1>2. Level(t)' /\ Working(t)' /\ Inserting(t)' /\ Loading(t)' /\ Wanted(t)'
  BY <1>1 DEF Level, Working, Inserting, Loading, Wanted, InTransaction, Cached
<1>3. Writing(t)'
  BY <1>1 DEF Writing, InTransaction, PersistLabel
<1> QED
  BY <1>2, <1>3 DEF Local

\* It gets there without touching the coordinator or the rows.
LEMMA ArriveQuietly ==
  ASSUME OneThread, DInv, NEW t \in Thread, NEW l \in Label, NEW x \in Locals,
         pc' = [pc EXCEPT ![t] = l], loc' = [loc EXCEPT ![t] = x],
         UNCHANGED <<cache, obj, log>>, pc[t] # "flush",
         l \notin InTransaction, x.loading = "no", ~x.isNew,
         l = "dump" => x.next \in {"idle", "route", "resolve"},
         l \in WorkLabel => cache = t /\ x.coord = t,
         \A i \in 1..Len(x.todo) : x.todo[i].value # Malformed
  PROVE  CacheSound' /\ \A u \in Thread : Local(u)'
<1>1. cache' # Nil => log' = SubSeq(obj'[cache'].audit, 1, obj'[cache'].persisted)
  BY DEF DInv, Local, Level, Cached
<1>2. CacheSound'
  BY DEF DInv, CacheSound, Cached
<1> QED
  BY <1>1, <1>2, Arrive DEF DInv

\* A step of _get_or_load disturbs little.
LEMMA Reload ==
  ASSUME DInv, NEW t \in Thread, pc[t] \in Entry, pc' = pc,
         NEW v \in {"no", "state", "audit"}, loc' = [loc EXCEPT ![t].loading = v]
  PROVE  /\ loc'[t].loading = v
         /\ Working(t)' /\ Writing(t)' /\ Inserting(t)' /\ Wanted(t)'
<1>1. loc[t] \in Locals /\ loc'[t] = [loc[t] EXCEPT !.loading = v]
  BY DEF DInv, TypeInv, TypeOK
<1>2. /\ loc'[t].loading = v /\ loc'[t].todo = loc[t].todo
      /\ loc'[t].isNew = loc[t].isNew
  BY <1>1 DEF Locals
<1>3. /\ pc'[t] \notin WorkLabel /\ pc'[t] \notin PersistLabel
      /\ pc'[t] \notin {"slice", "count", "flush"} /\ pc'[t] = pc[t]
  BY DEF Entry, WorkLabel, PersistLabel
<1>4. Working(t)' /\ Writing(t)'
  BY <1>3 DEF Working, Writing, PersistLabel
<1>5. ~loc'[t].isNew
  BY <1>2, <1>3 DEF DInv, Local, Inserting
<1>6. Inserting(t)'
  BY <1>3, <1>5 DEF Inserting
<1>7. Wanted(t)'
  BY <1>2 DEF DInv, Local, Wanted
<1> QED
  BY <1>2, <1>4, <1>6, <1>7

\* The local variables of a request that has been answered.
Answered(r, a) == [Start0 EXCEPT !.resp = r, !.applied = a]
LEMMA AnswerLocals ==
  ASSUME NEW r \in {"none", "ok", "badRequest", "error"}, NEW a \in SUBSET SlotName
  PROVE  /\ Answered(r, a) \in Locals
         /\ Answered(r, a).loading = "no" /\ ~Answered(r, a).isNew
         /\ \A i \in 1..Len(Answered(r, a).todo) :
              Answered(r, a).todo[i].value # Malformed
<1> DEFINE x == Answered(r, a)
<1>1. x \in Locals
  BY Start0Type DEF Locals, Answered
<1>2. x.loading = "no" /\ x.isNew = FALSE /\ x.todo = <<>>
  BY DEF Start0, Answered
<1>3. 1..Len(<<>>) = {}
  OBVIOUS
<1> HIDE DEF x
<1>4. \A i \in 1..Len(x.todo) : x.todo[i].value # Malformed
  BY <1>2, <1>3
<1> QED
  BY <1>1, <1>2, <1>4 DEF x

\* So does answering a request,
LEMMA FinishQuietly ==
  ASSUME OneThread, DInv, NEW t \in Thread,
         NEW r \in {"none", "ok", "badRequest", "error"}, Finish(t, r),
         UNCHANGED <<cache, obj, log>>, pc[t] # "flush"
  PROVE  CacheSound' /\ \A u \in Thread : Local(u)'
<1> DEFINE x == Answered(r, loc[t].applied)
<1>1. /\ x \in Locals /\ x.loading = "no" /\ ~x.isNew
      /\ \A i \in 1..Len(x.todo) : x.todo[i].value # Malformed
  <2>1. loc[t] \in Locals
    BY DEF DInv, TypeInv, TypeOK
  <2> QED
    BY <2>1, AnswerLocals DEF Locals
<1>2. /\ "idle" \in Label /\ "idle" \notin InTransaction
      /\ "idle" \notin WorkLabel /\ "idle" # "dump"
  BY DEF Label, InTransaction, WorkLabel, PersistLabel
<1>3. pc' = [pc EXCEPT ![t] = "idle"] /\ loc' = [loc EXCEPT ![t] = x]
  BY DEF Finish, Go, Answered
<1> HIDE DEF x
<1> QED
  BY <1>1, <1>2, <1>3, ArriveQuietly

\* moving on with the local variables as they are,
LEMMA StayQuietly ==
  ASSUME OneThread, DInv, NEW t \in Thread, NEW l \in Label,
         pc' = [pc EXCEPT ![t] = l], loc' = loc,
         UNCHANGED <<cache, obj, log>>, pc[t] \notin InTransaction,
         loc[t].loading = "no", l \notin PersistLabel,
         l \in WorkLabel => pc[t] \in WorkLabel
  PROVE  CacheSound' /\ \A u \in Thread : Local(u)'
<1>1. loc[t] \in Locals /\ loc' = [loc EXCEPT ![t] = loc[t]]
  BY DEF DInv, TypeInv, TypeOK
<1>2. ~loc[t].isNew
  BY <1>1 DEF DInv, Local, Inserting, InTransaction, Locals
<1>3. \A i \in 1..Len(loc[t].todo) : loc[t].todo[i].value # Malformed
  BY DEF DInv, Local, Wanted
<1>4. l \in WorkLabel => cache = t /\ loc[t].coord = t
  BY DEF DInv, Local, Working
<1>5. pc[t] # "flush" /\ l # "dump" /\ l \notin InTransaction
  BY DEF InTransaction, PersistLabel
<1> QED
  BY <1>1, <1>2, <1>3, <1>4, <1>5, ArriveQuietly

\* and leaving persist_to_db, provided the database has what it should.
LEMMA PersistedArrives ==
  ASSUME OneThread, DInv, NEW t \in Thread, pc[t] \in PersistLabel, Persisted(t),
         UNCHANGED cache,
         cache' # Nil =>
           log' = SubSeq(obj'[cache'].audit, 1, obj'[cache'].persisted)
  PROVE  \A u \in Thread : Local(u)'
<1>0. TypeInv /\ loc[t] \in Locals /\ loc[t].next \in {"idle", "route", "resolve"}
      /\ cache = t /\ loc[t].coord = t
      /\ \A i \in 1..Len(loc[t].todo) : loc[t].todo[i].value # Malformed
  BY DEF DInv, TypeInv, TypeOK, Local, Writing, Working, WorkLabel, Wanted
<1>1. CASE loc[t].next = "idle"
  <2> DEFINE x == Answered("ok", loc[t].applied)
  <2>1. /\ x \in Locals /\ x.loading = "no" /\ ~x.isNew
        /\ \A i \in 1..Len(x.todo) : x.todo[i].value # Malformed
    BY <1>0, AnswerLocals DEF Locals
  <2>2. pc' = [pc EXCEPT ![t] = "idle"] /\ loc' = [loc EXCEPT ![t] = x]
    BY <1>1 DEF Persisted, Finish, Go, Answered
  <2>3. /\ "idle" \in Label /\ "idle" \notin InTransaction
        /\ "idle" \notin WorkLabel /\ "idle" # "dump"
    BY DEF Label, InTransaction, WorkLabel, PersistLabel
  <2> HIDE DEF x
  <2> QED
    BY <1>0, <2>1, <2>2, <2>3, Arrive
<1>2. CASE loc[t].next # "idle"
  <2> DEFINE x == [loc[t] EXCEPT !.dump = Blank, !.rowVer = 0, !.isNew = FALSE,
                                 !.batch = <<>>, !.next = "idle"]
             l == loc[t].next
  <2>1. loc' = [loc EXCEPT ![t] = x] /\ pc' = [pc EXCEPT ![t] = l]
    BY <1>2 DEF Persisted, Go
  <2>2. x \in Locals
    <3>1. <<>> \in Seq(Transition) /\ "idle" \in Label
      BY DEF Label
    <3> QED
      BY <1>0, <3>1, FreshType DEF Locals
  <2>3. ~x.isNew /\ x.coord = t /\ x.loading = loc[t].loading /\ x.todo = loc[t].todo
    BY <1>0 DEF Locals
  <2>4. loc[t].loading = "no"
    BY DEF DInv, Local, Loading, Entry, PersistLabel
  <2>5. l \in Label /\ l \notin InTransaction /\ l # "dump"
    BY <1>0 DEF Label, InTransaction
  <2> HIDE DEF x, l
  <2> QED
    BY <1>0, <2>1, <2>2, <2>3, <2>4, <2>5, Arrive
<1> QED
  BY <1>1, <1>2

\* A mutator works on the cached coordinator.
LEMMA Mutated ==
  ASSUME OneThread, DInv, NEW t \in Thread, cache = t, NEW d \in CoordinatorType,
         Grows(obj[t], d), Sound(d), Update(t, d), pc[t] # "flush",
         UNCHANGED <<cache, log>>
  PROVE  /\ CacheSound'
         /\ log' = SubSeq(obj'[cache'].audit, 1, obj'[cache'].persisted)
<1>1. cache # Nil /\ obj'[t] = d /\ Cached = obj[t]
  BY ThreadAssumption DEF Update, DInv, TypeInv, TypeOK, Cached
<1>2. /\ obj[t].persisted \in 0..Len(obj[t].audit)
      /\ log = SubSeq(obj[t].audit, 1, obj[t].persisted)
      /\ obj[t] \in CoordinatorType
  BY <1>1 DEF DInv, CacheSound, Local, Level, TypeInv, TypeOK, CoordinatorType
<1>3. Len(d.audit) \in Nat /\ Len(obj[t].audit) \in Nat
  BY <1>2 DEF CoordinatorType
<1>4. /\ d.persisted = obj[t].persisted /\ d.persisted =< Len(d.audit)
      /\ log = SubSeq(d.audit, 1, d.persisted)
  BY <1>2, <1>3 DEF Grows
<1> QED
  BY <1>1, <1>4 DEF CacheSound, Cached

-----------------------------------------------------------------------------
\* Every step keeps the invariant.
LEMMA DurableStep == ASSUME Benign, DInv, [Next]_vars PROVE DInv'
<1>T. /\ TypeInv /\ OneThread
      /\ cache \in Thread \cup {Nil} /\ obj \in [Thread -> CoordinatorType]
      /\ row \in Row /\ log \in Seq(Transition) /\ pc \in [Thread -> Label]
      /\ loc \in [Thread -> Locals]
  BY DEF DInv, TypeInv, TypeOK, Benign
<1>I. /\ StoreSound /\ CacheSound
      /\ \A t \in Thread : /\ Level(t) /\ Working(t) /\ Writing(t)
                           /\ Inserting(t) /\ Loading(t) /\ Wanted(t)
  BY DEF DInv, Local
<1>F. "load" \notin Faults /\ "commit" \notin Faults /\ "delete" \notin Faults
  BY DEF Benign
<1>S. ASSUME UNCHANGED <<row, log>> PROVE StoreSound'
  BY <1>I, <1>S DEF StoreSound
<1>E. ASSUME NEW t \in Thread, pc[t] \notin Entry PROVE loc[t].loading = "no"
  BY <1>I, <1>E DEF Loading
<1>M. ASSUME NEW t \in Thread, cache # Nil PROVE cache = t /\ Cached = obj[t]
  BY <1>T, <1>M, CachedIsMine DEF Cached
<1>L. /\ "idle" \in Label /\ "read" \in Label /\ "register" \in Label
      /\ "plan" \in Label /\ "intent" \in Label /\ "route" \in Label
      /\ "run" \in Label /\ "record" \in Label /\ "gate" \in Label
      /\ "ask" \in Label /\ "propose" \in Label /\ "commit" \in Label
      /\ "snapshot" \in Label /\ "apply" \in Label /\ "resolve" \in Label
      /\ "result" \in Label /\ PersistLabel \subseteq Label
  BY DEF Label
<1> USE DEF InTransaction, PersistLabel, WorkLabel, Entry
<1>1. ASSUME NEW t \in Thread, LoadState(t)
      PROVE  StoreSound' /\ CacheSound' /\ \A u \in Thread : Local(u)'
  <2>1. StoreSound' /\ CacheSound' /\ cache' = Nil /\ pc' = pc
    BY <1>1, <1>S DEF LoadState, CacheSound
  <2>2. PICK v \in {"state", "audit"} :
          /\ loc' = [loc EXCEPT ![t].loading = v] /\ pc[t] \in Entry /\ cache = Nil
          /\ v = "state" => row.kind = "full"
                            /\ obj' = [obj EXCEPT ![t] = [Fresh EXCEPT !.state = row.state]]
          /\ v = "audit" => row.kind # "full" /\ obj' = [obj EXCEPT ![t] = Fresh]
    BY <1>1, <1>F, <1>I DEF LoadState, StoreSound
  <2>3. /\ loc'[t].loading = v
        /\ Working(t)' /\ Writing(t)' /\ Inserting(t)' /\ Wanted(t)'
    BY <2>1, <2>2, Reload
  <2>4. Loading(t)'
    <3>1. CASE v = "state"
      BY <1>1, <1>T, <2>1, <2>2, <2>3, <3>1 DEF Loading, LoadState
    <3>2. CASE v = "audit"
      <4>1. obj'[t] = Fresh /\ log' = <<>>
        BY <1>1, <1>T, <1>I, <2>2, <3>2 DEF StoreSound, LoadState
      <4> QED
        BY <2>1, <2>2, <2>3, <3>2, <4>1, FreshSound DEF Loading, Fresh
    <3> QED
      BY <3>1, <3>2
  <2>6. Local(t)'
    BY <2>1, <2>3, <2>4 DEF Local, Level
  <2> QED
    BY <2>1, <2>6, <1>T DEF OneThread
<1>2. ASSUME NEW t \in Thread, LoadAudit(t)
      PROVE  StoreSound' /\ CacheSound' /\ \A u \in Thread : Local(u)'
  <2>1. /\ row.kind = "full" /\ obj[t] = [Fresh EXCEPT !.state = row.state]
        /\ cache = Nil /\ pc[t] \in Entry
    BY <1>2, <1>I DEF LoadAudit, Loading
  <2>2. /\ row.ver = Len(log) /\ GapFree(log) /\ Explains(log, row.state)
        /\ Readable(row.state) /\ Heeds(log, row.state)
    BY <2>1, <1>I DEF StoreSound
  <2>3. Orders(log) = {[i \in 1..Len(log) |-> i]}
    BY <2>2 DEF Orders, InOrder, GapFree
  <2>4. obj' = [obj EXCEPT ![t].audit = [i \in 1..Len(log) |-> log[i]],
                           ![t].persisted = Len(log)]
    BY <1>2, <1>F, <2>3 DEF LoadAudit
  <2>5. [i \in 1..Len(log) |-> log[i]] = log
    BY <1>T
  <2>6. /\ obj'[t].audit = log /\ obj'[t].persisted = Len(log)
        /\ obj'[t].state = row.state
    BY <2>1, <2>4, <2>5, <1>T DEF CoordinatorType
  <2>7. Sound(obj'[t])
    BY <2>2, <2>6 DEF Sound
  <2>8. StoreSound' /\ CacheSound' /\ cache' = Nil /\ pc' = pc
    BY <1>2, <2>1, <1>S DEF LoadAudit, CacheSound
  <2>9. /\ loc'[t].loading = "audit"
        /\ Working(t)' /\ Writing(t)' /\ Inserting(t)' /\ Wanted(t)'
    BY <1>2, <2>1, <2>8, Reload DEF LoadAudit
  <2>10. Local(t)'
    BY <1>2, <2>1, <2>6, <2>7, <2>8, <2>9 DEF LoadAudit, Local, Level, Loading
  <2> QED
    BY <2>8, <2>10, <1>T DEF OneThread
<1>3. ASSUME NEW t \in Thread, Install(t)
      PROVE  StoreSound' /\ CacheSound' /\ \A u \in Thread : Local(u)'
  <2>1. /\ cache = Nil /\ pc[t] \in Entry /\ Sound(obj[t]) /\ obj[t].audit = log
        /\ obj[t].persisted = Len(log)
    BY <1>3, <1>I DEF Install, Loading
  <2>2. cache' = t /\ UNCHANGED <<obj, pc, row, log>> /\ Cached' = obj[t]
    BY <1>3 DEF Install, Cached
  <2>3. /\ loc'[t].loading = "no"
        /\ Working(t)' /\ Writing(t)' /\ Inserting(t)' /\ Wanted(t)'
    BY <1>3, <2>1, <2>2, Reload DEF Install
  <2>4. log = SubSeq(obj[t].audit, 1, obj[t].persisted) /\ Len(log) \in Nat
    BY <2>1, <1>T, WholeLog
  <2>5. StoreSound' /\ CacheSound'
    BY <2>1, <2>2, <2>4, <1>S DEF CacheSound
  <2>6. Local(t)'
    BY <2>1, <2>2, <2>3, <2>4 DEF Local, Level, Loading
  <2> QED
    BY <2>5, <2>6, <1>T DEF OneThread
<1>4. ASSUME NEW t \in Thread, NEW l \in {"register", "ask", "commit", "read"},
             NEW x \in Locals, pc[t] = "idle", Go(t, l),
             loc' = [loc EXCEPT ![t] = x], UNCHANGED <<cache, obj, row, log>>,
             x.loading = "no", ~x.isNew,
             \A i \in 1..Len(x.todo) : x.todo[i].value # Malformed
      PROVE  StoreSound' /\ CacheSound' /\ \A u \in Thread : Local(u)'
  <2>1. pc' = [pc EXCEPT ![t] = l]
    BY <1>4 DEF Go
  <2>2. l \in Label /\ l \notin InTransaction /\ l \notin WorkLabel /\ l # "dump"
    BY <1>L
  <2>3. UNCHANGED <<cache, obj, log>> /\ pc[t] # "flush"
    BY <1>4
  <2>4. CacheSound' /\ \A u \in Thread : Local(u)'
    BY <1>4, <1>T, <2>1, <2>2, <2>3, ArriveQuietly
  <2> QED
    BY <1>4, <1>S, <2>4
<1>5. /\ Start0 \in Locals /\ Start0.loading = "no" /\ ~Start0.isNew
      /\ Start0.todo = <<>> /\ \A x : x \notin 1..Len(<<>>)
  BY Start0Type DEF Start0
<1>6. ASSUME NEW t \in Thread, Start(t)
      PROVE  StoreSound' /\ CacheSound' /\ \A u \in Thread : Local(u)'
  <2>1. CASE StartTurn(t)
    <3>1. PICK q \in Query, b \in BOOLEAN :
            Begin(t, "register", [Start0 EXCEPT !.query = q, !.bypass = b])
      BY <2>1 DEF StartTurn
    <3> DEFINE x == [Start0 EXCEPT !.query = q, !.bypass = b]
    <3>2. /\ x \in Locals /\ x.loading = Start0.loading /\ x.isNew = Start0.isNew
          /\ x.todo = Start0.todo
      BY <1>5 DEF Locals
    <3>3. /\ pc[t] = "idle" /\ Go(t, "register") /\ loc' = [loc EXCEPT ![t] = x]
          /\ UNCHANGED <<cache, obj, row, log>>
      BY <3>1 DEF Begin
    <3> HIDE DEF x
    <3> QED
      BY <1>4, <1>5, <3>2, <3>3
  <2>2. CASE StartProposal(t)
    <3>1. /\ pc[t] = "idle" /\ Go(t, "ask") /\ loc' = [loc EXCEPT ![t] = Start0]
          /\ UNCHANGED <<cache, obj, row, log>>
      BY <2>2 DEF StartProposal, Begin
    <3> QED
      BY <1>4, <1>5, <3>1
  <2>3. CASE StartCommit(t)
    <3>1. PICK d \in Decision, n \in {p.turn : p \in proposals} \cup {0},
               r \in BOOLEAN :
            Begin(t, "commit", [Start0 EXCEPT !.todo = d, !.turn = n, !.resume = r])
      BY <2>3 DEF StartCommit
    <3> DEFINE x == [Start0 EXCEPT !.todo = d, !.turn = n, !.resume = r]
    <3>2. n \in Nat /\ d \in Seq(Change)
      BY <1>T, DecisionAssumption DEF TypeInv, TypeOK, Proposal
    <3>3. /\ x \in Locals /\ x.loading = Start0.loading /\ x.isNew = Start0.isNew
          /\ x.todo = d
      BY <1>5, <3>2 DEF Locals
    <3>4. /\ pc[t] = "idle" /\ Go(t, "commit") /\ loc' = [loc EXCEPT ![t] = x]
          /\ UNCHANGED <<cache, obj, row, log>>
      BY <3>1 DEF Begin
    <3>5. \A i \in 1..Len(d) : d[i].value # Malformed
      BY DEF Benign
    <3> HIDE DEF x
    <3> QED
      BY <1>4, <1>5, <3>3, <3>4, <3>5
  <2>4. CASE StartRead(t)
    <3>1. /\ pc[t] = "idle" /\ Go(t, "read") /\ loc' = [loc EXCEPT ![t] = Start0]
          /\ UNCHANGED <<cache, obj, row, log>>
      BY <2>4 DEF StartRead
    <3> QED
      BY <1>4, <1>5, <3>1
  <2> QED
    BY <1>6, <2>1, <2>2, <2>3, <2>4 DEF Start
\* A thread that only answers.
<1>7. ASSUME NEW t \in Thread, NEW r \in {"none", "ok", "badRequest", "error"},
             Finish(t, r), UNCHANGED <<cache, obj, row, log>>, pc[t] # "flush"
      PROVE  StoreSound' /\ CacheSound' /\ \A u \in Thread : Local(u)'
  BY <1>7, <1>T, <1>S, FinishQuietly
\* A thread that only moves on.
<1>8. ASSUME NEW t \in Thread, NEW l \in Label, Go(t, l), UNCHANGED loc,
             UNCHANGED <<cache, obj, row, log>>, pc[t] \notin InTransaction,
             loc[t].loading = "no", l \notin PersistLabel,
             l \in WorkLabel => pc[t] \in WorkLabel
      PROVE  StoreSound' /\ CacheSound' /\ \A u \in Thread : Local(u)'
  BY <1>8, <1>T, <1>S, StayQuietly DEF Go
\* A thread that notes something and moves on.
<1>9. ASSUME NEW t \in Thread, NEW l \in Label, NEW x \in Locals, Go(t, l),
             loc' = [loc EXCEPT ![t] = x], UNCHANGED <<cache, obj, row, log>>,
             pc[t] \notin InTransaction, x.loading = "no", x.isNew = loc[t].isNew,
             x.todo = loc[t].todo, l \notin PersistLabel,
             l \in WorkLabel => cache = t /\ x.coord = t
      PROVE  StoreSound' /\ CacheSound' /\ \A u \in Thread : Local(u)'
  <2>1. /\ ~x.isNew /\ pc[t] # "flush" /\ l # "dump" /\ l \notin InTransaction
        /\ \A i \in 1..Len(x.todo) : x.todo[i].value # Malformed
    BY <1>9, <1>I DEF Inserting, Wanted
  <2> QED
    BY <1>9, <1>T, <1>S, <2>1, ArriveQuietly DEF Go
<1>10. ASSUME NEW t \in Thread, Read(t)
       PROVE  StoreSound' /\ CacheSound' /\ \A u \in Thread : Local(u)'
  BY <1>10, <1>7 DEF Read, Ready
<1>11. ASSUME NEW t \in Thread, Register(t)
       PROVE  StoreSound' /\ CacheSound' /\ \A u \in Thread : Local(u)'
  <2>1. /\ loc[t].loading = "no" /\ pc' = [pc EXCEPT ![t] = "plan"]
        /\ UNCHANGED <<cache, obj, log, loc>>
    BY <1>11, <1>E DEF Register, Go
  <2>2. CacheSound' /\ \A u \in Thread : Local(u)'
    BY <1>11, <1>T, <1>L, <2>1, StayQuietly DEF Register
  <2>3. StoreSound'
    BY <1>11, <1>I, <1>S, <2>1 DEF Register, StoreSound, BareRow
  <2> QED
    BY <2>2, <2>3
<1>12. ASSUME NEW t \in Thread, Route(t)
       PROVE  StoreSound' /\ CacheSound' /\ \A u \in Thread : Local(u)'
  <2>1. loc[t].loading = "no"
    BY <1>12, <1>E DEF Route
  <2> QED
    BY <1>12, <2>1, <1>7, <1>8, <1>L DEF Route
<1>13. ASSUME NEW t \in Thread, Ready(t, pc[t]), NEW n \in Nat
       PROVE  LET x == [loc[t] EXCEPT !.turn = n]
              IN /\ x \in Locals /\ x.loading = "no" /\ x.isNew = loc[t].isNew
                 /\ x.todo = loc[t].todo
  <2>1. loc[t] \in Locals /\ loc[t].loading = "no"
    BY <1>13, <1>T DEF Ready
  <2> QED
    BY <2>1 DEF Locals
\* A thread that reads last_turn_id from the cached coordinator.
<1>14. ASSUME NEW t \in Thread, NEW l \in {"intent", "record", "propose"},
              NEW n \in Nat, pc[t] \in Entry, Ready(t, pc[t]), Go(t, l),
              loc' = [loc EXCEPT ![t].turn = n], UNCHANGED <<cache, obj, row, log>>
       PROVE  StoreSound' /\ CacheSound' /\ \A u \in Thread : Local(u)'
  <2> DEFINE x == [loc[t] EXCEPT !.turn = n]
  <2>1. /\ x \in Locals /\ x.loading = "no" /\ x.isNew = loc[t].isNew
        /\ x.todo = loc[t].todo
    BY <1>13, <1>14
  <2>2. loc' = [loc EXCEPT ![t] = x]
    BY <1>14
  <2> HIDE DEF x
  <2> QED
    BY <1>9, <1>14, <1>L, <2>1, <2>2
<1>15. ASSUME NEW t \in Thread, cache # Nil
       PROVE  Cached.state.lastTurn \in Nat /\ Cached.state.lastTurn + 1 \in Nat
  BY <1>15, <1>T DEF Cached, CoordinatorType, State
<1>16. ASSUME NEW t \in Thread, Plan(t)
       PROVE  StoreSound' /\ CacheSound' /\ \A u \in Thread : Local(u)'
  BY <1>16, <1>8, <1>14, <1>15, <1>L DEF Plan, Ready
<1>17. ASSUME NEW t \in Thread, Run(t) \/ Gate(t) \/ Ask(t)
       PROVE  StoreSound' /\ CacheSound' /\ \A u \in Thread : Local(u)'
  BY <1>17, <1>7, <1>14, <1>15 DEF Run, Gate, Ask, Ready
<1>18. ASSUME NEW t \in Thread, Propose(t)
       PROVE  StoreSound' /\ CacheSound' /\ \A u \in Thread : Local(u)'
  BY <1>18, <1>7 DEF Propose, Ready
<1>19. ASSUME NEW t \in Thread, Commit(t)
       PROVE  StoreSound' /\ CacheSound' /\ \A u \in Thread : Local(u)'
  <2>1. pc[t] = "commit" /\ loc[t].loading = "no" /\ UNCHANGED <<cache, obj, row, log>>
    BY <1>19, <1>E DEF Commit
  <2>2. ASSUME NEW p \in proposals, Go(t, "snapshot"),
               loc' = [loc EXCEPT ![t].query = p.query]
        PROVE  StoreSound' /\ CacheSound' /\ \A u \in Thread : Local(u)'
    <3> DEFINE x == [loc[t] EXCEPT !.query = p.query]
    <3>1. /\ x \in Locals /\ x.loading = loc[t].loading /\ x.isNew = loc[t].isNew
          /\ x.todo = loc[t].todo
      <4>1. p.query \in Query \cup {NoQuery} /\ loc[t] \in Locals
        BY <1>T DEF TypeInv, TypeOK, Proposal
      <4> QED
        BY <4>1 DEF Locals
    <3>2. loc' = [loc EXCEPT ![t] = x]
      BY <2>2
    <3> HIDE DEF x
    <3> QED
      BY <1>9, <1>L, <2>1, <2>2, <3>1, <3>2
  <2> QED
    BY <1>19, <1>7, <2>1, <2>2 DEF Commit
<1>20. ASSUME NEW t \in Thread, Snapshot(t)
       PROVE  StoreSound' /\ CacheSound' /\ \A u \in Thread : Local(u)'
  <2>1. /\ pc[t] = "snapshot" /\ loc[t].loading = "no" /\ cache # Nil /\ cache = t
        /\ UNCHANGED <<cache, obj, row, log>>
    BY <1>20, <1>M DEF Snapshot, Ready
  <2>2. ASSUME Go(t, "apply"),
               loc' = [loc EXCEPT ![t] = [@ EXCEPT !.coord = cache,
                                          !.frozen = Cached.state.frozen,
                                          !.before = Cached.state.version]]
        PROVE  StoreSound' /\ CacheSound' /\ \A u \in Thread : Local(u)'
    <3> DEFINE x == [loc[t] EXCEPT !.coord = cache,
                                   !.frozen = Cached.state.frozen,
                                   !.before = Cached.state.version]
    <3>0. Cached.state \in State
      BY <1>T, <2>1 DEF Cached, CoordinatorType
    <3>1. /\ Cached.state.frozen \in SUBSET SlotName
          /\ Cached.state.version \in Nat /\ loc[t] \in Locals
      BY <3>0, <1>T DEF State
    <3>2. /\ x \in Locals /\ x.loading = loc[t].loading /\ x.isNew = loc[t].isNew
          /\ x.todo = loc[t].todo /\ x.coord = t
      BY <1>T, <2>1, <3>1 DEF Locals
    <3>3. loc' = [loc EXCEPT ![t] = x]
      BY <2>2
    <3> HIDE DEF x
    <3> QED
      BY <1>9, <1>L, <2>1, <2>2, <3>2, <3>3
  <2> QED
    BY <1>20, <1>7, <2>1, <2>2 DEF Snapshot
\* A thread past the snapshot works on the cached object.
<1>21. ASSUME NEW t \in Thread, pc[t] \in WorkLabel
       PROVE  /\ loc[t].coord = t /\ cache = t /\ Cached = obj[t] /\ cache # Nil
              /\ loc[t].loading = "no" /\ obj[t] \in CoordinatorType /\ Sound(obj[t])
              /\ loc[t] \in Locals
  <2>1. loc[t].coord = t /\ cache = t /\ loc[t].loading = "no" /\ cache # Nil
    BY <1>21, <1>I, <1>E, ThreadAssumption DEF Working
  <2> QED
    BY <2>1, <1>I, <1>T DEF CacheSound, Cached
\* A mutator ran and the thread goes on with x.
<1>22. ASSUME NEW t \in Thread, NEW l \in {"apply", "dump"}, NEW x \in Locals,
              NEW d \in CoordinatorType, cache = t, Sound(d), Grows(obj[t], d),
              Update(t, d), pc' = [pc EXCEPT ![t] = l], loc' = [loc EXCEPT ![t] = x],
              UNCHANGED <<cache, row, log>>, pc[t] # "flush",
              x.loading = "no", ~x.isNew, x.coord = t,
              l = "dump" => x.next \in {"idle", "route", "resolve"},
              \A i \in 1..Len(x.todo) : x.todo[i].value # Malformed
       PROVE  StoreSound' /\ CacheSound' /\ \A u \in Thread : Local(u)'
  <2>1. /\ CacheSound'
        /\ log' = SubSeq(obj'[cache'].audit, 1, obj'[cache'].persisted)
    BY <1>22, <1>T, Mutated
  <2>2. l \in Label /\ l \notin InTransaction
    BY <1>L
  <2>3. \A u \in Thread : Local(u)'
    BY <1>22, <1>T, <2>1, <2>2, Arrive
  <2> QED
    BY <1>22, <1>S, <2>1, <2>3
\* What persist_to_db is entered with.
<1>23. ASSUME NEW t \in Thread, NEW n \in {"idle", "route", "resolve"},
              loc[t].loading = "no", pc[t] \notin InTransaction
       PROVE  LET x == [loc[t] EXCEPT !.coord = t, !.next = n]
              IN /\ x \in Locals /\ x.loading = "no" /\ ~x.isNew /\ x.coord = t
                 /\ x.next = n
                 /\ \A i \in 1..Len(x.todo) : x.todo[i].value # Malformed
  <2> DEFINE x == [loc[t] EXCEPT !.coord = t, !.next = n]
  <2>0. n \in Label /\ t \in Thread \cup {Nil} /\ loc[t] \in Locals
    BY <1>L, <1>T
  <2>1. /\ x \in Locals /\ x.loading = "no" /\ x.isNew = loc[t].isNew
        /\ x.coord = t /\ x.next = n /\ x.todo = loc[t].todo
    BY <1>23, <2>0 DEF Locals
  <2>2. ~loc[t].isNew
    BY <1>23, <1>I, <1>T DEF Inserting, Locals
  <2>3. \A i \in 1..Len(x.todo) : x.todo[i].value # Malformed
    BY <1>I, <2>1 DEF Wanted
  <2> HIDE DEF x
  <2>4. /\ x \in Locals /\ x.loading = "no" /\ ~x.isNew /\ x.coord = t /\ x.next = n
        /\ \A i \in 1..Len(x.todo) : x.todo[i].value # Malformed
    BY <2>1, <2>2, <2>3
  <2> QED
    BY <2>4 DEF x
<1>24. ASSUME NEW t \in Thread, cache = t
       PROVE  obj[t] \in CoordinatorType /\ Grows(obj[t], obj[t]) /\ Sound(obj[t])
  BY <1>24, <1>T, <1>I, ThreadAssumption DEF Grows, CoordinatorType, CacheSound, Cached
<1>25. ASSUME NEW t \in Thread, Intent(t)
       PROVE  StoreSound' /\ CacheSound' /\ \A u \in Thread : Local(u)'
  <2> DEFINE x == [loc[t] EXCEPT !.coord = t, !.next = "route"]
  <2>1. /\ pc[t] = "intent" /\ loc[t].loading = "no" /\ cache = t /\ Cached = obj[t]
        /\ pc' = [pc EXCEPT ![t] = "dump"] /\ UNCHANGED <<cache, row, log>>
    BY <1>25, <1>M DEF Intent, Ready, PersistThen, Go
  <2>2. loc' = [loc EXCEPT ![t] = x]
    BY <1>25, <2>1, <1>T DEF Intent, PersistThen, Locals
  <2>3. PICK v \in Value : Update(t, SetIntent(obj[t], v, loc[t].turn))
    BY <1>25, <2>1 DEF Intent
  <2>4. loc[t].turn \in Nat
    BY <1>T DEF Locals
  <2>5. obj[t] \in CoordinatorType /\ Sound(obj[t])
    BY <1>24, <2>1
  <2> DEFINE d == SetIntent(obj[t], v, loc[t].turn)
  <2>6. d \in CoordinatorType /\ Sound(d) /\ Grows(obj[t], d)
    BY <2>4, <2>5, SetterTypes, SetterSound, SetterGrows
  <2>7. /\ x \in Locals /\ x.loading = "no" /\ ~x.isNew /\ x.coord = t
        /\ x.next \in {"idle", "route", "resolve"}
        /\ \A i \in 1..Len(x.todo) : x.todo[i].value # Malformed
    BY <2>1, <1>23
  <2> HIDE DEF x, d
  <2> QED
    BY <1>22, <2>1, <2>2, <2>3, <2>6, <2>7 DEF d
<1>26. ASSUME NEW t \in Thread, Record(t)
       PROVE  StoreSound' /\ CacheSound' /\ \A u \in Thread : Local(u)'
  <2> DEFINE x == [loc[t] EXCEPT !.coord = t, !.next = "idle"]
  <2>1. /\ pc[t] = "record" /\ loc[t].loading = "no" /\ cache = t /\ Cached = obj[t]
        /\ pc' = [pc EXCEPT ![t] = "dump"] /\ UNCHANGED <<cache, row, log>>
    BY <1>26, <1>M DEF Record, Ready, PersistThen, Go
  <2>2. loc' = [loc EXCEPT ![t] = x]
    BY <1>26, <2>1, <1>T DEF Record, PersistThen, Locals
  <2>3. loc[t].turn \in Nat
    BY <1>T DEF Locals
  <2>4. obj[t] \in CoordinatorType /\ Sound(obj[t]) /\ Grows(obj[t], obj[t])
    BY <1>24, <2>1
  <2>5. PICK d \in CoordinatorType :
          Sound(d) /\ Grows(obj[t], d) /\ Update(t, d)
    <3>1. CASE UNCHANGED obj
      <4>1. Update(t, obj[t])
        BY <3>1, <1>T DEF Update
      <4> QED
        BY <2>4, <4>1
    <3>2. CASE \E s \in Slot \cap RunSlots, v \in Value :
                 Update(t, SetActiveRun(obj[t], s, v, loc[t].turn))
      BY <3>2, <2>3, <2>4, SetterTypes, SetterSound, SetterGrows
    <3> QED
      BY <1>26, <2>1, <3>1, <3>2 DEF Record
  <2>6. /\ x \in Locals /\ x.loading = "no" /\ ~x.isNew /\ x.coord = t
        /\ x.next \in {"idle", "route", "resolve"}
        /\ \A i \in 1..Len(x.todo) : x.todo[i].value # Malformed
    BY <2>1, <1>23
  <2> HIDE DEF x
  <2> QED
    BY <1>22, <2>1, <2>2, <2>5, <2>6
<1>27. ASSUME NEW t \in Thread, Apply(t)
       PROVE  StoreSound' /\ CacheSound' /\ \A u \in Thread : Local(u)'
  <2> DEFINE ch == Head(loc[t].todo)
  <2>1. /\ pc[t] = "apply" /\ loc[t].todo # <<>> /\ pc' = [pc EXCEPT ![t] = "apply"]
        /\ UNCHANGED <<cache, row, log>>
    BY <1>27, <1>T DEF Apply
  <2>2. /\ loc[t].coord = t /\ cache = t /\ loc[t].loading = "no"
        /\ obj[t] \in CoordinatorType /\ Sound(obj[t]) /\ loc[t] \in Locals
        /\ Grows(obj[t], obj[t])
    BY <2>1, <1>21, <1>24
  <2>3. /\ ch \in Change /\ ch.value # Malformed
        /\ Tail(loc[t].todo) \in Seq(Change)
        /\ \A i \in 1..Len(Tail(loc[t].todo)) : Tail(loc[t].todo)[i].value # Malformed
    <3>1. loc[t].todo \in Seq(Change) /\ \A i \in 1..Len(loc[t].todo) :
                                           loc[t].todo[i].value # Malformed
      BY <2>2, <1>I DEF Locals, Wanted
    <3>2. /\ Len(loc[t].todo) \in Nat \ {0} /\ Head(loc[t].todo) = loc[t].todo[1]
          /\ loc[t].todo[1] \in Change
      BY <3>1, <2>1
    <3>3. /\ Tail(loc[t].todo) \in Seq(Change)
          /\ Len(Tail(loc[t].todo)) = Len(loc[t].todo) - 1
          /\ \A i \in 1..Len(Tail(loc[t].todo)) :
               Tail(loc[t].todo)[i] = loc[t].todo[i + 1]
      BY <3>1, <2>1, HeadTailProperties
    <3> QED
      BY <3>1, <3>2, <3>3
  <2>4. ch.slot \in SlotName /\ ch.value \in (Val \cup {Junk}) \ {Malformed}
    BY <2>3 DEF Change
  <2>5. loc[t].turn \in Nat /\ ~loc[t].isNew
    BY <2>1, <2>2, <1>I DEF Locals, Inserting
  <2>6. PICK x \in Locals :
          /\ loc' = [loc EXCEPT ![t] = x] /\ x.loading = "no" /\ ~x.isNew
          /\ x.coord = t /\ x.todo = Tail(loc[t].todo)
    <3> DEFINE rest == [loc[t] EXCEPT !.todo = Tail(loc[t].todo)]
               skip == [rest EXCEPT !.skipped = @ \cup {ch.slot}]
               note == [rest EXCEPT !.applied = @ \cup {ch.slot}]
    <3>1. /\ rest \in Locals /\ rest.loading = "no" /\ rest.isNew = loc[t].isNew
          /\ rest.coord = t /\ rest.todo = Tail(loc[t].todo)
      BY <2>2, <2>3 DEF Locals
    <3>2. loc' = [loc EXCEPT ![t] = rest] \/ loc' = [loc EXCEPT ![t] = skip]
            \/ loc' = [loc EXCEPT ![t] = note]
      BY <1>27 DEF Apply
    <3> HIDE DEF rest
    <3>3. /\ skip \in Locals /\ skip.loading = "no" /\ skip.isNew = loc[t].isNew
          /\ skip.coord = t /\ skip.todo = Tail(loc[t].todo)
      BY <2>4, <3>1 DEF Locals
    <3>4. /\ note \in Locals /\ note.loading = "no" /\ note.isNew = loc[t].isNew
          /\ note.coord = t /\ note.todo = Tail(loc[t].todo)
      BY <2>4, <3>1 DEF Locals
    <3> HIDE DEF skip, note
    <3> QED
      BY <2>5, <3>1, <3>2, <3>3, <3>4
  <2>7. PICK d \in CoordinatorType :
          Sound(d) /\ Grows(obj[t], d) /\ Update(t, d)
    <3>1. CASE UNCHANGED obj
      <4>1. Update(t, obj[t])
        BY <3>1, <1>T DEF Update
      <4> QED
        BY <2>2, <4>1
    <3>2. CASE Update(t, ApplyMutation(obj[t], ch.slot, ch.value, loc[t].turn))
      BY <3>2, <2>2, <2>4, <2>5, SetterTypes, SetterSound, SetterGrows
    <3>3. CASE \E pin \in Pins : Update(t, Pin(obj[t], ch.slot, loc[t].turn, pin))
      BY <3>3, <2>2, <2>4, <2>5, PinType, PinSound, PinGrows
    <3>4. Pinned \in Pins /\ Unpinned \in Pins
      BY DEF Pins
    <3> QED
      BY <1>27, <2>2, <3>1, <3>2, <3>3, <3>4 DEF Apply
  <2>8. \A i \in 1..Len(x.todo) : x.todo[i].value # Malformed
    BY <2>3, <2>6
  <2> HIDE DEF ch
  <2> QED
    BY <1>22, <2>1, <2>2, <2>6, <2>7, <2>8
<1>28. ASSUME NEW t \in Thread, Applied(t)
       PROVE  StoreSound' /\ CacheSound' /\ \A u \in Thread : Local(u)'
  <2> DEFINE x == [loc[t] EXCEPT !.coord = t, !.next = "resolve"]
  <2>1. /\ pc[t] = "apply" /\ pc' = [pc EXCEPT ![t] = "dump"]
        /\ UNCHANGED <<cache, obj, row, log>>
        /\ loc' = [loc EXCEPT ![t] = [loc[t] EXCEPT !.next = "resolve"]]
    BY <1>28 DEF Applied, PersistThen, Go
  <2>2. loc[t].coord = t /\ cache = t /\ loc[t].loading = "no" /\ loc[t] \in Locals
    BY <2>1, <1>21
  <2>3. loc' = [loc EXCEPT ![t] = x]
    BY <2>1, <2>2 DEF Locals
  <2>4. /\ x \in Locals /\ x.loading = "no" /\ ~x.isNew /\ x.coord = t
        /\ x.next \in {"idle", "route", "resolve"}
        /\ \A i \in 1..Len(x.todo) : x.todo[i].value # Malformed
    BY <2>1, <2>2, <1>23
  <2>5. Update(t, obj[t])
    BY <2>1, <1>T DEF Update
  <2> HIDE DEF x
  <2> QED
    BY <1>22, <1>24, <2>1, <2>2, <2>3, <2>4, <2>5
<1>29. ASSUME NEW t \in Thread, Resolve(t)
       PROVE  StoreSound' /\ CacheSound' /\ \A u \in Thread : Local(u)'
  <2>1. pc[t] = "resolve" /\ loc[t].loading = "no" /\ UNCHANGED <<cache, obj, row, log>>
    BY <1>29, <1>21 DEF Resolve
  <2> QED
    BY <1>29, <1>7, <1>8, <1>L, <2>1 DEF Resolve
<1>30. ASSUME NEW t \in Thread, Result(t)
       PROVE  StoreSound' /\ CacheSound' /\ \A u \in Thread : Local(u)'
  <2>1. pc[t] = "result" /\ loc[t] \in Locals /\ UNCHANGED <<cache, obj, row, log>>
    BY <1>30, <1>21 DEF Result
  <2>2. ASSUME Go(t, "plan"),
               loc' = [loc EXCEPT ![t] = [Start0 EXCEPT !.query = loc[t].query,
                                                        !.bypass = TRUE]]
        PROVE  StoreSound' /\ CacheSound' /\ \A u \in Thread : Local(u)'
    <3> DEFINE x == [Start0 EXCEPT !.query = loc[t].query, !.bypass = TRUE]
    <3>1. /\ x \in Locals /\ x.loading = "no" /\ ~x.isNew /\ x.todo = <<>>
      BY <1>5, <2>1 DEF Locals
    <3>2. \A i \in 1..Len(x.todo) : x.todo[i].value # Malformed
      BY <3>1, <1>5
    <3>3. pc' = [pc EXCEPT ![t] = "plan"] /\ loc' = [loc EXCEPT ![t] = x]
      BY <2>2 DEF Go
    <3> HIDE DEF x
    <3>4. CacheSound' /\ \A u \in Thread : Local(u)'
      BY <1>T, <1>L, <2>1, <3>1, <3>2, <3>3, ArriveQuietly
    <3> QED
      BY <2>1, <3>4, <1>S
  <2> QED
    BY <1>30, <1>7, <2>1, <2>2 DEF Result
\* From one statement of _persist_postgres to the next.
<1>31. ASSUME NEW t \in Thread, pc[t] \in PersistLabel, NEW l \in PersistLabel,
              NEW x, pc' = [pc EXCEPT ![t] = l], loc' = [loc EXCEPT ![t] = x],
              UNCHANGED cache, x.next = loc[t].next, x.coord = loc[t].coord,
              x.loading = loc[t].loading, x.todo = loc[t].todo
       PROVE  /\ pc'[t] = l /\ loc'[t] = x
              /\ Working(t)' /\ Loading(t)' /\ Wanted(t)'
              /\ x.next \in {"idle", "route", "resolve"}
  <2>1. pc'[t] = l /\ loc'[t] = x
    BY <1>31, <1>T
  <2>2. x.coord = t /\ cache' = t /\ x.loading = "no"
    BY <1>31, <1>21
  <2> QED
    BY <1>31, <1>I, <2>1, <2>2 DEF Working, Loading, Wanted, Writing
<1>32. ASSUME NEW t \in Thread, Dump(t)
       PROVE  StoreSound' /\ CacheSound' /\ \A u \in Thread : Local(u)'
  <2> DEFINE x == [loc[t] EXCEPT !.dump = obj[t].state]
  <2>1. /\ pc[t] = "dump" /\ pc' = [pc EXCEPT ![t] = "open"]
        /\ UNCHANGED <<cache, obj, row, log>>
    BY <1>32 DEF Dump, Go
  <2>2. loc[t].coord = t /\ loc[t] \in Locals /\ cache = t
    BY <2>1, <1>21
  <2>3. loc' = [loc EXCEPT ![t] = x]
    BY <1>32, <2>2 DEF Dump
  <2>4. /\ x.next = loc[t].next /\ x.coord = loc[t].coord /\ x.todo = loc[t].todo
        /\ x.loading = loc[t].loading /\ x.isNew = loc[t].isNew
        /\ x.dump = obj[t].state
    BY <2>2 DEF Locals
  <2> HIDE DEF x
  <2>5. /\ pc'[t] = "open" /\ loc'[t] = x
        /\ Working(t)' /\ Loading(t)' /\ Wanted(t)'
        /\ x.next \in {"idle", "route", "resolve"}
    BY <1>31, <2>1, <2>3, <2>4
  <2>6. StoreSound' /\ CacheSound'
    BY <2>1, <1>I, <1>S DEF CacheSound, Cached
  <2>7. Level(t)'
    BY <2>1, <2>5, <1>I DEF Level, Cached
  <2>8. Writing(t)' /\ Inserting(t)'
    BY <2>1, <2>4, <2>5, <1>I DEF Writing, Inserting
  <2> QED
    BY <2>5, <2>6, <2>7, <2>8, <1>T DEF Local, OneThread
<1>33. ASSUME NEW t \in Thread, Open(t)
       PROVE  StoreSound' /\ CacheSound' /\ \A u \in Thread : Local(u)'
  <2>1. /\ pc[t] = "open" /\ UNCHANGED <<cache, obj, row, log>>
        /\ loc[t] \in Locals /\ cache = t
    BY <1>33, <1>21 DEF Open
  <2>2. StoreSound' /\ CacheSound'
    BY <2>1, <1>I, <1>S DEF CacheSound, Cached
  <2>3. CASE Persisted(t)
    <3>1. cache' # Nil =>
            log' = SubSeq(obj'[cache'].audit, 1, obj'[cache'].persisted)
      BY <2>1, <1>I DEF Level, Cached
    <3> QED
      BY <2>1, <2>2, <2>3, <3>1, <1>T, PersistedArrives
  <2>4. CASE /\ Go(t, IF row.kind = "none" THEN "insert" ELSE "slice")
             /\ UNCHANGED loc
    <3> DEFINE l == IF row.kind = "none" THEN "insert" ELSE "slice"
    <3>1. /\ l \in PersistLabel /\ pc' = [pc EXCEPT ![t] = l]
          /\ loc' = [loc EXCEPT ![t] = loc[t]]
      BY <2>4, <1>T DEF Go
    <3>2. /\ pc'[t] = l /\ loc'[t] = loc[t]
          /\ Working(t)' /\ Loading(t)' /\ Wanted(t)'
      BY <1>31, <2>1, <3>1
    <3>3. Level(t)' /\ Writing(t)'
      BY <2>1, <3>2, <1>I DEF Level, Cached, Writing
    <3>4. Inserting(t)'
      BY <2>1, <3>2, <1>I DEF Inserting
    <3> QED
      BY <2>2, <3>2, <3>3, <3>4, <1>T DEF Local, OneThread
  <2> QED
    BY <1>33, <2>3, <2>4 DEF Open
<1>34. ASSUME NEW t \in Thread, Insert(t)
       PROVE  StoreSound' /\ CacheSound' /\ \A u \in Thread : Local(u)'
  <2>1. /\ pc[t] = "insert" /\ UNCHANGED <<cache, obj, row, log>>
        /\ loc[t] \in Locals /\ cache = t
    BY <1>34, <1>21 DEF Insert
  <2>2. StoreSound' /\ CacheSound'
    BY <2>1, <1>I, <1>S DEF CacheSound, Cached
  <2>3. CASE Persisted(t)
    <3>1. cache' # Nil =>
            log' = SubSeq(obj'[cache'].audit, 1, obj'[cache'].persisted)
      BY <2>1, <1>I DEF Level, Cached
    <3> QED
      BY <2>1, <2>2, <2>3, <3>1, <1>T, PersistedArrives
  <2>4. CASE /\ row.kind = "none" /\ Go(t, "slice")
             /\ loc' = [loc EXCEPT ![t].isNew = TRUE]
    <3> DEFINE x == [loc[t] EXCEPT !.isNew = TRUE]
    <3>1. /\ "slice" \in PersistLabel /\ pc' = [pc EXCEPT ![t] = "slice"]
          /\ loc' = [loc EXCEPT ![t] = x]
      BY <2>4 DEF Go
    <3>2. /\ x.next = loc[t].next /\ x.coord = loc[t].coord /\ x.todo = loc[t].todo
          /\ x.loading = loc[t].loading /\ x.isNew /\ x.dump = loc[t].dump
      BY <2>1 DEF Locals
    <3> HIDE DEF x
    <3>3. /\ pc'[t] = "slice" /\ loc'[t] = x
          /\ Working(t)' /\ Loading(t)' /\ Wanted(t)'
      BY <1>31, <2>1, <3>1, <3>2
    <3>4. Level(t)' /\ Writing(t)'
      BY <2>1, <3>2, <3>3, <1>I DEF Level, Cached, Writing
    <3>5. Inserting(t)'
      BY <2>1, <2>4, <3>2, <3>3 DEF Inserting
    <3> QED
      BY <2>2, <3>3, <3>4, <3>5, <1>T DEF Local, OneThread
  <2> QED
    BY <1>34, <2>3, <2>4 DEF Insert
<1>35. ASSUME NEW t \in Thread, Slice(t)
       PROVE  StoreSound' /\ CacheSound' /\ \A u \in Thread : Local(u)'
  <2> DEFINE x == [loc[t] EXCEPT
                     !.rowVer = obj[t].state.version,
                     !.batch = SubSeq(obj[t].audit, obj[t].persisted + 1,
                                      Len(obj[t].audit))]
  <2>1. /\ pc[t] = "slice" /\ pc' = [pc EXCEPT ![t] = "count"]
        /\ UNCHANGED <<cache, obj, row, log>>
    BY <1>35 DEF Slice, Go
  <2>2. loc[t].coord = t /\ loc[t] \in Locals /\ cache = t
    BY <2>1, <1>21
  <2>3. loc' = [loc EXCEPT ![t] = x]
    BY <1>35, <2>2 DEF Slice
  <2>4. /\ x.next = loc[t].next /\ x.coord = loc[t].coord /\ x.todo = loc[t].todo
        /\ x.loading = loc[t].loading /\ x.isNew = loc[t].isNew
        /\ x.dump = loc[t].dump /\ x.rowVer = obj[t].state.version
        /\ x.batch = SubSeq(obj[t].audit, obj[t].persisted + 1, Len(obj[t].audit))
    BY <2>2 DEF Locals
  <2> HIDE DEF x
  <2>5. /\ pc'[t] = "count" /\ loc'[t] = x
        /\ Working(t)' /\ Loading(t)' /\ Wanted(t)'
        /\ x.next \in {"idle", "route", "resolve"}
    BY <1>31, <2>1, <2>3, <2>4
  <2>6. StoreSound' /\ CacheSound'
    BY <2>1, <1>I, <1>S DEF CacheSound, Cached
  <2>7. Level(t)'
    BY <2>1, <2>5, <1>I DEF Level, Cached
  <2>8. Writing(t)' /\ Inserting(t)'
    BY <2>1, <2>4, <2>5, <1>I DEF Writing, Inserting
  <2> QED
    BY <2>5, <2>6, <2>7, <2>8, <1>T DEF Local, OneThread
<1>36. ASSUME NEW t \in Thread, Count(t)
       PROVE  StoreSound' /\ CacheSound' /\ \A u \in Thread : Local(u)'
  <2>1. /\ pc[t] = "count" /\ pc' = [pc EXCEPT ![t] = "flush"]
        /\ loc' = [loc EXCEPT ![t] = loc[t]] /\ UNCHANGED <<cache, row, log>>
    BY <1>36, <1>T DEF Count, Go
  <2>2. /\ loc[t].coord = t /\ cache = t /\ cache # Nil /\ Cached = obj[t]
        /\ obj[t] \in CoordinatorType /\ Sound(obj[t]) /\ loc[t] \in Locals
    BY <2>1, <1>21
  <2>3. /\ obj'[t].audit = obj[t].audit /\ obj'[t].state = obj[t].state
        /\ obj'[t].persisted = Len(obj[t].audit)
    BY <1>36, <2>2, <1>T DEF Count, CoordinatorType
  <2>4. /\ log = SubSeq(obj[t].audit, 1, obj[t].persisted)
        /\ obj[t].persisted \in 0..Len(obj[t].audit)
        /\ obj[t].audit \in Seq(Transition) /\ Len(obj[t].audit) \in Nat
        /\ loc[t].batch = SubSeq(obj[t].audit, obj[t].persisted + 1, Len(obj[t].audit))
    BY <2>1, <2>2, <1>I DEF Level, CacheSound, CoordinatorType, Writing
  <2>5. log \o loc[t].batch = obj[t].audit
    BY <2>4, PrefixAndRest
  <2>6. /\ pc'[t] = "flush" /\ loc'[t] = loc[t]
        /\ Working(t)' /\ Loading(t)' /\ Wanted(t)'
    BY <1>31, <2>1
  <2>7. StoreSound' /\ CacheSound'
    BY <2>1, <2>2, <2>3, <2>4, <1>S DEF CacheSound, Cached, Sound
  <2>8. Level(t)'
    BY <2>1, <2>2, <2>3, <2>5, <2>6 DEF Level, Cached
  <2>9. Writing(t)' /\ Inserting(t)'
    BY <2>1, <2>3, <2>6, <1>I DEF Writing, Inserting
  <2> QED
    BY <2>6, <2>7, <2>8, <2>9, <1>T DEF Local, OneThread
<1>37. ASSUME NEW t \in Thread, Flush(t)
       PROVE  StoreSound' /\ CacheSound' /\ \A u \in Thread : Local(u)'
  <2>1. /\ pc[t] = "flush" /\ UNCHANGED <<cache, obj>> /\ Persisted(t)
        /\ row' = [kind |-> "full", state |-> loc[t].dump, ver |-> loc[t].rowVer]
        /\ log' = log \o loc[t].batch
    BY <1>37, <1>F, <1>I DEF Flush, Inserting
  <2>2. /\ cache = t /\ cache # Nil /\ Cached = obj[t] /\ Sound(obj[t])
        /\ obj[t] \in CoordinatorType
    BY <2>1, <1>21
  <2>3. /\ log' = obj[t].audit /\ obj[t].persisted = Len(obj[t].audit)
        /\ loc[t].dump = obj[t].state /\ loc[t].rowVer = obj[t].state.version
    BY <2>1, <2>2, <1>I DEF Level, Writing
  <2>4. StoreSound'
    BY <2>1, <2>2, <2>3 DEF StoreSound, Sound, Explains
  <2>5. CacheSound'
    BY <2>1, <1>I DEF CacheSound, Cached
  <2>6. log' = SubSeq(obj'[cache'].audit, 1, obj'[cache'].persisted)
    BY <2>1, <2>2, <2>3, WholeLog DEF CoordinatorType
  <2>7. \A u \in Thread : Local(u)'
    BY <2>1, <2>6, <1>T, PersistedArrives
  <2> QED
    BY <2>4, <2>5, <2>7
<1>38. ~Delete
  BY <1>F DEF Delete
<1>39. ASSUME Crash
       PROVE  StoreSound' /\ CacheSound' /\ \A u \in Thread : Local(u)'
  <2>1. /\ cache' = Nil /\ UNCHANGED <<row, log>>
        /\ \A u \in Thread : pc'[u] = "idle" /\ loc'[u] = Start0
    BY <1>39 DEF Crash
  <2>2. StoreSound' /\ CacheSound'
    BY <2>1, <1>S DEF CacheSound
  <2>3. ASSUME NEW u \in Thread PROVE Local(u)'
    BY <1>5, <2>1
       DEF Local, Level, Working, Writing, Inserting, Loading, Wanted
  <2> QED
    BY <2>2, <2>3
<1>40. ASSUME UNCHANGED vars
       PROVE  StoreSound' /\ CacheSound' /\ \A u \in Thread : Local(u)'
  <2>1. UNCHANGED <<cache, obj, row, log, pc, loc>>
    BY <1>40 DEF vars
  <2>2. StoreSound' /\ CacheSound'
    BY <2>1, <1>I, <1>S DEF CacheSound, Cached
  <2>3. ASSUME NEW u \in Thread PROVE Local(u)'
    BY <2>1, <1>I
       DEF Local, Level, Working, Writing, Inserting, Loading, Wanted, Cached
  <2> QED
    BY <2>2, <2>3
<1>41. StoreSound' /\ CacheSound' /\ \A u \in Thread : Local(u)'
  <2>1. ASSUME NEW t \in Thread, Serve(t)
        PROVE  StoreSound' /\ CacheSound' /\ \A u \in Thread : Local(u)'
    BY <2>1, <1>1, <1>2, <1>3, <1>10, <1>11, <1>12, <1>16, <1>17, <1>18, <1>19,
       <1>20, <1>25, <1>26, <1>27, <1>28, <1>29, <1>30, <1>32, <1>33, <1>34,
       <1>35, <1>36, <1>37 DEF Serve
  <2> QED
    BY <2>1, <1>6, <1>38, <1>39, <1>40 DEF Next
<1>42. TypeInv'
  BY <1>T, TypeStep
<1> QED
  BY <1>41, <1>42 DEF DInv

\* The invariant holds from the start.
LEMMA DurableStart == ASSUME Benign, Init PROVE DInv
<1>1. TypeInv
  BY Start0Type, FreshType
     DEF Init, TypeInv, TypeOK, CoordKnown, NoRow, Row, Label, WorkLabel, PersistLabel
<1>2. StoreSound /\ CacheSound
  BY DEF Init, StoreSound, CacheSound, NoRow
<1>3. /\ Start0.loading = "no" /\ ~Start0.isNew /\ Start0.todo = <<>>
      /\ \A x : x \notin 1..Len(<<>>)
  BY DEF Start0
<1>4. ASSUME NEW t \in Thread PROVE Local(t)
  BY <1>3 DEF Init, Local, Level, Working, Writing, Inserting, Loading, Wanted,
              WorkLabel, PersistLabel
<1> QED
  BY <1>1, <1>2, <1>4 DEF DInv

LEMMA DurableInvariant == ASSUME Benign PROVE Spec => []DInv
<1>1. Init => DInv
  BY DurableStart
<1>2. DInv /\ [Next]_vars => DInv'
  BY DurableStep
<1> QED
  BY <1>1, <1>2, PTL DEF Spec

(* The stored transitions number the stored versions without gap or repeat  *)
(* and replaying them gives the stored state (memory/service.py,            *)
(* _persist_postgres), whatever crashes and whatever connections fail.      *)
THEOREM Durable == ASSUME Benign PROVE Spec => []DurableTraceable
<1>1. DInv => DurableTraceable
  BY DEF DInv, StoreSound, DurableTraceable
<1> QED
  BY <1>1, DurableInvariant, PTL

(* A stored write of a frozen slot comes after the transition that released *)
(* it (coordinator.py, _mutate and load_from_db): neither a restart nor a    *)
(* lost persist makes the service forget a pin.                             *)
THEOREM FrozenStays == ASSUME Benign PROVE Spec => []NoWriteWhileFrozen
<1>1. DInv => NoWriteWhileFrozen
  <2>1. \A i : i \notin 1..Len(<<>>)
    OBVIOUS
  <2> QED
    BY <2>1 DEF DInv, StoreSound, Heeds, NoWriteWhileFrozen
<1> QED
  BY <1>1, DurableInvariant, PTL

-----------------------------------------------------------------------------
\* What the COMMIT of _persist_postgres does, seen from the coordinator.
LEMMA FlushEffect ==
  ASSUME Benign, DInv, NEW t \in Thread, Flush(t)
  PROVE  /\ log' = obj[t].audit /\ row'.state = obj[t].state /\ loc[t].coord = t
         /\ Sound(obj[t]) /\ obj[t].audit \in Seq(Transition)
         /\ loc[t].batch \in Seq(Transition) /\ log' = log \o loc[t].batch
<1>1. /\ pc[t] = "flush" /\ Level(t) /\ Working(t) /\ Writing(t) /\ Inserting(t)
      /\ TypeInv /\ CacheSound
  BY DEF DInv, Flush, Local
<1>2. loc[t].coord = t /\ cache = t /\ cache # Nil /\ Cached = obj[t]
  BY <1>1, ThreadAssumption DEF Working, WorkLabel, PersistLabel, Cached
<1>3. /\ row' = [kind |-> "full", state |-> loc[t].dump, ver |-> loc[t].rowVer]
      /\ log' = log \o loc[t].batch
  BY <1>1 DEF Flush, Inserting, Benign
<1>4. /\ obj[t] \in CoordinatorType /\ loc[t] \in Locals
  BY <1>1 DEF TypeInv, TypeOK
<1> QED
  BY <1>1, <1>2, <1>3, <1>4
     DEF Level, Writing, PersistLabel, CacheSound, CoordinatorType, Locals

\* No other step changes what is stored, except that register_turn may create
\* the bare row.
LEMMA StoreStep ==
  ASSUME Benign, DInv, [Next]_vars
  PROVE  \/ UNCHANGED log /\ row'.state = row.state
            /\ (row'.kind = "full" => row' = row)
         \/ \E t \in Thread : Flush(t)
<1> DEFINE Kept == /\ UNCHANGED log /\ row'.state = row.state
                   /\ (row'.kind = "full" => row' = row)
<1>1. ASSUME UNCHANGED <<row, log>> PROVE Kept
  BY <1>1
<1>2. ASSUME NEW t \in Thread, Register(t) PROVE Kept
  BY <1>2 DEF Register, DInv, StoreSound, BareRow
<1>3. ~Delete
  BY DEF Delete, Benign
<1>4. ASSUME NEW t \in Thread, Start(t) PROVE UNCHANGED <<row, log>>
  BY <1>4 DEF Start, StartTurn, StartProposal, StartCommit, StartRead, Begin
<1>5. ASSUME NEW t \in Thread, Serve(t), ~Register(t), ~Flush(t)
      PROVE  UNCHANGED <<row, log>>
  BY <1>5 DEF Serve, LoadState, LoadAudit, Install, Read, Plan, Intent, Route, Run,
              Record, Gate, Ask, Propose, Commit, Snapshot, Apply, Applied, Resolve,
              Result, Dump, Open, Insert, Slice, Count
<1>6. Crash \/ UNCHANGED vars => UNCHANGED <<row, log>>
  BY DEF Crash, vars
<1> HIDE DEF Kept
<1>7. Kept \/ \E t \in Thread : Flush(t)
  BY <1>1, <1>2, <1>3, <1>4, <1>5, <1>6 DEF Next
<1> QED
  BY <1>7 DEF Kept

(* A persist that succeeds leaves nothing behind: after it the database has *)
(* every transition and the state of the coordinator, however many earlier  *)
(* persists never reached the database.                                     *)
THEOREM CatchesUp == ASSUME Benign PROVE Spec => FlushCatchesUp
<1> DEFINE A == \A t \in Thread :
                  pc[t] = "flush" /\ row'.kind = "full" /\ row' # row
                  => /\ log' = obj[loc[t].coord].audit
                     /\ row'.state = obj[loc[t].coord].state
<1>1. ASSUME DInv, [Next]_vars PROVE A
  <2>1. CASE row'.kind = "full" => row' = row
    BY <2>1
  <2>2. CASE \E t \in Thread : Flush(t)
    BY <1>1, <2>2, FlushEffect DEF Benign, OneThread
  <2> QED
    BY <1>1, <2>1, <2>2, StoreStep
<1>2. DInv /\ [Next]_vars => [A]_vars
  BY <1>1
<1> HIDE DEF A
<1>3. Spec => [][A]_vars
  BY <1>2, DurableInvariant, PTL DEF Spec
<1> QED
  BY <1>3 DEF A, FlushCatchesUp

(* The rows implement AuditTrail: what a reader of the database sees is one *)
(* trail, only ever extended, that explains the state published with it.    *)
THEOREM Refinement == ASSUME Benign PROVE Spec => RefinesAuditTrail
<1>1. Init => Trail!Init
  BY DEF Init, Trail!Init, NoRow, Blank, Trail!Blank, NoTurn, Trail!NoTurn
<1>0. Trail!GapFree(log') = GapFree(log')
      /\ Trail!Explains(log', row'.state) = Explains(log', row'.state)
  BY DEF GapFree, Trail!GapFree, Explains, Trail!Explains, Writes, Trail!Writes,
         PinMoves, Trail!PinMoves, AnyWrite, Trail!AnyWrite, IsLast, Trail!IsLast,
         Pins, Trail!Pins, Pinned, Trail!Pinned, Unpinned, Trail!Unpinned,
         SlotName, Trail!SlotName, Params, Trail!Params, NoTurn, Trail!NoTurn
<1>2. ASSUME DInv, [Next]_vars PROVE [Trail!Publish]_<<log, row.state>>
  <2>1. CASE UNCHANGED log /\ row'.state = row.state
    BY <2>1
  <2>2. CASE \E t \in Thread : Flush(t)
    <3> PICK t \in Thread : Flush(t)
      BY <2>2
    <3>1. /\ log' = obj[t].audit /\ row'.state = obj[t].state /\ Sound(obj[t])
          /\ loc[t].batch \in Seq(Transition) /\ log' = log \o loc[t].batch
          /\ log \in Seq(Transition)
      BY <1>2, FlushEffect DEF DInv, TypeInv, TypeOK
    <3>2. Len(log) =< Len(log') /\ SubSeq(log', 1, Len(log)) = log
      BY <3>1
    <3> QED
      BY <3>1, <3>2, <1>0 DEF Trail!Publish, Trail!Extends, Sound
  <2> QED
    BY <1>2, <2>1, <2>2, StoreStep
<1>3. DInv /\ [Next]_vars => [Trail!Publish]_<<log, row.state>>
  BY <1>2
<1> QED
  BY <1>1, <1>3, DurableInvariant, PTL DEF Spec, Trail!Spec, RefinesAuditTrail

-----------------------------------------------------------------------------
(* With the database reachable as well, memory and rows agree between       *)
(* requests, and so do the two audit trails.                                *)
Reachable == Benign /\ "connect" \notin Faults

\* The rows hold exactly what is cached.
Saved ==
  IF row.kind = "full"
  THEN row.state = Cached.state /\ log = Cached.audit
  ELSE Cached = Fresh

\* Only between a mutation and the COMMIT after it do they differ.
Dirty == PersistLabel \cup {"apply"}
Quiet(t) ==
  /\ cache # Nil /\ pc[t] \notin Dirty => Saved
  /\ pc[t] = "insert" => row.kind = "none"
  /\ loc[t].loading = "audit" =>
       IF row.kind = "full" THEN obj[t].state = row.state ELSE obj[t] = Fresh

\* The transitions of a log after the first n belong to the turn, and write only
\* slots of applied.
Spanned(a, n, turn, applied) ==
  \A i \in (n + 1)..Len(a) :
    a[i].turn = turn /\ (a[i].after \notin Pins => a[i].slot \in applied)

\* A commit request between its snapshot and its state_commits row.
Committing(t) ==
  \/ pc[t] \in {"apply", "resolve", "result"}
  \/ pc[t] \in PersistLabel /\ loc[t].next = "resolve"
Spanning(t) ==
  Committing(t) => Spanned(obj[t].audit, loc[t].before, loc[t].turn, loc[t].applied)

\* The transitions a state_commits row spans are stored already.
RowsMatch ==
  \A r \in commits :
    /\ r.after =< Len(log)
    /\ \A i \in (r.before + 1)..r.after :
         log[i].turn = r.turn /\ (log[i].after \notin Pins => log[i].slot \in r.applied)

QInv == DInv /\ RowsMatch /\ \A t \in Thread : Quiet(t) /\ Spanning(t)

\* What answering a request leaves behind.
LEMMA Finished ==
  ASSUME DInv, NEW t \in Thread, NEW r, Finish(t, r)
  PROVE  pc'[t] = "idle" /\ loc'[t].loading = "no"
BY DEF DInv, TypeInv, TypeOK, Finish, Go, Start0

\* These statements touch neither the coordinator nor the rows.
Looks(t) ==
  \/ Start(t) \/ Read(t) \/ Plan(t) \/ Route(t) \/ Run(t) \/ Gate(t) \/ Ask(t)
  \/ Propose(t) \/ Commit(t) \/ Snapshot(t) \/ Resolve(t) \/ Result(t)

LEMMA LooksOnly ==
  ASSUME DInv, NEW t \in Thread, Looks(t)
  PROVE  /\ UNCHANGED <<cache, obj, row, log>> /\ pc[t] \notin Dirty
         /\ pc'[t] # "insert" /\ loc'[t].loading = "no"
<1>1. /\ loc \in [Thread -> Locals] /\ pc \in [Thread -> Label] /\ loc[t] \in Locals
      /\ pc[t] \notin Entry => loc[t].loading = "no"
  BY DEF DInv, TypeInv, TypeOK, Local, Loading
<1>2. ASSUME NEW l \in Label \ {"insert"}, Go(t, l),
             \/ UNCHANGED loc /\ loc[t].loading = "no"
             \/ \E x : loc' = [loc EXCEPT ![t] = x] /\ x.loading = "no"
      PROVE  pc'[t] # "insert" /\ loc'[t].loading = "no"
  BY <1>1, <1>2 DEF Go
<1>3. ASSUME NEW n, loc[t].loading = "no"
      PROVE  /\ [loc[t] EXCEPT !.turn = n].loading = "no"
             /\ [loc[t] EXCEPT !.query = n].loading = "no"
  BY <1>1, <1>3 DEF Locals
<1>L. {"register", "ask", "commit", "read", "intent", "route", "run", "gate", "record",
       "propose", "snapshot", "apply", "result", "plan"} \subseteq Label \ {"insert"}
  BY DEF Label
<1>4. CASE Start(t)
  <2>1. Start0.loading = "no"
    BY DEF Start0
  <2>2. CASE StartTurn(t)
    <3>1. PICK q \in Query, b \in BOOLEAN :
            Begin(t, "register", [Start0 EXCEPT !.query = q, !.bypass = b])
      BY <2>2 DEF StartTurn
    <3>2. [Start0 EXCEPT !.query = q, !.bypass = b].loading = "no"
      BY DEF Start0
    <3> QED
      BY <1>2, <1>L, <3>1, <3>2 DEF Begin, Dirty, PersistLabel
  <2>3. CASE StartProposal(t)
    BY <1>2, <1>L, <2>1, <2>3 DEF StartProposal, Begin, Dirty, PersistLabel
  <2>4. CASE StartCommit(t)
    <3>1. PICK d \in Decision, n \in {p.turn : p \in proposals} \cup {0},
               r \in BOOLEAN :
            Begin(t, "commit", [Start0 EXCEPT !.todo = d, !.turn = n, !.resume = r])
      BY <2>4 DEF StartCommit
    <3>2. [Start0 EXCEPT !.todo = d, !.turn = n, !.resume = r].loading = "no"
      BY DEF Start0
    <3> QED
      BY <1>2, <1>L, <3>1, <3>2 DEF Begin, Dirty, PersistLabel
  <2>5. CASE StartRead(t)
    BY <1>2, <1>L, <2>1, <2>5 DEF StartRead, Dirty, PersistLabel
  <2> QED
    BY <1>4, <2>2, <2>3, <2>4, <2>5 DEF Start
<1>5. CASE Read(t) \/ Propose(t)
  BY <1>5, Finished DEF Read, Propose, Ready, Dirty, PersistLabel
<1>6. CASE Plan(t) \/ Run(t) \/ Gate(t) \/ Ask(t)
  <2>1. /\ UNCHANGED <<cache, obj, row, log>> /\ pc[t] \notin Dirty
        /\ loc[t].loading = "no"
    BY <1>6 DEF Plan, Run, Gate, Ask, Ready, Dirty, PersistLabel
  <2>2. \/ \E r : Finish(t, r)
        \/ \E l \in Label \ {"insert"} : Go(t, l) /\ UNCHANGED loc
        \/ \E l \in Label \ {"insert"} : \E n :
             Go(t, l) /\ loc' = [loc EXCEPT ![t] = [loc[t] EXCEPT !.turn = n]]
    BY <1>6, <1>L DEF Plan, Run, Gate, Ask
  <2>3. ASSUME NEW l \in Label \ {"insert"}, NEW n, Go(t, l),
               loc' = [loc EXCEPT ![t] = [loc[t] EXCEPT !.turn = n]]
        PROVE  pc'[t] # "insert" /\ loc'[t].loading = "no"
    <3>1. [loc[t] EXCEPT !.turn = n].loading = "no"
      BY <1>3, <2>1
    <3> QED
      BY <1>2, <2>3, <3>1
  <2>4. CASE \E r : Finish(t, r)
    BY <2>1, <2>4, Finished
  <2>5. CASE \E l \in Label \ {"insert"} : Go(t, l) /\ UNCHANGED loc
    BY <1>2, <2>1, <2>5
  <2> QED
    BY <2>1, <2>2, <2>3, <2>4, <2>5
<1>7. CASE Route(t)
  <2>1. /\ UNCHANGED <<cache, obj, row, log>> /\ pc[t] \notin Dirty
        /\ loc[t].loading = "no"
    BY <1>1, <1>7 DEF Route, Dirty, PersistLabel, Entry
  <2> QED
    BY <1>2, <1>7, <1>L, <2>1, Finished DEF Route
<1>8. CASE Commit(t)
  <2>1. /\ UNCHANGED <<cache, obj, row, log>> /\ pc[t] \notin Dirty
        /\ loc[t].loading = "no"
    BY <1>1, <1>8 DEF Commit, Dirty, PersistLabel, Entry
  <2>2. \/ \E r : Finish(t, r)
        \/ \E q : /\ Go(t, "snapshot")
                  /\ loc' = [loc EXCEPT ![t] = [loc[t] EXCEPT !.query = q]]
    BY <1>8 DEF Commit
  <2> QED
    BY <1>2, <1>3, <1>L, <2>1, <2>2, Finished
<1>9. CASE Snapshot(t)
  <2>1. /\ UNCHANGED <<cache, obj, row, log>> /\ pc[t] \notin Dirty
        /\ loc[t].loading = "no"
    BY <1>9 DEF Snapshot, Ready, Dirty, PersistLabel
  <2>2. CASE Finish(t, "badRequest")
    BY <2>1, <2>2, Finished
  <2>3. CASE Go(t, "apply") /\ \E f, b :
               loc' = [loc EXCEPT ![t] = [loc[t] EXCEPT !.coord = cache, !.frozen = f,
                                                        !.before = b]]
    <3>1. PICK f, b : loc' = [loc EXCEPT ![t] = [loc[t] EXCEPT
                                  !.coord = cache, !.frozen = f, !.before = b]]
      BY <2>3
    <3>2. [loc[t] EXCEPT !.coord = cache, !.frozen = f, !.before = b].loading = "no"
      BY <1>1, <2>1 DEF Locals
    <3> QED
      BY <1>2, <1>L, <2>1, <2>3, <3>1, <3>2
  <2> QED
    BY <1>9, <2>2, <2>3 DEF Snapshot
<1>10. CASE Resolve(t)
  <2>1. /\ UNCHANGED <<cache, obj, row, log>> /\ pc[t] \notin Dirty
        /\ loc[t].loading = "no"
    BY <1>1, <1>10 DEF Resolve, Dirty, PersistLabel, Entry
  <2> QED
    BY <1>2, <1>10, <1>L, <2>1, Finished DEF Resolve
<1>11. CASE Result(t)
  <2>1. /\ UNCHANGED <<cache, obj, row, log>> /\ pc[t] \notin Dirty
    BY <1>11 DEF Result, Dirty, PersistLabel
  <2>2. \/ \E r : Finish(t, r)
        \/ \E q : /\ Go(t, "plan")
                  /\ loc' = [loc EXCEPT ![t] = [Start0 EXCEPT !.query = q,
                                                              !.bypass = TRUE]]
    BY <1>11 DEF Result
  <2>3. \A q : [Start0 EXCEPT !.query = q, !.bypass = TRUE].loading = "no"
    BY DEF Start0
  <2> QED
    BY <1>2, <1>L, <2>1, <2>2, <2>3, Finished
<1> QED
  BY <1>4, <1>5, <1>6, <1>7, <1>8, <1>9, <1>10, <1>11 DEF Looks

\* These belong to a mutation or to the transaction that stores it.
Works(t) ==
  \/ Intent(t) \/ Record(t) \/ Apply(t) \/ Applied(t)
  \/ Dump(t) \/ Open(t) \/ Insert(t) \/ Slice(t) \/ Count(t)

LEMMA WorksDirty ==
  ASSUME Reachable, DInv, NEW t \in Thread, Quiet(t), Works(t)
  PROVE  /\ UNCHANGED <<cache, row, log>> /\ pc'[t] \in Dirty
         /\ pc'[t] = "insert" => row.kind = "none"
         /\ loc'[t].loading = "no"
<1>1. /\ loc \in [Thread -> Locals] /\ pc \in [Thread -> Label] /\ loc[t] \in Locals
      /\ pc[t] \notin Entry => loc[t].loading = "no"
      /\ Dirty = {"dump", "open", "insert", "slice", "count", "flush", "apply"}
  BY DEF DInv, TypeInv, TypeOK, Local, Loading, Dirty, PersistLabel
<1>2. loc[t].loading = "no"
  BY <1>1 DEF Works, Intent, Record, Ready, Apply, Applied, Dump, Open, Insert, Slice,
              Count, Entry
<1>3. ASSUME NEW l, NEW x, x \in {loc[t], [loc[t] EXCEPT !.coord = cache]},
             PersistThen(t, l, x)
      PROVE  pc'[t] = "dump" /\ loc'[t].loading = "no"
  <2>1. [x EXCEPT !.next = l].loading = "no"
    BY <1>1, <1>2, <1>3 DEF Locals
  <2> QED
    BY <1>1, <1>3, <2>1 DEF PersistThen, Go
<1>4. CASE Intent(t) \/ Record(t) \/ Applied(t)
  BY <1>1, <1>3, <1>4 DEF Intent, Record, Applied
<1>5. CASE Apply(t)
  <2>1. pc' = pc /\ pc[t] = "apply" /\ UNCHANGED <<cache, row, log>>
    BY <1>5 DEF Apply
  <2>2. \A x, y : /\ [loc[t] EXCEPT !.todo = x].loading = "no"
                  /\ [[loc[t] EXCEPT !.todo = x] EXCEPT !.applied = y].loading = "no"
                  /\ [[loc[t] EXCEPT !.todo = x] EXCEPT !.skipped = y].loading = "no"
    BY <1>1, <1>2 DEF Locals
  <2> DEFINE r == [loc[t] EXCEPT !.todo = Tail(@)]
             slot == Head(loc[t].todo).slot
  <2>3. \/ loc' = [loc EXCEPT ![t] = r]
        \/ loc' = [loc EXCEPT ![t] = [r EXCEPT !.applied = @ \cup {slot}]]
        \/ loc' = [loc EXCEPT ![t] = [r EXCEPT !.skipped = @ \cup {slot}]]
    BY <1>5 DEF Apply
  <2>4. /\ r.loading = "no" /\ [r EXCEPT !.applied = @ \cup {slot}].loading = "no"
        /\ [r EXCEPT !.skipped = @ \cup {slot}].loading = "no"
    BY <2>2
  <2> HIDE DEF r, slot
  <2>5. loc'[t].loading = "no"
    BY <1>1, <2>3, <2>4
  <2> QED
    BY <1>1, <2>1, <2>5
<1>6. CASE Dump(t) \/ Slice(t) \/ Count(t)
  <2>1. /\ UNCHANGED <<cache, row, log>> /\ pc'[t] \in {"open", "count", "flush"}
    BY <1>1, <1>6 DEF Dump, Slice, Count, Go
  <2>2. \A x, y : /\ [loc[t] EXCEPT !.dump = x].loading = "no"
                  /\ [loc[t] EXCEPT !.rowVer = x, !.batch = y].loading = "no"
    BY <1>1, <1>2 DEF Locals
  <2>3. CASE Dump(t)
    <3>1. loc' = [loc EXCEPT ![t] = [loc[t] EXCEPT !.dump = obj[loc[t].coord].state]]
      BY <2>3 DEF Dump
    <3> QED
      BY <1>1, <2>1, <2>2, <3>1
  <2>4. CASE Slice(t)
    <3> DEFINE c == obj[loc[t].coord]
    <3>1. loc' = [loc EXCEPT ![t] = [loc[t] EXCEPT
                    !.rowVer = c.state.version,
                    !.batch = SubSeq(c.audit, c.persisted + 1, Len(c.audit))]]
      BY <2>4 DEF Slice
    <3> HIDE DEF c
    <3> QED
      BY <1>1, <2>1, <2>2, <3>1
  <2>5. CASE Count(t)
    BY <1>1, <1>2, <2>1, <2>5 DEF Count
  <2> QED
    BY <1>6, <2>3, <2>4, <2>5
<1>7. CASE Open(t)
  <2>1. /\ pc' = [pc EXCEPT ![t] = IF row.kind = "none" THEN "insert" ELSE "slice"]
        /\ UNCHANGED <<loc, cache, row, log>>
    BY <1>7 DEF Open, Go, Reachable
  <2> QED
    BY <1>1, <1>2, <2>1
<1>8. CASE Insert(t)
  <2>1. /\ pc' = [pc EXCEPT ![t] = "slice"] /\ UNCHANGED <<cache, row, log>>
        /\ loc' = [loc EXCEPT ![t].isNew = TRUE]
    BY <1>8 DEF Insert, Quiet, Go
  <2>2. [loc[t] EXCEPT !.isNew = TRUE].loading = "no"
    BY <1>1, <1>2 DEF Locals
  <2> QED
    BY <1>1, <2>1, <2>2
<1> QED
  BY <1>4, <1>5, <1>6, <1>7, <1>8 DEF Works

\* Every step keeps memory and rows in agreement.
LEMMA QuietStep ==
  ASSUME Reachable, DInv, \A t \in Thread : Quiet(t), [Next]_vars
  PROVE  \A t \in Thread : Quiet(t)'
<1>1. /\ Benign /\ OneThread /\ TypeInv /\ StoreSound
      /\ "load" \notin Faults /\ "delete" \notin Faults /\ "commit" \notin Faults
      /\ pc \in [Thread -> Label] /\ loc \in [Thread -> Locals]
      /\ obj \in [Thread -> CoordinatorType]
      /\ \A t \in Thread : Quiet(t) /\ Loading(t) /\ Inserting(t) /\ loc[t] \in Locals
  BY DEF Reachable, Benign, DInv, TypeInv, TypeOK, Local
<1>2. Dirty = {"dump", "open", "insert", "slice", "count", "flush", "apply"}
  BY DEF Dirty, PersistLabel
<1>3. ASSUME NEW t \in Thread, Quiet(t)' PROVE \A u \in Thread : Quiet(u)'
  BY <1>1, <1>3 DEF OneThread
<1>4. ASSUME NEW t \in Thread, Looks(t) PROVE Quiet(t)'
  BY <1>1, <1>4, LooksOnly DEF Quiet, Saved, Cached
<1>5. ASSUME NEW t \in Thread, Works(t) PROVE Quiet(t)'
  <2>1. /\ UNCHANGED <<cache, row, log>> /\ pc'[t] \in Dirty
        /\ pc'[t] = "insert" => row.kind = "none"
        /\ loc'[t].loading = "no"
    BY <1>1, <1>5, WorksDirty
  <2> QED
    BY <2>1 DEF Quiet
<1>6. ASSUME NEW t \in Thread, LoadState(t) PROVE Quiet(t)'
  <2>1. /\ UNCHANGED <<cache, row, log, pc>> /\ cache = Nil
        /\ pc[t] \in Entry
    BY <1>6 DEF LoadState
  <2>2. \/ loc'[t].loading = "state"
        \/ loc'[t].loading = "audit" /\ row.kind # "full" /\ obj'[t] = Fresh
    <3>1. \/ loc' = [loc EXCEPT ![t].loading = "state"]
          \/ /\ loc' = [loc EXCEPT ![t].loading = "audit"] /\ row.kind # "full"
             /\ obj' = [obj EXCEPT ![t] = Fresh]
      BY <1>1, <1>6 DEF LoadState, StoreSound
    <3> QED
      BY <1>1, <3>1 DEF Locals
  <2> QED
    BY <2>1, <2>2 DEF Quiet, Entry
<1>7. ASSUME NEW t \in Thread, LoadAudit(t) PROVE Quiet(t)'
  <2>1. /\ UNCHANGED <<cache, row, log, pc>> /\ cache = Nil /\ pc[t] \in Entry
        /\ row.kind = "full" /\ obj[t] = [Fresh EXCEPT !.state = row.state]
    BY <1>1, <1>7 DEF LoadAudit, Loading
  <2>2. PICK p \in Orders(log) :
          obj' = [obj EXCEPT ![t].audit = [i \in 1..Len(log) |-> log[p[i]]],
                             ![t].persisted = Len(log)]
    BY <1>1, <1>7 DEF LoadAudit
  <2>3. obj'[t].state = row.state
    BY <1>1, <2>1, <2>2 DEF CoordinatorType
  <2> QED
    BY <2>1, <2>3 DEF Quiet, Entry
<1>8. ASSUME NEW t \in Thread, Install(t) PROVE Quiet(t)'
  <2>1. /\ UNCHANGED <<obj, row, log, pc>> /\ cache' = t /\ pc[t] \in Entry
        /\ obj[t].audit = log /\ loc'[t].loading = "no"
        /\ IF row.kind = "full" THEN obj[t].state = row.state ELSE obj[t] = Fresh
    BY <1>1, <1>8 DEF Install, Loading, Quiet, Locals
  <2> QED
    BY <2>1 DEF Quiet, Saved, Cached, Entry
<1>9. ASSUME NEW t \in Thread, Register(t) PROVE Quiet(t)'
  <2>1. UNCHANGED <<cache, obj, log, loc>> /\ pc[t] = "register" /\ pc'[t] = "plan"
    BY <1>1, <1>9 DEF Register, Go
  <2>2. row' = row \/ (row.kind = "none" /\ row'.kind = "bare")
    <3>1. row' = row \/ (row.kind = "none" /\ row' = BareRow)
      BY <1>9 DEF Register
    <3> QED
      BY <3>1 DEF BareRow
  <2>3. loc[t].loading = "no"
    BY <1>1, <2>1 DEF Loading, Entry
  <2>4. cache # Nil => Saved'
    <3>1. cache # Nil => Saved
      BY <1>1, <1>2, <2>1 DEF Quiet
    <3>2. Cached' = Cached
      BY <2>1 DEF Cached
    <3> QED
      BY <2>1, <2>2, <3>1, <3>2 DEF Saved
  <2> QED
    BY <2>1, <2>3, <2>4 DEF Quiet
<1>10. ASSUME NEW t \in Thread, Flush(t) PROVE Quiet(t)'
  <2>1. /\ log' = obj[t].audit /\ row'.state = obj[t].state /\ loc[t].coord = t
    BY <1>1, <1>10, FlushEffect
  <2>2. /\ row'.kind = "full" /\ UNCHANGED <<cache, obj>> /\ pc[t] = "flush"
        /\ Persisted(t)
    BY <1>1, <1>10 DEF Flush, Inserting
  <2>3. cache = t
    BY <2>2 DEF DInv, Local, Working, WorkLabel, PersistLabel
  <2>4. loc[t].next \in {"idle", "route", "resolve"} /\ loc[t].loading = "no"
    BY <1>1, <2>2 DEF DInv, Local, Writing, PersistLabel, Loading, Entry
  <2>5. pc'[t] \in {"idle", "route", "resolve"} /\ loc'[t].loading = "no"
    <3>1. CASE loc[t].next = "idle"
      BY <2>2, <3>1, Finished DEF Persisted
    <3>2. CASE loc[t].next # "idle"
      <4>1. /\ pc' = [pc EXCEPT ![t] = loc[t].next]
            /\ loc' = [loc EXCEPT ![t] = [loc[t] EXCEPT !.dump = Blank, !.rowVer = 0,
                            !.isNew = FALSE, !.batch = <<>>, !.next = "idle"]]
        BY <2>2, <3>2 DEF Persisted, Go
      <4>2. [loc[t] EXCEPT !.dump = Blank, !.rowVer = 0, !.isNew = FALSE,
                           !.batch = <<>>, !.next = "idle"].loading = "no"
        BY <1>1, <2>4 DEF Locals
      <4> QED
        BY <1>1, <2>4, <4>1, <4>2
    <3> QED
      BY <3>1, <3>2
  <2> QED
    BY <2>1, <2>2, <2>3, <2>5 DEF Quiet, Saved, Cached
<1>11. ~Delete
  BY <1>1 DEF Delete
<1>12. ASSUME Crash, NEW t \in Thread PROVE Quiet(t)'
  BY <1>12 DEF Crash, Quiet, Start0
<1>13. ASSUME UNCHANGED vars, NEW t \in Thread PROVE Quiet(t)'
  BY <1>1, <1>13 DEF vars, Quiet, Saved, Cached
<1>14. ASSUME NEW t \in Thread, Start(t) \/ Serve(t) PROVE Quiet(t)'
  BY <1>4, <1>5, <1>6, <1>7, <1>8, <1>9, <1>10, <1>14 DEF Serve, Looks, Works
<1> QED
  BY <1>3, <1>11, <1>12, <1>13, <1>14 DEF Next

\* One more transition of the turn, of a slot reported as applied.
LEMMA SpannedOneMore ==
  ASSUME NEW a \in Seq(Transition), NEW n \in Nat, NEW turn, NEW applied, NEW more,
         Spanned(a, n, turn, applied), applied \subseteq more,
         NEW tr \in Transition, tr.turn = turn,
         tr.after \notin Pins => tr.slot \in more
  PROVE  Spanned(Append(a, tr), n, turn, more)
<1>1. /\ Len(a) \in Nat /\ Len(Append(a, tr)) = Len(a) + 1
      /\ Append(a, tr)[Len(a) + 1] = tr
      /\ \A i \in 1..Len(a) : Append(a, tr)[i] = a[i]
  OBVIOUS
<1>2. ASSUME NEW i \in (n + 1)..(Len(a) + 1)
      PROVE  (i \in 1..Len(a) /\ i \in (n + 1)..Len(a)) \/ i = Len(a) + 1
  BY <1>1
<1>3. \A i \in (n + 1)..Len(a) :
        a[i].turn = turn /\ (a[i].after \notin Pins => a[i].slot \in applied)
  BY DEF Spanned
<1> QED
  BY <1>1, <1>2, <1>3 DEF Spanned

\* What a correction adds to the audit log.
LEMMA MutationAdds ==
  ASSUME NEW c \in CoordinatorType, NEW s \in SlotName, NEW turn \in Nat,
         NEW v \in Val \cup {Junk}, ApplyMutation(c, s, v, turn) # c
  PROVE  \E tr \in Transition :
           /\ ApplyMutation(c, s, v, turn).audit = Append(c.audit, tr)
           /\ tr.slot = s /\ tr.turn = turn
<1> DEFINE op == IF s = "intent" THEN "set" ELSE "overwrite"
           w == Stored(s, v)
           tr == [slot |-> s, op |-> op, after |-> w, turn |-> turn,
                  va |-> c.state.version + 1]
<1>1. Accepts(s, v)
  BY DEF ApplyMutation
<1>2. w \in Val /\ op \in Op /\ c.state.version + 1 \in Nat
  BY <1>1, StoredType DEF Op, CoordinatorType, State
<1>3. ApplyMutation(c, s, v, turn) = Mutate(c, s, w, turn, op)
  BY <1>1 DEF ApplyMutation
<1> HIDE DEF op, w
<1>4. s \notin c.state.frozen
  BY <1>3 DEF Mutate
<1>5. Mutate(c, s, w, turn, op).audit = Append(c.audit, tr)
  BY <1>4 DEF Mutate, CoordinatorType
<1>6. tr \in Transition /\ tr.slot = s /\ tr.turn = turn
  BY <1>2 DEF Transition
<1> QED
  BY <1>3, <1>5, <1>6

\* What a freeze or an unfreeze adds to it.
LEMMA PinAdds ==
  ASSUME NEW c \in CoordinatorType, NEW s \in SlotName, NEW turn \in Nat,
         NEW pin \in Pins
  PROVE  \E tr \in Transition :
           /\ Pin(c, s, turn, pin).audit = Append(c.audit, tr)
           /\ tr.turn = turn /\ tr.after \in Pins
<1> DEFINE tr == [slot |-> s, op |-> IF pin = Pinned THEN "set" ELSE "clear",
                  after |-> pin, turn |-> turn, va |-> c.state.version + 1]
<1>1. Pin(c, s, turn, pin).audit = Append(c.audit, tr)
  BY DEF Pin, CoordinatorType
<1>2. tr \in Transition /\ tr.turn = turn /\ tr.after \in Pins
  BY DEF Transition, Op, CoordinatorType, State
<1> QED
  BY <1>1, <1>2

\* What a commit has appended since its snapshot is of its turn and of the slots
\* it reports.
LEMMA SpanStep ==
  ASSUME Reachable, QInv, [Next]_vars
  PROVE  \A t \in Thread : Spanning(t)'
<1>1. /\ DInv /\ Benign /\ OneThread /\ TypeInv /\ CacheSound
      /\ pc \in [Thread -> Label] /\ loc \in [Thread -> Locals]
      /\ obj \in [Thread -> CoordinatorType] /\ ~Delete
      /\ \A t \in Thread : /\ Quiet(t) /\ Spanning(t) /\ Working(t) /\ Writing(t)
                           /\ loc[t] \in Locals /\ obj[t] \in CoordinatorType
  BY DEF QInv, Reachable, Benign, DInv, TypeInv, TypeOK, Local, Delete
<1>2. PersistLabel = {"dump", "open", "insert", "slice", "count", "flush"}
  BY DEF PersistLabel
<1>3. ASSUME NEW t \in Thread, Spanning(t)' PROVE \A u \in Thread : Spanning(u)'
  BY <1>1, <1>3 DEF OneThread
\* A request that is not a commit's.
<1>4. ASSUME NEW t \in Thread,
             \/ pc'[t] \notin PersistLabel \cup {"apply", "resolve", "result"}
             \/ pc'[t] = "dump" /\ loc'[t].next # "resolve"
      PROVE  Spanning(t)'
  BY <1>2, <1>4 DEF Spanning, Committing
\* A step that leaves the span as it is.
<1>5. ASSUME NEW t \in Thread, obj'[t].audit = obj[t].audit,
             loc'[t].before = loc[t].before, loc'[t].turn = loc[t].turn,
             loc'[t].applied = loc[t].applied, Committing(t)' => Committing(t)
      PROVE  Spanning(t)'
  BY <1>1, <1>5 DEF Spanning
<1>6. ASSUME NEW t \in Thread, Looks(t) PROVE Spanning(t)'
  <2>1. CASE \/ Start(t) \/ Read(t) \/ Propose(t) \/ Plan(t) \/ Run(t) \/ Gate(t)
             \/ Ask(t) \/ Route(t) \/ Commit(t) \/ Result(t)
    <3>1. pc'[t] \in {"register", "ask", "commit", "read", "idle", "intent", "route",
                      "record", "run", "gate", "propose", "snapshot", "plan"}
      BY <1>1, <2>1 DEF Start, StartTurn, StartProposal, StartCommit, StartRead, Begin,
         Read, Propose, Plan, Run, Gate, Ask, Route, Commit, Result, Finish, Go
    <3> QED
      BY <1>2, <1>4, <3>1
  <2>2. CASE Snapshot(t)
    <3>1. CASE Finish(t, "badRequest")
      BY <1>1, <1>2, <1>4, <3>1, Finished
    <3>2. CASE Go(t, "apply") /\ loc' = [loc EXCEPT ![t] = [@ EXCEPT !.coord = cache,
                                         !.frozen = Cached.state.frozen,
                                         !.before = Cached.state.version]]
      <4>1. cache = t /\ Cached = obj[t] /\ UNCHANGED obj
        BY <1>1, <2>2, CachedIsMine DEF Snapshot, Ready, Cached
      <4>2. obj[t].state.version = Len(obj[t].audit) /\ Len(obj[t].audit) \in Nat
        BY <1>1, <2>2, <4>1
           DEF CacheSound, Snapshot, Ready, Sound, Explains, CoordinatorType
      <4>3. loc'[t].before = Len(obj'[t].audit)
        BY <1>1, <3>2, <4>1, <4>2 DEF Locals
      <4> QED
        BY <4>1, <4>2, <4>3 DEF Spanning, Spanned
    <3> QED
      BY <2>2, <3>1, <3>2 DEF Snapshot
  <2>3. CASE Resolve(t)
    <3>1. CASE Finish(t, "error")
      BY <1>1, <1>2, <1>4, <3>1, Finished
    <3>2. CASE UNCHANGED loc
      BY <1>5, <2>3, <3>2 DEF Resolve, Committing
    <3> QED
      BY <2>3, <3>1, <3>2 DEF Resolve
  <2> QED
    BY <1>6, <2>1, <2>2, <2>3 DEF Looks
<1>7. ASSUME NEW t \in Thread,
             LoadState(t) \/ LoadAudit(t) \/ Install(t) \/ Register(t)
      PROVE  Spanning(t)'
  <2>1. pc'[t] \in Entry \cup {"plan"}
    BY <1>1, <1>7 DEF LoadState, LoadAudit, Install, Register, Go, DInv, Local, Loading
  <2> QED
    BY <1>2, <1>4, <2>1 DEF Entry
<1>8. ASSUME NEW t \in Thread, Intent(t) \/ Record(t) PROVE Spanning(t)'
  <2>1. PICK l \in {"route", "idle"} : PersistThen(t, l, [loc[t] EXCEPT !.coord = cache])
    BY <1>8 DEF Intent, Record
  <2>2. [[loc[t] EXCEPT !.coord = cache] EXCEPT !.next = l].next = l
    BY <1>1 DEF Locals
  <2>3. pc'[t] = "dump" /\ loc'[t].next = l
    BY <1>1, <2>1, <2>2 DEF PersistThen, Go
  <2> QED
    BY <1>4, <2>3
<1>9. ASSUME NEW t \in Thread, Applied(t) PROVE Spanning(t)'
  <2>1. /\ pc[t] = "apply" /\ UNCHANGED obj
        /\ loc' = [loc EXCEPT ![t] = [loc[t] EXCEPT !.next = "resolve"]]
    BY <1>9 DEF Applied, PersistThen
  <2>2. /\ loc'[t].before = loc[t].before /\ loc'[t].turn = loc[t].turn
        /\ loc'[t].applied = loc[t].applied
    BY <1>1, <2>1 DEF Locals
  <2> QED
    BY <1>5, <2>1, <2>2 DEF Committing
<1>10. ASSUME NEW t \in Thread,
              Dump(t) \/ Open(t) \/ Insert(t) \/ Slice(t) \/ Count(t) \/ Flush(t)
       PROVE  Spanning(t)'
  <2>1. pc[t] \in PersistLabel
    BY <1>2, <1>10 DEF Dump, Open, Insert, Slice, Count, Flush
  <2>2. obj'[t].audit = obj[t].audit
    <3>1. \/ obj' = obj
          \/ \E u, n : obj' = [obj EXCEPT ![u] = [obj[u] EXCEPT !.persisted = n]]
      BY <1>10 DEF Dump, Open, Insert, Slice, Count, Flush
    <3> QED
      BY <1>1, <3>1 DEF CoordinatorType
  <2>3. CASE Persisted(t)
    <3>1. CASE loc[t].next = "idle"
      BY <1>1, <1>2, <1>4, <2>3, <3>1, Finished DEF Persisted
    <3>2. CASE loc[t].next # "idle"
      <4>1. /\ pc' = [pc EXCEPT ![t] = loc[t].next]
            /\ loc' = [loc EXCEPT ![t] = [loc[t] EXCEPT !.dump = Blank, !.rowVer = 0,
                            !.isNew = FALSE, !.batch = <<>>, !.next = "idle"]]
        BY <2>3, <3>2 DEF Persisted, Go
      <4>2. /\ loc'[t].before = loc[t].before /\ loc'[t].turn = loc[t].turn
            /\ loc'[t].applied = loc[t].applied /\ pc'[t] = loc[t].next
        BY <1>1, <4>1 DEF Locals
      <4>3. loc[t].next \in {"route", "resolve"}
        BY <1>1, <2>1, <3>2 DEF Writing
      <4> QED
        BY <1>2, <1>5, <2>1, <2>2, <4>2, <4>3 DEF Committing
    <3> QED
      BY <3>1, <3>2
  <2>4. CASE \/ UNCHANGED loc
             \/ \E x : loc' = [loc EXCEPT ![t] = [loc[t] EXCEPT !.dump = x]]
             \/ \E x : loc' = [loc EXCEPT ![t] = [loc[t] EXCEPT !.isNew = x]]
             \/ \E x, y : loc' = [loc EXCEPT ![t] = [loc[t] EXCEPT !.rowVer = x,
                                                                  !.batch = y]]
    <3>4. /\ \A x : /\ [loc[t] EXCEPT !.dump = x].before = loc[t].before
                    /\ [loc[t] EXCEPT !.dump = x].turn = loc[t].turn
                    /\ [loc[t] EXCEPT !.dump = x].applied = loc[t].applied
                    /\ [loc[t] EXCEPT !.dump = x].next = loc[t].next
                    /\ [loc[t] EXCEPT !.isNew = x].before = loc[t].before
                    /\ [loc[t] EXCEPT !.isNew = x].turn = loc[t].turn
                    /\ [loc[t] EXCEPT !.isNew = x].applied = loc[t].applied
                    /\ [loc[t] EXCEPT !.isNew = x].next = loc[t].next
          /\ \A x, y : LET l == [loc[t] EXCEPT !.rowVer = x, !.batch = y]
                       IN /\ l.before = loc[t].before /\ l.turn = loc[t].turn
                          /\ l.applied = loc[t].applied /\ l.next = loc[t].next
      BY <1>1 DEF Locals
    <3>5. \/ loc'[t] = loc[t]
          \/ \E x : loc'[t] = [loc[t] EXCEPT !.dump = x]
          \/ \E x : loc'[t] = [loc[t] EXCEPT !.isNew = x]
          \/ \E x, y : loc'[t] = [loc[t] EXCEPT !.rowVer = x, !.batch = y]
      BY <1>1, <2>4
    <3>1. /\ loc'[t].before = loc[t].before /\ loc'[t].turn = loc[t].turn
          /\ loc'[t].applied = loc[t].applied /\ loc'[t].next = loc[t].next
      <4>1. CASE loc'[t] = loc[t]
        BY <4>1
      <4>2. CASE \E x : loc'[t] = [loc[t] EXCEPT !.dump = x]
        BY <3>4, <4>2
      <4>3. CASE \E x : loc'[t] = [loc[t] EXCEPT !.isNew = x]
        BY <3>4, <4>3
      <4>4. CASE \E x, y : loc'[t] = [loc[t] EXCEPT !.rowVer = x, !.batch = y]
        BY <3>4, <4>4
      <4> QED
        BY <3>5, <4>1, <4>2, <4>3, <4>4
    <3>2. pc'[t] \in PersistLabel \/ Persisted(t)
      BY <1>1, <1>2, <1>10 DEF Dump, Open, Insert, Slice, Count, Flush, Go
    <3>3. CASE pc'[t] \in PersistLabel
      BY <1>2, <1>5, <2>1, <2>2, <3>1, <3>3 DEF Committing
    <3> QED
      BY <2>3, <3>2, <3>3
  <2> QED
    BY <1>10, <2>3, <2>4 DEF Dump, Open, Insert, Slice, Count, Flush
<1>11. ASSUME NEW t \in Thread, Apply(t) PROVE Spanning(t)'
  <2> DEFINE ch == Head(loc[t].todo)
             r == [loc[t] EXCEPT !.todo = Tail(@)]
             a == obj[t].audit
  <2>1. /\ pc[t] = "apply" /\ pc' = pc /\ loc[t].coord = t /\ loc[t].todo # <<>>
    BY <1>1, <1>11 DEF Apply, Working, WorkLabel
  <2>2. /\ ch \in Change /\ loc[t].turn \in Nat /\ loc[t].before \in Nat
        /\ a \in Seq(Transition)
    BY <1>1, <2>1 DEF Locals, CoordinatorType
  <2>3. /\ ch.slot \in SlotName /\ ch.value \in Val \cup {Junk}
    BY <2>2 DEF Change
  <2>4. Spanned(a, loc[t].before, loc[t].turn, loc[t].applied)
    BY <1>1, <2>1 DEF Spanning, Committing
  <2>5. \A x, y : /\ [r EXCEPT !.applied = x].applied = x
                  /\ [r EXCEPT !.applied = x].turn = loc[t].turn
                  /\ [r EXCEPT !.applied = x].before = loc[t].before
                  /\ [r EXCEPT !.skipped = y].applied = loc[t].applied
                  /\ [r EXCEPT !.skipped = y].turn = loc[t].turn
                  /\ [r EXCEPT !.skipped = y].before = loc[t].before
                  /\ r.applied = loc[t].applied /\ r.turn = loc[t].turn
                  /\ r.before = loc[t].before
    BY <1>1 DEF Locals
  <2>6. CASE /\ loc' = [loc EXCEPT ![t] = [r EXCEPT !.skipped = @ \cup {ch.slot}]]
             /\ UNCHANGED obj
    <3>1. /\ loc'[t].before = loc[t].before /\ loc'[t].turn = loc[t].turn
          /\ loc'[t].applied = loc[t].applied
      <4> DEFINE y == r.skipped \cup {ch.slot}
      <4>1. loc'[t] = [r EXCEPT !.skipped = y]
        BY <1>1, <2>6
      <4> HIDE DEF y, r
      <4> QED
        BY <2>5, <4>1
    <3> QED
      BY <1>5, <2>1, <2>6, <3>1 DEF Committing
  <2>7. CASE /\ loc' = [loc EXCEPT ![t] = [r EXCEPT !.applied = @ \cup {ch.slot}]]
             /\ Update(t, ApplyMutation(obj[t], ch.slot, ch.value, loc[t].turn))
    <3> DEFINE d == ApplyMutation(obj[t], ch.slot, ch.value, loc[t].turn)
               x == loc[t].applied \cup {ch.slot}
    <3>1. obj'[t] = d
      BY <1>1, <2>7 DEF Update
    <3>2. /\ loc'[t].before = loc[t].before /\ loc'[t].turn = loc[t].turn
          /\ loc'[t].applied = x
      <4>1. loc'[t] = [r EXCEPT !.applied = x]
        BY <1>1, <2>5, <2>7
      <4> HIDE DEF x, r
      <4> QED
        BY <2>5, <4>1
    <3>3. \/ d.audit = a
          \/ \E tr \in Transition : /\ d.audit = Append(a, tr) /\ tr.slot = ch.slot
                                    /\ tr.turn = loc[t].turn
      BY <1>1, <2>2, <2>3, MutationAdds
    <3>4. Spanned(d.audit, loc[t].before, loc[t].turn, x)
      <4> HIDE DEF d, a, ch, r
      <4>1. CASE d.audit = a
        BY <2>4, <4>1 DEF Spanned
      <4>2. CASE \E tr \in Transition : /\ d.audit = Append(a, tr)
                                        /\ tr.slot = ch.slot /\ tr.turn = loc[t].turn
        BY <2>2, <2>4, <4>2, SpannedOneMore
      <4> QED
        BY <3>3, <4>1, <4>2
    <3> QED
      BY <3>1, <3>2, <3>4 DEF Spanning
  <2>8. CASE /\ loc' = [loc EXCEPT ![t] = r]
             /\ Update(t, Pin(obj[t], ch.slot, loc[t].turn,
                             IF ch.kind = "freeze" THEN Pinned ELSE Unpinned))
    <3> DEFINE pin == IF ch.kind = "freeze" THEN Pinned ELSE Unpinned
               d == Pin(obj[t], ch.slot, loc[t].turn, pin)
    <3>1. obj'[t] = d /\ pin \in Pins
      BY <1>1, <2>8 DEF Update, Pins
    <3>2. /\ loc'[t].before = loc[t].before /\ loc'[t].turn = loc[t].turn
          /\ loc'[t].applied = loc[t].applied
      BY <1>1, <2>5, <2>8
    <3>3. \E tr \in Transition : /\ d.audit = Append(a, tr) /\ tr.turn = loc[t].turn
                                 /\ tr.after \in Pins
      <4> DEFINE n == loc[t].turn
                 s == ch.slot
      <4>1. /\ obj[t] \in CoordinatorType /\ s \in SlotName /\ n \in Nat /\ pin \in Pins
        BY <1>1, <2>2, <2>3, <3>1
      <4> HIDE DEF pin, n, s
      <4>2. \E tr \in Transition :
              /\ Pin(obj[t], s, n, pin).audit = Append(obj[t].audit, tr)
              /\ tr.turn = n /\ tr.after \in Pins
        BY ONLY <4>1, PinAdds
      <4> QED
        BY <4>2 DEF n, s
    <3>4. Spanned(d.audit, loc[t].before, loc[t].turn, loc[t].applied)
      <4> HIDE DEF d, a, ch, r
      <4> QED
        BY <2>2, <2>4, <3>3, SpannedOneMore
    <3> QED
      BY <3>1, <3>2, <3>4 DEF Spanning
  <2> QED
    BY <1>11, <2>1, <2>6, <2>7, <2>8 DEF Apply
<1>12. ASSUME Crash, NEW t \in Thread PROVE Spanning(t)'
  BY <1>2, <1>4, <1>12 DEF Crash
<1>13. ASSUME UNCHANGED vars, NEW t \in Thread PROVE Spanning(t)'
  BY <1>1, <1>13 DEF vars, Spanning, Committing
<1>14. ASSUME NEW t \in Thread, Start(t) \/ Serve(t) PROVE Spanning(t)'
  BY <1>6, <1>7, <1>8, <1>9, <1>10, <1>11, <1>14 DEF Serve, Looks
<1> QED
  BY <1>1, <1>3, <1>12, <1>13, <1>14 DEF Next

\* A state_commits row is written when its transitions are stored, and stays
\* true because stored transitions do.
LEMMA RowsStep ==
  ASSUME Reachable, QInv, [Next]_vars
  PROVE  RowsMatch'
<1>1. /\ DInv /\ Benign /\ OneThread /\ TypeInv /\ CacheSound /\ RowsMatch
      /\ log \in Seq(Transition) /\ ~Delete /\ commits \in SUBSET CommitRow
      /\ obj \in [Thread -> CoordinatorType]
      /\ \A t \in Thread : Quiet(t) /\ Spanning(t) /\ Working(t)
  BY DEF QInv, Reachable, Benign, DInv, TypeInv, TypeOK, Local, Delete
<1>2. ASSUME NEW t \in Thread, Result(t) PROVE RowsMatch'
  <2>1. /\ pc[t] = "result" /\ UNCHANGED <<cache, obj, row, log>>
        /\ loc[t].coord = t /\ cache = t /\ cache # Nil /\ Cached = obj[t]
    BY <1>1, <1>2, ThreadAssumption DEF Result, Working, WorkLabel, Cached
  <2>2. /\ obj[t].state.version = Len(obj[t].audit) /\ Len(obj[t].audit) \in Nat
    BY <1>1, <2>1 DEF CacheSound, Sound, Explains, CoordinatorType
  <2>3. Spanned(obj[t].audit, loc[t].before, loc[t].turn, loc[t].applied)
    BY <1>1, <2>1 DEF Spanning, Committing
  <2>4. log = obj[t].audit
    <3>1. Saved
      BY <1>1, <2>1 DEF Quiet, Dirty, PersistLabel
    <3>2. CASE row.kind = "full"
      BY <2>1, <3>1, <3>2 DEF Saved
    <3>3. CASE row.kind # "full"
      BY <1>1, <2>1, <3>1, <3>3 DEF Saved, DInv, StoreSound, Fresh
    <3> QED
      BY <3>2, <3>3
  <2> DEFINE r == [before |-> loc[t].before, after |-> obj[t].state.version,
                   turn |-> loc[t].turn, applied |-> loc[t].applied,
                   skipped |-> loc[t].skipped]
  <2>5. commits' = commits \/ commits' = commits \cup {r}
    BY <1>2, <2>1 DEF Result
  <2>6. /\ r.after = Len(log) /\ r.before = loc[t].before
        /\ r.turn = loc[t].turn /\ r.applied = loc[t].applied
    BY <2>2, <2>4
  <2> HIDE DEF r
  <2>7. /\ r.after =< Len(log)
        /\ \A i \in (r.before + 1)..r.after :
             log[i].turn = r.turn /\ (log[i].after \notin Pins => log[i].slot \in r.applied)
    BY <2>2, <2>3, <2>4, <2>6 DEF Spanned
  <2> QED
    BY <1>1, <2>1, <2>5, <2>7 DEF RowsMatch
<1>3. ASSUME UNCHANGED commits, NEW b \in Seq(Transition), log' = log \o b
      PROVE  RowsMatch'
  <2>1. /\ Len(log) \in Nat /\ Len(b) \in Nat /\ Len(log') = Len(log) + Len(b)
        /\ \A i \in 1..Len(log) : log'[i] = log[i]
    BY <1>1, <1>3
  <2> SUFFICES ASSUME NEW r \in commits
               PROVE  /\ r.after =< Len(log')
                      /\ \A i \in (r.before + 1)..r.after :
                           /\ log'[i].turn = r.turn
                           /\ log'[i].after \notin Pins => log'[i].slot \in r.applied
    BY <1>3 DEF RowsMatch
  <2>2. r.before \in Nat /\ r.after \in Nat
    BY <1>1 DEF CommitRow
  <2>3. /\ r.after =< Len(log)
        /\ \A i \in (r.before + 1)..r.after :
             log[i].turn = r.turn /\ (log[i].after \notin Pins => log[i].slot \in r.applied)
    BY <1>1 DEF RowsMatch
  <2>4. \A i \in (r.before + 1)..r.after : i \in 1..Len(log)
    BY <2>1, <2>2, <2>3
  <2> QED
    BY <2>1, <2>2, <2>3, <2>4
<1>4. ASSUME UNCHANGED <<commits, log>> PROVE RowsMatch'
  BY <1>1, <1>4 DEF RowsMatch
<1>5. ASSUME NEW t \in Thread, Flush(t) PROVE RowsMatch'
  BY <1>1, <1>3, <1>5, FlushEffect DEF Flush
<1>6. ASSUME NEW t \in Thread, Start(t) PROVE UNCHANGED <<commits, log>>
  BY <1>6 DEF Start, StartTurn, StartProposal, StartCommit, StartRead, Begin
<1>7. ASSUME NEW t \in Thread, Serve(t), ~Flush(t), ~Result(t)
      PROVE  UNCHANGED <<commits, log>>
  BY <1>7 DEF Serve, LoadState, LoadAudit, Install, Read, Register, Plan, Intent, Route,
              Run, Record, Gate, Ask, Propose, Commit, Snapshot, Apply, Applied, Resolve,
              Dump, Open, Insert, Slice, Count
<1>8. Crash \/ UNCHANGED vars => UNCHANGED <<commits, log>>
  BY DEF Crash, vars
<1> QED
  BY <1>1, <1>2, <1>4, <1>5, <1>6, <1>7, <1>8 DEF Next

LEMMA QuietInvariant == ASSUME Reachable PROVE Spec => []QInv
<1>1. Init => QInv
  <2> SUFFICES ASSUME Init PROVE QInv
    OBVIOUS
  <2>1. DInv
    BY DurableStart DEF Reachable
  <2>2. RowsMatch
    BY DEF Init, RowsMatch
  <2>3. ASSUME NEW t \in Thread PROVE Quiet(t) /\ Spanning(t)
    BY DEF Init, Quiet, Spanning, Committing, PersistLabel, Start0
  <2> QED
    BY <2>1, <2>2, <2>3 DEF QInv
<1>2. QInv /\ [Next]_vars => QInv'
  <2> SUFFICES ASSUME QInv, [Next]_vars PROVE QInv'
    OBVIOUS
  <2>1. DInv'
    BY DurableStep DEF QInv, Reachable
  <2>2. RowsMatch' /\ \A t \in Thread : Spanning(t)'
    BY RowsStep, SpanStep
  <2>3. \A t \in Thread : Quiet(t)'
    BY QuietStep DEF QInv
  <2> QED
    BY <2>1, <2>2, <2>3 DEF QInv
<1> QED
  BY <1>1, <1>2, PTL DEF Spec

(* While nobody is being served, a restart would load what is cached        *)
(* (memory/service.py, "mutations are persisted synchronously"), whatever   *)
(* crashes came before.                                                     *)
THEOREM QuietAlwaysDurable == ASSUME Reachable PROVE Spec => []QuietIsDurable
<1>1. QInv => QuietIsDurable
  <2> SUFFICES ASSUME QInv, cache # Nil, \A t \in Thread : pc[t] = "idle" PROVE Saved
    BY DEF QuietIsDurable, Saved
  <2>1. PICK t \in Thread : cache = t
    BY DEF QInv, DInv, TypeInv, TypeOK
  <2> QED
    BY <2>1 DEF QInv, Quiet, Dirty, PersistLabel
<1> QED
  BY <1>1, QuietInvariant, PTL

(* The state_commits rows and the transitions agree: what a row spans was   *)
(* written by its turn, in slots it reports as applied (memory/service.py,  *)
(* commit_state_update and _persist_commit_postgres).                          *)
THEOREM CommitsAlwaysMatch == ASSUME Reachable PROVE Spec => []CommitsMatchTransitions
<1>1. QInv => CommitsMatchTransitions
  BY DEF QInv, RowsMatch, CommitsMatchTransitions
<1> QED
  BY <1>1, QuietInvariant, PTL
=============================================================================
