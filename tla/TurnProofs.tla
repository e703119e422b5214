------------------------------- MODULE TurnProofs -------------------------------
(***************************************************************************)
(* Proofs about AgentTurn, for any number of threads that ask in one session,  *)
(* any policies, limits, retries and faults.                                 *)
(***************************************************************************)
EXTENDS AgentTurn, FiniteSetTheorems, TLAPS

-----------------------------------------------------------------------------
(* What a turn has of its own.  Two turns of a session overwrite each other's   *)
(* checkpoint, but each goes on with the channels it has in hand.              *)

At == {"idle", "enter", "planner", "gate", "tool", "synthesizer", "judge", "revise",
       "clarification", "end"}

\* The turns that may still make a proposal.
Early == {t \in Thread : pc[t] \in {"enter", "planner", "gate"}}

Types ==
  /\ policy \in Policies /\ policy \in [Tool -> Level]
  /\ saved \in Channels
  /\ count \in Nat /\ turns \in TurnOrNone /\ open \in Nat
  /\ pc \in [Thread -> At]
  /\ ch \in [Thread -> Channels]
  /\ llm \in [Thread -> Tracker]
  /\ run \in [Thread -> Progress]
  /\ out \in [Thread -> Result]

Counts == count <= turns /\ open + Cardinality(Early) <= turns

Fits(x, c, r) ==
  /\ x # "idle" => c.turn \in Turn
  /\ x \notin {"idle", "enter", "end"} => ~c.wait
  /\ x \in {"idle", "enter", "planner", "gate", "clarification"} => r.ran = NoTool
  /\ x \in {"idle", "enter", "planner"} => ~r.degraded
  /\ x = "tool" => c.action \in Tool
  /\ x = "tool" /\ ~r.degraded => policy[c.action] = "auto"
  /\ r.ran # NoTool /\ ~r.degraded => policy[r.ran] = "auto"
  /\ x = "end" /\ c.wait => r.ran = NoTool /\ c.proposal = c.turn

\* A turn that waits has proposed and done nothing.
Waits(o) == o.kind = "await" => o.run.ran = NoTool /\ o.state.proposal = o.state.turn

\* A call is being made while there is room for it.
Room(l) ==
  l.phase \in {"try", "fallback"} =>
    /\ MaxCalls > 0 => l.used < MaxCalls
    /\ "usage" \notin l.hit

Own(t) == Fits(pc[t], ch[t], run[t]) /\ Waits(out[t]) /\ Room(llm[t])

TInv == Types /\ Counts /\ \A t \in Thread : Own(t)

-----------------------------------------------------------------------------
(* The values a step makes. *)

LEMMA StateTypes ==
  NewState \in Channels /\ NewTracker \in Tracker /\ NewRun \in Progress
<1>1. <<>> \in Seq(Turn)
  OBVIOUS
<1>2. 0 \in 0..MaxTurns /\ 0 \in 0..Retries
  BY NumberAssumption
<1> QED
  BY <1>1, <1>2 DEF NewState, NewTracker, NewRun, Channels, Tracker, Progress, Need, Form,
     TurnOrNone

\* A turn that is remembered is appended to a history of turns.
LEMMA RememberedType ==
  ASSUME NEW c \in Channels, c.turn \in Turn
  PROVE  Remembered(c) \in Channels /\ Remembered(c).wait = c.wait
         /\ Remembered(c).turn = c.turn
<1>1. c.history \in Seq(Turn)
  BY DEF Channels
<1>2. Append(c.history, c.turn) \in Seq(Turn)
  BY <1>1
<1> HIDE DEF Turn
<1> QED
  BY <1>2 DEF Remembered, Channels

\* The next state of a thread, the others as they are.
LEMMA OthersStay ==
  ASSUME TInv, NEW t \in Thread, NEW x \in At, NEW c \in Channels, NEW l \in Tracker,
         NEW r \in Progress, NEW o \in Result,
         pc' = [pc EXCEPT ![t] = x], ch' = [ch EXCEPT ![t] = c], llm' = [llm EXCEPT ![t] = l],
         run' = [run EXCEPT ![t] = r], out' = [out EXCEPT ![t] = o],
         policy' = policy, saved' \in Channels,
         count' \in Nat, turns' \in TurnOrNone, open' \in Nat, Counts',
         Fits(x, c, r), Waits(o), Room(l)
  PROVE  TInv'
<1>1. Types'
  BY DEF TInv, Types
<1>t. Own(t)'
  BY DEF TInv, Types, Own, Fits, Waits, Room
<1>2. ASSUME NEW u \in Thread, u # t PROVE Own(u)'
  <2>1. pc'[u] = pc[u] /\ ch'[u] = ch[u] /\ llm'[u] = llm[u] /\ run'[u] = run[u]
        /\ out'[u] = out[u] /\ Own(u)
    BY <1>2 DEF TInv, Types
  <2> QED
    BY <2>1 DEF Own, Fits, Waits, Room
<1> QED
  BY <1>1, <1>t, <1>2 DEF TInv

LEMMA EarlyFinite == IsFiniteSet(Early) /\ Cardinality(Early) \in Nat
<1>1. Early \subseteq Thread
  BY DEF Early
<1> QED
  BY <1>1, ThreadAssumption, FS_Subset, FS_CardinalityType

\* A turn that goes on within its graph, or ends, is not early again.
LEMMA CountsStay ==
  ASSUME TInv, NEW t \in Thread, NEW x \in At, pc' = [pc EXCEPT ![t] = x],
         x \in {"enter", "planner", "gate"} => t \in Early,
         UNCHANGED <<count, turns, open>>
  PROVE  Counts' /\ count' \in Nat /\ turns' \in TurnOrNone /\ open' \in Nat
<1>1. Early' \subseteq Early
  BY DEF TInv, Types, Early
<1>2. Cardinality(Early') <= Cardinality(Early) /\ Cardinality(Early') \in Nat
  BY <1>1, EarlyFinite, FS_Subset, FS_CardinalityType
<1> QED
  BY <1>2, EarlyFinite, NumberAssumption DEF TInv, Types, Counts, TurnOrNone

-----------------------------------------------------------------------------
(* The actions. *)

\* What every action starts from.
LEMMA Before ==
  ASSUME TInv, NEW t \in Thread
  PROVE  /\ policy \in [Tool -> Level] /\ saved \in Channels /\ pc[t] \in At
         /\ ch[t] \in Channels /\ llm[t] \in Tracker /\ run[t] \in Progress
         /\ out[t] \in Result
         /\ Fits(pc[t], ch[t], run[t]) /\ Waits(out[t]) /\ Room(llm[t])
         /\ pc \in [Thread -> At] /\ ch \in [Thread -> Channels]
         /\ llm \in [Thread -> Tracker] /\ run \in [Thread -> Progress]
         /\ out \in [Thread -> Result]
         /\ ch = [ch EXCEPT ![t] = ch[t]] /\ llm = [llm EXCEPT ![t] = llm[t]]
         /\ run = [run EXCEPT ![t] = run[t]] /\ out = [out EXCEPT ![t] = out[t]]
         /\ pc = [pc EXCEPT ![t] = pc[t]]
BY DEF TInv, Types, Own

\* A turn begins: from an idle thread, with a number of its own.
LEMMA BeginKeeps ==
  ASSUME TInv, NEW t \in Thread, NEW bypass \in BOOLEAN, Begin(t, bypass),
         count' \in {count, count + 1}, open' = open \/ (open > 0 /\ open' = open - 1)
  PROVE  TInv'
<1> DEFINE c == [NewState EXCEPT !.turn = turns + 1, !.bypass = bypass]
<1>1. turns \in Nat /\ turns < MaxTurns /\ count \in Nat /\ open \in Nat
      /\ turns' = turns + 1 /\ pc[t] = "idle"
  BY NumberAssumption DEF TInv, Types, TurnOrNone, Begin
<1>2. turns' \in TurnOrNone /\ turns' \in Turn
  BY <1>1, NumberAssumption DEF TurnOrNone, Turn
<1>3. c \in Channels /\ c.turn = turns + 1
  BY <1>1, <1>2, StateTypes DEF NewState, Channels
<1>4. pc' = [pc EXCEPT ![t] = "enter"] /\ ch' = [ch EXCEPT ![t] = c]
      /\ llm' = [llm EXCEPT ![t] = NewTracker] /\ run' = [run EXCEPT ![t] = NewRun]
      /\ UNCHANGED <<policy, saved, out>>
  BY DEF Begin
<1>5. Fits("enter", c, NewRun) /\ Room(NewTracker)
  BY <1>1, <1>2, <1>3, NameAssumption DEF Fits, Room, NewRun, NewTracker
<1>6. Early' = Early \cup {t} /\ t \notin Early
  BY <1>1, <1>4 DEF TInv, Types, Early
<1>7. Cardinality(Early') = Cardinality(Early) + 1
  BY <1>6, EarlyFinite, FS_AddElement
<1>8. Counts' /\ count' \in Nat /\ open' \in Nat
  BY <1>1, <1>7, EarlyFinite DEF TInv, Counts
<1> HIDE DEF c
<1>9. "enter" \in At /\ NewTracker \in Tracker /\ NewRun \in Progress /\ saved' \in Channels
      /\ policy' = policy /\ out' = [out EXCEPT ![t] = out[t]] /\ out[t] \in Result
      /\ Waits(out[t])
  BY <1>4, StateTypes, Before DEF At
<1> QED
  BY <1>2, <1>3, <1>4, <1>5, <1>8, <1>9, OthersStay

\* What a turn starts from is the input over the saved state.
LEMMA InputType ==
  ASSUME NEW c \in Channels, TInv, NEW t \in Thread, NEW prior \in BOOLEAN
  PROVE  /\ Input(c, t, prior) \in Channels /\ ~Input(c, t, prior).wait
         /\ Input(c, t, prior).turn = ch[t].turn
<1>1. ch[t] \in Channels /\ 0 \in TurnOrNone
  BY Before, NumberAssumption DEF TurnOrNone
<1> QED
  BY <1>1 DEF Input, Channels

LEMMA EnterKeeps ==
  ASSUME TInv, NEW t \in Thread, Enter(t)
  PROVE  TInv'
<1>1. PICK prior \in PriorTurns :
        LET c == Input(saved, t, prior) IN
        /\ pc[t] = "enter"
        /\ pc' = [pc EXCEPT ![t] = "planner"]
        /\ ch' = [ch EXCEPT ![t] = c]
        /\ saved' = c
        /\ UNCHANGED <<policy, count, turns, open, llm, run, out>>
  BY DEF Enter
<1> DEFINE c == Input(saved, t, prior)
<1>2. prior \in BOOLEAN
  <2>1. (count > 1) \in BOOLEAN /\ FALSE \in BOOLEAN
    OBVIOUS
  <2>2. PriorTurns \subseteq {count > 1, FALSE}
    BY Zenon DEF PriorTurns
  <2> HIDE DEF PriorTurns
  <2>3. {count > 1, FALSE} \subseteq BOOLEAN
    BY <2>1, Zenon
  <2> QED
    BY <2>2, <2>3
<1>3. c \in Channels /\ ~c.wait /\ c.turn = ch[t].turn
  BY <1>2, InputType, Before
<1>4. pc' = [pc EXCEPT ![t] = "planner"] /\ ch' = [ch EXCEPT ![t] = c] /\ saved' = c
      /\ UNCHANGED <<policy, count, turns, open, llm, run, out>> /\ pc[t] = "enter"
  BY <1>1
<1> HIDE DEF c
<1>5. Fits("planner", c, run[t])
  BY <1>3, <1>4, Before DEF Fits
<1>6. "planner" \in At /\ t \in Early
  BY <1>4 DEF At, Early
<1>7. Counts' /\ count' \in Nat /\ turns' \in TurnOrNone /\ open' \in Nat
  BY <1>4, <1>6, CountsStay
<1> QED
  BY <1>3, <1>4, <1>5, <1>6, <1>7, Before, OthersStay

\* A step of a model call: the thread stays in its node, or goes from the judge to the
\* revision.
LEMMA CallKeeps ==
  ASSUME TInv, NEW t \in Thread, NEW l \in Tracker, NEW r \in Progress,
         NEW x \in {pc[t], "revise"}, pc[t] \in {"planner", "judge", "revise", "synthesizer"},
         x = "revise" => pc[t] \in {"judge", "revise"},
         pc' = [pc EXCEPT ![t] = x], llm' = [llm EXCEPT ![t] = l], Room(l),
         run' = [run EXCEPT ![t] = r], r.ran = run[t].ran, r.degraded = run[t].degraded,
         UNCHANGED <<policy, saved, count, turns, open, ch, out>>
  PROVE  TInv'
<1>1. x \in At /\ (x \in {"enter", "planner", "gate"} => t \in Early)
  BY Before DEF At, Early
<1>2. Fits(x, ch[t], r)
  BY Before DEF Fits
<1>3. Counts' /\ count' \in Nat /\ turns' \in TurnOrNone /\ open' \in Nat
  BY <1>1, CountsStay
<1> QED
  BY <1>1, <1>2, <1>3, Before, OthersStay

\* A node that is done.
LEMMA DoneKeeps ==
  ASSUME TInv, NEW t \in Thread, NEW c \in Channels, NEW x \in At, NEW r \in Progress,
         Done(t, c, x), run' = [run EXCEPT ![t] = r], Fits(x, c, r),
         x # "enter", x \in {"planner", "gate"} => t \in Early, UNCHANGED open
  PROVE  TInv'
<1> DEFINE l == [llm[t] EXCEPT !.phase = "check", !.attempt = 0]
<1>1. l \in Tracker /\ l.phase = "check"
  <2>1. llm[t] \in Tracker /\ 0 \in 0..Retries
    BY Before, NumberAssumption
  <2> QED
    BY <2>1 DEF Tracker
<1>2. pc' = [pc EXCEPT ![t] = x] /\ ch' = [ch EXCEPT ![t] = c] /\ saved' = c
      /\ llm' = [llm EXCEPT ![t] = l] /\ UNCHANGED <<policy, count, turns, out>>
  BY DEF Done
<1>3. Room(l)
  BY <1>1 DEF Room
<1> HIDE DEF l
<1>4. Counts' /\ count' \in Nat /\ turns' \in TurnOrNone /\ open' \in Nat
  BY <1>2, CountsStay
<1> QED
  BY <1>1, <1>2, <1>3, <1>4, Before, OthersStay

LEMMA RaiseKeeps ==
  ASSUME TInv, NEW t \in Thread, Raise(t), pc[t] \notin {"idle", "enter", "end"}
  PROVE  TInv'
<1> DEFINE r == [run[t] EXCEPT !.raised = "error"]
<1>1. r \in Progress /\ r.ran = run[t].ran /\ r.degraded = run[t].degraded
  BY Before DEF Progress
<1>2. pc' = [pc EXCEPT ![t] = "end"] /\ run' = [run EXCEPT ![t] = r]
      /\ UNCHANGED <<policy, saved, count, turns, open, ch, llm, out>> /\ "end" \in At
  BY DEF Raise, At
<1> HIDE DEF r
<1>3. Fits("end", ch[t], r)
  BY <1>1, Before DEF Fits
<1>4. Counts' /\ count' \in Nat /\ turns' \in TurnOrNone /\ open' \in Nat
  BY <1>2, CountsStay
<1> QED
  BY <1>1, <1>2, <1>3, <1>4, Before, OthersStay

\* The steps of a model call.  A call is tried only with room for it, and only the time
\* it takes counts while it fails.
LEMMA AskKeeps ==
  ASSUME TInv, NEW t \in Thread, Ask(t)
  PROVE  TInv'
<1>T. llm[t] \in Tracker /\ run[t] \in Progress /\ Room(llm[t]) /\ 0 \in 0..Retries
      /\ Retries \in Nat /\ MaxCalls \in Nat /\ HasFallback \in BOOLEAN
  BY Before, NumberAssumption, FaultsAssumption
<1>L. Limits \subseteq AllLimits
  BY SettingAssumption
<1>A. pc = [pc EXCEPT ![t] = pc[t]] /\ run = [run EXCEPT ![t] = run[t]]
  BY Before
<1>P. Asking(t) => pc[t] \in {"planner", "judge", "revise", "synthesizer"}
  BY DEF Asking
<1>1. CASE CheckBudget(t)
  <2> DEFINE refused == Exceeded(llm[t])
             l == [llm[t] EXCEPT !.phase = IF refused THEN "down" ELSE "try"]
             r == [run[t] EXCEPT !.refused = @ \/ refused]
  <2>0. refused \in BOOLEAN
    BY DEF Exceeded
  <2>1. l \in Tracker /\ r \in Progress /\ r.ran = run[t].ran /\ r.degraded = run[t].degraded
    BY <1>T, <2>0 DEF Tracker, Progress
  <2>2. Room(l)
    <3>1. ASSUME l.phase # "down" PROVE ~refused /\ l.used = llm[t].used /\ l.hit = llm[t].hit
      BY <1>T, <3>1 DEF Tracker
    <3>2. ~refused => (MaxCalls > 0 => llm[t].used < MaxCalls) /\ llm[t].hit = {}
      BY <1>T DEF Exceeded, Tracker
    <3> HIDE DEF refused, l
    <3> QED
      BY <3>1, <3>2 DEF Room
  <2>3. llm' = [llm EXCEPT ![t] = l] /\ run' = [run EXCEPT ![t] = r] /\ Asking(t)
        /\ UNCHANGED <<policy, saved, count, turns, open, pc, ch, out>>
    BY <1>1 DEF CheckBudget
  <2> HIDE DEF refused, l, r
  <2>4. pc' = [pc EXCEPT ![t] = pc[t]]
    BY <1>A, <2>3
  <2> QED
    BY <1>P, <2>1, <2>2, <2>3, <2>4, CallKeeps
<1>2. ASSUME Asking(t), UNCHANGED <<policy, saved, count, turns, open, pc, ch, run, out>>,
             NEW phase \in {"try", "fallback", "ok", "down"},
             NEW attempt \in 0..Retries, NEW used \in Nat, NEW hit \in SUBSET AllLimits,
             llm' = [llm EXCEPT ![t].phase = phase, ![t].attempt = attempt,
                                ![t].used = used, ![t].hit = @ \cup hit],
             phase \in {"try", "fallback"} =>
               /\ llm[t].phase \in {"try", "fallback"} /\ used = llm[t].used
               /\ hit \subseteq {"wallclock"}
      PROVE  TInv'
  <2> DEFINE l == [llm[t] EXCEPT !.phase = phase, !.attempt = attempt, !.used = used,
                                 !.hit = @ \cup hit]
  <2>1. l \in Tracker /\ l.phase = phase /\ l.used = used /\ l.hit = llm[t].hit \cup hit
    BY <1>T, <1>2 DEF Tracker
  <2>2. llm' = [llm EXCEPT ![t] = l]
    BY <1>2
  <2> HIDE DEF l
  <2>3. Room(l)
    BY <1>T, <1>2, <2>1 DEF Room
  <2>4. pc' = [pc EXCEPT ![t] = pc[t]] /\ run' = [run EXCEPT ![t] = run[t]]
    BY <1>A, <1>2
  <2> QED
    BY <1>P, <1>T, <1>2, <2>1, <2>2, <2>3, <2>4, CallKeeps
<1>3. ASSUME Asking(t), UNCHANGED <<policy, saved, count, turns, open, pc, ch, run, out>>,
             Answers(t)
      PROVE  TInv'
  <2>1. PICK hit \in SUBSET Limits :
          llm' = [llm EXCEPT ![t].phase = "ok", ![t].used = @ + 1, ![t].hit = @ \cup hit]
    BY <1>3 DEF Answers
  <2>2. llm[t].attempt \in 0..Retries /\ llm[t].used + 1 \in Nat
    BY <1>T DEF Tracker
  <2>3. llm' = [llm EXCEPT ![t].phase = "ok", ![t].attempt = llm[t].attempt,
                           ![t].used = llm[t].used + 1, ![t].hit = @ \cup hit]
    BY <1>T, <2>1, Before DEF Tracker
  <2> QED
    BY <1>2, <1>3, <1>L, <2>2, <2>3
<1>4. ASSUME Asking(t), UNCHANGED <<policy, saved, count, turns, open, pc, ch, run, out>>,
             llm[t].phase \in {"try", "fallback"},
             NEW phase \in {"try", "fallback", "down"}, NEW attempt \in 0..Retries,
             Fails(t, phase, attempt)
      PROVE  TInv'
  <2>1. PICK hit \in SUBSET (Limits \cap {"wallclock"}) :
          llm' = [llm EXCEPT ![t].phase = phase, ![t].attempt = attempt,
                             ![t].hit = @ \cup hit]
    BY <1>4 DEF Fails
  <2>2. llm[t].used \in Nat
    BY <1>T DEF Tracker
  <2>3. llm' = [llm EXCEPT ![t].phase = phase, ![t].attempt = attempt,
                           ![t].used = llm[t].used, ![t].hit = @ \cup hit]
    <3>1. [llm[t] EXCEPT !.phase = phase, !.attempt = attempt, !.hit = @ \cup hit] =
          [llm[t] EXCEPT !.phase = phase, !.attempt = attempt, !.used = llm[t].used,
                         !.hit = @ \cup hit]
      BY <1>T DEF Tracker
    <3> QED
      BY <2>1, <3>1
  <2>4. hit \in SUBSET AllLimits /\ hit \subseteq {"wallclock"}
        /\ phase \in {"try", "fallback", "ok", "down"}
    BY <1>L
  <2> QED
    BY <1>2, <1>4, <2>2, <2>3, <2>4
<1>a. llm[t].attempt \in 0..Retries
      /\ (llm[t].attempt < Retries => llm[t].attempt + 1 \in 0..Retries)
  BY <1>T DEF Tracker
<1>5. CASE Attempt(t)
  <2>1. Asking(t) /\ UNCHANGED <<policy, saved, count, turns, open, pc, ch, run, out>>
        /\ llm[t].phase = "try"
    BY <1>5 DEF Attempt
  <2> DEFINE phase == IF HasFallback THEN "fallback" ELSE "down"
  <2>2. \/ Answers(t)
        \/ llm[t].attempt < Retries /\ Fails(t, "try", llm[t].attempt + 1)
        \/ Fails(t, phase, llm[t].attempt)
    BY <1>5 DEF Attempt
  <2>3. phase \in {"try", "fallback", "down"}
    OBVIOUS
  <2> HIDE DEF phase
  <2> QED
    BY <1>3, <1>4, <1>a, <2>1, <2>2, <2>3
<1>6. CASE Fallback(t)
  <2>1. Asking(t) /\ UNCHANGED <<policy, saved, count, turns, open, pc, ch, run, out>>
        /\ llm[t].phase = "fallback" /\ (Answers(t) \/ Fails(t, "down", llm[t].attempt))
    BY <1>6 DEF Fallback
  <2> QED
    BY <1>3, <1>4, <1>a, <2>1
<1>7. CASE TemplateRaises(t) \/ JudgeRaises(t)
  <2>1. Raise(t) /\ pc[t] \notin {"idle", "enter", "end"}
    BY <1>7, <1>P DEF TemplateRaises, JudgeRaises
  <2> QED
    BY <2>1, RaiseKeeps
<1> QED
  BY <1>1, <1>5, <1>6, <1>7 DEF Ask

\* Where a turn goes after the planner: to the tool only if the policy asks for nobody.
LEMMA RouteFits ==
  ASSUME NEW c \in Channels, c.turn \in Turn, ~c.wait, NEW r \in Progress, r.ran = NoTool,
         c.clar \/ c.action \in Tool,
         c.needs = "nothing" => c.clar \/ r.degraded \/ policy[c.action] = "auto"
  PROVE  /\ Route(c) \in {"clarification", "gate", "synthesizer", "tool"}
         /\ Fits(Route(c), c, r)
<1>1. /\ Route(c) \in {"clarification", "gate", "synthesizer", "tool"}
      /\ Route(c) = "tool" => ~c.clar /\ c.needs = "nothing"
  <2>1. c.clar \in BOOLEAN /\ c.bypass \in BOOLEAN
    BY DEF Channels
  <2>2. CASE c.clar
    BY <2>2 DEF Route
  <2>3. CASE ~c.clar /\ ~c.bypass /\ ShouldPause(c)
    BY <2>3 DEF Route
  <2>4. CASE ~c.clar /\ ~(~c.bypass /\ ShouldPause(c))
    <3>1. Route(c) = IF c.needs # "nothing" THEN "synthesizer" ELSE "tool"
      BY <2>4 DEF Route
    <3> QED
      BY <2>4, <3>1
  <2> QED
    BY <2>2, <2>3, <2>4
<1> QED
  BY <1>1 DEF Fits

\* The nodes.
LEMMA NodeKeeps ==
  ASSUME TInv, NEW t \in Thread, Node(t)
  PROVE  TInv'
<1>T. /\ ch[t] \in Channels /\ llm[t] \in Tracker /\ run[t] \in Progress
      /\ Fits(pc[t], ch[t], run[t]) /\ policy \in [Tool -> Level] /\ pc[t] \in At
  BY Before
<1>r. run' = run => run' = [run EXCEPT ![t] = run[t]]
  BY Before
<1>m. \A l \in Level : NeedOf(l) \in Need /\ (NeedOf(l) = "nothing" => l = "auto")
  BY DEF NeedOf, Level, Need
<1>n. NoTool \notin Tool
  BY NameAssumption
<1>p. ASSUME pc[t] = "planner", UNCHANGED <<open, run>>, NEW c \in Channels,
             c.turn = ch[t].turn, c.wait = ch[t].wait, Done(t, c, Route(c)),
             c.clar \/ c.action \in Tool,
             c.needs = "nothing" => c.clar \/ policy[c.action] = "auto"
      PROVE  TInv'
  <2>1. c.turn \in Turn /\ ~c.wait /\ run[t].ran = NoTool
    BY <1>T, <1>p DEF Fits
  <2>2. Fits(Route(c), c, run[t])
        /\ Route(c) \in {"clarification", "gate", "synthesizer", "tool"}
    BY <1>T, <1>p, <2>1, RouteFits
  <2>3. Route(c) \in At /\ Route(c) # "enter" /\ t \in Early
    BY <1>p, <2>2 DEF At, Early
  <2> QED
    BY <1>T, <1>r, <1>p, <2>2, <2>3, DoneKeeps
<1>1. CASE PlannerChooses(t)
  <2> DEFINE chosen(tool, thin) ==
               [ch[t] EXCEPT !.action = tool, !.thin = thin, !.needs = NeedOf(policy[tool])]
             unclear == [ch[t] EXCEPT !.action = NoTool, !.thin = FALSE, !.needs = "nothing",
                                      !.clar = TRUE]
  <2>1. pc[t] = "planner" /\ UNCHANGED <<open, run>>
        /\ \/ \E tool \in Tool, thin \in BOOLEAN :
                Done(t, chosen(tool, thin), Route(chosen(tool, thin)))
           \/ Done(t, unclear, Route(unclear))
    BY <1>1 DEF PlannerChooses
  <2>2. ASSUME NEW tool \in Tool, NEW thin \in BOOLEAN
        PROVE  LET c == chosen(tool, thin)
               IN /\ c \in Channels /\ c.turn = ch[t].turn /\ c.wait = ch[t].wait
                  /\ c.action \in Tool /\ (c.needs = "nothing" => policy[c.action] = "auto")
    <3>1. NeedOf(policy[tool]) \in Need
          /\ (NeedOf(policy[tool]) = "nothing" => policy[tool] = "auto")
      BY <1>T, <1>m
    <3> QED
      BY <1>T, <3>1 DEF Channels
  <2>3. unclear \in Channels /\ unclear.turn = ch[t].turn /\ unclear.wait = ch[t].wait
        /\ unclear.clar
    BY <1>T DEF Channels, Need
  <2> HIDE DEF chosen, unclear
  <2> QED
    BY <1>p, <2>1, <2>2, <2>3
<1>2. CASE PlannerDegrades(t)
  <2> DEFINE c == [ch[t] EXCEPT !.action = "knowledge", !.thin = FALSE, !.needs = "nothing"]
             r == [run[t] EXCEPT !.degraded = TRUE]
  <2>1. pc[t] = "planner" /\ run' = [run EXCEPT ![t] = r] /\ Done(t, c, Route(c))
        /\ UNCHANGED open
    BY <1>2 DEF PlannerDegrades
  <2>2. c \in Channels /\ c.turn = ch[t].turn /\ c.wait = ch[t].wait /\ c.action \in Tool
    BY <1>T DEF Channels, Tool, Need
  <2>3. r \in Progress /\ r.ran = run[t].ran /\ r.degraded
    BY <1>T DEF Progress
  <2> HIDE DEF c, r
  <2>4. c.turn \in Turn /\ ~c.wait /\ r.ran = NoTool
    BY <1>T, <2>1, <2>2, <2>3 DEF Fits
  <2>5. Fits(Route(c), c, r) /\ Route(c) \in {"clarification", "gate", "synthesizer", "tool"}
    BY <2>2, <2>3, <2>4, RouteFits
  <2>6. Route(c) \in At /\ Route(c) # "enter" /\ t \in Early
    BY <2>1, <2>5 DEF At, Early
  <2> QED
    BY <2>1, <2>2, <2>3, <2>5, <2>6, DoneKeeps
<1>3. CASE Gate(t)
  <2> DEFINE c == [ch[t] EXCEPT !.wait = TRUE, !.proposal = ch[t].turn]
             l == [llm[t] EXCEPT !.phase = "check", !.attempt = 0]
  <2>1. pc[t] = "gate" /\ UNCHANGED run /\ open' \in {open, open + 1}
        /\ Done(t, c, "end")
    BY <1>3 DEF Gate
  <2>2. c \in Channels /\ c.turn = ch[t].turn /\ c.proposal = c.turn
    BY <1>T DEF Channels
  <2>3. l \in Tracker /\ l.phase = "check"
    <3>1. 0 \in 0..Retries
      BY NumberAssumption
    <3> QED
      BY <1>T, <3>1 DEF Tracker
  <2>4. Room(l)
    BY <2>3 DEF Room
  <2>5. pc' = [pc EXCEPT ![t] = "end"] /\ ch' = [ch EXCEPT ![t] = c] /\ saved' = c
        /\ llm' = [llm EXCEPT ![t] = l] /\ UNCHANGED <<policy, count, turns, out>>
        /\ "end" \in At
    BY <2>1 DEF Done, At
  <2> HIDE DEF c, l
  <2>6. Fits("end", c, run[t])
    BY <1>T, <2>1, <2>2 DEF Fits
  <2>7. Early' = Early \ {t} /\ t \in Early
    BY <2>1, <2>5 DEF TInv, Types, Early
  <2>8. Cardinality(Early') = Cardinality(Early) - 1
    BY <2>7, EarlyFinite, FS_RemoveElement
  <2>9. Counts' /\ count' \in Nat /\ turns' \in TurnOrNone /\ open' \in Nat
    BY <2>1, <2>5, <2>8, EarlyFinite, NumberAssumption DEF TInv, Types, Counts, TurnOrNone
  <2> QED
    BY <1>r, <2>1, <2>2, <2>3, <2>4, <2>5, <2>6, <2>9, Before, OthersStay
<1>4. CASE RunTool(t)
  <2> DEFINE c == [ch[t] EXCEPT !.raw = ch[t].turn]
             r == [run[t] EXCEPT !.ran = ch[t].action]
  <2>1. pc[t] = "tool" /\ run' = [run EXCEPT ![t] = r] /\ Done(t, c, "synthesizer")
        /\ UNCHANGED open
    BY <1>4 DEF RunTool
  <2>2. c \in Channels /\ c.turn = ch[t].turn /\ c.wait = ch[t].wait
        /\ r \in Progress /\ r.ran = ch[t].action /\ r.degraded = run[t].degraded
    BY <1>T DEF Channels, Progress
  <2> HIDE DEF c, r
  <2>3. Fits("synthesizer", c, r) /\ "synthesizer" \in At
    BY <1>T, <2>1, <2>2 DEF Fits, At
  <2> QED
    BY <2>1, <2>2, <2>3, DoneKeeps
<1>5. ASSUME NEW c \in Channels, c.turn = ch[t].turn, c.wait = ch[t].wait,
             UNCHANGED <<open, run>>,
             \/ pc[t] = "synthesizer" /\ Done(t, c, "judge")
             \/ pc[t] \in {"judge", "revise", "clarification"} /\ Done(t, c, "end")
      PROVE  TInv'
  <2>1. PICK x \in {"judge", "end"} : Done(t, c, x)
          /\ pc[t] \in {"synthesizer", "judge", "revise", "clarification"}
    BY <1>5
  <2>2. Fits(x, c, run[t]) /\ x \in At
    BY <1>T, <1>5, <2>1 DEF Fits, At
  <2> QED
    BY <1>T, <1>r, <1>5, <2>1, <2>2, DoneKeeps
<1>6. ASSUME NEW form \in Form
      PROVE  /\ [ch[t] EXCEPT !.answer = ch[t].turn, !.form = form] \in Channels
             /\ [ch[t] EXCEPT !.answer = ch[t].turn, !.form = form].turn = ch[t].turn
             /\ [ch[t] EXCEPT !.answer = ch[t].turn, !.form = form].wait = ch[t].wait
  BY <1>T DEF Channels
<1>f. {"plan", "draft", "plain", "revised", "ask"} \subseteq Form
  BY DEF Form
<1>7. CASE Plan(t)
  BY <1>5, <1>6, <1>7, <1>f DEF Plan
<1>8. CASE Synthesize(t)
  <2> DEFINE form == IF llm[t].phase = "ok" THEN "draft" ELSE "plain"
  <2>1. form \in Form
    BY <1>f
  <2>2. pc[t] = "synthesizer" /\ UNCHANGED <<open, run>>
        /\ Done(t, [ch[t] EXCEPT !.answer = ch[t].turn, !.form = form], "judge")
    BY <1>8 DEF Synthesize
  <2> HIDE DEF form
  <2> QED
    BY <1>5, <1>6, <2>1, <2>2
<1>9. CASE JudgePasses(t)
  <2>1. pc[t] = "judge" /\ UNCHANGED <<open, run>> /\ Done(t, Remembered(ch[t]), "end")
    BY <1>9 DEF JudgePasses
  <2>2. ch[t].turn \in Turn
    BY <1>T, <2>1 DEF Fits
  <2> QED
    BY <1>T, <1>5, <2>1, <2>2, RememberedType
<1>10. CASE JudgeObjects(t)
  <2> DEFINE l == [llm[t] EXCEPT !.phase = "check", !.attempt = 0]
  <2>1. l \in Tracker /\ l.phase = "check"
    <3>1. 0 \in 0..Retries
      BY NumberAssumption
    <3> QED
      BY <1>T, <3>1 DEF Tracker
  <2>2. Room(l)
    BY <2>1 DEF Room
  <2>3. pc[t] = "judge" /\ pc' = [pc EXCEPT ![t] = "revise"] /\ llm' = [llm EXCEPT ![t] = l]
        /\ UNCHANGED <<policy, saved, count, turns, open, ch, run, out>>
    BY <1>10 DEF JudgeObjects
  <2> HIDE DEF l
  <2> QED
    BY <1>T, <1>r, <2>1, <2>2, <2>3, CallKeeps
<1>11. CASE Revise(t)
  <2> DEFINE d == [ch[t] EXCEPT !.answer = ch[t].turn, !.form = "revised"]
             c == IF llm[t].phase = "ok" THEN d ELSE ch[t]
  <2>1. pc[t] = "revise" /\ UNCHANGED <<open, run>> /\ Done(t, Remembered(c), "end")
    BY <1>11 DEF Revise
  <2>2. d \in Channels /\ d.turn = ch[t].turn /\ d.wait = ch[t].wait
    BY <1>6, <1>f
  <2> HIDE DEF d
  <2>3. c \in Channels /\ c.turn = ch[t].turn /\ c.wait = ch[t].wait
    BY <1>T, <2>2
  <2> HIDE DEF c
  <2>4. c.turn \in Turn
    BY <1>T, <2>1, <2>3 DEF Fits
  <2> QED
    BY <1>5, <2>1, <2>3, <2>4, RememberedType
<1>12. CASE Clarify(t)
  <2> DEFINE c == [ch[t] EXCEPT !.answer = ch[t].turn, !.form = "ask"]
  <2>1. pc[t] = "clarification" /\ UNCHANGED <<open, run>> /\ Done(t, Remembered(c), "end")
    BY <1>12 DEF Clarify
  <2>2. c \in Channels /\ c.turn = ch[t].turn /\ c.wait = ch[t].wait
    BY <1>6, <1>f
  <2> HIDE DEF c
  <2>3. c.turn \in Turn
    BY <1>T, <2>1, <2>2 DEF Fits
  <2> QED
    BY <1>5, <2>1, <2>2, <2>3, RememberedType
<1> QED
  BY <1>1, <1>2, <1>3, <1>4, <1>7, <1>8, <1>9, <1>10, <1>11, <1>12 DEF Node

\* The result: a turn awaits its user only if the graph has ended with the flag up.
LEMMA EndKeeps ==
  ASSUME TInv, NEW t \in Thread, End(t)
  PROVE  TInv'
<1>T. ch[t] \in Channels /\ run[t] \in Progress /\ Fits(pc[t], ch[t], run[t])
  BY Before
<1> DEFINE o == Recorded(ch[t], run[t])
<1>1. KindOf(ch[t], run[t]) \in {"answer", "await", "clarify", "budget", "error"}
      /\ (KindOf(ch[t], run[t]) = "await" => ch[t].wait)
  <2>0. /\ run[t].raised \in {"nothing", "budget", "error"}
        /\ ch[t].wait \in BOOLEAN /\ ch[t].clar \in BOOLEAN
    BY <1>T DEF Channels, Progress
  <2>1. CASE run[t].raised # "nothing"
    BY <2>0, <2>1 DEF KindOf
  <2>2. CASE run[t].raised = "nothing" /\ ch[t].wait
    BY <2>0, <2>2 DEF KindOf
  <2>3. CASE run[t].raised = "nothing" /\ ~ch[t].wait
    BY <2>0, <2>3 DEF KindOf
  <2> QED
    BY <2>0, <2>1, <2>2, <2>3
<1>2. pc[t] = "end" /\ pc' = [pc EXCEPT ![t] = "idle"] /\ out' = [out EXCEPT ![t] = o]
      /\ ch' = [ch EXCEPT ![t] = NewState] /\ llm' = [llm EXCEPT ![t] = NewTracker]
      /\ run' = [run EXCEPT ![t] = NewRun] /\ UNCHANGED <<policy, saved, count, turns, open>>
      /\ "idle" \in At
  BY DEF End, At
<1>3. o \in Result
  BY <1>T, <1>1 DEF Recorded, Result
<1>4. Waits(o)
  BY <1>T, <1>1, <1>2 DEF Fits, Waits, Recorded
<1> HIDE DEF o
<1>5. Fits("idle", NewState, NewRun) /\ Room(NewTracker)
  BY DEF Fits, Room, NewState, NewRun, NewTracker
<1>6. Counts' /\ count' \in Nat /\ turns' \in TurnOrNone /\ open' \in Nat
  BY <1>2, CountsStay
<1> QED
  BY <1>2, <1>3, <1>4, <1>5, <1>6, Before, StateTypes, OthersStay

LEMMA TInvInit == Init => TInv
<1> SUFFICES ASSUME Init PROVE TInv
  OBVIOUS
<1>1. policy \in [Tool -> Level]
  BY PolicyAssumption DEF Init
<1>2. [kind |-> "none", run |-> NewRun, state |-> NewState] \in Result
  BY StateTypes DEF Result
<1>3. Types
  BY <1>1, <1>2, StateTypes, NumberAssumption DEF Init, Types, At, TurnOrNone
<1>4. Early = {}
  BY DEF Init, Early
<1>5. Counts
  BY <1>4, FS_EmptySet DEF Init, Counts
<1>6. ASSUME NEW t \in Thread PROVE Own(t)
  BY DEF Init, Own, Fits, Waits, Room, NewState, NewRun, NewTracker
<1> QED
  BY <1>3, <1>5, <1>6 DEF TInv

LEMMA TInvNext == TInv /\ [Next]_vars => TInv'
<1> SUFFICES ASSUME TInv, [Next]_vars PROVE TInv'
  OBVIOUS
<1>1. CASE UNCHANGED vars
  BY <1>1 DEF vars, TInv, Types, Counts, Early, Own, Fits, Waits, Room
<1>2. ASSUME NEW t \in Thread, Query(t) PROVE TInv'
  <2>1. PICK bypass \in BOOLEAN :
          Begin(t, bypass) /\ count' \in {count, count + 1} /\ open' = open
    BY <1>2 DEF Query
  <2> QED
    BY <2>1, BeginKeeps
<1>3. ASSUME NEW t \in Thread, Resume(t) PROVE TInv'
  BY <1>3, BeginKeeps DEF Resume
<1>4. ASSUME NEW t \in Thread, Step(t) PROVE TInv'
  BY <1>4, EnterKeeps, AskKeeps, NodeKeeps, EndKeeps DEF Step
<1> QED
  BY <1>1, <1>2, <1>3, <1>4 DEF Next

LEMMA TInvAlways == Spec => []TInv
BY TInvInit, TInvNext, PTL DEF Spec

-----------------------------------------------------------------------------
(* The theorems. *)

\* State, trackers, records and results keep their types, and neither the turns counted
\* nor the proposals that wait are ever more than the turns that have begun.
THEOREM TurnTypesAlways == Spec => []TypeOK
<1>1. TInv => TypeOK
  <2> SUFFICES ASSUME TInv PROVE TypeOK
    OBVIOUS
  <2>1. {count, turns, open} \subseteq TurnOrNone
    BY EarlyFinite, NumberAssumption DEF TInv, Types, Counts, TurnOrNone
  <2> QED
    BY <2>1 DEF TInv, Types, TypeOK, At
<1> QED
  BY <1>1, TInvAlways, PTL

\* No tool the planner has chosen runs against the autonomy policy
\* (agents/planner.py:281), whichever turns overlap and whatever they have confirmed.
THEOREM PolicyAlwaysHolds == Spec => []PolicyHolds
<1>1. TInv => PolicyHolds
  BY DEF TInv, Own, Fits, PolicyHolds
<1> QED
  BY <1>1, TInvAlways, PTL

\* A turn that ends by waiting has run no tool and waits for its own proposal
\* (agents/runner.py:161), whatever flags the saved state of the session holds.
THEOREM WaitingAlwaysOwn == Spec => []WaitingIsOwn
<1>1. TInv => WaitingIsOwn
  BY DEF TInv, Own, Waits, WaitingIsOwn
<1> QED
  BY <1>1, TInvAlways, PTL

\* A run's limits hold for the calls of every node, the revision included
\* (llm_factory.py:128, evaluation/budget.py:104): none is made beyond them.
THEOREM BudgetAlwaysHolds == Spec => BudgetHolds
<1>1. ASSUME TInv, [Next]_vars, NEW t \in Thread, llm'[t].used > llm[t].used
      PROVE  (MaxCalls > 0 => llm[t].used < MaxCalls) /\ "usage" \notin llm[t].hit
  <2>T. llm \in [Thread -> Tracker] /\ llm[t] \in Tracker /\ Room(llm[t])
        /\ llm[t].used \in Nat
    BY <1>1, Before DEF Tracker
  <2>1. llm'[t] # llm[t]
    BY <1>1, <2>T
  <2>2. ASSUME NEW u \in Thread, Query(u) \/ Resume(u) PROVE FALSE
    <3>1. llm' = [llm EXCEPT ![u] = NewTracker]
      BY <2>2 DEF Query, Resume, Begin
    <3>2. llm'[t].used = 0
      BY <2>T, <2>1, <3>1 DEF NewTracker
    <3> QED
      BY <1>1, <2>T, <3>2
  <2>3. PICK u \in Thread : Step(u)
    BY <1>1, <2>1, <2>2 DEF Next, vars
  <2>4. ASSUME llm[t].phase \in {"try", "fallback"} PROVE (MaxCalls > 0 => llm[t].used < MaxCalls)
                                                          /\ "usage" \notin llm[t].hit
    BY <2>T, <2>4 DEF Room
  <2>5. ASSUME NEW phase, NEW attempt, llm' = [llm EXCEPT ![u].phase = phase, ![u].attempt = attempt]
        PROVE  FALSE
    <3>1. llm'[t].used = llm[t].used
      BY <2>T, <2>5 DEF Tracker
    <3> QED
      BY <1>1, <2>T, <3>1
  <2>6. ASSUME NEW phase, llm' = [llm EXCEPT ![u].phase = phase] PROVE FALSE
    <3>1. llm'[t].used = llm[t].used
      BY <2>T, <2>6 DEF Tracker
    <3> QED
      BY <1>1, <2>T, <3>1
  <2>7. CASE Enter(u)
    BY <2>1, <2>7 DEF Enter
  <2>8. CASE Ask(u)
    <3>1. CASE CheckBudget(u)
      BY <2>6, <3>1 DEF CheckBudget
    <3>2. CASE Attempt(u) \/ Fallback(u)
      <4>1. llm[u].phase \in {"try", "fallback"}
        BY <3>2 DEF Attempt, Fallback
      <4>2. u = t
        <5>1. (\E v : llm' = [llm EXCEPT ![u] = v])
          BY <3>2 DEF Attempt, Fallback, Answers, Fails
        <5> QED
          BY <2>T, <2>1, <5>1
      <4> QED
        BY <2>4, <4>1, <4>2
    <3>3. CASE TemplateRaises(u) \/ JudgeRaises(u)
      BY <2>1, <3>3 DEF TemplateRaises, JudgeRaises, Raise
    <3> QED
      BY <2>8, <3>1, <3>2, <3>3 DEF Ask
  <2>9. CASE Node(u)
    <3>1. llm' = [llm EXCEPT ![u].phase = "check", ![u].attempt = 0]
      BY <2>9 DEF Node, PlannerChooses, PlannerDegrades, Gate, RunTool, Plan, Synthesize,
         JudgePasses, JudgeObjects, Revise, Clarify, Done
    <3> QED
      BY <2>5, <3>1
  <2>10. CASE End(u)
    <3>1. llm' = [llm EXCEPT ![u] = NewTracker]
      BY <2>10 DEF End
    <3>2. llm'[t].used = 0
      BY <2>T, <2>1, <3>1 DEF NewTracker
    <3> QED
      BY <1>1, <2>T, <3>2
  <2> QED
    BY <2>3, <2>7, <2>8, <2>9, <2>10 DEF Step
<1>2. TInv /\ [Next]_vars =>
        [\A t \in Thread : llm'[t].used > llm[t].used =>
           /\ MaxCalls > 0 => llm[t].used < MaxCalls
           /\ "usage" \notin llm[t].hit]_vars
  BY <1>1
<1> QED
  BY <1>2, TInvAlways, PTL DEF Spec, BudgetHolds

-----------------------------------------------------------------------------
(* The history, with one turn at a time: the saved state is that of the turn    *)
(* under way, whose number no turn before it has had.                         *)

In(h, n) == \E i \in DOMAIN h : h[i] = n
Sorted(h) == \A i, j \in DOMAIN h : i < j => h[i] < h[j]
UpTo(h, n) == \A i \in DOMAIN h : h[i] <= n

Gave(o) == o.kind \in {"answer", "clarify"}

Now(t) ==
  /\ pc[t] \notin {"idle", "end"} =>
       /\ run[t].raised = "nothing" /\ ch[t].turn = turns
       /\ ~In(saved.history, turns)
  /\ pc[t] \notin {"idle", "enter"} => ch[t].history = saved.history
  /\ pc[t] = "end" =>
       /\ ch[t].turn = turns
       /\ In(saved.history, turns) <=> run[t].raised = "nothing" /\ ~ch[t].wait
  /\ out[t].kind # "none" =>
       /\ out[t].state.turn <= turns
       /\ pc[t] # "idle" => out[t].state.turn < turns
       /\ Gave(out[t]) <=> In(saved.history, out[t].state.turn)

HInv == Sorted(saved.history) /\ UpTo(saved.history, turns) /\ \A t \in Thread : Now(t)

LEMMA AppendHistory ==
  ASSUME NEW h \in Seq(Turn), NEW n \in Turn, Sorted(h), UpTo(h, n), ~In(h, n)
  PROVE  /\ Sorted(Append(h, n)) /\ UpTo(Append(h, n), n)
         /\ \A m : In(Append(h, n), m) <=> In(h, m) \/ m = n
<1>1. /\ DOMAIN Append(h, n) = 1..(Len(h) + 1) /\ DOMAIN h = 1..Len(h) /\ Len(h) \in Nat
      /\ Append(h, n)[Len(h) + 1] = n
      /\ \A i \in 1..Len(h) : Append(h, n)[i] = h[i] /\ h[i] \in Turn
  OBVIOUS
<1>2. Turn \subseteq Nat
  BY DEF Turn
<1>3. ASSUME NEW i \in DOMAIN h PROVE h[i] < n
  <2>1. h[i] <= n /\ h[i] # n
    BY <1>3 DEF UpTo, In
  <2>2. h[i] \in Nat /\ n \in Nat
    BY <1>1, <1>2, <1>3
  <2> QED
    BY <2>1, <2>2
<1>4. UpTo(Append(h, n), n)
  BY <1>1, <1>2 DEF UpTo
<1>5. Sorted(Append(h, n))
  BY <1>1, <1>2, <1>3 DEF Sorted
<1>6. ASSUME NEW m PROVE In(Append(h, n), m) <=> In(h, m) \/ m = n
  <2>1. In(Append(h, n), m) <=> \E i \in 1..(Len(h) + 1) : Append(h, n)[i] = m
    BY <1>1 DEF In
  <2>2. In(h, m) <=> \E i \in 1..Len(h) : Append(h, n)[i] = m
    BY <1>1 DEF In
  <2>3. \A i : i \in 1..(Len(h) + 1) <=> i \in 1..Len(h) \/ i = Len(h) + 1
    BY <1>1
  <2> QED
    BY <1>1, <2>1, <2>2, <2>3
<1> QED
  BY <1>4, <1>5, <1>6

\* What is appended is the turn under way.
LEMMA RememberedHistory ==
  ASSUME NEW c \in Channels, c.turn \in Turn
  PROVE  Remembered(c).history = Append(c.history, c.turn) /\ Remembered(c).turn = c.turn
         /\ Remembered(c).wait = c.wait
BY DEF Remembered, Channels

\* A step of a node that remembers nothing.
LEMMA QuietHistory ==
  ASSUME TInv, HInv, NEW t \in Thread, \A u \in Thread : u = t,
         pc[t] \notin {"idle", "end"}, NEW x \in At, x # "idle",
         x = "enter" => pc[t] = "enter",
         NEW c \in Channels, c.turn = ch[t].turn, c.history = saved.history,
         NEW r \in Progress, x # "end" => r.raised = "nothing",
         x = "end" => r.raised # "nothing" \/ c.wait,
         pc' = [pc EXCEPT ![t] = x], ch' = [ch EXCEPT ![t] = c],
         run' = [run EXCEPT ![t] = r], saved'.history = saved.history,
         UNCHANGED <<turns, out>>
  PROVE  HInv'
<1>T. Types
  BY DEF TInv
<1>1. Now(t)
  BY DEF HInv
<1>2. pc'[t] = x /\ ch'[t] = c /\ run'[t] = r /\ out'[t] = out[t]
  BY <1>T DEF Types
<1>3. Now(t)'
  BY <1>1, <1>2 DEF Now
<1> QED
  BY <1>3 DEF HInv

\* A node that remembers the turn, the last one of it.
LEMMA ResultTurn ==
  ASSUME NEW o \in Result
  PROVE  o.state.turn \in Nat
<1>1. o.state \in Channels
  BY DEF Result
<1>2. \A c \in Channels : c.turn \in TurnOrNone
  BY DEF Channels
<1>3. TurnOrNone \subseteq Nat
  BY NumberAssumption DEF TurnOrNone
<1> QED
  BY <1>1, <1>2, <1>3

LEMMA RememberHistory ==
  ASSUME TInv, HInv, NEW t \in Thread, \A u \in Thread : u = t,
         pc[t] \in {"judge", "revise", "clarification"},
         NEW c \in Channels, c.turn = ch[t].turn, c.history = ch[t].history,
         c.wait = ch[t].wait, Done(t, Remembered(c), "end"), run' = run
  PROVE  HInv'
<1>T. Types /\ Own(t) /\ Now(t) /\ ch[t] \in Channels /\ saved \in Channels
      /\ turns \in Nat /\ out[t] \in Result
  BY NumberAssumption DEF TInv, HInv, Types, TurnOrNone
<1>1. c.turn \in Turn /\ c.turn = turns /\ ~c.wait /\ c.history = saved.history
      /\ run[t].raised = "nothing" /\ ~In(saved.history, turns)
  BY <1>T DEF Own, Fits, Now
<1>2. c.history \in Seq(Turn)
  BY DEF Channels
<1>3. /\ Sorted(Append(c.history, turns)) /\ UpTo(Append(c.history, turns), turns)
      /\ \A m : In(Append(c.history, turns), m) <=> In(c.history, m) \/ m = turns
  BY <1>1, <1>2, AppendHistory DEF HInv
<1>4. /\ pc'[t] = "end" /\ ch'[t] = Remembered(c) /\ saved' = Remembered(c) /\ run'[t] = run[t]
      /\ turns' = turns /\ out' = out
  BY <1>T DEF Done, Types
<1>5. /\ Remembered(c).history = Append(c.history, turns)
      /\ Remembered(c).turn = turns /\ ~Remembered(c).wait
  BY <1>1, RememberedHistory
<1>6. Now(t)'
  <2>1. In(saved'.history, turns)
    BY <1>3, <1>4, <1>5
  <2>2. ASSUME out[t].kind # "none"
        PROVE  /\ out[t].state.turn < turns
               /\ Gave(out[t]) <=> In(saved'.history, out[t].state.turn)
    <3>1. /\ out[t].state.turn < turns
          /\ Gave(out[t]) <=> In(saved.history, out[t].state.turn)
      BY <1>T, <2>2 DEF Now
    <3>2. out[t].state.turn # turns
      BY <1>T, <3>1, ResultTurn
    <3> QED
      BY <1>1, <1>3, <1>4, <1>5, <3>1, <3>2
  <2>3. out[t].state.turn \in Nat
    BY <1>T, ResultTurn
  <2> QED
    BY <1>T, <1>1, <1>4, <1>5, <2>1, <2>2, <2>3 DEF Now, Gave
<1> QED
  BY <1>3, <1>4, <1>5, <1>6 DEF HInv

LEMMA HInvNext ==
  ASSUME TInv, HInv, [Next]_vars, NEW t \in Thread, \A u \in Thread : u = t
  PROVE  HInv'
<1>T. Types /\ Own(t) /\ Now(t) /\ ch[t] \in Channels /\ saved \in Channels
      /\ run[t] \in Progress /\ turns \in Nat /\ out[t] \in Result /\ pc[t] \in At
  BY NumberAssumption DEF TInv, HInv, Types, TurnOrNone
<1>o. out[t].state.turn \in Nat
  BY <1>T, ResultTurn
<1>r. run' = run => run' = [run EXCEPT ![t] = run[t]]
  BY <1>T DEF Types
<1>1. CASE UNCHANGED vars
  BY <1>1 DEF vars, HInv, Sorted, UpTo, In, Now, Gave
<1>2. ASSUME NEW bypass \in BOOLEAN, Begin(t, bypass) PROVE HInv'
  <2>1. /\ pc[t] = "idle" /\ pc'[t] = "enter" /\ turns' = turns + 1 /\ ch'[t].turn = turns + 1
        /\ run'[t] = NewRun /\ saved' = saved /\ out' = out
    BY <1>T, <1>2 DEF Begin, Types, NewState
  <2>2. \A i \in DOMAIN saved.history : saved.history[i] \in Nat
    <3>1. saved.history \in Seq(Turn)
      BY <1>T DEF Channels
    <3>2. \A i \in DOMAIN saved.history : saved.history[i] \in Turn
      BY <3>1
    <3> QED
      BY <3>2 DEF Turn
  <2>3. UpTo(saved'.history, turns') /\ ~In(saved'.history, turns')
    BY <1>T, <2>1, <2>2 DEF HInv, UpTo, In
  <2>4. Now(t)'
    BY <1>T, <1>o, <2>1, <2>3 DEF Now, NewRun, Gave
  <2> QED
    BY <2>1, <2>3, <2>4 DEF HInv
<1>3. CASE Query(t) \/ Resume(t)
  BY <1>2, <1>3 DEF Query, Resume
<1>4. CASE Enter(t)
  <2>1. PICK prior \in PriorTurns :
          LET c == Input(saved, t, prior) IN
          /\ pc[t] = "enter"
          /\ pc' = [pc EXCEPT ![t] = "planner"]
          /\ ch' = [ch EXCEPT ![t] = c]
          /\ saved' = c
          /\ UNCHANGED <<policy, count, turns, open, llm, run, out>>
    BY <1>4 DEF Enter
  <2> DEFINE c == Input(saved, t, prior)
  <2>2. prior \in BOOLEAN
    <3>1. (count > 1) \in BOOLEAN /\ FALSE \in BOOLEAN
      OBVIOUS
    <3>2. PriorTurns \subseteq {count > 1, FALSE}
      BY Zenon DEF PriorTurns
    <3> HIDE DEF PriorTurns
    <3>3. {count > 1, FALSE} \subseteq BOOLEAN
      BY <3>1, Zenon
    <3> QED
      BY <3>2, <3>3
  <2>3. c \in Channels /\ c.turn = ch[t].turn
    BY <1>T, <2>2, InputType
  <2>4. c.history = saved.history
    BY <1>T DEF Input, Channels
  <2>5. pc[t] = "enter" /\ pc' = [pc EXCEPT ![t] = "planner"] /\ ch' = [ch EXCEPT ![t] = c]
        /\ saved' = c /\ UNCHANGED <<turns, run, out>> /\ "planner" \in At
    BY <2>1 DEF At
  <2> HIDE DEF c
  <2> QED
    BY <1>T, <1>r, <2>3, <2>4, <2>5, QuietHistory DEF Now
<1>5. ASSUME pc[t] \in {"planner", "judge", "revise", "synthesizer"},
             UNCHANGED <<saved, turns, pc, ch, out>>, NEW r \in Progress,
             run' = [run EXCEPT ![t] = r], r.raised = run[t].raised
      PROVE  HInv'
  <2>1. pc' = [pc EXCEPT ![t] = pc[t]] /\ ch' = [ch EXCEPT ![t] = ch[t]]
    BY <1>T, <1>5 DEF Types
  <2>2. ch[t].history = saved.history /\ r.raised = "nothing" /\ pc[t] \notin {"idle", "enter", "end"}
    BY <1>T, <1>5 DEF Now
  <2>3. saved'.history = saved.history /\ UNCHANGED <<turns, out>>
    BY <1>5
  <2> QED
    BY <1>T, <1>5, <2>1, <2>2, <2>3, QuietHistory
<1>6. ASSUME Raise(t), pc[t] \notin {"idle", "enter", "end"} PROVE HInv'
  <2> DEFINE r == [run[t] EXCEPT !.raised = "error"]
  <2>1. r \in Progress /\ r.raised = "error"
    BY <1>T DEF Progress
  <2>2. pc' = [pc EXCEPT ![t] = "end"] /\ run' = [run EXCEPT ![t] = r]
        /\ UNCHANGED <<saved, turns, ch, out>> /\ "end" \in At
    BY <1>6 DEF Raise, At
  <2>3. ch' = [ch EXCEPT ![t] = ch[t]]
    BY <1>T, <2>2 DEF Types
  <2> HIDE DEF r
  <2> QED
    BY <1>T, <1>6, <2>1, <2>2, <2>3, QuietHistory DEF Now
<1>7. CASE Ask(t)
  <2>p. Asking(t) => pc[t] \in {"planner", "judge", "revise", "synthesizer"}
    BY DEF Asking
  <2>1. CASE CheckBudget(t)
    <3> DEFINE r == [run[t] EXCEPT !.refused = @ \/ Exceeded(llm[t])]
    <3>1. Exceeded(llm[t]) \in BOOLEAN
      BY DEF Exceeded
    <3>2. r \in Progress /\ r.raised = run[t].raised
      BY <1>T, <3>1 DEF Progress
    <3>3. run' = [run EXCEPT ![t] = r] /\ Asking(t) /\ UNCHANGED <<saved, turns, pc, ch, out>>
      BY <2>1 DEF CheckBudget
    <3> HIDE DEF r
    <3> QED
      BY <1>5, <2>p, <3>2, <3>3
  <2>2. CASE Attempt(t) \/ Fallback(t)
    <3>1. Asking(t) /\ UNCHANGED <<saved, turns, pc, ch, run, out>>
      BY <2>2 DEF Attempt, Fallback
    <3> QED
      BY <1>T, <1>r, <1>5, <2>p, <3>1
  <2>3. CASE TemplateRaises(t) \/ JudgeRaises(t)
    BY <1>6, <2>p, <2>3 DEF TemplateRaises, JudgeRaises
  <2> QED
    BY <1>7, <2>1, <2>2, <2>3 DEF Ask
<1>8. ASSUME NEW c \in Channels, NEW x \in At, x \notin {"idle", "enter"},
             NEW r \in Progress, Done(t, c, x), run' = [run EXCEPT ![t] = r],
             r.raised = run[t].raised, c.turn = ch[t].turn, c.history = ch[t].history,
             pc[t] \notin {"idle", "enter", "end"}, x = "end" => c.wait
      PROVE  HInv'
  <2>1. pc' = [pc EXCEPT ![t] = x] /\ ch' = [ch EXCEPT ![t] = c] /\ saved' = c
        /\ UNCHANGED <<turns, out>>
    BY <1>8 DEF Done
  <2> QED
    BY <1>T, <1>8, <2>1, QuietHistory DEF Now
<1>9. CASE Node(t)
  <2>m. \A l \in Level : NeedOf(l) \in Need
    BY DEF NeedOf, Level, Need
  <2>r. \A c : c.clar \in BOOLEAN /\ c.bypass \in BOOLEAN =>
               Route(c) \in {"clarification", "gate", "synthesizer", "tool"}
    BY DEF Route
  <2>1. ASSUME pc[t] = "planner", NEW c \in Channels, NEW r \in Progress,
               run' = [run EXCEPT ![t] = r], r.raised = run[t].raised,
               c.turn = ch[t].turn, c.history = ch[t].history, Done(t, c, Route(c))
        PROVE  HInv'
    <3>1. Route(c) \in {"clarification", "gate", "synthesizer", "tool"}
      BY <2>r DEF Channels
    <3>2. Route(c) \in At /\ Route(c) \notin {"idle", "enter", "end"}
      BY <3>1 DEF At
    <3> QED
      BY <1>8, <2>1, <3>2
  <2>2. CASE PlannerChooses(t)
    <3> DEFINE chosen(tool, thin) ==
                 [ch[t] EXCEPT !.action = tool, !.thin = thin, !.needs = NeedOf(policy[tool])]
               unclear == [ch[t] EXCEPT !.action = NoTool, !.thin = FALSE,
                                        !.needs = "nothing", !.clar = TRUE]
    <3>1. pc[t] = "planner" /\ UNCHANGED run
          /\ \/ \E tool \in Tool, thin \in BOOLEAN :
                  Done(t, chosen(tool, thin), Route(chosen(tool, thin)))
             \/ Done(t, unclear, Route(unclear))
      BY <2>2 DEF PlannerChooses
    <3>2. ASSUME NEW tool \in Tool, NEW thin \in BOOLEAN
          PROVE  LET c == chosen(tool, thin)
                 IN c \in Channels /\ c.turn = ch[t].turn /\ c.history = ch[t].history
      <4>1. NeedOf(policy[tool]) \in Need
        BY <1>T, <2>m DEF Types
      <4> QED
        BY <1>T, <4>1 DEF Channels
    <3>3. unclear \in Channels /\ unclear.turn = ch[t].turn /\ unclear.history = ch[t].history
      BY <1>T DEF Channels, Need
    <3> HIDE DEF chosen, unclear
    <3> QED
      BY <1>T, <1>r, <2>1, <3>1, <3>2, <3>3
  <2>3. CASE PlannerDegrades(t)
    <3> DEFINE c == [ch[t] EXCEPT !.action = "knowledge", !.thin = FALSE, !.needs = "nothing"]
               r == [run[t] EXCEPT !.degraded = TRUE]
    <3>1. pc[t] = "planner" /\ run' = [run EXCEPT ![t] = r] /\ Done(t, c, Route(c))
      BY <2>3 DEF PlannerDegrades
    <3>2. c \in Channels /\ c.turn = ch[t].turn /\ c.history = ch[t].history
          /\ r \in Progress /\ r.raised = run[t].raised
      BY <1>T DEF Channels, Tool, Need, Progress
    <3> HIDE DEF c, r
    <3> QED
      BY <2>1, <3>1, <3>2
  <2>4. CASE Gate(t)
    <3> DEFINE c == [ch[t] EXCEPT !.wait = TRUE, !.proposal = ch[t].turn]
    <3>1. c \in Channels /\ c.turn = ch[t].turn /\ c.history = ch[t].history /\ c.wait
      BY <1>T DEF Channels
    <3>2. pc[t] = "gate" /\ UNCHANGED run /\ Done(t, c, "end") /\ "end" \in At
      BY <2>4 DEF Gate, At
    <3> HIDE DEF c
    <3> QED
      BY <1>T, <1>r, <1>8, <3>1, <3>2
  <2>5. CASE RunTool(t)
    <3> DEFINE c == [ch[t] EXCEPT !.raw = ch[t].turn]
               r == [run[t] EXCEPT !.ran = ch[t].action]
    <3>1. pc[t] = "tool" /\ run' = [run EXCEPT ![t] = r] /\ Done(t, c, "synthesizer")
          /\ "synthesizer" \in At
      BY <2>5 DEF RunTool, At
    <3>2. c \in Channels /\ c.turn = ch[t].turn /\ c.history = ch[t].history
          /\ r \in Progress /\ r.raised = run[t].raised
      BY <1>T DEF Channels, Progress
    <3> HIDE DEF c, r
    <3> QED
      BY <1>8, <3>1, <3>2
  <2>6. ASSUME NEW form \in Form
        PROVE  LET c == [ch[t] EXCEPT !.answer = ch[t].turn, !.form = form]
               IN c \in Channels /\ c.turn = ch[t].turn /\ c.history = ch[t].history
                  /\ c.wait = ch[t].wait
    BY <1>T DEF Channels
  <2>f. {"plan", "draft", "plain", "revised", "ask"} \subseteq Form
    BY DEF Form
  <2>7. CASE Plan(t) \/ Synthesize(t)
    <3>1. PICK form \in Form :
            /\ pc[t] = "synthesizer" /\ UNCHANGED run
            /\ Done(t, [ch[t] EXCEPT !.answer = ch[t].turn, !.form = form], "judge")
      <4>1. CASE Plan(t)
        BY <2>f, <4>1 DEF Plan
      <4>2. CASE Synthesize(t)
        <5>1. \E form \in {"draft", "plain"} :
                /\ pc[t] = "synthesizer" /\ UNCHANGED run
                /\ Done(t, [ch[t] EXCEPT !.answer = ch[t].turn, !.form = form], "judge")
          BY <4>2 DEF Synthesize
        <5> QED
          BY <2>f, <5>1
      <4> QED
        BY <2>7, <4>1, <4>2
    <3>2. "judge" \in At
      BY DEF At
    <3> QED
      BY <1>T, <1>r, <1>8, <2>6, <3>1, <3>2
  <2>8. CASE JudgePasses(t)
    BY <1>T, <2>8, RememberHistory DEF JudgePasses
  <2>9. CASE JudgeObjects(t)
    <3>1. pc[t] = "judge" /\ pc' = [pc EXCEPT ![t] = "revise"]
          /\ UNCHANGED <<saved, turns, ch, run, out>> /\ "revise" \in At
      BY <2>9 DEF JudgeObjects, At
    <3>2. ch' = [ch EXCEPT ![t] = ch[t]]
      BY <1>T, <3>1 DEF Types
    <3> QED
      BY <1>T, <1>r, <3>1, <3>2, QuietHistory DEF Now
  <2>10. CASE Revise(t)
    <3> DEFINE d == [ch[t] EXCEPT !.answer = ch[t].turn, !.form = "revised"]
               c == IF llm[t].phase = "ok" THEN d ELSE ch[t]
    <3>1. pc[t] = "revise" /\ UNCHANGED run /\ Done(t, Remembered(c), "end")
      BY <2>10 DEF Revise
    <3>2. d \in Channels /\ d.turn = ch[t].turn /\ d.history = ch[t].history
          /\ d.wait = ch[t].wait
      BY <2>6, <2>f
    <3> HIDE DEF d
    <3>3. c \in Channels /\ c.turn = ch[t].turn /\ c.history = ch[t].history
          /\ c.wait = ch[t].wait
      BY <1>T, <3>2
    <3> HIDE DEF c
    <3> QED
      BY <3>1, <3>3, RememberHistory
  <2>11. CASE Clarify(t)
    <3> DEFINE c == [ch[t] EXCEPT !.answer = ch[t].turn, !.form = "ask"]
    <3>1. pc[t] = "clarification" /\ UNCHANGED run /\ Done(t, Remembered(c), "end")
      BY <2>11 DEF Clarify
    <3>2. c \in Channels /\ c.turn = ch[t].turn /\ c.history = ch[t].history
          /\ c.wait = ch[t].wait
      BY <2>6, <2>f
    <3> HIDE DEF c
    <3> QED
      BY <3>1, <3>2, RememberHistory
  <2> QED
    BY <1>9, <2>2, <2>3, <2>4, <2>5, <2>7, <2>8, <2>9, <2>10, <2>11 DEF Node
<1>10. CASE End(t)
  <2>1. /\ pc[t] = "end" /\ pc'[t] = "idle" /\ out'[t] = Recorded(ch[t], run[t])
        /\ UNCHANGED <<saved, turns>>
    BY <1>T, <1>10 DEF End, Types
  <2>2. Gave(Recorded(ch[t], run[t])) <=> run[t].raised = "nothing" /\ ~ch[t].wait
    <3>0. /\ run[t].raised \in {"nothing", "budget", "error"}
          /\ ch[t].wait \in BOOLEAN /\ ch[t].clar \in BOOLEAN
      BY <1>T DEF Channels, Progress
    <3>1. CASE run[t].raised # "nothing"
      BY <3>0, <3>1 DEF KindOf, Gave, Recorded
    <3>2. CASE run[t].raised = "nothing" /\ ch[t].wait
      BY <3>0, <3>2 DEF KindOf, Gave, Recorded
    <3>3. CASE run[t].raised = "nothing" /\ ~ch[t].wait
      BY <3>0, <3>3 DEF KindOf, Gave, Recorded
    <3> QED
      BY <3>0, <3>1, <3>2, <3>3
  <2>3. Recorded(ch[t], run[t]).state.turn = turns
    BY <1>T, <2>1 DEF Recorded, Now
  <2>4. Now(t)'
    BY <1>T, <2>1, <2>2, <2>3 DEF Now, Gave
  <2> QED
    BY <2>1, <2>4 DEF HInv
<1>11. CASE UNCHANGED vars
  BY <1>1, <1>11
<1> QED
  BY <1>3, <1>4, <1>7, <1>9, <1>10, <1>11 DEF Next, Step

LEMMA HInvInit ==
  ASSUME NEW t \in Thread, \A u \in Thread : u = t
  PROVE  Init => HInv
BY DEF Init, HInv, Now, Sorted, UpTo, NewState

\* With one turn at a time, a conversation's history holds the turns that gave their user
\* an answer, in order and once, through gates, confirmations, errors and clarifications
\* (judge.py:170, workflow.py:437).
THEOREM HistoryAlwaysOnce ==
  ASSUME NEW t \in Thread, \A u \in Thread : u = t
  PROVE  Spec => []HistoryOnce
<1>1. TInv /\ HInv => HistoryOnce
  BY DEF HInv, Sorted, Now, Gave, In, HistoryOnce
<1>2. TInv /\ HInv /\ [Next]_vars => HInv'
  BY HInvNext
<1>3. Init => HInv
  BY HInvInit
<1> QED
  BY <1>1, <1>2, <1>3, TInvInit, TInvNext, PTL DEF Spec
=============================================================================
