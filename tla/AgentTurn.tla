-------------------------------- MODULE AgentTurn --------------------------------
(***************************************************************************)
(* The turns of one session: run_query of agents/runner.py around the graph  *)
(* of agents/workflow.py, its nodes (planner.py, judge.py, the tools), the   *)
(* model calls with retries, fallback and budget (llm_factory.py,            *)
(* evaluation/budget.py) and the record the observer closes.                 *)
(*                                                                         *)
(* LangGraph merges the input of a turn into the state it saved last for the *)
(* session, and saves the state again after every node: what a turn neither  *)
(* resets nor writes it inherits.  A value is represented by the turn that    *)
(* made it, 0 for none.  Language, prompts and texts are left out; so is the  *)
(* memory service, which the nodes call fail-open (MemoryService).           *)
(***************************************************************************)
EXTENDS Naturals, Sequences, FiniteSets

CONSTANTS
  Thread,      \* handler threads, all asking in the one session
  Policies,    \* autonomy policies of the active spec: a level for each tool
  Signals,     \* STATE_CONFIRMATION_SIGNALS
  Retries,     \* LLM_MAX_RETRIES
  HasFallback, \* FALLBACK_PROVIDER and FALLBACK_MODEL are set
  MaxCalls,    \* RUN_MAX_LLM_CALLS, 0 for no limit
  Limits,      \* the other limits that are set
  Faults,      \* what can go wrong, of AllFaults
  NoTool,      \* no tool
  MaxTurns     \* bound on the turns

Tool == {"optimization", "simulation", "knowledge"}
Expensive == {"optimization", "simulation"}
Level == {"auto", "human_confirms", "human_approves"}
AllSignals == {"first_turn", "thin_context"}
\* RUN_MAX_WALLCLOCK_S; RUN_MAX_COST_USD and RUN_MAX_TOKENS.
AllLimits == {"wallclock", "usage"}
\* The model call fails or is rate limited; its answer does not parse; a template
\* of the registry does not format; the database does not take or give what the
\* turn needs of it.
AllFaults == {"model", "parse", "template", "database"}

ASSUME ThreadAssumption == IsFiniteSet(Thread)
ASSUME PolicyAssumption == Policies \subseteq [Tool -> Level]
ASSUME SettingAssumption == Signals \subseteq AllSignals /\ Limits \subseteq AllLimits
ASSUME NumberAssumption == {Retries, MaxCalls, MaxTurns} \subseteq Nat
ASSUME FaultsAssumption == Faults \subseteq AllFaults /\ HasFallback \in BOOLEAN
ASSUME NameAssumption == NoTool \notin Tool

VARIABLES
  policy,  \* autonomy_policy of the process's spec
  saved,   \* the session's last checkpoint
  count,   \* turn_count of the session
  turns,   \* turns started
  open,    \* proposals of the gate that wait for a commit
  pc,      \* pc[t]: the node thread t is in
  ch,      \* ch[t]: the channels of its graph invocation
  llm,     \* llm[t]: its BudgetTracker and its model call
  run,     \* run[t]: what has become of the turn, for the record
  out      \* out[t]: the result and record of its last turn

vars == <<policy, saved, count, turns, open, pc, ch, llm, run, out>>

Turn == 1..MaxTurns
TurnOrNone == 0..MaxTurns
Need == {"nothing", "confirmation", "approval"}
Form == {"none", "draft", "plain", "plan", "revised", "ask"}

\* AgentState.  needs stands for requires_confirmation and requires_approval, thin
\* for a short query without parameters.
Channels == [
  turn : TurnOrNone, bypass : BOOLEAN, prior : BOOLEAN,
  action : Tool \cup {NoTool}, thin : BOOLEAN, needs : Need,
  raw : TurnOrNone, answer : TurnOrNone, form : Form,
  wait : BOOLEAN, proposal : TurnOrNone, clar : BOOLEAN,
  history : Seq(Turn) ]

Tracker == [phase : {"check", "try", "fallback", "ok", "down"}, attempt : 0..Retries,
            used : Nat, hit : SUBSET AllLimits]

\* refused: the budget refused a call; degraded: the planner chose without a model;
\* raised: what graph.invoke has raised.
Progress == [ran : Tool \cup {NoTool}, refused : BOOLEAN, degraded : BOOLEAN,
             raised : {"nothing", "budget", "error"}]

\* RunResult, with what the state was at the end.
Result == [kind : {"none", "answer", "await", "clarify", "budget", "error"},
           run : Progress, state : Channels]

TypeOK ==
  /\ policy \in Policies
  /\ saved \in Channels
  /\ {count, turns, open} \subseteq TurnOrNone
  /\ pc \in [Thread -> {"idle", "enter", "planner", "gate", "tool", "synthesizer",
                        "judge", "revise", "clarification", "end"}]
  /\ ch \in [Thread -> Channels]
  /\ llm \in [Thread -> Tracker]
  /\ run \in [Thread -> Progress]
  /\ out \in [Thread -> Result]

NewState == [turn |-> 0, bypass |-> FALSE, prior |-> FALSE, action |-> NoTool,
             thin |-> FALSE, needs |-> "nothing", raw |-> 0, answer |-> 0,
             form |-> "none", wait |-> FALSE, proposal |-> 0, clar |-> FALSE,
             history |-> <<>>]
NewTracker == [phase |-> "check", attempt |-> 0, used |-> 0, hit |-> {}]
NewRun == [ran |-> NoTool, refused |-> FALSE, degraded |-> FALSE, raised |-> "nothing"]

Init ==
  /\ policy \in Policies
  /\ saved = NewState
  /\ count = 0 /\ turns = 0 /\ open = 0
  /\ pc = [t \in Thread |-> "idle"]
  /\ ch = [t \in Thread |-> NewState]
  /\ llm = [t \in Thread |-> NewTracker]
  /\ run = [t \in Thread |-> NewRun]
  /\ out = [t \in Thread |-> [kind |-> "none", run |-> NewRun, state |-> NewState]]

-----------------------------------------------------------------------------
(* A turn begins. *)

Begin(t, bypass) ==
  /\ pc[t] = "idle"
  /\ turns < MaxTurns
  /\ turns' = turns + 1
  /\ pc' = [pc EXCEPT ![t] = "enter"]
  /\ ch' = [ch EXCEPT ![t] = [NewState EXCEPT !.turn = turns + 1, !.bypass = bypass]]
  /\ llm' = [llm EXCEPT ![t] = NewTracker]
  /\ run' = [run EXCEPT ![t] = NewRun]
  /\ UNCHANGED <<policy, saved, out>>

\* POST /query, which counts the turn first; bypass_gate is the client's.  That two
\* counts at once may come to one is left out.
Query(t) ==
  \E bypass \in BOOLEAN :
    /\ Begin(t, bypass)
    /\ \/ count' = count + 1
       \/ "database" \in Faults /\ UNCHANGED count
    /\ UNCHANGED open

\* POST /commits of a proposal of the gate asks its query again, uncounted.
Resume(t) ==
  /\ open > 0
  /\ open' = open - 1
  /\ Begin(t, TRUE)
  /\ UNCHANGED count

\* Mutant: the flag of a turn that waited is inherited.
InputKeepsWait(c, t, prior) ==
  [c EXCEPT !.turn = ch[t].turn, !.bypass = ch[t].bypass, !.prior = prior,
            !.proposal = 0, !.clar = FALSE]

\* The input of graph.invoke over the state saved.
Input(c, t, prior) ==
  [c EXCEPT !.turn = ch[t].turn, !.bypass = ch[t].bypass, !.prior = prior,
            !.wait = FALSE, !.proposal = 0, !.clar = FALSE]

\* What the session's row says of earlier turns: a turn_count above 1 stands for
\* them, a row that cannot be read for none.
PriorTurns == {count > 1} \cup IF "database" \in Faults THEN {FALSE} ELSE {}

\* run_query up to graph.invoke.
Enter(t) ==
  \E prior \in PriorTurns :
    LET c == Input(saved, t, prior) IN
    /\ pc[t] = "enter"
    /\ pc' = [pc EXCEPT ![t] = "planner"]
    /\ ch' = [ch EXCEPT ![t] = c]
    /\ saved' = c
    /\ UNCHANGED <<policy, count, turns, open, llm, run, out>>

\* A node is done: its update is saved and the next node entered.
Done(t, c, next) ==
  /\ pc' = [pc EXCEPT ![t] = next]
  /\ ch' = [ch EXCEPT ![t] = c]
  /\ saved' = c
  /\ llm' = [llm EXCEPT ![t].phase = "check", ![t].attempt = 0]
  /\ UNCHANGED <<policy, count, turns, out>>

\* A node raises, and graph.invoke with it; nothing is saved.
Raise(t) ==
  /\ pc' = [pc EXCEPT ![t] = "end"]
  /\ run' = [run EXCEPT ![t].raised = "error"]
  /\ UNCHANGED <<policy, saved, count, turns, open, ch, llm, out>>

-----------------------------------------------------------------------------
(* invoke_with_fallback *)

Asking(t) ==
  \/ pc[t] \in {"planner", "judge", "revise"}
  \/ pc[t] = "synthesizer" /\ ch[t].needs = "nothing"

Exceeded(l) == (MaxCalls > 0 /\ l.used >= MaxCalls) \/ l.hit # {}

\* Mutant: the revision is asked for without the tracker.
CheckBudgetNotRevision(t) ==
  LET refused == Exceeded(llm[t]) /\ pc[t] # "revise" IN
  /\ Asking(t) /\ llm[t].phase = "check"
  /\ llm' = [llm EXCEPT ![t].phase = IF refused THEN "down" ELSE "try"]
  /\ run' = [run EXCEPT ![t].refused = @ \/ refused]
  /\ UNCHANGED <<policy, saved, count, turns, open, pc, ch, out>>

\* The budget is checked once, before the first attempt; every caller takes the
\* exception for a model that is down.
CheckBudget(t) ==
  LET refused == Exceeded(llm[t]) IN
  /\ Asking(t) /\ llm[t].phase = "check"
  /\ llm' = [llm EXCEPT ![t].phase = IF refused THEN "down" ELSE "try"]
  /\ run' = [run EXCEPT ![t].refused = @ \/ refused]
  /\ UNCHANGED <<policy, saved, count, turns, open, pc, ch, out>>

\* A call that answers is recorded, which may reach a limit, as its time may; the
\* time a tool takes counts with the call before it.
Answers(t) ==
  \E hit \in SUBSET Limits :
    llm' = [llm EXCEPT ![t].phase = "ok", ![t].used = @ + 1, ![t].hit = @ \cup hit]

\* One that fails only takes time.
Fails(t, phase, attempt) ==
  \E hit \in SUBSET (Limits \cap {"wallclock"}) :
    /\ "model" \in Faults
    /\ llm' = [llm EXCEPT ![t].phase = phase, ![t].attempt = attempt, ![t].hit = @ \cup hit]

\* Mutants: the attempts are counted wrong, or not.
AttemptBeyond(t) ==
  /\ Asking(t) /\ llm[t].phase = "try"
  /\ \/ Answers(t)
     \/ llm[t].attempt <= Retries /\ Fails(t, "try", llm[t].attempt + 1)
     \/ Fails(t, IF HasFallback THEN "fallback" ELSE "down", llm[t].attempt)
  /\ UNCHANGED <<policy, saved, count, turns, open, pc, ch, run, out>>
AttemptAgain(t) ==
  /\ Asking(t) /\ llm[t].phase = "try"
  /\ \/ Answers(t)
     \/ Fails(t, "try", (llm[t].attempt + 1) % (Retries + 1))
     \/ Fails(t, IF HasFallback THEN "fallback" ELSE "down", llm[t].attempt)
  /\ UNCHANGED <<policy, saved, count, turns, open, pc, ch, run, out>>

\* A rate limit is retried; any other error, and the last rate limit, is not.
Attempt(t) ==
  /\ Asking(t) /\ llm[t].phase = "try"
  /\ \/ Answers(t)
     \/ llm[t].attempt < Retries /\ Fails(t, "try", llm[t].attempt + 1)
     \/ Fails(t, IF HasFallback THEN "fallback" ELSE "down", llm[t].attempt)
  /\ UNCHANGED <<policy, saved, count, turns, open, pc, ch, run, out>>

Fallback(t) ==
  /\ Asking(t) /\ llm[t].phase = "fallback"
  /\ Answers(t) \/ Fails(t, "down", llm[t].attempt)
  /\ UNCHANGED <<policy, saved, count, turns, open, pc, ch, run, out>>

\* The template is formatted, and the verdict read, outside the nodes' try.
TemplateRaises(t) ==
  /\ "template" \in Faults
  /\ Asking(t) /\ llm[t].phase = "check"
  /\ Raise(t)
JudgeRaises(t) ==
  /\ "parse" \in Faults
  /\ pc[t] = "judge" /\ llm[t].phase = "ok"
  /\ Raise(t)

-----------------------------------------------------------------------------
(* The nodes. *)

\* should_request_confirmation
ShouldPause(c) ==
  /\ c.action \in Expensive
  /\ Signals # {}
  /\ "first_turn" \in Signals => ~c.prior
  /\ "thin_context" \in Signals => c.thin

\* Mutant: a confirmed turn goes to the tool whatever the policy.
RouteConfirmed(c) ==
  CASE c.clar -> "clarification"
    [] ~c.clar /\ c.bypass -> "tool"
    [] ~c.clar /\ ~c.bypass /\ ShouldPause(c) -> "gate"
    [] OTHER -> IF c.needs # "nothing" THEN "synthesizer" ELSE "tool"

\* _route_after_planner
Route(c) ==
  CASE c.clar -> "clarification"
    [] ~c.clar /\ ~c.bypass /\ ShouldPause(c) -> "gate"
    [] OTHER -> IF c.needs # "nothing" THEN "synthesizer" ELSE "tool"

NeedOf(level) ==
  CASE level = "auto" -> "nothing"
    [] level = "human_confirms" -> "confirmation"
    [] level = "human_approves" -> "approval"

\* The planner's choice, with the policy's demand; an unknown variable asks for
\* clarification.
PlannerChooses(t) ==
  /\ pc[t] = "planner" /\ llm[t].phase = "ok"
  /\ \/ \E tool \in Tool, thin \in BOOLEAN :
          LET c == [ch[t] EXCEPT !.action = tool, !.thin = thin, !.needs = NeedOf(policy[tool])]
          IN Done(t, c, Route(c))
     \/ LET c == [ch[t] EXCEPT !.action = NoTool, !.thin = FALSE, !.needs = "nothing",
                               !.clar = TRUE]
        IN Done(t, c, Route(c))
  /\ UNCHANGED <<open, run>>

\* Without a model, or with an answer that does not parse, it takes the knowledge
\* tool and no policy.
PlannerDegrades(t) ==
  LET c == [ch[t] EXCEPT !.action = "knowledge", !.thin = FALSE, !.needs = "nothing"] IN
  /\ pc[t] = "planner"
  /\ llm[t].phase = "down" \/ (llm[t].phase = "ok" /\ "parse" \in Faults)
  /\ run' = [run EXCEPT ![t].degraded = TRUE]
  /\ Done(t, c, Route(c))
  /\ UNCHANGED open

\* The gate proposes, waits and ends the graph; the proposal may not be stored.
Gate(t) ==
  /\ pc[t] = "gate"
  /\ open' \in {open + 1} \cup IF "database" \in Faults THEN {open} ELSE {}
  /\ Done(t, [ch[t] EXCEPT !.wait = TRUE, !.proposal = ch[t].turn], "end")
  /\ UNCHANGED run

\* A tool that raises leaves its error as the result.
RunTool(t) ==
  /\ pc[t] = "tool"
  /\ run' = [run EXCEPT ![t].ran = ch[t].action]
  /\ Done(t, [ch[t] EXCEPT !.raw = ch[t].turn], "synthesizer")
  /\ UNCHANGED open

\* The policy's message is the answer, without a model.
Plan(t) ==
  /\ pc[t] = "synthesizer" /\ ch[t].needs # "nothing"
  /\ Done(t, [ch[t] EXCEPT !.answer = ch[t].turn, !.form = "plan"], "judge")
  /\ UNCHANGED <<open, run>>

\* Mutant: the turn is entered into the history by the draft too.
SynthesizeRemembered(t) ==
  /\ pc[t] = "synthesizer" /\ llm[t].phase \in {"ok", "down"}
  /\ Done(t, [ch[t] EXCEPT !.answer = ch[t].turn, !.history = Append(@, ch[t].turn),
                !.form = IF llm[t].phase = "ok" THEN "draft" ELSE "plain"], "judge")
  /\ UNCHANGED <<open, run>>

\* The draft, or the raw result if there is no model.
Synthesize(t) ==
  /\ pc[t] = "synthesizer" /\ llm[t].phase \in {"ok", "down"}
  /\ Done(t, [ch[t] EXCEPT !.answer = ch[t].turn,
                !.form = IF llm[t].phase = "ok" THEN "draft" ELSE "plain"], "judge")
  /\ UNCHANGED <<open, run>>

Remembered(c) == [c EXCEPT !.history = Append(@, c.turn)]

\* The answer passes, as it does if the judge is down ...
JudgePasses(t) ==
  /\ pc[t] = "judge" /\ llm[t].phase \in {"ok", "down"}
  /\ Done(t, Remembered(ch[t]), "end")
  /\ UNCHANGED <<open, run>>

\* ... or is to be revised, within the node.
JudgeObjects(t) ==
  /\ pc[t] = "judge" /\ llm[t].phase = "ok"
  /\ pc' = [pc EXCEPT ![t] = "revise"]
  /\ llm' = [llm EXCEPT ![t].phase = "check", ![t].attempt = 0]
  /\ UNCHANGED <<policy, saved, count, turns, open, ch, run, out>>

\* Once; without a model the answer stays as it was.
Revise(t) ==
  /\ pc[t] = "revise" /\ llm[t].phase \in {"ok", "down"}
  /\ Done(t, Remembered(IF llm[t].phase = "ok"
                        THEN [ch[t] EXCEPT !.answer = ch[t].turn, !.form = "revised"]
                        ELSE ch[t]), "end")
  /\ UNCHANGED <<open, run>>

Clarify(t) ==
  /\ pc[t] = "clarification"
  /\ Done(t, Remembered([ch[t] EXCEPT !.answer = ch[t].turn, !.form = "ask"]), "end")
  /\ UNCHANGED <<open, run>>

\* What run_query makes of the final state, or of the exception.
KindOf(c, r) ==
  CASE r.raised # "nothing" -> r.raised
    [] r.raised = "nothing" /\ c.wait -> "await"
    [] r.raised = "nothing" /\ ~c.wait /\ c.clar -> "clarify"
    [] OTHER -> "answer"

\* What is returned and, whether or not a sink fails, what the sinks are given.
Recorded(c, r) == [kind |-> KindOf(c, r), run |-> r, state |-> c]

End(t) ==
  /\ pc[t] = "end"
  /\ pc' = [pc EXCEPT ![t] = "idle"]
  /\ out' = [out EXCEPT ![t] = Recorded(ch[t], run[t])]
  /\ ch' = [ch EXCEPT ![t] = NewState]
  /\ llm' = [llm EXCEPT ![t] = NewTracker]
  /\ run' = [run EXCEPT ![t] = NewRun]
  /\ UNCHANGED <<policy, saved, count, turns, open>>

-----------------------------------------------------------------------------
Ask(t) ==
  \/ CheckBudget(t) \/ Attempt(t) \/ Fallback(t)
  \/ TemplateRaises(t) \/ JudgeRaises(t)

Node(t) ==
  \/ PlannerChooses(t) \/ PlannerDegrades(t) \/ Gate(t) \/ RunTool(t)
  \/ Plan(t) \/ Synthesize(t)
  \/ JudgePasses(t) \/ JudgeObjects(t) \/ Revise(t) \/ Clarify(t)

Step(t) == Enter(t) \/ Ask(t) \/ Node(t) \/ End(t)

Next == \E t \in Thread : Query(t) \/ Resume(t) \/ Step(t)

Spec == Init /\ [][Next]_vars

\* A turn under way goes on: every model call and every tool has a timeout or ends.
FairSpec == Spec /\ \A t \in Thread : WF_vars(Step(t))

-----------------------------------------------------------------------------
(* Properties. *)

\* Neither the number of calls nor their cost goes on after its limit: a call is
\* made, whichever node makes it, only while both have room.
BudgetHolds ==
  [][\A t \in Thread :
       llm'[t].used > llm[t].used =>
         /\ MaxCalls > 0 => llm[t].used < MaxCalls
         /\ "usage" \notin llm[t].hit]_vars

\* A tool the planner chose runs in no turn, confirmed or not, if the policy wants
\* a human to see it first.
PolicyHolds ==
  \A t \in Thread :
    run[t].ran # NoTool /\ ~run[t].degraded => policy[run[t].ran] = "auto"

\* runner.py:161-164: a turn that ends by waiting has run no tool and made the
\* proposal it waits for; the flag of an earlier turn does not show.
WaitingIsOwn ==
  \A t \in Thread :
    out[t].kind = "await" =>
      out[t].run.ran = NoTool /\ out[t].state.proposal = out[t].state.turn

\* With one turn at a time, the history holds the turns in order and once, and a
\* turn that has ended if and only if it gave its user an answer.
HistoryOnce ==
  /\ \A i, j \in DOMAIN saved.history : i < j => saved.history[i] < saved.history[j]
  /\ \A t \in Thread :
       out[t].kind # "none" =>
         (out[t].kind \in {"answer", "clarify"}
          <=> \E i \in DOMAIN saved.history : saved.history[i] = out[t].state.turn)

\* run_query returns: retries, fallback and the revision come to an end.
TurnEnds == \A t \in Thread : pc[t] # "idle" ~> pc[t] = "idle"

-----------------------------------------------------------------------------
(* What the repository says of the program and the program does not do. *)

\* test_runner_budget.py:78: a turn whose budget was exceeded says so.
BudgetReported == \A t \in Thread : out[t].run.refused => out[t].kind = "budget"

\* observer.py:191, "Attach the tool's full output dict to the current run record":
\* the result recorded is none of an earlier turn.
RecordsOwnResult ==
  \A t \in Thread :
    out[t].kind \in {"answer", "await", "clarify"} =>
      out[t].state.raw \in {0, out[t].state.turn}

\* autonomy.py:9, "agent proposes but does not execute until explicit approval",
\* also when the planner has no model to ask.
PolicyAlways ==
  \A t \in Thread : run[t].ran # NoTool => policy[run[t].ran] = "auto"

\* state.py:100-101: a turn the user has confirmed "routes directly to the tool".
ConfirmedRuns ==
  \A t \in Thread :
    out[t].kind = "answer" /\ out[t].state.bypass => out[t].run.ran # NoTool

\* judge.py:148, "Fail open: preserve the original answer": with nothing wrong but calls
\* that fail and answers that do not parse, no turn fails.
JudgeFailsOpen == \A t \in Thread : out[t].kind # "error"

\* llm_factory.py:128, "budget is checked before each call".
CheckedBeforeCall ==
  [][\A t \in Thread :
       llm[t].phase \in {"try", "fallback"} /\ llm'[t] # llm[t]
       => ~Exceeded(llm[t])]_vars

\* state.py:51-52, "LangGraph appends rather than replacing the list": also if two
\* turns of the session overlap.
HistoryKeeps ==
  (\A t \in Thread : pc[t] = "idle") =>
  \A t \in Thread :
    out[t].kind \in {"answer", "clarify"} =>
      \E i \in DOMAIN saved.history : saved.history[i] = out[t].state.turn

\* runner.py:142-143, "turn_count > 1 means at least one prior turn completed".
PriorCompleted ==
  \A t \in Thread : ch[t].prior => \E u \in Thread : out[u].kind # "none"
=============================================================================
