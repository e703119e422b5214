------------------------------ MODULE ChatSession ------------------------------
(***************************************************************************)
(* Conversations and the run log: the browser tabs of the Streamlit process  *)
(* (ui/app.py, ui/session.py, the session part of ui/sidebar.py), the REPL    *)
(* of app.py, the observer both give their runs to (evaluation/observer.py),  *)
(* its sinks, and the session rows of memory/checkpointer.py and              *)
(* session_manager.py.                                                     *)
(*                                                                         *)
(* Streamlit (external) runs the script from its top for every click and for  *)
(* every st.rerun().  A click that comes while a script of the tab runs starts *)
(* the next one at once, over the same session_state, and stops the old one at *)
(* its next use of st: in the sidebar, in the panel and between any two uses   *)
(* of session_state that is where it is, in the middle of an agent's run it is *)
(* only after the answer.  So each use of session_state that writes is a step  *)
(* (with the check of the stop before it), and a click may cut the script off  *)
(* between any two.                                                        *)
(*                                                                         *)
(* What a turn does inside the graph is AgentTurn's; here it has an outcome.  *)
(* Left out: is_new_session, turn_count and _show_reactive_correction of the  *)
(* page, which are set and never read, and everything that is only shown.     *)
(***************************************************************************)
EXTENDS Naturals, SequencesExt, Functions

CONSTANTS
  Tab,        \* browser tabs, all of one Streamlit process
  Repl,       \* the terminal with the REPL
  Script,     \* script threads a tab can have at once
  Session,    \* session UUIDs
  Prompt,     \* what users ask
  Text,       \* Text[k]: the k-th prompt that is typed
  None,       \* nothing
  MaxPrompts, \* bound on the prompts that are typed
  MaxOverlaps, \* bound on the clicks while a script of the tab runs and the prompts of the
               \* REPL
  MaxFaults   \* bound on disturbances: a turn that is clarified or raises, a tool error,
              \* register_turn, an append to the log, the INSERT of a run or the read of
              \* a checkpoint that fails, a client that deletes a session, Ctrl-C in the
              \* REPL

ASSUME FaultsAssumption == MaxFaults \in Nat /\ MaxOverlaps \in Nat
ASSUME NameAssumption ==
  /\ Repl \notin Tab
  /\ None \notin Session \cup Prompt
  /\ None \notin {"answered", "clarified", "gated", "raised"}
ASSUME ScriptAssumption == Script # {} /\ MaxPrompts \in Nat
ASSUME TextAssumption == Text \in [1..MaxPrompts -> Prompt]
ASSUME SessionAssumption == \E s \in [Tab -> Session] : IsInjective(s)

VARIABLES
  page,      \* page[a]: the session_state of tab a; of the REPL, its session_id
  script,    \* script[a][i]: where script i of tab a is; the REPL has one
  observer,  \* observer[a]: the AgentObserver of the tab, or of the REPL
  log,       \* logs/agent_runs.jsonl
  rows,      \* the agent_runs table
  sessions,  \* the agent_sessions table, by last_active, newest first
  history,   \* history[s]: the turns in the checkpoint of session s
  ran,       \* every run so far, as it was (for the properties)
  typed,     \* prompts typed so far
  confirms,  \* confirms[t]: the clicks on "Confirmar y ejecutar" in tab t so far (for
             \* the properties)
  overlaps,  \* clicks so far that came while a script of the tab ran, and prompts of the
             \* REPL
  faults     \* faults so far

vars == <<page, script, observer, log, rows, sessions, history, ran, typed, confirms,
          overlaps, faults>>
runLog == <<observer, log, rows, ran>>
input == <<typed, confirms, overlaps>>

Actor == Tab \cup {Repl}
Run == Nat \ {0}
Outcome == {"answered", "clarified", "gated", "raised"}
\* What the user clicked.
Trigger == {"none", "type", "card", "new", "resume", "confirm", "cancel"}
At == {"idle", "top", "new", "resume", "obsoleting", "saying", "asked", "bound",
       "opened", "invoked", "ran", "storing", "closing", "answered", "proposing",
       "panel", "confirming"}

Message == [role : {"user", "assistant"}, prompt : Prompt, session : Session,
            run : Nat, kind : Outcome \cup {"prompt"}]
\* gate is the run that made the proposal; spent, whether the panel has confirmed it.
Proposal == [prompt : Prompt, gate : Run, spent : BOOLEAN]
\* click is the click that confirmed it.
Bypass == [prompt : Prompt, gate : Run, click : Run]
\* torn: a switch of the session has begun and did not end (for the properties).
Page == [session : Session \cup {None}, messages : Seq(Message),
         pending : Proposal \cup {None}, bypass : Bypass \cup {None},
         card : Prompt \cup {None}, torn : BOOLEAN]
\* by: the runs whose nodes have written into the record.
Record == [run : Run, session : Session \cup {None}, prompt : Prompt,
           by : SUBSET Run, success : BOOLEAN]
ASSUME RecordAssumption == None \notin Record \cup Proposal \cup Bypass
\* confirm numbers the click on the panel; step and read are those of a switch.
Running == [at : At, stopped : BOOLEAN, trigger : Trigger, typed : Prompt \cup {None},
            confirm : Nat, step : Nat, read : Nat,
            prompt : Prompt \cup {None}, gate : Nat, click : Nat,
            session : Session \cup {None}, run : Nat,
            outcome : Outcome \cup {None}, alone : BOOLEAN,
            record : Record \cup {None}]
\* erred: a tool ended in an error; unlogged: the append of its record failed.
Ran == [actor : Actor, session : Session, prompt : Prompt, gate : Nat, click : Nat,
        outcome : Outcome \cup {None}, erred : BOOLEAN, alone : BOOLEAN,
        closed : BOOLEAN, unlogged : BOOLEAN]

TypeOK ==
  /\ page \in [Actor -> Page]
  /\ script \in [Actor -> [Script -> Running]]
  /\ observer \in [Actor -> [session : Session \cup {None}, run : Record \cup {None}]]
  /\ log \in Seq(Record)
  /\ rows \in SUBSET Record
  /\ sessions \in Seq([id : Session, title : Prompt, turns : Nat \ {0}])
  /\ history \in [Session -> Seq([prompt : Prompt, run : Run])]
  /\ ran \in Seq(Ran)
  /\ typed \in 0..MaxPrompts /\ confirms \in [Tab -> Nat]
  /\ overlaps \in 0..MaxOverlaps /\ faults \in 0..MaxFaults

Idle == [at |-> "idle", stopped |-> FALSE, trigger |-> "none", typed |-> None,
         confirm |-> 0, step |-> 0, read |-> 0, prompt |-> None, gate |-> 0,
         click |-> 0, session |-> None, run |-> 0, outcome |-> None, alone |-> TRUE,
         record |-> None]
\* st.rerun().
Rerun == [Idle EXCEPT !.at = "top"]
NewPage(s) == [session |-> s, messages |-> <<>>, pending |-> None, bypass |-> None,
               card |-> None, torn |-> FALSE]
User(p, s) == [role |-> "user", prompt |-> p, session |-> s, run |-> 0,
               kind |-> "prompt"]
Assistant(p, s, r, k) == [role |-> "assistant", prompt |-> p, session |-> s,
                          run |-> r, kind |-> k]

\* Every tab has opened, in a session of its own; the REPL's is made when it is used.
Init ==
  /\ page = LET own == CHOOSE s \in [Tab -> Session] : IsInjective(s)
            IN [a \in Actor |-> NewPage(IF a = Repl THEN None ELSE own[a])]
  /\ script = [a \in Actor |-> [i \in Script |-> Idle]]
  /\ observer = [a \in Actor |-> [session |-> None, run |-> None]]
  /\ log = <<>> /\ rows = {} /\ sessions = <<>> /\ ran = <<>>
  /\ history = [s \in Session |-> <<>>]
  /\ typed = 0 /\ confirms = [t \in Tab |-> 0] /\ overlaps = 0 /\ faults = 0

Fault == faults < MaxFaults /\ faults' = faults + 1
NoFault == UNCHANGED faults

Overlap == overlaps < MaxOverlaps /\ overlaps' = overlaps + 1

-----------------------------------------------------------------------------
(* The session table. *)

Listed == {k.id : k \in ToSet(sessions)}

\* The row of a session.
Place(s) == CHOOSE k \in DOMAIN sessions : sessions[k].id = s

\* Mutant: a new row has no turn yet.
UpsertedNone(s, p) ==
  IF s \in Listed
  THEN <<[sessions[Place(s)] EXCEPT !.turns = @ + 1]>> \o RemoveAt(sessions, Place(s))
  ELSE <<[id |-> s, title |-> p, turns |-> 0]>> \o sessions

\* register_turn: the row is inserted, or counted up; either way it is the latest.
Upserted(s, p) ==
  IF s \in Listed
  THEN <<[sessions[Place(s)] EXCEPT !.turns = @ + 1]>> \o RemoveAt(sessions, Place(s))
  ELSE <<[id |-> s, title |-> p, turns |-> 1]>> \o sessions

\* Its errors are swallowed, by itself and by its callers.
RegisterTurn(s, p) ==
  \/ NoFault /\ sessions' = Upserted(s, p)
  \/ Fault /\ UNCHANGED sessions

\* The sidebar lists sessions by title and number of turns in a dict, where the last
\* of equal labels stays.
Selectable ==
  {k \in DOMAIN sessions :
     \A j \in DOMAIN sessions :
       sessions[j].title = sessions[k].title /\ sessions[j].turns = sessions[k].turns
         => j <= k}

\* uuid4.
Fresh == Session \ (Listed \cup {page[a].session : a \in Actor}
                    \cup {r.session : r \in ToSet(ran)}
                    \cup {script[a][i].session : a \in Actor, i \in Script})

\* delete_session: the ORM deletes the runs with the session; the checkpoint stays.
Delete(s) ==
  /\ s \in Listed
  /\ Fault
  /\ sessions' = RemoveAt(sessions, Place(s))
  /\ rows' = {r \in rows : r.session # s}
  /\ UNCHANGED <<page, script, observer, log, history, ran, input>>

-----------------------------------------------------------------------------
(* Clicks of a tab. *)

Busy(a) == {i \in Script : script[a][i].at # "idle"}

\* The scripts of a tab that are about a run share one observer.  They alone go on
\* when they are told to stop, up to the answer.
Recording(a) ==
  {i \in Script : script[a][i].at \in {"bound", "opened", "invoked", "ran", "storing",
                                       "closing"}}

\* A click cuts off what the tab does and starts a script for it: with a text that was
\* typed or a card's, or the number of a click on the panel.  If there is nothing for
\* the script to do it is left out.
Click(t, trigger, text, n) ==
  /\ Recording(t) # Script
  /\ LET next == CHOOSE i \in Script : i \notin Recording(t)
         acts == trigger # "none" \/ page[t].bypass # None \/ page[t].card # None
     IN script' = [script EXCEPT ![t] =
          [i \in Script |->
             IF i \in Recording(t) THEN [script[t][i] EXCEPT !.stopped = TRUE]
             ELSE IF i = next /\ acts
                  THEN [Rerun EXCEPT !.trigger = trigger, !.typed = text, !.confirm = n]
             ELSE [Idle EXCEPT !.stopped = i \in Busy(t)]]]
  /\ IF Busy(t) = {} THEN UNCHANGED overlaps ELSE Overlap
  /\ UNCHANGED <<page, runLog, sessions, history, faults>>

Type(t) ==
  /\ typed < MaxPrompts
  /\ typed' = typed + 1
  /\ Click(t, "type", Text[typed + 1], 0)
  /\ UNCHANGED confirms

\* A welcome card, shown while there are no messages.
Card(t) ==
  /\ typed < MaxPrompts
  /\ page[t].messages = <<>>
  /\ typed' = typed + 1
  /\ Click(t, "card", Text[typed + 1], 0)
  /\ UNCHANGED confirms

\* A button of the panel, which is shown for a pending proposal.
Press(t, trigger) ==
  /\ page[t].pending # None
  /\ IF trigger = "confirm"
     THEN /\ confirms' = [confirms EXCEPT ![t] = @ + 1]
          /\ Click(t, trigger, None, confirms[t] + 1)
     ELSE Click(t, trigger, None, 0) /\ UNCHANGED confirms
  /\ UNCHANGED typed

\* "Nueva sesión" or "Inicio", or "Retomar seleccionada".
Switch(t, trigger) ==
  /\ IF trigger = "new" THEN Fresh # {} ELSE sessions # <<>>
  /\ Click(t, trigger, None, 0)
  /\ UNCHANGED <<typed, confirms>>

\* Anything else while a script runs: another widget, "Editar", or the second half of a
\* double click on a button that is no longer rendered.
Touch(t) == Busy(t) # {} /\ Click(t, "none", None, 0) /\ UNCHANGED <<typed, confirms>>

-----------------------------------------------------------------------------
(* The sidebar: a switch of the session.  Each statement that writes is a step. *)

NewSteps == <<"messages", "pending", "bypass", "card">>
ResumeSteps == <<"pending", "bypass", "card", "history", "messages">>

\* The first statement of both.
Entered(t, i, s, to) ==
  /\ page' = [page EXCEPT ![t].session = s, ![t].torn = TRUE]
  /\ script' = [script EXCEPT ![t][i] = [Idle EXCEPT !.at = to, !.step = 1]]
  /\ UNCHANGED <<runLog, sessions, history, input, faults>>

\* handle_new_session.
NewSession(t, i) ==
  /\ script[t][i].at = "top" /\ script[t][i].trigger = "new"
  /\ Fresh # {}
  /\ Entered(t, i, CHOOSE s \in Fresh : TRUE, "new")

\* resume_session of what is selected, if it is listed as it was (else: Untriggered).
ResumeSession(t, i) ==
  /\ script[t][i].at = "top" /\ script[t][i].trigger = "resume"
  /\ \E k \in Selectable : Entered(t, i, sessions[k].id, "resume")

\* What resume_session shows of a checkpoint with n turns.
Shown(s, n) ==
  [k \in 1..(2 * n) |->
     LET turn == history[s][(k + 1) \div 2]
     IN IF k % 2 = 1 THEN User(turn.prompt, s)
        ELSE Assistant(turn.prompt, s, turn.run, "answered")]

\* A switch at its next statement, with n turns read.
Stepped(c, n) == [c EXCEPT !.step = @ + 1, !.read = n]

\* The checkpoint is read; that it cannot be is swallowed.
ReadHistory(t, i) ==
  LET turns == Len(history[page[t].session])
  IN /\ script[t][i].at = "resume" /\ ResumeSteps[script[t][i].step] = "history"
     /\ \E n \in {0, turns} :
          /\ IF n = turns THEN NoFault ELSE Fault
          /\ script' = [script EXCEPT ![t][i] = Stepped(@, n)]
     /\ UNCHANGED <<page, runLog, sessions, history, input>>

\* Page p when its key has been set, the messages to m.
Cleared(p, key, m, torn) ==
  [p EXCEPT !.messages = IF key = "messages" THEN m ELSE @,
            !.pending = IF key = "pending" THEN None ELSE @,
            !.bypass = IF key = "bypass" THEN None ELSE @,
            !.card = IF key = "card" THEN None ELSE @,
            !.torn = torn]

\* The other statements, in their order; the rerun after the last has nothing to do.
Reset(t, i) ==
  LET c == script[t][i]
      steps == IF c.at = "new" THEN NewSteps ELSE ResumeSteps
      key == steps[c.step]
      last == c.step = Len(steps)
  IN /\ c.at \in {"new", "resume"} /\ key # "history"
     /\ page' = [page EXCEPT ![t] =
                    Cleared(@, key, Shown(page[t].session, c.read), ~last)]
     /\ script' = [script EXCEPT ![t][i] = IF last THEN Idle ELSE Stepped(c, c.read)]
     /\ UNCHANGED <<runLog, sessions, history, input, faults>>

-----------------------------------------------------------------------------
(* The prompt of a script: a confirmed one, else a card's, else the typed one. *)

Go(a, i, to) == script' = [script EXCEPT ![a][i].at = to]

\* The script is past the sidebar, where nothing was clicked.
Untriggered(t, i) == script[t][i].at = "top" /\ script[t][i].trigger # "new"

\* Mutant: the confirmed prompt is read and left.
TakeBypassLeft(t, i) ==
  LET b == page[t].bypass
  IN /\ Untriggered(t, i) /\ b # None
     /\ script' = [script EXCEPT ![t][i] =
          [@ EXCEPT !.at = "saying", !.typed = None, !.prompt = b.prompt,
                    !.gate = b.gate, !.click = b.click]]
     /\ UNCHANGED <<page, runLog, sessions, history, input, faults>>

TakeBypass(t, i) ==
  LET b == page[t].bypass
  IN /\ Untriggered(t, i) /\ b # None
     /\ page' = [page EXCEPT ![t].bypass = None]
     /\ script' = [script EXCEPT ![t][i] =
          [@ EXCEPT !.at = "saying", !.typed = None, !.prompt = b.prompt,
                    !.gate = b.gate, !.click = b.click]]
     /\ UNCHANGED <<runLog, sessions, history, input, faults>>

TakeCard(t, i) ==
  /\ Untriggered(t, i) /\ page[t].bypass = None /\ page[t].card # None
  /\ page' = [page EXCEPT ![t].card = None]
  /\ script' = [script EXCEPT ![t][i] =
       [@ EXCEPT !.at = "obsoleting", !.typed = None, !.prompt = page[t].card]]
  /\ UNCHANGED <<runLog, sessions, history, input, faults>>

\* Any prompt but a confirmed one makes a pending proposal obsolete.
Obsolete(t, i) ==
  /\ script[t][i].at = "obsoleting"
  /\ page' = [page EXCEPT ![t].pending = None]
  /\ Go(t, i, "saying")
  /\ UNCHANGED <<runLog, sessions, history, input, faults>>

\* Mutant: a proposal outlives the next prompt.
TakeTypedOnly(t, i) ==
  /\ Untriggered(t, i) /\ page[t].bypass = None /\ page[t].card = None
  /\ script[t][i].trigger = "type"
  /\ script' = [script EXCEPT ![t][i] =
       [@ EXCEPT !.at = "saying", !.typed = None, !.prompt = script[t][i].typed]]
  /\ UNCHANGED <<page, runLog, sessions, history, input, faults>>

\* What was typed is not kept in the session_state, so this is one step with what follows
\* for a card.
TakeTyped(t, i) ==
  /\ Untriggered(t, i) /\ page[t].bypass = None /\ page[t].card = None
  /\ script[t][i].trigger = "type"
  /\ page' = [page EXCEPT ![t].pending = None]
  /\ script' = [script EXCEPT ![t][i] =
       [@ EXCEPT !.at = "saying", !.typed = None, !.prompt = script[t][i].typed]]
  /\ UNCHANGED <<runLog, sessions, history, input, faults>>

\* The rest of a script is the panel, if there is a proposal, with the button of it that
\* was clicked.
Onward(c, proposal) ==
  IF c.trigger \in {"confirm", "cancel"} /\ proposal # None
  THEN [Idle EXCEPT !.at = "panel", !.trigger = c.trigger, !.confirm = c.confirm]
  ELSE Idle

\* No prompt: the cards are shown if there are no messages, and the panel.
Unprompted(t, i) ==
  LET c == script[t][i]
  IN /\ Untriggered(t, i) /\ page[t].bypass = None /\ page[t].card = None
     /\ c.trigger # "type"
     /\ IF c.trigger = "card" /\ page[t].messages = <<>>
        THEN /\ page' = [page EXCEPT ![t].card = c.typed]
             /\ script' = [script EXCEPT ![t][i] = Rerun]
        ELSE script' = [script EXCEPT ![t][i] = Onward(c, page[t].pending)]
             /\ UNCHANGED page
     /\ UNCHANGED <<runLog, sessions, history, input, faults>>

Say(t, i) ==
  /\ script[t][i].at = "saying"
  /\ page' = [page EXCEPT ![t].messages =
                Append(@, User(script[t][i].prompt, page[t].session))]
  /\ Go(t, i, "asked")
  /\ UNCHANGED <<runLog, sessions, history, input, faults>>

-----------------------------------------------------------------------------
(* A run, of run_query or of the REPL, and its record. *)

\* set_session_id: a record w that is open gets the new session too.
Rebound(w, s) == IF w = None THEN None ELSE [w EXCEPT !.session = s]

\* run_agent_query, up to set_session_id.
Register(t, i) ==
  LET s == page[t].session
      others == Recording(t)
  IN /\ script[t][i].at = "asked"
     /\ RegisterTurn(s, script[t][i].prompt)
     /\ script' = [script EXCEPT ![t] = [j \in Script |->
          IF j = i
          THEN [script[t][i] EXCEPT !.at = "bound", !.session = s, !.alone = others = {}]
          ELSE [script[t][j] EXCEPT !.alone = @ /\ j \notin others]]]
     /\ observer' = [observer EXCEPT ![t] =
          [session |-> s, run |-> Rebound(observer[t].run, s)]]
     /\ UNCHANGED <<page, log, rows, ran, history, input>>

\* start_run.
Opened(a, i, s, p) ==
  LET r == Len(ran) + 1
  IN /\ ran' = Append(ran, [actor |-> a, session |-> s, prompt |-> p,
                            gate |-> script[a][i].gate, click |-> script[a][i].click,
                            outcome |-> None, erred |-> FALSE, alone |-> TRUE,
                            closed |-> FALSE, unlogged |-> FALSE])
     /\ observer' = [observer EXCEPT ![a].run =
          [run |-> r, session |-> observer[a].session, prompt |-> p, by |-> {},
           success |-> TRUE]]
     /\ script' = [script EXCEPT ![a][i] =
          [@ EXCEPT !.at = "opened", !.session = s, !.prompt = p, !.run = r]]
     /\ UNCHANGED <<log, rows, sessions, history>>

StartRun(t, i) ==
  /\ script[t][i].at = "bound"
  /\ Opened(t, i, script[t][i].session, script[t][i].prompt)
  /\ UNCHANGED <<page, input, faults>>

\* Mutant: a tool's error is not noted.
WrittenGood(w, r, erred) == IF w = None THEN None ELSE [w EXCEPT !.by = @ \cup {r}]

\* What the nodes of run r leave of the record w that is open, if one is: a tool's error
\* takes the success away.
Written(w, r, erred) ==
  IF w = None THEN None
  ELSE [w EXCEPT !.by = @ \cup {r}, !.success = @ /\ ~erred]

\* The graph and its nodes, which write into whatever record is open.  A turn that is
\* gated or raises leaves no history, one that is gated or clarified has run no tool, and
\* a confirmed one is not gated.  A tool's error is something to tell in the answer.
Invoke(a, i) ==
  LET c == script[a][i]
  IN /\ c.at = "opened"
     /\ \E o \in Outcome, erred \in BOOLEAN :
          /\ c.gate # 0 => o # "gated"
          /\ erred => o \in {"answered", "raised"}
          /\ IF erred \/ o \in {"clarified", "raised"} THEN Fault ELSE NoFault
          /\ script' = [script EXCEPT ![a][i] = [@ EXCEPT !.outcome = o,
                !.at = IF a = Repl /\ o # "raised" THEN "invoked" ELSE "ran"]]
          /\ ran' = [ran EXCEPT ![c.run] = [@ EXCEPT !.outcome = o, !.erred = erred]]
          /\ history' = IF o \in {"answered", "clarified"}
               THEN [history EXCEPT ![c.session] =
                       Append(@, [prompt |-> c.prompt, run |-> c.run])]
               ELSE history
          /\ observer' = [observer EXCEPT ![a].run = Written(@, c.run, erred)]
     /\ UNCHANGED <<page, log, rows, sessions, input>>

\* Mutant: a script that was told to stop shows its answer all the same.
OverUnstopped(a, i, o) ==
  /\ ran' = [ran EXCEPT ![script[a][i].run] =
                [@ EXCEPT !.closed = TRUE, !.alone = script[a][i].alone]]
  /\ script' = [script EXCEPT ![a][i] =
       IF a = Repl THEN Idle
       ELSE [@ EXCEPT !.at = "answered", !.outcome = o, !.record = None]]

\* The run is over and the script goes on, unless it has been told to stop; the REPL
\* goes back to its prompt.
Over(a, i, o) ==
  /\ ran' = [ran EXCEPT ![script[a][i].run] =
                [@ EXCEPT !.closed = TRUE, !.alone = script[a][i].alone]]
  /\ script' = [script EXCEPT ![a][i] =
       IF a = Repl \/ script[a][i].stopped
       THEN [Idle EXCEPT !.stopped = script[a][i].stopped]
       ELSE [@ EXCEPT !.at = "answered", !.outcome = o, !.record = None]]

\* run_query calls an answer a success and a clarification none, the REPL whatever does
\* not raise.
Good(a, o) == IF a = Repl THEN o # "raised" ELSE o = "answered"

\* end_run: the record as it is now, if one is open, goes to the JsonlSink, which
\* swallows that it cannot be appended.
EndRun(a, i) ==
  LET c == script[a][i]
      closing == [observer[a].run EXCEPT !.success = @ /\ Good(a, c.outcome)]
  IN /\ c.at = "ran"
     /\ IF observer[a].run = None
        THEN Over(a, i, c.outcome) /\ UNCHANGED <<observer, log, faults>>
        ELSE /\ observer' = [observer EXCEPT ![a].run = closing]
             /\ script' = [script EXCEPT ![a][i] = [@ EXCEPT !.at = "storing",
                                                             !.record = closing]]
             /\ \/ NoFault /\ log' = Append(log, closing) /\ UNCHANGED ran
                \/ /\ Fault /\ UNCHANGED log
                   /\ ran' = [ran EXCEPT ![closing.run].unlogged = TRUE]
     /\ UNCHANGED <<page, rows, sessions, history, input>>

\* PostgresSink: a session that is not a UUID is stored as NULL, one that has no row is
\* refused by the foreign key, and any error is swallowed.
WriteRow(a, i) ==
  LET record == script[a][i].record
  IN /\ script[a][i].at = "storing"
     /\ \/ /\ rows' = IF record.session \in Listed \cup {None}
                       THEN rows \cup {record} ELSE rows
           /\ NoFault
        \/ Fault /\ UNCHANGED rows
     /\ Go(a, i, "closing")
     /\ UNCHANGED <<page, observer, log, ran, sessions, history, input>>

\* The rest of end_run reads the record once more: if another script has closed it this
\* raises, which run_query turns into an error, unless it was handling one.
ClearRun(a, i) ==
  LET c == script[a][i]
  IN /\ c.at = "closing"
     /\ observer' = [observer EXCEPT ![a].run = None]
     /\ IF observer[a].run # None THEN Over(a, i, c.outcome)
        ELSE IF c.outcome # "raised" THEN Over(a, i, "raised")
        ELSE /\ script' = [script EXCEPT ![a][i] = Idle]
             /\ ran' = [ran EXCEPT ![c.run] = [@ EXCEPT !.closed = TRUE, !.alone = FALSE]]
     /\ UNCHANGED <<page, log, rows, sessions, history, input, faults>>

-----------------------------------------------------------------------------
(* The answer. *)

\* Mutant: an error is shown by nothing.
AnswerUnlessRaised(t, i) ==
  LET c == script[t][i]
  IN /\ c.at = "answered"
     /\ page' = IF c.outcome = "raised" THEN page
                ELSE [page EXCEPT ![t].messages =
                        Append(@, Assistant(c.prompt, c.session, c.run, c.outcome))]
     /\ script' = [script EXCEPT ![t][i] =
          IF c.outcome = "gated" THEN [@ EXCEPT !.at = "proposing"]
          ELSE Onward(c, page[t].pending)]
     /\ UNCHANGED <<runLog, sessions, history, input, faults>>

Answer(t, i) ==
  LET c == script[t][i]
  IN /\ c.at = "answered"
     /\ page' = [page EXCEPT ![t].messages =
          Append(@, Assistant(c.prompt, c.session, c.run, c.outcome))]
     /\ script' = [script EXCEPT ![t][i] =
          IF c.outcome = "gated" THEN [@ EXCEPT !.at = "proposing"]
          ELSE Onward(c, page[t].pending)]
     /\ UNCHANGED <<runLog, sessions, history, input, faults>>

Propose(t, i) ==
  LET c == script[t][i]
  IN /\ c.at = "proposing"
     /\ page' = [page EXCEPT ![t].pending =
                    [prompt |-> c.prompt, gate |-> c.run, spent |-> FALSE]]
     /\ script' = [script EXCEPT ![t][i] = Onward(c, page'[t].pending)]
     /\ UNCHANGED <<runLog, sessions, history, input, faults>>

-----------------------------------------------------------------------------
(* The panel, when a button of it was clicked. *)

\* _on_confirm sets the prompt that passes the gate ...
Confirm(t, i) ==
  LET c == script[t][i]
      p == page[t].pending
  IN /\ c.at = "panel" /\ c.trigger = "confirm"
     /\ page' = [page EXCEPT ![t] = [@ EXCEPT
          !.bypass = [prompt |-> p.prompt, gate |-> p.gate, click |-> c.confirm],
          !.pending = [p EXCEPT !.spent = TRUE]]]
     /\ Go(t, i, "confirming")
     /\ UNCHANGED <<runLog, sessions, history, input, faults>>

\* ... and then drops the proposal, which is all that _on_cancel does.
Withdraw(t, i) ==
  LET c == script[t][i]
  IN /\ \/ c.at = "confirming"
        \/ c.at = "panel" /\ c.trigger = "cancel"
     /\ page' = [page EXCEPT ![t].pending = None]
     /\ script' = [script EXCEPT ![t][i] =
          IF page[t].bypass # None \/ page[t].card # None THEN Rerun ELSE Idle]
     /\ UNCHANGED <<runLog, sessions, history, input, faults>>

-----------------------------------------------------------------------------
(* The REPL: one run at a time, in a process of its own.  Its observer never gets the *)
(* session, and the turn is registered after the run.                               *)

Line == CHOOSE i \in Script : TRUE

AtPrompt == Busy(Repl) = {}

\* In the session the REPL is in, in one it resumes first, or in a new one.
ReplAsk(s) ==
  /\ AtPrompt
  /\ typed < MaxPrompts
  /\ \/ s \in ({page[Repl].session} \ {None}) \cup Listed
     \/ Fresh # {} /\ s = CHOOSE x \in Fresh : TRUE
  /\ typed' = typed + 1 /\ Overlap
  /\ page' = [page EXCEPT ![Repl].session = s]
  /\ Opened(Repl, Line, s, Text[typed + 1]) /\ UNCHANGED <<confirms, faults>>

ReplRegister(i) ==
  /\ script[Repl][i].at = "invoked"
  /\ RegisterTurn(script[Repl][i].session, script[Repl][i].prompt)
  /\ Go(Repl, i, "ran")
  /\ UNCHANGED <<page, runLog, history, input>>

\* Ctrl-C: cancel_run.  While it handles an error the REPL itself ends, which is not
\* modelled.
ReplInterrupt(i) ==
  LET c == script[Repl][i]
  IN /\ c.at # "idle" /\ c.outcome # "raised"
     /\ Fault
     /\ observer' = [observer EXCEPT ![Repl].run = None]
     /\ script' = [script EXCEPT ![Repl][i] = Idle]
     /\ UNCHANGED <<page, log, rows, ran, sessions, history, input>>

-----------------------------------------------------------------------------
Clicks(t) ==
  \/ Type(t) \/ Card(t) \/ Touch(t)
  \/ \E b \in {"new", "resume"} : Switch(t, b)
  \/ \E b \in {"confirm", "cancel"} : Press(t, b)

TabStep(t, i) ==
  \/ NewSession(t, i) \/ ResumeSession(t, i) \/ ReadHistory(t, i) \/ Reset(t, i)
  \/ TakeBypass(t, i) \/ TakeCard(t, i) \/ TakeTyped(t, i) \/ Unprompted(t, i)
  \/ Obsolete(t, i) \/ Say(t, i) \/ Register(t, i) \/ StartRun(t, i)
  \/ Answer(t, i) \/ Propose(t, i)
  \/ Confirm(t, i) \/ Withdraw(t, i)

RunStep(a, i) ==
  Invoke(a, i) \/ EndRun(a, i) \/ WriteRow(a, i) \/ ClearRun(a, i)

Next ==
  \/ \E t \in Tab : Clicks(t) \/ \E i \in Script : TabStep(t, i)
  \/ \E a \in Actor, i \in Script : RunStep(a, i)
  \/ \E i \in Script : ReplRegister(i) \/ ReplInterrupt(i)
  \/ \E s \in Session : ReplAsk(s) \/ Delete(s)

Spec == Init /\ [][Next]_vars

\* A script that has begun runs on; the agent's run ends (AgentTurn!TurnEnds).
FairSpec ==
  Spec /\ \A t \in Tab, i \in Script : WF_vars(TabStep(t, i) \/ RunStep(t, i))

-----------------------------------------------------------------------------
(* Properties. *)

\* What a tab shows is one conversation, whatever was clicked while the agent ran: each
\* answer is directly under the prompt it answers, and is that prompt's, from its session
\* (ui/app.py:169, "This function owns the message list exclusively").  Unless a click
\* cut a switch short, all of it is of the session the tab is in.
OwnConversation ==
  \A t \in Tab :
    LET m == page[t].messages
    IN \A k \in DOMAIN m :
         /\ ~page[t].torn => m[k].session = page[t].session
         /\ m[k].role = "assistant" =>
              /\ k > 1 /\ m[k - 1] = User(m[k].prompt, m[k].session)
              /\ ran[m[k].run].prompt = m[k].prompt
              /\ ran[m[k].run].session = m[k].session

\* The panel asks about the prompt the user asked last, in the session the tab is in
\* (ui/app.py:127), unless a click cut short a switch of the session or the
\* confirmation of the proposal.
ProposalIsLast ==
  \A t \in Tab :
    page[t].pending # None /\ ~page[t].torn /\ ~page[t].pending.spent =>
      LET m == page[t].messages
      IN /\ m # <<>>
         /\ Last(m).kind = "gated" /\ Last(m).run = page[t].pending.gate
         /\ ran[page[t].pending.gate].session = page[t].session

\* The gate is passed only for a prompt that it stopped in the same tab, and each time
\* by a click on the panel of its own: nothing but a click makes a costly tool run, and
\* none makes it run twice.
BypassConfirmed ==
  \A r \in DOMAIN ran :
    ran[r].gate # 0 =>
      LET g == ran[ran[r].gate]
      IN /\ g.outcome = "gated" /\ g.prompt = ran[r].prompt /\ g.actor = ran[r].actor
         /\ ran[r].click \in 1..confirms[ran[r].actor]
         /\ \A q \in DOMAIN ran :
              ran[q].actor = ran[r].actor /\ ran[q].click = ran[r].click => q = r

\* What the record of run r should say: its own session (none for the REPL), prompt and
\* nodes, and a success only if the run was one and no tool ended in an error.
RecordOf(r) ==
  [run |-> r, session |-> IF ran[r].actor = Repl THEN None ELSE ran[r].session,
   prompt |-> ran[r].prompt, by |-> {r},
   success |-> Good(ran[r].actor, ran[r].outcome) /\ ~ran[r].erred]

\* A run during which no other script of its tab used the observer is recorded as it
\* was, in the log and in the table, and is in the log exactly once unless the file could
\* not be appended to.
RecordedAlone ==
  \A r \in DOMAIN ran :
    ran[r].closed /\ ran[r].alone =>
      /\ \A w \in rows : w.run = r => w = RecordOf(r)
      /\ IF ran[r].unlogged THEN \A k \in DOMAIN log : log[k].run # r
         ELSE \E k \in DOMAIN log :
                log[k] = RecordOf(r) /\ \A j \in DOMAIN log : log[j].run = r => j = k

\* A prompt gets its answer, unless the user clicks on or another script of the tab
\* has closed its record.
PromptAnswered ==
  \A t \in Tab, i \in Script :
    script[t][i].at = "asked" ~>
      \/ script[t][i].stopped \/ script[t][i].at = "top" \/ ~script[t][i].alone
      \/ page[t].messages # <<>> /\ Last(page[t].messages).role = "assistant"

-----------------------------------------------------------------------------
(* What the code does not keep. *)

\* "stale panels do not ghost into the new one" (ui/session.py:57): a panel that is
\* shown is about the session that is shown.
NoGhostPanel ==
  \A t \in Tab :
    page[t].pending # None /\ Busy(t) = {} =>
      ran[page[t].pending.gate].session = page[t].session

\* "Called once per run" (evaluation/sinks/base.py:58): no two lines of the log are
\* the record of one run.
RecordedOnce ==
  \A j, k \in DOMAIN log : log[j].run = log[k].run => j = k

\* Every listed session can be chosen in the sidebar.
AllSelectable == Selectable = DOMAIN sessions

\* A run of the REPL is stored with its session (agents/runner.py:88).
RunsHaveSession == \A r \in rows : r.session # None
=============================================================================
