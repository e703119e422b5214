----------------------------- MODULE MemoryService -----------------------------
(***************************************************************************)
(* Analytical memory of one session: LocalMemoryService (memory/service.py) *)
(* over its cached MemoryCoordinator, the session's rows in Postgres, and   *)
(* the requests that reach it from the agent graph (agents/workflow.py) and *)
(* the session router (api/routers/sessions.py).                            *)
(*                                                                         *)
(* The API runs its handlers on a thread pool and nothing here takes a      *)
(* lock, so Thread is a set of handler threads that interleave.  A step is  *)
(* one call of a coordinator method, one statement of _persist_postgres     *)
(* that reads or writes shared state, one database transaction, or one read *)
(* or write of the proposal store.                                          *)
(***************************************************************************)
EXTENDS Coordinator, FiniteSets

CONSTANTS
  Thread,       \* handler threads of the API process
  Nil,          \* "no coordinator cached"
  Query,        \* texts a gated query may have
  NoQuery,      \* the empty original_query of a POST /proposals
  Decision,     \* what a commit request may ask for: sequences of Change
  Faults,       \* what can go wrong, of AllFaults
  MaxRequests   \* bound on the requests served (reads not counted)

\* One line of a commit decision: a correction, a freeze or an unfreeze.
Change == [kind : {"set", "freeze", "unfreeze"}, slot : SlotName,
           value : Val \cup {Junk}]

ASSUME ThreadAssumption == Nil \notin Thread
ASSUME QueryAssumption == NoQuery \notin Query
ASSUME DecisionAssumption == Decision \subseteq Seq(Change)
\* A SELECT of load_from_db fails; a transaction fails to begin; it fails to
\* commit; the process dies; a client deletes the session.
AllFaults == {"load", "connect", "commit", "crash", "delete"}
ASSUME FaultsAssumption == Faults \subseteq AllFaults
ASSUME MaxRequestsAssumption == MaxRequests \in Nat

VARIABLES
  cache,      \* _coordinators[session]: whose loaded object is installed
  obj,        \* obj[t]: the coordinator object thread t loaded last
  proposals,  \* _proposals of the session: open proposals by turn
  row,        \* the agent_sessions row
  log,        \* session_state_transitions of the session, in insertion order
  commits,    \* the state_commits rows
  pc,         \* pc[t]: the statement thread t is about to run
  loc,        \* loc[t]: its local variables
  started     \* requests begun so far

vars == <<cache, obj, proposals, row, log, commits, pc, loc, started>>

Proposal == [turn : Nat, query : Query \cup {NoQuery}]
\* "bare": created by register_turn, analytical_state still {}.
Row == [kind : {"none", "bare", "full"}, state : State, ver : Nat]
NoRow == [kind |-> "none", state |-> Blank, ver |-> 0]
BareRow == [kind |-> "bare", state |-> Blank, ver |-> 0]
CommitRow == [before : Nat, after : Nat, turn : Nat,
              applied : SUBSET SlotName, skipped : SUBSET SlotName]

PersistLabel == {"dump", "open", "insert", "slice", "count", "flush"}
Label == {"idle", "read", "register", "plan", "intent", "route", "run",
          "record", "gate", "ask", "propose", "commit", "snapshot", "apply",
          "resolve", "result"} \cup PersistLabel
\* Statements that begin with _get_or_load.
Entry == {"read", "plan", "intent", "run", "record", "gate", "ask", "propose",
          "snapshot"}

Locals == [
  loading : {"no", "state", "audit"}, \* how far load_from_db has come
  coord   : Thread \cup {Nil},        \* the coordinator the call works on
  turn    : Nat,                      \* turn_id in hand
  query   : Query \cup {NoQuery},     \* original_query in hand
  bypass  : BOOLEAN,                  \* bypass_gate
  resume  : BOOLEAN,                  \* resume_query
  frozen  : SUBSET SlotName,          \* state_before.frozen_slots
  before  : Nat,                      \* version_before
  todo    : Seq(Change),              \* the rest of the decision
  applied : SUBSET SlotName,          \* applied_mutations
  skipped : SUBSET SlotName,          \* skipped_slots
  dump    : State,                    \* state_json
  rowVer  : Nat,                      \* analytical_state_version
  isNew   : BOOLEAN,                  \* this transaction inserted the row
  batch   : Seq(Transition),          \* new_transitions
  next    : Label,                    \* where to go on after persisting
  resp    : {"none", "ok", "badRequest", "error"}]

Start0 == [loading |-> "no", coord |-> Nil, turn |-> 0, query |-> NoQuery,
           bypass |-> FALSE, resume |-> FALSE, frozen |-> {}, before |-> 0,
           todo |-> <<>>, applied |-> {}, skipped |-> {}, dump |-> Blank,
           rowVer |-> 0, isNew |-> FALSE, batch |-> <<>>, next |-> "idle",
           resp |-> "none"]

Init ==
  /\ cache = Nil
  /\ obj = [t \in Thread |-> Fresh]
  /\ proposals = {}
  /\ row = NoRow
  /\ log = <<>>
  /\ commits = {}
  /\ pc = [t \in Thread |-> "idle"]
  /\ loc = [t \in Thread |-> Start0]
  /\ started = 0

-----------------------------------------------------------------------------
(* Control flow. *)

Go(t, l) == pc' = [pc EXCEPT ![t] = l]

\* The request is answered; what it applied stays visible with the answer.
Finish(t, r) ==
  /\ Go(t, "idle")
  /\ loc' = [loc EXCEPT ![t] = [Start0 EXCEPT !.resp = r,
                                             !.applied = loc[t].applied]]

\* persist_to_db is entered; control goes on at l whatever becomes of it.
PersistThen(t, l, locals) ==
  /\ Go(t, "dump")
  /\ loc' = [loc EXCEPT ![t] = [locals EXCEPT !.next = l]]

\* persist_to_db returns, its exceptions swallowed.
Persisted(t) ==
  IF loc[t].next = "idle" THEN Finish(t, "ok")
  ELSE /\ Go(t, loc[t].next)
       /\ loc' = [loc EXCEPT ![t] = [@ EXCEPT !.dump = Blank, !.rowVer = 0,
                                              !.isNew = FALSE, !.batch = <<>>,
                                              !.next = "idle"]]

\* An INSERT of the session row that has not committed yet blocks the others.
RowPending == \E u \in Thread : loc[u].isNew

-----------------------------------------------------------------------------
(* _get_or_load: check the cache, load, install, read the cache again.      *)
(* Two threads may both find it empty; the second install then replaces an  *)
(* object the first thread may already be using.                            *)

\* Mutant: the pins are not restored.
LoadStateUnpinned(t) ==
  /\ pc[t] \in Entry /\ loc[t].loading = "no" /\ cache = Nil
  /\ \/ /\ row.kind = "full" /\ Readable(row.state)
        /\ obj' = [obj EXCEPT ![t] = [Fresh EXCEPT
                                        !.state = [row.state EXCEPT !.frozen = {}]]]
        /\ loc' = [loc EXCEPT ![t].loading = "state"]
     \/ /\ row.kind # "full" \/ ~Readable(row.state)
        /\ obj' = [obj EXCEPT ![t] = Fresh]
        /\ loc' = [loc EXCEPT ![t].loading = "audit"]
  /\ UNCHANGED <<cache, proposals, row, log, commits, pc, started>>

\* The session row is read and its state validated; a failure of either
\* leaves a fresh coordinator, as does a row without analytical state.
LoadState(t) ==
  /\ pc[t] \in Entry /\ loc[t].loading = "no" /\ cache = Nil
  /\ \/ /\ row.kind = "full" /\ Readable(row.state)
        /\ obj' = [obj EXCEPT ![t] = [Fresh EXCEPT !.state = row.state]]
        /\ loc' = [loc EXCEPT ![t].loading = "state"]
     \/ /\ row.kind # "full" \/ ~Readable(row.state) \/ "load" \in Faults
        /\ obj' = [obj EXCEPT ![t] = Fresh]
        /\ loc' = [loc EXCEPT ![t].loading = "audit"]
  /\ UNCHANGED <<cache, proposals, row, log, commits, pc, started>>

InOrder(s) == \A i, j \in 1..Len(s) : i < j => s[i].va =< s[j].va

\* The orders in which ORDER BY version_after may return the rows of s.
Orders(s) ==
  IF InOrder(s) THEN {[i \in 1..Len(s) |-> i]}
  ELSE {q \in [1..Len(s) -> 1..Len(s)] :
          /\ \A i, j \in 1..Len(s) : q[i] = q[j] => i = j
          /\ InOrder([i \in 1..Len(s) |-> s[q[i]]])}

LoadAudit(t) ==
  /\ loc[t].loading = "state"
  /\ \/ \E p \in Orders(log) :
          obj' = [obj EXCEPT ![t].audit = [i \in 1..Len(log) |-> log[p[i]]],
                             ![t].persisted = Len(log)]
     \/ "load" \in Faults /\ obj' = [obj EXCEPT ![t] = Fresh]
  /\ loc' = [loc EXCEPT ![t].loading = "audit"]
  /\ UNCHANGED <<cache, proposals, row, log, commits, pc, started>>

Install(t) ==
  /\ loc[t].loading = "audit"
  /\ cache' = t
  /\ loc' = [loc EXCEPT ![t].loading = "no"]
  /\ UNCHANGED <<obj, proposals, row, log, commits, pc, started>>

\* Thread t is at statement l and _get_or_load gives it a coordinator.
Ready(t, l) == pc[t] = l /\ loc[t].loading = "no" /\ cache # Nil
Cached == obj[cache]

\* The object the call works on becomes c.
Update(o, c) == obj' = [obj EXCEPT ![o] = c]

-----------------------------------------------------------------------------
(* Requests. *)

Begin(t, l, locals) ==
  /\ pc[t] = "idle"
  /\ started < MaxRequests
  /\ started' = started + 1
  /\ Go(t, l)
  /\ loc' = [loc EXCEPT ![t] = locals]
  /\ UNCHANGED <<cache, obj, proposals, row, log, commits>>

\* POST /query
StartTurn(t) ==
  \E q \in Query, b \in BOOLEAN :
    Begin(t, "register", [Start0 EXCEPT !.query = q, !.bypass = b])

\* POST /sessions/{id}/state/proposals
StartProposal(t) == Begin(t, "ask", Start0)

\* POST /sessions/{id}/state/commits, for an open proposal or for none.
StartCommit(t) ==
  \E d \in Decision, n \in {p.turn : p \in proposals} \cup {0}, r \in BOOLEAN :
    Begin(t, "commit", [Start0 EXCEPT !.todo = d, !.turn = n, !.resume = r])

\* GET /sessions/{id}/state and /state/audit
StartRead(t) ==
  /\ pc[t] = "idle"
  /\ Go(t, "read")
  /\ loc' = [loc EXCEPT ![t] = Start0]
  /\ UNCHANGED <<cache, obj, proposals, row, log, commits, started>>

Read(t) ==
  /\ Ready(t, "read")
  /\ Finish(t, IF Readable(Cached.state) THEN "ok" ELSE "error")
  /\ UNCHANGED <<cache, obj, proposals, row, log, commits, started>>

-----------------------------------------------------------------------------
(* A turn of the agent graph. *)

\* register_turn; its failures are logged and ignored.
Register(t) ==
  /\ pc[t] = "register"
  /\ Go(t, "plan")
  /\ \/ row.kind = "none" /\ ~RowPending /\ row' = BareRow
     \/ (row.kind # "none" \/ "connect" \in Faults) /\ UNCHANGED row
  /\ UNCHANGED <<cache, obj, proposals, log, commits, loc, started>>

\* planner_node, after planning: which turn is this?
Plan(t) ==
  /\ Ready(t, "plan")
  /\ IF Readable(Cached.state)
     THEN /\ Go(t, "intent")
          /\ loc' = [loc EXCEPT ![t].turn = Cached.state.lastTurn + 1]
     ELSE Go(t, "route") /\ UNCHANGED loc
  /\ UNCHANGED <<cache, obj, proposals, row, log, commits, started>>

\* Mutant: record_tool_selection forgets to persist.
IntentUnsaved(t) ==
  /\ Ready(t, "intent")
  /\ \E v \in Value : Update(cache, SetIntent(Cached, v, loc[t].turn))
  /\ Go(t, "route")
  /\ UNCHANGED <<cache, proposals, row, log, commits, loc, started>>

\* record_tool_selection
Intent(t) ==
  /\ Ready(t, "intent")
  /\ \E v \in Value : Update(cache, SetIntent(Cached, v, loc[t].turn))
  /\ PersistThen(t, "route", [loc[t] EXCEPT !.coord = cache])
  /\ UNCHANGED <<cache, proposals, row, log, commits, started>>

\* _route_after_planner.  A clarification, an action held back by policy and
\* a failing tool leave the memory alone.
Route(t) ==
  /\ pc[t] = "route"
  /\ \/ Finish(t, "ok")
     \/ Go(t, "run") /\ UNCHANGED loc
     \/ ~loc[t].bypass /\ Go(t, "gate") /\ UNCHANGED loc
  /\ UNCHANGED <<cache, obj, proposals, row, log, commits, started>>

\* tool_node: the tool has run without error.
Run(t) ==
  /\ Ready(t, "run")
  /\ IF Readable(Cached.state)
     THEN /\ Go(t, "record")
          /\ loc' = [loc EXCEPT ![t].turn = Cached.state.lastTurn]
     ELSE Finish(t, "ok")
  /\ UNCHANGED <<cache, obj, proposals, row, log, commits, started>>

\* record_active_run: the knowledge tool has no slot but persists all the same.
Record(t) ==
  /\ Ready(t, "record")
  /\ \/ \E s \in Slot \cap RunSlots, v \in Value :
          Update(cache, SetActiveRun(Cached, s, v, loc[t].turn))
     \/ UNCHANGED obj
  /\ PersistThen(t, "idle", [loc[t] EXCEPT !.coord = cache])
  /\ UNCHANGED <<cache, proposals, row, log, commits, started>>

\* proactive_confirmation_gate; unreadable memory gives a proposal nobody
\* stores.
Gate(t) ==
  /\ Ready(t, "gate")
  /\ IF Readable(Cached.state)
     THEN /\ Go(t, "propose")
          /\ loc' = [loc EXCEPT ![t].turn = Cached.state.lastTurn + 1]
     ELSE Finish(t, "ok")
  /\ UNCHANGED <<cache, obj, proposals, row, log, commits, started>>

-----------------------------------------------------------------------------
(* Proposals and commits. *)

\* create_state_proposal
Ask(t) ==
  /\ Ready(t, "ask")
  /\ IF Readable(Cached.state)
     THEN /\ Go(t, "propose")
          /\ loc' = [loc EXCEPT ![t].turn = Cached.state.lastTurn + 1]
     ELSE Finish(t, "error")
  /\ UNCHANGED <<cache, obj, proposals, row, log, commits, started>>

\* propose_state_update: whatever is open under that turn is replaced.
Propose(t) ==
  /\ Ready(t, "propose")
  /\ IF Readable(Cached.state)
     THEN /\ proposals' = {p \in proposals : p.turn # loc[t].turn}
                          \cup {[turn |-> loc[t].turn, query |-> loc[t].query]}
          /\ Finish(t, "ok")
     ELSE /\ UNCHANGED proposals
          /\ Finish(t, IF loc[t].query = NoQuery THEN "error" ELSE "ok")
  /\ UNCHANGED <<cache, obj, row, log, commits, started>>

\* commit_state_update: the lookup.
Commit(t) ==
  /\ pc[t] = "commit"
  /\ \/ \E p \in proposals :
          /\ p.turn = loc[t].turn
          /\ Go(t, "snapshot")
          /\ loc' = [loc EXCEPT ![t].query = p.query]
     \/ /\ \A p \in proposals : p.turn # loc[t].turn
        /\ Finish(t, "badRequest")
  /\ UNCHANGED <<cache, obj, proposals, row, log, commits, started>>

\* state_before.  pydantic's ValidationError is a ValueError: answered 400.
Snapshot(t) ==
  /\ Ready(t, "snapshot")
  /\ IF Readable(Cached.state)
     THEN /\ Go(t, "apply")
          /\ loc' = [loc EXCEPT ![t] = [@ EXCEPT !.coord = cache,
                                        !.frozen = Cached.state.frozen,
                                        !.before = Cached.state.version]]
     ELSE Finish(t, "badRequest")
  /\ UNCHANGED <<cache, obj, proposals, row, log, commits, started>>

\* One line of the decision.  A correction counts as applied unless its slot
\* was frozen in the snapshot, even if _apply_mutation drops it.
Apply(t) ==
  /\ pc[t] = "apply" /\ loc[t].todo # <<>>
  /\ LET ch == Head(loc[t].todo)
         o == loc[t].coord
         rest == [loc[t] EXCEPT !.todo = Tail(@)]
     IN \/ /\ ch.kind = "set" /\ ch.slot \in loc[t].frozen
           /\ loc' = [loc EXCEPT ![t] = [rest EXCEPT !.skipped = @ \cup {ch.slot}]]
           /\ UNCHANGED obj
        \/ /\ ch.kind = "set" /\ ch.slot \notin loc[t].frozen
           /\ loc' = [loc EXCEPT ![t] = [rest EXCEPT !.applied = @ \cup {ch.slot}]]
           /\ Update(o, ApplyMutation(obj[o], ch.slot, ch.value, loc[t].turn))
        \/ /\ ch.kind # "set"
           /\ loc' = [loc EXCEPT ![t] = rest]
           /\ Update(o, Pin(obj[o], ch.slot, loc[t].turn,
                           IF ch.kind = "freeze" THEN Pinned ELSE Unpinned))
  /\ UNCHANGED <<cache, proposals, row, log, commits, pc, started>>

Applied(t) ==
  /\ pc[t] = "apply" /\ loc[t].todo = <<>>
  /\ PersistThen(t, "resolve", loc[t])
  /\ UNCHANGED <<cache, obj, proposals, row, log, commits, started>>

\* del self._proposals[...]: a KeyError, hence a 500, if it is gone already.
Resolve(t) ==
  /\ pc[t] = "resolve"
  /\ IF \E p \in proposals : p.turn = loc[t].turn
     THEN /\ proposals' = {p \in proposals : p.turn # loc[t].turn}
          /\ Go(t, "result") /\ UNCHANGED loc
     ELSE Finish(t, "error") /\ UNCHANGED proposals
  /\ UNCHANGED <<cache, obj, row, log, commits, started>>

\* The result, its state_commits row (best effort) and the resumed turn.
Result(t) ==
  /\ pc[t] = "result"
  /\ LET st == obj[loc[t].coord].state IN
     IF ~Readable(st) THEN Finish(t, "badRequest") /\ UNCHANGED commits
     ELSE /\ \/ /\ row.kind # "none"
                /\ commits' = commits \cup
                     {[before |-> loc[t].before, after |-> st.version,
                       turn |-> loc[t].turn, applied |-> loc[t].applied,
                       skipped |-> loc[t].skipped]}
             \/ /\ row.kind = "none" \/ Faults \cap {"connect", "commit"} # {}
                /\ UNCHANGED commits
          /\ IF loc[t].resume /\ loc[t].query # NoQuery
             THEN /\ Go(t, "plan")
                  /\ loc' = [loc EXCEPT ![t] = [Start0 EXCEPT
                                 !.query = loc[t].query, !.bypass = TRUE]]
             ELSE Finish(t, "ok")
  /\ UNCHANGED <<cache, obj, proposals, row, log, started>>

-----------------------------------------------------------------------------
(* _persist_postgres *)

\* state_json is taken before the transaction is opened.
Dump(t) ==
  /\ pc[t] = "dump"
  /\ Go(t, "open")
  /\ loc' = [loc EXCEPT ![t].dump = obj[loc[t].coord].state]
  /\ UNCHANGED <<cache, obj, proposals, row, log, commits, started>>

Open(t) ==
  /\ pc[t] = "open"
  /\ \/ "connect" \in Faults /\ Persisted(t)
     \/ /\ Go(t, IF row.kind = "none" THEN "insert" ELSE "slice")
        /\ UNCHANGED loc
  /\ UNCHANGED <<cache, obj, proposals, row, log, commits, started>>

\* Mutant: waits for the row to go away instead of failing on it.
InsertWaits(t) ==
  /\ pc[t] = "insert" /\ ~RowPending /\ row.kind = "none"
  /\ Go(t, "slice")
  /\ loc' = [loc EXCEPT ![t].isNew = TRUE]
  /\ UNCHANGED <<cache, obj, proposals, row, log, commits, started>>

\* The minimal session row: waits for another uncommitted INSERT of it and
\* fails if that one has committed.
Insert(t) ==
  /\ pc[t] = "insert" /\ ~RowPending
  /\ IF row.kind = "none"
     THEN /\ Go(t, "slice")
          /\ loc' = [loc EXCEPT ![t].isNew = TRUE]
     ELSE Persisted(t)
  /\ UNCHANGED <<cache, obj, proposals, row, log, commits, started>>

\* Mutant: only the newest transition is written.
SliceNewest(t) ==
  /\ pc[t] = "slice"
  /\ LET c == obj[loc[t].coord] IN
     loc' = [loc EXCEPT ![t] = [@ EXCEPT
               !.rowVer = c.state.version,
               !.batch = IF c.persisted < Len(c.audit)
                         THEN <<c.audit[Len(c.audit)]>> ELSE <<>>]]
  /\ Go(t, "count")
  /\ UNCHANGED <<cache, obj, proposals, row, log, commits, started>>

\* analytical_state_version and new_transitions, read from the live object.
Slice(t) ==
  /\ pc[t] = "slice"
  /\ LET c == obj[loc[t].coord] IN
     loc' = [loc EXCEPT ![t] = [@ EXCEPT
               !.rowVer = c.state.version,
               !.batch = SubSeq(c.audit, c.persisted + 1, Len(c.audit))]]
  /\ Go(t, "count")
  /\ UNCHANGED <<cache, obj, proposals, row, log, commits, started>>

\* Mutant: the count is not advanced.
CountNothing(t) ==
  /\ pc[t] = "count"
  /\ Go(t, "flush")
  /\ UNCHANGED <<cache, obj, proposals, row, log, commits, loc, started>>

\* _persisted_count = len(_audit_log), read again and before the COMMIT.
Count(t) ==
  /\ pc[t] = "count"
  /\ obj' = [obj EXCEPT ![loc[t].coord].persisted = Len(obj[loc[t].coord].audit)]
  /\ Go(t, "flush")
  /\ UNCHANGED <<cache, proposals, row, log, commits, loc, started>>

\* Mutant: the transitions are written by a transaction that may be lost.
FlushStateOnly(t) ==
  /\ pc[t] = "flush"
  /\ row' = [kind |-> "full", state |-> loc[t].dump, ver |-> loc[t].rowVer]
  /\ log' \in {log, log \o loc[t].batch}
  /\ Persisted(t)
  /\ UNCHANGED <<cache, obj, proposals, commits, started>>

\* The COMMIT of the transaction; it fails if the row was deleted meanwhile.
Flush(t) ==
  /\ pc[t] = "flush"
  /\ \/ /\ loc[t].isNew \/ row.kind # "none"
        /\ row' = [kind |-> "full", state |-> loc[t].dump, ver |-> loc[t].rowVer]
        /\ log' = log \o loc[t].batch
     \/ /\ (~loc[t].isNew /\ row.kind = "none") \/ "commit" \in Faults
        /\ UNCHANGED <<row, log>>
  /\ Persisted(t)
  /\ UNCHANGED <<cache, obj, proposals, commits, started>>

-----------------------------------------------------------------------------
(* The environment. *)

\* delete_session: the row and, by cascade, everything that refers to it.
\* The cached coordinator and the open proposals are not told.
Delete ==
  /\ "delete" \in Faults /\ row.kind # "none"
  /\ row' = NoRow /\ log' = <<>> /\ commits' = {}
  /\ UNCHANGED <<cache, obj, proposals, pc, loc, started>>

\* The process dies and is started again.
Crash ==
  /\ "crash" \in Faults
  /\ cache' = Nil /\ proposals' = {}
  /\ obj' = [t \in Thread |-> Fresh]
  /\ pc' = [t \in Thread |-> "idle"]
  /\ loc' = [t \in Thread |-> Start0]
  /\ UNCHANGED <<row, log, commits, started>>

Start(t) == StartTurn(t) \/ StartProposal(t) \/ StartCommit(t) \/ StartRead(t)

Serve(t) ==
  \/ LoadState(t) \/ LoadAudit(t) \/ Install(t) \/ Read(t)
  \/ Register(t) \/ Plan(t) \/ Intent(t) \/ Route(t) \/ Run(t) \/ Record(t)
  \/ Gate(t) \/ Ask(t) \/ Propose(t)
  \/ Commit(t) \/ Snapshot(t) \/ Apply(t) \/ Applied(t) \/ Resolve(t) \/ Result(t)
  \/ Dump(t) \/ Open(t) \/ Insert(t) \/ Slice(t) \/ Count(t) \/ Flush(t)

Next == (\E t \in Thread : Start(t) \/ Serve(t)) \/ Delete \/ Crash

Spec == Init /\ [][Next]_vars

\* A handler thread that can take its next statement takes it.
FairSpec == Spec /\ \A t \in Thread : WF_vars(Serve(t))
-----------------------------------------------------------------------------
(* Properties of one thread at a time (Sequential), whatever crashes and    *)
(* whatever connections fail.                                               *)

\* Every variable keeps to its type.
TypeOK ==
  /\ cache \in Thread \cup {Nil}
  /\ obj \in [Thread -> CoordinatorType]
  /\ proposals \in SUBSET Proposal
  /\ row \in Row
  /\ log \in Seq(Transition)
  /\ commits \in SUBSET CommitRow
  /\ pc \in [Thread -> Label]
  /\ loc \in [Thread -> Locals]
  /\ started \in Nat

\* The transitions in the database number the versions without gap or repeat,
\* and replaying them gives the analytical state stored in the row: values,
\* provenance, pins, last turn and version (coordinator.py: "so any state
\* value can be traced to its origin").
DurableTraceable ==
  IF row.kind = "full"
  THEN row.ver = Len(log) /\ GapFree(log) /\ Explains(log, row.state)
  ELSE log = <<>>

\* A frozen slot stays as it is until it is unfrozen, by whatever turns,
\* corrections and restarts come in between: no stored transition writes a slot
\* after one that froze it, unless one that released it lies between them.
NoWriteWhileFrozen ==
  \A i, j \in 1..Len(log) :
    /\ i < j /\ log[i].slot = log[j].slot
    /\ log[i].after = Pinned /\ log[j].after \notin Pins
    => \E k \in i..j : log[k].slot = log[i].slot /\ log[k].after = Unpinned

\* A persist that succeeds brings the database level with the coordinator,
\* however many persists failed before it: nothing stays behind for good.
FlushCatchesUp ==
  [][\A t \in Thread :
       pc[t] = "flush" /\ row'.kind = "full" /\ row' # row
       => /\ log' = obj[loc[t].coord].audit
          /\ row'.state = obj[loc[t].coord].state]_vars

\* The database side implements AuditTrail: each COMMIT publishes one batch of
\* transitions together with the state they lead to; crashes publish nothing.
Trail == INSTANCE AuditTrail WITH trail <- log, image <- row.state
RefinesAuditTrail == Trail!Spec

\* "Mutations are persisted synchronously" (service.py): once no request is
\* being served, a restart would load exactly what is cached.
QuietIsDurable ==
  cache # Nil /\ (\A t \in Thread : pc[t] = "idle")
  => IF row.kind = "full"
     THEN row.state = Cached.state /\ log = Cached.audit
     ELSE Cached = Fresh

\* The two audit trails agree: the versions a state_commits row spans are
\* transitions of that proposal's turn, which write only slots reported as
\* applied, and none that was only skipped.
CommitsMatchTransitions ==
  \A r \in commits : r.after =< Len(log) =>
    \A i \in (r.before + 1)..r.after :
      /\ log[i].turn = r.turn
      /\ log[i].after \notin Pins => log[i].slot \in r.applied

-----------------------------------------------------------------------------
(* Properties of interleaved requests. *)

\* Every request is answered: no thread waits for ever for another one's row
\* or loops through a resumed turn.
RequestsFinish == \A t \in Thread : pc[t] # "idle" ~> pc[t] = "idle"

-----------------------------------------------------------------------------
(* What the repository says of the program and the program does not do. *)

\* audit.py:6, "Persisted per turn so any slot value can be traced back":
\* what the coordinator counts as persisted is in the database once nobody
\* is writing.
CountedIsStored ==
  cache # Nil /\ (\A t \in Thread : pc[t] = "idle")
  => \A i \in 1..Cached.persisted :
       \E j \in 1..Len(log) : log[j] = Cached.audit[i]

\* coordinator.py:9: every value in the stored state has a transition in the
\* stored audit trail that wrote it.
StoredValuesTraced ==
  row.kind = "full" =>
    \A s \in Slot : row.state.val[s] = None \/
      \E i \in Writes(log, s) : log[i].after = row.state.val[s]

\* active.py:9, "Append-only versioning: every mutation increments version": the
\* stored version never falls back while the row exists.
StoredVersionGrows ==
  [][row.kind = "full" /\ row'.kind = "full" => row'.ver >= row.ver]_vars

\* service.py:188: a commit fails with ValueError (HTTP 400) when its proposal
\* is not open, so one that has got past the lookup finds it open.
CommittingIsOpen ==
  \A t \in Thread : pc[t] = "resolve" =>
    \E p \in proposals : p.turn = loc[t].turn

\* sessions.py:268: HTTP 400 means the proposal was not open, so nothing of
\* the decision has been applied.
RejectedAppliesNothing ==
  \A t \in Thread : loc[t].resp = "badRequest" => loc[t].applied = {}

\* workflow.py:300: the client resumes a paused query by POST /proposals and
\* POST /commits, so the query stays with its proposal until a commit takes it.
PausedQueryKept ==
  [][\A p \in proposals : p.query # NoQuery /\ p \notin proposals' =>
       \E t \in Thread : pc[t] = "resolve" /\ loc[t].turn = p.turn]_vars

\* sessions.py:134: a client may watch for new mutations with since_turn, so
\* later transitions never carry an earlier turn.
TurnsNeverDecrease ==
  cache # Nil =>
    \A i, j \in 1..Len(Cached.audit) :
      i < j => Cached.audit[i].turn =< Cached.audit[j].turn

\* audit.py:33, "Reconstructing state at turn N = applying transitions 0..N to
\* empty state", with op `set' read as audit.py:21 explains it.
LiteralReplay ==
  row.kind = "full" =>
    \A s \in Slot : \A i \in 1..Len(log) :
      IsLast(i, {j \in 1..Len(log) : log[j].slot = s}) /\ log[i].op = "set"
      => row.state.val[s] = log[i].after
=============================================================================
