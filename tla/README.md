# Verification of the decision-intelligence agent

TLA+ modules, TLC runs and TLAPS proofs kept beside the code under `src/`. They cover the
parts of the program whose correctness depends on order, overlap and failure: the
analytical memory, the prompt registry, the spec repository, the turn of the agent, the
conversations of the user interface and their run log, the artifacts made from the active
spec, and the schema migrations. Line numbers below and in the comments of the modules are
those of `src/`.

## 1. The system

One uvicorn process (`Dockerfile:29`) serves the HTTP API. Its handlers are plain `def`
functions, so FastAPI runs them on a thread pool and two requests interleave at any
point; nothing in the modelled code takes a lock. A second process runs the Streamlit
interface, where every click starts the script of its tab again in a thread of its own,
and a third may run the terminal interface. Durable state is in Postgres, reached through
one short transaction at a time (`db/engine.py:73`), READ COMMITTED, and in a few files.
Each process keeps copies of parts of it in module-level caches. Model calls go to an
outside provider and may fail, be rate limited, or answer with something that does not
parse.

| Component (source) | State | Operations | What makes it hard | What makes it correct |
|---|---|---|---|---|
| Analytical memory: `memory/service.py`, `memory/coordinator`, `memory/state` | per session a cached coordinator (typed state, audit log, count of what is stored), open proposals; rows `agent_sessions`, `session_state_transitions`, `state_commits` | record intent and run, propose, commit, freeze, persist, load | persistence is several statements over a list other threads extend; failures are swallowed; two threads may load twice | stored transitions replay to the stored state; nothing frozen is overwritten; what one persist could not store the next one stores |
| Session registry: `memory/checkpointer.py`, `session_manager.py` | the session row: title, turns, last use | register a turn, list, delete | the row is inserted by two writers; deletion leaves the caches and the checkpoint | every request is answered |
| Prompt registry and variants: `prompts/registry.py`, `prompts/routing.py`, `api/routers/prompts.py` | tables `prompts`, `prompt_variants`; two `lru_cache`s | create, certify, deprecate; start, adjust, promote, retire a rollout; serve a template; seed | check-then-write across statements; a cache filled by a load that was under way while it was cleared; start-up in three transactions per stage | one certified prompt and one champion per stage; candidates get exactly their share; what is served is what the tables say; drafts are never served |
| Spec repository and loader: `spec/spec_repository.py`, `versioning.py`, `spec_loader.py`, `api/routers/specs.py` | table `specs`; the process's `_spec_instance` | create, bump, update the autonomy policy, activate, seed, load | bulk UPDATE against a concurrent one; a version computed, checked and inserted in three statements; a singleton that is never reloaded | one active spec, never withdrawn; versions grow; breaking changes raise the major version |
| Agent turn: `agents/workflow.py`, `planner.py`, `judge.py`, `runner.py`, `llm_factory.py`, `evaluation/budget.py` | the session's LangGraph checkpoint, the turn's budget tracker | planner, gate, tool, synthesizer, judge, clarification; retries and fall-back; a commit that resumes a paused query | every turn is merged into what the last one left; every node fails open in a way of its own | a tool runs only when the policy lets it; an answer is made in its own turn; the history is exact; the budget holds; the turn ends |
| Conversations: `ui/app.py`, `ui/session.py`, `ui/sidebar.py`, `app.py` | `st.session_state` of a tab; the REPL's session | prompt, welcome card, gate panel, new session, resume, Ctrl-C | a click starts a second script over the same state and stops the first at its next use of `st`, so between any two statements of a switch or a confirmation, or only after the agent's answer | answers stand under their own prompts; a costly tool runs once for a click on the panel; a prompt gets its answer |
| Observer and sinks: `evaluation/observer.py`, `evaluation/sinks` | the open record, `logs/agent_runs.jsonl`, `agent_runs` | start, record, close, cancel a run | all scripts of a tab share one observer and its one open record; each sink fails by itself, without a word | what is written of an undisturbed run is what it was, and is in the log once unless the append failed |
| Domain artifacts: `data/generate_data.py`, `models/train_demand_model.py`, `agents/tools.py`, `config/settings.py`, `system/grounded_tokens.py` | `sales.csv`, `demand_model.pkl`; per process a SystemModel, settings, a vocabulary | tool calls; generate, retrain, reload in the sidebar | files written in place that two processes only ask for with `exists()`; globals dropped while tools use them | retraining repairs what any crash left; every request ends |
| Knowledge index: `knowledge/retriever.py`, `build_index.py` | `knowledge_documents`, a flag and a FAISS store per process | check, rebuild, search, fall back | two rebuilds at once, a rebuild that fails half way | the table is never seen empty again; every search ends |
| Causal graph: `system/system_graph.py`, `system_model.py`, `optimization`, `simulation` | none | order, evaluate, simulate, optimize | an order that respects listed edges against formulas that look up names | every value is computed from the values of its causes |
| Migrations: `db/migrations` | the schema, its revision, the rows 003 rewrites | upgrade, downgrade | 003 rewrites rows in five statements while the program writes; connections are lost | the tables are those of the stored revision; no proper version is changed |
| Everything else | | | | listed with its reason in `PROJECT.json` "components" |

How they interact: `POST /query` and the tabs register the turn, run the graph and record
the run. The planner asks `get_spec` for the autonomy policy and all nodes ask
`get_prompt_template` for their prompt; planner, tool and gate write to the memory
service; the tools ask for the SystemModel and the knowledge index. The gate ends a turn
with a proposal; `POST /commits` applies it and asks the query again, a tab's panel asks
it again with the gate bypassed. Start-up seeds the spec table and then the prompt
tables. `KnowledgeIndex` and `DomainArtifacts` are composed, because they share threads,
processes and the active spec. The other models share no state: each represents what it
gets from the others by a choice among all values it could be (a policy, a template that
does not format, a database that does not answer, the outcome of a turn), so none assumes
anything of another that is not shown there.

## 2. Modules

| Module | Models | State and actions against the code |
|---|---|---|
| `Coordinator` | `memory/coordinator/coordinator.py`, `memory/state`, `_apply_mutation` | operators only: what each setter does to state and audit log; replay of a log |
| `AuditTrail` | abstract: what the stored audit trail promises | `Publish` |
| `MemoryService` | `LocalMemoryService` and its callers | one action per coordinator call, per statement of `_persist_postgres` that touches shared state (`Dump`, `Open`, `Insert`, `Slice`, `Count`, `Flush`), per transaction, per access to the proposal store; `pc[t]` is the statement thread `t` is about to run |
| `VariantRouting` | `prompts/routing.py` | the walk over champion and candidates, a bucket standing for the hash |
| `PromptRegistry` | `prompts/registry.py` and its router | one action per SELECT, per commit and per cache access; `boot` is where the seeding is |
| `SemVer` | `spec/versioning.py` | comparison, bump, detection of a bump |
| `SpecCatalog` | abstract: what readers of the spec table are promised | `Publish`, `Activate` |
| `SpecRepository` | `spec/spec_repository.py`, its router, `get_spec`, start-up | one action per SELECT, UPDATE and commit; the bulk UPDATE is matched, waits for row locks, then leaves out what no longer matches |
| `AgentTurn` | the graph, its nodes, `run_query`, `invoke_with_fallback` | one action per node outcome and per model call; a value is represented by the turn that made it, which is what staleness is about |
| `ChatSession` | `ui/app.py`, `ui/session.py`, the sidebar's sessions, the REPL, the observer and its sinks | one action per click, per use of `st.session_state` that writes and per use of the observer; `script[a][i].at` is the statement script `i` of tab `a` is about to run, `step` the one within a switch of the session |
| `CausalModel` | `system/`, the noiseless part of `simulation` and `optimization` | folds and recursive functions: the order, the evaluation over it, a profit, the best price; beside each the reference it is checked against |
| `DomainArtifacts` | the files, the globals and the admin buttons made from the active spec | one action per `get_spec`, `exists()`, opening and closing of a file, and access to a global |
| `KnowledgeIndex` | `knowledge/`, composed with `DomainArtifacts` and `CausalModel` | one action per statement of the rebuild's transaction; its `Next` is that of the whole domain part |
| `SchemaMigrations` | `db/migrations` | one action per statement of 003, one per other revision, in both directions, beside a program that writes specs |
| `MCMemory`, `MCRegistry`, `MCSpec`, `MCTurn`, `MCChat`, `MCDomain`, `MCSchema` | small instances | values of the constants |
| `MemoryProofs`, `RegistryProofs`, `RegistryOneAtATime`, `SpecProofs`, `TurnProofs`, `ChatProofs`, `DomainProofs`, `SchemaProofs` | proofs | see section 5 |

Definitions commented as a mutant are plausible bugs of the definition that follows them;
`PROJECT.json` names the property that each one breaks.

Modelling decisions a reader should know:

- A coordinator method is one step of `MemoryService`. `_mutate` is several statements,
  so a race inside one method is not shown (section 6).
- `PromptRegistry` leaves out requests its first SELECT refuses; `SpecRepository`
  leaves out creations the unique constraint refuses. They change nothing.
- In `PromptRegistry` a percentage is a number of buckets out of `Full`, which stands for
  100: the code compares and subtracts percentages and never uses another property of 100.
- In `SpecRepository` a spec is its structure (names and edges), bounds, default level and
  tool list. `Listed` are the structures whose edges name several causes in one list, as
  the shipped YAML does (`organizational_model.yaml:68-87`): `detect_bump_type` puts
  edges in a set, which raises TypeError for such a list, so a bump without a `bump_type`
  ends in a 500 for the seeded spec. The guard of `BumpSpec` is this.
- `SpecRepository` has no deadlock error of the database; a cycle of waits needs three
  threads, so it is meant for one or two.
- `AgentTurn` keeps the merge of LangGraph (a turn's input over the last checkpoint, each
  node's update over that, the history appended) as external behaviour, in `Input`,
  `Enter` and `Done`. Two increments of `turn_count` at once may come to one; this is
  left out, and no property of two threads depends on the count being exact.
- In `ChatSession` Streamlit's reruns are external (with `fastReruns`, its default): a
  click starts a script at once and stops the older ones of the tab at their next use of
  `st`. So a click may cut a script off between any two statements that write to
  `st.session_state`: the up to six of `handle_new_session` and `resume_session`, with the
  read of the checkpoint between them (`ui/session.py:51-94`), the two of a confirmation
  (`ui/app.py:262-263`), and those that take a prompt, show it and show its answer. Only
  in the agent's run is there none, so there a script goes on until the answer (`Recording`).
  The check of the stop before a use of `st` is one step with it. `torn` and `spent` mark
  a switch or a confirmation that was begun, for the properties.
- In `ChatSession` a turn inside the graph is one step with an outcome, and whether a tool
  ended in an error, which takes the success from the record (`observer.py:246`) but not
  the answer from the user. A clarification ends as a failure in the record
  (`runner.py:220`), except in the REPL. The log may refuse a line, the database a row,
  each without the other (`jsonl_sink.py:31`, `postgres_sink.py:94`); a line of which only a
  part is written is left out. `register_turn` and `set_session_id` are one step, and so
  are the reads of the record at the start of `end_run`. What "Retomar" opens is found in
  the list when the script comes to it, and if it is no longer listed the script goes on
  without. `ran` records what every run really was, for the properties only.
- In `DomainArtifacts` numbers are left out: data and models are known by the spec they
  come from. `alone` and `repair` record what happened since a request began and since a
  retraining, for the properties only.
- In `KnowledgeIndex` the copies of a rebuild are one thing each; which documents are
  nearest is left out. `Copy` has enough of them (`IndexTypesAlways`). `FaissDir` says
  whether there is a directory `knowledge_index/`, `FaissBuilt` whether all of an index is
  in it. The run has neither, as the image does (`.dockerignore`). A checkout has
  the directory with `index.faiss` but, by `.gitignore`, no `index.pkl`: then the fall-back
  does not rebuild and goes straight to the load that fails. No property depends on it.
- `SchemaMigrations` leaves out what 001 does to extensions (`CREATE EXTENSION IF NOT
  EXISTS`, 001:24-25) and two runs of alembic at once.
- In `CausalModel` the noise of a simulation is any integer, where the code draws it with a
  tenth of the demand as its spread: with a predicted demand below 0 numpy refuses to draw,
  and the simulation ends in that ValueError; with a demand of 0 the code only draws 0.

## 3. Runs

All twelve runs are in `PROJECT.json`. Wall time is for two workers.

| Run | Instance | Properties | Shows |
|---|---|---|---|
| `memory_sequential` | 1 thread, 3 requests, 2 slots, 2 values, 4 kinds of decision; lost connections and crashes | `DurableTraceable`, `NoWriteWhileFrozen`, `FlushCatchesUp`, `RefinesAuditTrail` | stored log replays to the stored state, frozen slots stay, a persist catches up, the rows implement `AuditTrail` |
| `memory_durable` | the same, 4 requests, crashes only | `QuietIsDurable`, `CommitsMatchTransitions` | what is cached is what a restart would load; `state_commits` agrees with the transitions |
| `memory_concurrent` | 2 threads, 2 requests, wrong-typed and poisoned corrections, every fault and deletions | `TypeOK`, `RequestsFinish` | state keeps its type on every error path; every request is answered |
| `memory_lost_audit` | 2 threads, no fault | `CountedIsStored` | **violation** (section 4) |
| `registry_sequential` | 1 thread, 5 requests, 2 prompts, 2 labels, 4 buckets; restarts | `OnePerStage`, `SharesExact`, `ServesCurrent` | counts, shares and caches are right when requests come one at a time |
| `registry_concurrent` | 2 threads, 3 requests, 2 prompts, 1 label; failing reads, restarts, start-ups without a database | `TypeOK`, `NoDraftServed`, `OutcomeStands` | what survives overlap |
| `spec_sequential` | 1 thread, 3 requests, 3 structures, client versions 1.3.0 and 2.0.0; failing reads and restarts | `OneActive`, `BreakingIsMajor`, `RefinesCatalog` | one active spec, breaking changes are major, the catalog implemented |
| `spec_concurrent` | 2 threads, 3 requests, failing reads and restarts | `TypeOK`, `DerivedIsNewer`, `RequestsFinish` | derived specs are newer than their parents; no activation waits for ever |
| `turn_sequential` | 1 thread, 2 turns, 2 policies, 1 retry, fall-back, 3 calls allowed, a usage limit, every fault | `TypeOK`, `PolicyHolds`, `WaitingIsOwn`, `HistoryOnce`, `BudgetHolds`, `TurnEnds` | nothing stale passes for a turn's own, policy and budget hold, turns end |
| `chat_tabs` | a tab with 2 script threads and the REPL, 2 sessions, 2 typed prompts, 1 click while a script runs or prompt of the REPL, 1 disturbance; 1,130,000 states, 150 s | `TypeOK`, `OwnConversation`, `ProposalIsLast`, `BypassConfirmed`, `RecordedAlone`, `PromptAnswered` | what a user who clicks on between any two statements can and cannot upset; an undisturbed run is recorded as it was, whichever sink fails; a prompt gets its answer |
| `domain_artifacts` | a thread of the interface, one of the API, 3 specs of which one does not parse, 3 requests, 1 activation, 1 fault; 512 graphs; 626,000 states, 130 s | `TypeOK`, `Repaired`, `CausalSound`, `OnceFilled`, `RequestsEnd` | what crashes and overlaps leave is repaired; the causal model is sound |
| `schema_migrations` | 3 rows of 2 domains, 2 proper and 2 odd versions, 3 runs of alembic, 2 writes, 1 fault; 89,000 states, 6 s | `RevisionHolds`, `ValidSurvive` | migrations are all or nothing whatever is written meanwhile |

Why the bounds are enough for what they are to show. Every property relates at most two
earlier operations to a third (a persist that failed and two that follow; a certified
prompt, its replacement and a restart; two candidates and an adjustment; a turn and the
one before it; a click, the script it stops and the one it starts; a crash while writing,
a generation and a training), and each run has room for them, with a fault between any
two statements. `MaxRequests`, `MaxTurns`, `MaxPrompts`, `MaxRuns` and `MaxWrites` bound
only what is started, never what is under way; `MaxFaults` and `MaxActivations` bound
disturbances. Two threads show every overlap of two requests; a third would show overlaps
of three, which no property is about. One stage and one domain suffice because the code
touches one stage or domain in a transaction. `MaxCalls = 3` lets the budget run out at
each of the calls of a turn that is revised (planner, synthesizer, judge, revision). Two
prompts of a tab, each of which may be stopped at the gate and confirmed, and confirmed
again if a click cuts the confirmation off, make four runs and more. `MaxOverlaps` bounds
only what happens beside a script of the tab, a click that stops it or a prompt in the
REPL, never the clicks on a page at rest. The 512 graphs are every choice of eight relationships, in two orders, and among them
are cyclic ones, ones with two causes and ones that name unknown variables. Two domains
show that 003 handles each by itself, three rows that two odd versions of a domain collide
while another has none. Where the proofs of section 5 cover a property, its bound no
longer matters.

Fairness. `FairSpec` is weak fairness of the steps of a request, script or turn that has
begun: a thread that can run its next statement runs it. Arrivals, clicks, faults, crashes
and start-ups are never fair. For `AgentTurn` it also says that a model call and a tool
end, which the code sees to by LLM_TIMEOUT (`llm_factory.py:36`) and by bounded loops
in the tools, and `ChatSession` takes from there that the agent's run ends; for waits on
the database, that a lock is granted once it is free. The REPL is given no fairness, as
Ctrl-C may end whatever it does.

Deadlock is checked except where requests, turns, prompts or runs run out, which the cfg
says.

### Configurations that show what the code does not keep

These are not among the runs; each is checked with `tlc -config X.cfg MC...`. Where one
lists several properties, the violations are independent: keep one at a time to see its
trace. All are what the code does, most of them noticed while stating what it should do.

| Configuration | Property | What happens |
|---|---|---|
| `MemoryLoadFails` | `StoredVersionGrows` | a failed SELECT (`coordinator.py:178`) leaves an empty coordinator, which is persisted over the stored state at version 1 |
| `MemoryCommitFails` | `StoredValuesTraced` | the count moves before COMMIT; a failed one leaves a value without transition |
| `MemoryDoubleCommit` | `CommittingIsOpen` | two commits of a proposal both pass the lookup; one ends in a KeyError after applying |
| `MemoryMalformed` | `RejectedAppliesNothing` | a poisoned list makes the closing snapshot fail: 400 after everything was applied |
| `MemoryProposals` | `PausedQueryKept` | a proposal of the same turn replaces a paused query |
| `MemoryProposals` | `TurnsNeverDecrease` | a late commit writes transitions of an earlier turn |
| `MemoryProposals` | `LiteralReplay` | a list slot's transitions do not replay to its value as documented |
| `RegistryTwoAtOnce` | `CacheFresh` | a load under way while the routing cache is cleared stores the old rows for good |
| `RegistryTwoAtOnce` | `OneCertified`, `OneChampion`, `CandidatesFit` | two operator requests at once |
| `RegistryFaults` | `SeedingCompletes`, `SeedingLeavesCertified`, `SeedingEnsuresChampion` | a crash or a failed read during start-up; retiring the automatic champion takes its label for ever |
| `RegistryFaults` | `ServesVariant`, `ServesCertified` | a failed read is cached like a good one; a champion outlives the deprecation of its prompt |
| `SpecTwoAtOnce` | `OneActive`, `StaysActive`, `DerivedIsNewest` | two activations, or two derivations, at once |
| `SpecOneAtATime` | `SameMajorSameShape` | the bump is detected against the parent and applied to the highest version |
| `SpecOneAtATime` | `SeedingActivates` | a crash between the two transactions of the seeding; all later start-ups stop at the unique version, and seed no prompts either |
| `SpecOneAtATime` | `LiveIsActive` | a changed autonomy policy does not reach the planner before a restart |
| `ChatOverlap` | `NoGhostPanel` | a click that stops a switch after its first statement (`session.py:53`, `67`) leaves the panel of the old session in the new one, where "stale panels do not ghost" (`session.py:57`) |
| `ChatOverlap` | `RecordedOnce` | a prompt typed while the agent answers opens its record over the other's, and both `end_run` calls hand one record to the sinks ("Called once per run", `sinks/base.py:58`) |
| `TurnPolicies` | `RecordsOwnResult` | `raw_result` is not reset: a turn the policy stops is judged on and recorded with the result of an earlier one |
| `TurnPolicies` | `PolicyAlways` | without a model the planner falls back to the knowledge tool, whatever the policy |
| `TurnPolicies` | `ConfirmedRuns` | with a policy, no confirmation ever runs the tool |
| `TurnFaults` | `JudgeFailsOpen` | a verdict that does not parse is read outside the `try`: the turn fails |
| `TurnFaults` | `CheckedBeforeCall` | retries and fall-back go on past a limit of time |
| `TurnFaults` | `BudgetReported` | every caller of a model takes the refusal of the budget for a model that is down: a turn over its budget is reported as a good one |
| `TurnTwoAtOnce` | `HistoryKeeps`, `PriorCompleted` | two turns of one session at once |
| `SchemaUnsafe` | `UpgradeSafe` | two odd versions in one domain both become 1.0.0: 003 fails, every time |

Other modules end with properties the code does not keep, which have no configuration of
their own; adding one to `ChatTabs.cfg`, `DomainArtifacts.cfg` or `SchemaMigrations.cfg`
shows the trace, `AllSelectable` with `p2 = p1` (the same prompt twice) and `ModelReturned`
with `Thread = {u1, u2}` and `Home <- MCTabs` (two tabs).

| Module | Property | What happens |
|---|---|---|
| `ChatSession` | `AllSelectable` | two sessions with equal title and number of turns are one entry of the sidebar's dict (`sidebar.py:65`) |
| `ChatSession` | `RunsHaveSession` | the REPL never tells its observer the session |
| `KnowledgeIndex` | `OneSpec`, `WordsOfSpec` | after an activation the parts of a process go by different specs; the vocabulary is kept by version number and two specs may share one; the settings stay for the life of the process |
| `KnowledgeIndex` | `ModelSound` | a half-written file is taken for whole, until someone retrains |
| `KnowledgeIndex` | `OneCopy`, `FallbackLoads` | two rebuilds at once both leave their rows; a failed search rebuilds the table and then loads a FAISS index nobody built |
| `KnowledgeIndex` | `ModelReturned` | a retraining drops the model between its making and its return |
| `SchemaMigrations` | `ActiveKept` | 003's DELETE may take the active spec of a domain |

Also met while reading, without a property: two requests that bump at once end in a 500
(IntegrityError) where one too low a version is a 422; `README.md:266` gives the seed's
version as 1.0.0, the YAML says 1.3.0; `api/routers/query.py:78` waits for an
LLMUnavailableError that no node lets through; a run whose tool failed is recorded with
`success=False` and answered with `success=True`; a resumed query is planned again and
may choose another tool than the one that was confirmed; a click between the two
statements of a confirmation leaves the panel up, and confirming again runs the costly tool
again for the same stop at the gate; a click that cuts a resume short leaves the messages of
one session on the page under the id of another, and what is asked next is asked there; a
script that is stopped while the agent works loses its answer from the page, not from
the checkpoint; "Editar" sets `_show_reactive_correction`
(`components.py:60`), which nothing reads; what is typed while a bypass or a card is
pending is dropped; the REPL records gated turns as successes; `train()` writes a fixed
path while `_ensure_model` asks for the spec's; the API's process never learns of a
retraining or a reload in the interface; the node `marketing_spend` has no formula and is
skipped; an active spec that does not parse falls back to the YAML without a word.

## 4. The finding in PROJECT.json

`memory_lost_audit`: `_persist_postgres` slices the audit log and afterwards sets its count
to the length the log has by then. A transition that another request thread appends in
between is counted and never stored, while `memory/state/audit.py:6` promises that every
slot value can be traced back. The other violations are listed in the tables of
section 3.

## 5. Proofs

TLAPS proves the following for every value of the constants: any number of threads, tabs,
scripts, requests, sessions, slots, prompts, specs and faults, unless a row says
otherwise.

| Module | Theorem | Property | Circumstances |
|---|---|---|---|
| `MemoryProofs` | `TypeCorrect` | `TypeOK` | any overlap, any fault |
| `MemoryProofs` | `Durable`, `CatchesUp`, `FrozenStays` | `DurableTraceable`, `FlushCatchesUp`, `NoWriteWhileFrozen` | `Benign` |
| `MemoryProofs` | `Refinement` | `RefinesAuditTrail`, the implementation of `AuditTrail` | `Benign` |
| `MemoryProofs` | `QuietAlwaysDurable`, `CommitsAlwaysMatch` | `QuietIsDurable`, `CommitsMatchTransitions` | `Reachable` |
| `RegistryProofs` | `RegistryTypesAlways`, `DraftsNeverServed`, `OutcomeAlwaysStands` | `TypeOK`, `NoDraftServed`, `OutcomeStands` | any overlap, any fault |
| `RegistryOneAtATime` | `OneAlwaysPerStage`, `SharesAlwaysExact` | `OnePerStage`, `SharesExact` | one thread, any fault |
| `RegistryOneAtATime` | `AlwaysServesCurrent` | `ServesCurrent` | one thread, no read fails |
| `SpecProofs` | `SpecTypesAlways`, `DerivedAlwaysNewer`, `BreakingAlwaysMajor` | `TypeOK`, `DerivedIsNewer`, `BreakingIsMajor` | any overlap, any fault |
| `SpecProofs` | `OneAlwaysActive`, `CatalogRefined` | `OneActive`, `RefinesCatalog` | one request at a time |
| `TurnProofs` | `TurnTypesAlways`, `PolicyAlwaysHolds`, `WaitingAlwaysOwn`, `BudgetAlwaysHolds` | `TypeOK`, `PolicyHolds`, `WaitingIsOwn`, `BudgetHolds` | any overlap, any fault |
| `TurnProofs` | `HistoryAlwaysOnce` | `HistoryOnce` | one turn at a time |
| `ChatProofs` | `OneConversation`, `ProposalAlwaysLast`, `ConfirmedOnce` | `OwnConversation`, `ProposalIsLast`, `BypassConfirmed` | any overlap, any fault, a click between any two statements |
| `ChatProofs` | `ChatTypesAlways` | `TypeOK` | any overlap, any fault |
| `DomainProofs` | `RepairedAlways`, `OnceFilledAlways` | `Repaired`, `OnceFilled` | any overlap, any fault |
| `DomainProofs` | `DomainTypesAlways`, `IndexTypesAlways` | `DomainTypeOK`, the part of `TypeOK` about `DomainArtifacts`, and all of `TypeOK` | any overlap, any fault |
| `DomainProofs` | `CopiesBounded` | no more copies in the knowledge table than threads | any overlap, any fault |
| `DomainProofs` | `CausalSoundAlways`, `GraphSound` | `CausalSound`, for any set of graphs; `Sound`, for any graph | any overlap, any fault |
| `DomainProofs` | `AcyclicExactly`, `ValuesMeant` | a complete order, no cycle; the values are the formulas', or an error where a formula lacks what it needs | any graph, any inputs |
| `DomainProofs` | `SimulatedSound`, `BestPriceFirst` | the simulated profit, or the error for a negative demand; the advised price | any graph, inputs, noise, prices |
| `SchemaProofs` | `RevisionAlwaysHolds`, `ValidAlwaysSurvive` | `RevisionHolds`, `ValidSurvive` | any runs, writes and faults |

Assumptions are the named ASSUMEs of the modules: null values are not values, constants
have their types (`FaissAssumption`, that an index has been built or not and is then in its directory, and `DrawnAssumption`, that graphs
are lists of parsed relationships, among them), no
record is the null value (`RecordAssumption`), sets of threads are finite where they are
counted, there is a stage, a script and a session for each tab (so that each tab can have its own). `Benign` (`MemoryProofs`) says that requests do not
overlap, SELECTs and COMMITs answer, nothing is deleted and no list is malformed;
`Reachable` adds that connections can be opened, without which a request that is over has
left its transitions in the cache only (`FlushCatchesUp` says that the next one stores
them);
`memory_lost_audit`, `MemoryCommitFails`, `MemoryLoadFails` and `MemoryMalformed` show that
none of these can be dropped, `SpecTwoAtOnce`, `RegistryTwoAtOnce` and `TurnTwoAtOnce` that
one at a time cannot in the others. A failed read is cached as if it were an answer, so
`AlwaysServesCurrent` excludes it, as `RegistryFaults` shows it must.

The arguments. No property is inductive, because a step uses what the same request found
several statements earlier. Each proof adds what the local variables of a thread are good
for at its next statement, and then what the shared state owes to them:

- Memory. `TypeInv` adds that a working thread's coordinator is an object. `DInv` adds that
  the cached coordinator is sound (its log replays to its state, `Sound`), that the stored
  log is the prefix of the cached one up to the count, except between `Count` and `Flush`
  where it is that prefix with the batch in hand (`Level`), and what each local variable
  equals at each statement. `MutateSound` is the core: replay looks
  at the last transition of each slot, and appending one changes that only for its slot.
  `Heeds`, a part of `Sound`, keeps a released pin and the write after it in that order.
  `QInv` adds that the database lags behind the cache only while a thread is between the
  first mutation of its request and the end of its persist, and that a row of
  `state_commits` spans transitions of its own turn (`RowsMatch`).
- Registry. `RInv`: every prompt a variant row names, in the tables, in the routing cache
  and in the hands of any thread (`Sound`, `Fits`), was certified once; requests wait for
  the start-up, so nobody touches the draft it certifies (`Starting`). `Grows` says that no
  step takes back a certification or a label, so what a thread has in hand stays good
  while others run. `NoDraftServed` is then a consequence and `OutcomeStands` a case
  analysis of the commits.
- Registry, one thread. `OInv`: at most one certified prompt and one champion in each stage
  and a total of its candidates within all the traffic (`Settled`); what a request read
  to decide on is still what the tables hold, because nobody else wrote (`Fresh`,
  `Relies`). `CInv`: a cached content is the row's, and a cached route is the table's
  except between a commit and the statement that clears it (`Answers`). The total is a
  fold over a set; that it is the sum, whatever order it is taken in, follows from least
  counterexamples among subsets instead of an induction (`LeastSubset`, `FoldIsOne`,
  `ShareAdds`), and from it that the slices of the candidates lie next to one another,
  each as long as its percentage (`SliceOf`, `CoveredBefore`), and the champion's is the
  rest.
- Specs. `SInv`: every stored spec derives from a stored parent (`Lineage`), and a thread
  about to insert has a version that does. The step that makes it uses that the highest
  version is above the parent (`MaxIsHighest`, by well-foundedness of the order on the
  finite set that is stored) and that each kind of bump is above what it bumps. For one
  request at a time `AInv` adds that there is at most one active row and that what an
  activation matched is still what the table holds (`Activating`); the refinement maps
  every commit to a step of `SpecCatalog`, every other step to a stutter.
- Turn. `TInv`: what a turn's own channels say at each node (`Fits`), which the others'
  checkpoints cannot disturb because a turn goes on with the channels in its hand; that a
  call under way had room (`Room`); that there are no more open proposals than turns that
  made them (`Counts`). `HInv`, for one turn at a time, says that the saved history is
  sorted, ends below the number of the turn under way and has it exactly when it has
  given its answer.
- Chat. `CInv`: at most one script of a tab has not been told to stop, and the page is the
  one it works for (`Current`, `Serves`); everything shown is a conversation (`Talk`); a
  stop at the gate gives one permission, which passes from the run's script to the
  pending panel, to the bypass, to the script that asks again and to its run, is in one of
  these places at a time (`Apart`) and is used up by the last (`Holds`, `Bypassed`); what
  a checkpoint keeps are turns of its session (`Past`). Two lemmas carry it: one about a
  click, for any page a callback may leave, and one about a step of a single script,
  which names what the script and its page must satisfy afterwards. `LInv`, for the log:
  among the scripts of a tab that are about a run, one that is still `alone` is the only
  one (`Lone`), so the open record is that of its run and nobody else closes it (`Mine`,
  `Opens`); a run that is over has its one line, and no later step writes a second
  (`Lines`). `NInv`, for the numbers: a prompt that is typed is on a card, then in the
  hands of a script, then in a run, so these places (`Tokens`) are never more than the
  prompts typed; a run that bypasses the gate, or is about to, has its permission from one
  that does not, and no two have the same, which makes two runs for a prompt at most
  (`BegunBound`, by an injection). A turn is registered for a run that has begun or is
  about to, once for each (`Booked`), which bounds the turns of a session. The steps of
  `CInv` need the first (`Room`: there is a number for the next run) and those of `NInv`
  need `CInv`, so the two are one invariant.
- Domain. `DInv`: what a thread's earlier steps have put into its process and its local
  variables (`Known`). `RInv`: a retraining with nothing beside it works on files that are
  its own (`Own`), and what it leaves is whole until somebody opens a file again (`Files`).
  That the table of the index is never found empty needs only that a transaction commits
  its DELETE together with its own rows. `KInv`, for the copies: each copy in the table
  belongs to the thread that inserted it, and a DELETE under way has what its thread
  inserted before, so there is at most one for each; with those that open transactions
  are about to delete they are fewer than `Copy` (by an injection), so one is always free.
- Migrations. `SInv`: a run stands at the revision after what it has created (`Upgrading`,
  `Downgrading`); its rows replace only rows without a proper version (`Touched`); what the
  two constraints of 003 have found holds until the commit, for whatever the program may
  still write satisfies them (`Checked`). That each upgrade() and downgrade() works on
  the database it is meant for is computed revision by revision (`Upgrades`,
  `Downgrades`), from what a fold over one, two or three statements comes to
  (`FoldingInOrder`).

- Causal model. `CausalSound` is about what folds over a graph's relationships compute, and
  induction over data is out of the prover's reach; least counterexamples do instead.
  A set of numbers below some bound that has 0 and the next of each member has them all
  (`UpTo`), from the well-foundedness of `<`; that the function a fold defines exists
  follows from a smallest set of positions that has none (`FoldExists`), and then the fold is a
  walk from the first element to the last (`FoldWalk`). On these rest what `Firsts` and
  `FlattenSeq` return (`FirstsOf`, `FlattenOf`), that a generation has the nodes whose
  last cause was placed by the one before, once each (`AfterOf`, `PlacingNext`), and that
  the order has causes first and leaves out only nodes with a cause that it leaves out too
  (`OrderOf`). A node that is left out has a cause that is left out and reaches all that the
  node reaches, so the one of them that reaches most reaches itself (`UnplacedIsCyclic`); in a complete order nothing reaches what comes before it
  (`OrderedIsAcyclic`). `EvaluateIs` takes the values through the order: those that are
  there are the ones that are meant, a formula that is `Supplied` adds its own, and one
  that is not, which a covered graph has none of, ends in the error.

Model-checked only: liveness (`RequestsFinish`, `TurnEnds`, `PromptAnswered`,
`RequestsEnd`), which is out of the prover's reach.

## 6. Not modelled, and the plan

Not modelled: the SQLite fall-backs (single user), dashboards and metrics, embeddings,
random noise and the regression, texts and languages, the layout of the interface, the
LangSmith sink, the pool of connections, middleware and health; `PROJECT.json` has each
with its reason.

The order so far was: what loses data (memory), what serves wrong data (registry), what
governs (specs), what ties them together (the turn), what users see of it (chat), what is
made from the specs (domain), and what it all stands on (migrations). Next:

1. `CoordinatorRace`: `_mutate` statement by statement for two threads; which of
   version, log and state can come apart.
2. The session's life: deletion keeps the checkpoint, so a session that is made again
   under its id inherits the history while counting as new. `Delete` of `ChatSession` has
   it, `AgentTurn` does not.
3. A composition of `SpecRepository` and `AgentTurn` through `get_spec`, with the
   observer's spec version, which is read apart from the policy the planner uses.
4. Theorems: what `AgentTurn` guarantees its callers, as an abstract specification of a
   turn that `ChatSession` uses.
