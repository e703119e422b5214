---------------------------- MODULE SchemaMigrations ----------------------------
(***************************************************************************)
(* The Alembic migrations (db/migrations), with the rows of the spec tables    *)
(* that revision 003 rewrites, while processes of the program create and        *)
(* activate specs.                                                          *)
(*                                                                         *)
(* A run of alembic is one transaction (db/migrations/env.py), READ COMMITTED:  *)
(* each statement sees what is committed when it starts, under the rows that    *)
(* the run has changed itself.  Of the other revisions only the order of their  *)
(* statements matters, as nobody sees them before the commit: one step each.    *)
(* Columns that are added together are one thing here, indexes and a table's    *)
(* own constraints belong to the table.                                       *)
(***************************************************************************)
EXTENDS Integers, FiniteSets, SequencesExt

CONSTANTS
  Id,        \* rows of specs
  Domain,    \* domains
  Semver,    \* versions that match the pattern
  First,     \* "1.0.0"
  Odd,       \* versions that do not
  NoRow, None,
  MaxRuns,   \* bound on the runs of alembic
  MaxWrites, \* bound on what the program writes
  MaxFaults  \* bound on connections that are lost

ASSUME VersionAssumption == First \in Semver /\ Semver \cap Odd = {}
ASSUME BoundAssumption == {MaxRuns, MaxWrites, MaxFaults} \subseteq Nat

VARIABLES
  rev,    \* alembic_version, 0 before the first revision
  schema, \* what exists
  specs,  \* specs[i]: a row, with the version that its row of spec_versions has
  run,    \* the run of alembic that is under way, or None
  failed, \* the last run that failed: where, and whether the program wrote meanwhile
  runs, writes, faults

vars == <<rev, schema, specs, run, failed, runs, writes, faults>>

Row == [domain : Domain, version : Semver \cup Odd, active : BOOLEAN, noted : Semver \cup Odd]

\* What upgrade() of each revision creates, in order.
Creates == <<
  <<"agent_sessions", "agent_runs", "knowledge_documents">>,
  <<"specs", "spec_versions", "agent_runs.spec">>,
  <<"specs.semver", "spec_versions.semver">>,
  <<"prompts">>,
  <<"agent_runs.prompts">>,
  <<"agent_runs.costs">>,
  <<"agent_sessions.state", "session_state_transitions">>,
  <<"prompt_variants">>,
  <<"agent_runs.variants">>,
  <<"state_proposals", "state_commits">>,
  <<"state_proposals.query">> >>

\* What downgrade() of each revision drops, in order.
Drops == <<
  <<"knowledge_documents", "agent_runs", "agent_sessions">>,
  <<"agent_runs.spec", "spec_versions", "specs">>,
  <<"spec_versions.semver", "specs.semver">>,
  <<"prompts">>,
  <<"agent_runs.prompts">>,
  <<"agent_runs.costs">>,
  <<"session_state_transitions", "agent_sessions.state">>,
  <<"prompt_variants">>,
  <<"agent_runs.variants">>,
  <<"state_commits", "state_proposals">>,
  <<"state_proposals.query">> >>

Latest == Len(Creates)

\* A thing is part of a table or refers to one, which then cannot be missing.
Requires ==
  {<<"agent_runs", "agent_sessions">>, <<"spec_versions", "specs">>,
   <<"agent_runs.spec", "agent_runs">>, <<"agent_runs.spec", "specs">>,
   <<"specs.semver", "specs">>, <<"spec_versions.semver", "spec_versions">>,
   <<"agent_runs.prompts", "agent_runs">>, <<"agent_runs.costs", "agent_runs">>,
   <<"agent_sessions.state", "agent_sessions">>,
   <<"session_state_transitions", "agent_sessions">>,
   <<"prompt_variants", "prompts">>, <<"agent_runs.variants", "agent_runs">>,
   <<"state_proposals", "agent_sessions">>, <<"state_commits", "agent_sessions">>,
   <<"state_commits", "state_proposals">>, <<"state_proposals.query", "state_proposals">>}

Owned(x) == {"agent_runs.prompts", "agent_runs.costs", "agent_runs.variants",
             "agent_sessions.state", "state_proposals.query", "specs.semver",
             "spec_versions.semver"} \cap {d[1] : d \in {e \in Requires : e[2] = x}}

Refused == {"refused"}

Created(things, x) ==
  IF /\ things # Refused /\ x \notin things
     /\ \A d \in Requires : d[1] = x => d[2] \in things
  THEN things \cup {x} ELSE Refused

\* A table goes with its columns and constraints, unless another thing refers to it.
Dropped(things, x) ==
  IF /\ things # Refused /\ x \in things
     /\ \A d \in Requires : d[2] = x /\ d[1] \in things => d[1] \in Owned(x)
  THEN things \ ({x} \cup Owned(x)) ELSE Refused

\* The state of a database that revision r describes.
At(r) == UNION {ToSet(Creates[q]) : q \in 1..r}

-----------------------------------------------------------------------------

\* The unique constraint on specs.
Distinct(rows) ==
  \A i, j \in Id : i # j /\ NoRow \notin {rows[i], rows[j]} =>
    <<rows[i].domain, rows[i].version>> # <<rows[j].domain, rows[j].version>>

OneActive(rows) ==
  \A i, j \in Id : i # j /\ NoRow \notin {rows[i], rows[j]} /\ rows[i].domain = rows[j].domain
                   => ~(rows[i].active /\ rows[j].active)

\* own: the rows the run has changed, NoRow for those it has deleted.
Run == [up : BOOLEAN, at : 1..Latest, next : 1..6, things : {At(r) : r \in 0..Latest},
        own : UNION {[S -> Row \cup {NoRow}] : S \in SUBSET Id}, alone : BOOLEAN]

ASSUME NullAssumption == NoRow \notin Row /\ None \notin Run

TypeOK ==
  /\ rev \in 0..Latest
  /\ schema \in SUBSET At(Latest)
  /\ specs \in [Id -> Row \cup {NoRow}]
  /\ run = None \/ run \in Run
  /\ failed = None \/ failed \in [at : 1..Latest, alone : BOOLEAN]
  /\ runs \in 0..MaxRuns /\ writes \in 0..MaxWrites /\ faults \in 0..MaxFaults

\* A new database, or one that was filled before versions were checked.
Init ==
  /\ rev \in {0, 2}
  /\ schema = At(rev)
  /\ specs \in [Id -> {r \in Row : r.noted = r.version} \cup {NoRow}]
  /\ Distinct(specs) /\ OneActive(specs)
  /\ rev = 0 => \A i \in Id : specs[i] = NoRow
  /\ run = None /\ failed = None
  /\ runs = 0 /\ writes = 0 /\ faults = 0

\* alembic upgrade head, and alembic downgrade -1.
Begin(up) ==
  /\ run = None /\ runs < MaxRuns
  /\ IF up THEN rev < Latest ELSE rev > 0
  /\ runs' = runs + 1
  /\ run' = [up |-> up, at |-> IF up THEN rev + 1 ELSE rev, next |-> 1, things |-> schema,
             own |-> <<>>, alone |-> TRUE]
  /\ UNCHANGED <<rev, schema, specs, failed, writes, faults>>

\* What the next statement of the run finds.
Seen == [i \in Id |-> IF i \in DOMAIN run.own THEN run.own[i] ELSE specs[i]]

\* The transaction is rolled back.
Failure ==
  /\ run' = None
  /\ failed' = [at |-> run.at, alone |-> run.alone]
  /\ UNCHANGED <<rev, schema, specs, runs, writes, faults>>

\* The run goes on with these things, at the next revision.
Pass(things) ==
  IF things = Refused THEN Failure
  ELSE /\ run' = [run EXCEPT !.things = things, !.next = 1,
                             !.at = IF run.up /\ @ < Latest THEN @ + 1 ELSE @]
       /\ UNCHANGED <<rev, schema, specs, failed, runs, writes, faults>>

Complete == run.things = IF run.up THEN At(Latest) ELSE At(run.at - 1)

\* Mutant: a downgrade drops in the order of the upgrade.
ReviseForward ==
  /\ run # None /\ ~Complete /\ ~(run.up /\ run.at = 3)
  /\ Pass(IF run.up THEN FoldLeft(Created, run.things, Creates[run.at])
                    ELSE FoldLeft(Dropped, run.things, Creates[run.at]))

\* A revision without data.
Revise ==
  /\ run # None /\ ~Complete /\ ~(run.up /\ run.at = 3)
  /\ Pass(IF run.up THEN FoldLeft(Created, run.things, Creates[run.at])
                    ELSE FoldLeft(Dropped, run.things, Drops[run.at]))

-----------------------------------------------------------------------------
(* upgrade() of revision 003. *)

Present == {i \in Id : Seen[i] # NoRow}

\* The five statements: the rows each of them writes.
Renoted == [i \in {j \in Present : Seen[j].noted \notin Semver} |->
             [Seen[i] EXCEPT !.noted = First]]

\* Mutant: a row with the first version is a duplicate as well.
DeletedAny ==
  [i \in {j \in Present : \E k \in Present : Seen[k].domain = Seen[j].domain
                                             /\ Seen[k].version = First} |-> NoRow]

Deleted ==
  [i \in {j \in Present : Seen[j].version \notin Semver /\ \E k \in Present :
           Seen[k].domain = Seen[j].domain /\ Seen[k].version = First} |-> NoRow]

Renamed == [i \in {j \in Present : Seen[j].version \notin Semver} |->
             [Seen[i] EXCEPT !.version = First]]

\* An UPDATE fails where two rows come to be the same.
Write(rows) ==
  IF Distinct([i \in Id |-> IF i \in DOMAIN rows THEN rows[i] ELSE Seen[i]])
  THEN /\ run' = [run EXCEPT !.next = @ + 1, !.own =
                   [i \in DOMAIN @ \cup DOMAIN rows |->
                     IF i \in DOMAIN rows THEN rows[i] ELSE @[i]]]
       /\ UNCHANGED <<rev, schema, specs, failed, runs, writes, faults>>
  ELSE Failure

\* ADD CONSTRAINT looks at all rows and keeps everyone out from then on.
AddCheck(versions) == IF versions \subseteq Semver THEN Write(<<>>) ELSE Failure

Normalise ==
  /\ run # None /\ run.up /\ run.at = 3
  /\ \/ run.next = 1 /\ Write(Renoted)
     \/ run.next = 2 /\ Write(Deleted)
     \/ run.next = 3 /\ Write(Renamed)
     \/ run.next = 4 /\ AddCheck({Seen[i].version : i \in Present})
     \/ run.next = 5 /\ AddCheck({Seen[i].noted : i \in Present})
     \/ run.next = 6 /\ Pass(FoldLeft(Created, run.things, Creates[3]))

-----------------------------------------------------------------------------

\* Rows go with their table.
Commit ==
  /\ run # None /\ Complete
  /\ rev' = IF run.up THEN Latest ELSE run.at - 1
  /\ schema' = run.things
  /\ specs' = IF "specs" \in run.things THEN Seen ELSE [i \in Id |-> NoRow]
  /\ run' = None
  /\ UNCHANGED <<failed, runs, writes, faults>>

\* The connection is lost, or alembic dies: rolled back.
Lose ==
  /\ run # None /\ faults < MaxFaults
  /\ faults' = faults + 1
  /\ run' = None
  /\ UNCHANGED <<rev, schema, specs, failed, runs, writes>>

\* A process of the program finds the table, and not locked as a whole by a run that has
\* altered it.
Open ==
  /\ "specs" \in schema /\ writes < MaxWrites
  /\ run # None => /\ run.next < 5
                   /\ \A x \in {"specs", "specs.semver"} : x \in schema <=> x \in run.things

Wrote(rows) ==
  /\ specs' = rows
  /\ writes' = writes + 1
  /\ run' = IF run = None THEN None ELSE [run EXCEPT !.alone = FALSE]
  /\ UNCHANGED <<rev, schema, failed, runs, faults>>

\* create_spec: versions are checked.  An equal row the run has written is waited for.
CreateSpec(i, d, v) ==
  LET rows == [specs EXCEPT ![i] =
        [domain |-> d, version |-> v, active |-> FALSE, noted |-> v]]
  IN /\ Open /\ specs[i] = NoRow /\ v \in Semver
     /\ Distinct(rows)
     /\ run # None => i \notin DOMAIN run.own /\
          \A j \in DOMAIN run.own : run.own[j] # NoRow =>
            <<run.own[j].domain, run.own[j].version>> # <<d, v>>
     /\ Wrote(rows)

\* activate_spec: the rows of the domain that change must not be the run's.
ActivateSpec(i) ==
  LET was == {j \in Id \ {i} : /\ specs[j] # NoRow /\ specs[j].active
                               /\ specs[j].domain = specs[i].domain}
  IN /\ Open /\ specs[i] # NoRow /\ ~specs[i].active
     /\ run # None => DOMAIN run.own \cap (was \cup {i}) = {}
     /\ Wrote([j \in Id |-> IF j = i THEN [specs[j] EXCEPT !.active = TRUE]
                           ELSE IF j \in was THEN [specs[j] EXCEPT !.active = FALSE]
                           ELSE specs[j]])

Next ==
  \/ \E up \in BOOLEAN : Begin(up)
  \/ Revise \/ Normalise \/ Commit \/ Lose
  \/ \E i \in Id, d \in Domain, v \in Semver : CreateSpec(i, d, v)
  \/ \E i \in Id : ActivateSpec(i)

Spec == Init /\ [][Next]_vars

-----------------------------------------------------------------------------
(* Properties. *)

\* Whenever nothing of a run is pending, and while something is, the tables are those of
\* the revision that the database says it has, and from 003 on every version, of specs and
\* of spec_versions, is a version and is its domain's only row of it: no run leaves part
\* of a revision behind (db/migrations/env.py:65,
\* db/migrations/versions/003_spec_version_constraint.py:51).  No other revision than
\* 003 can be refused.
RevisionHolds ==
  /\ TypeOK
  /\ schema = At(rev)
  /\ Distinct(specs)
  /\ rev < 2 => \A i \in Id : specs[i] = NoRow
  /\ rev >= 3 => \A i \in Id : specs[i] # NoRow =>
       specs[i].version \in Semver /\ specs[i].noted \in Semver
  /\ failed = None \/ failed.at = 3

\* An upgrade leaves every spec that has a proper version as it is, also one that is
\* created, or has become the active one, while it runs
\* (db/migrations/versions/003_spec_version_constraint.py:34).
ValidSurvive ==
  [][run # None /\ run.up /\ run' = None => \A i \in Id :
       specs[i] # NoRow /\ specs[i].version \in Semver => specs'[i] = specs[i]]_vars

-----------------------------------------------------------------------------
(* What the code does not keep. *)

\* An upgrade that nobody disturbs succeeds, whatever versions it finds ("so the migration
\* is safe on databases that were seeded before formal versioning was enforced",
\* db/migrations/versions/003_spec_version_constraint.py:8).
UpgradeSafe == failed = None \/ ~failed.alone

\* An upgrade leaves a domain its active spec.
ActiveKept ==
  [][run # None /\ run.up /\ run' = None => \A i \in Id :
       specs[i] # NoRow /\ specs[i].active => \E j \in Id :
         specs'[j] # NoRow /\ specs'[j].active /\ specs'[j].domain = specs[i].domain]_vars
=============================================================================
