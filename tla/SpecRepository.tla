----------------------------- MODULE SpecRepository -----------------------------
(***************************************************************************)
(* The organizational specs of one domain: spec/spec_repository.py over the  *)
(* specs table, the requests of api/routers/specs.py, the seeding at         *)
(* start-up (api/main.py:44) and the process's copy of the active spec       *)
(* (get_spec of spec/spec_loader.py).                                        *)
(*                                                                         *)
(* One process, a pool of handler threads, READ COMMITTED transactions.  A    *)
(* step is one SELECT, one UPDATE, one commit.  An UPDATE waits for rows      *)
(* another transaction has updated and not committed; activate_spec is the   *)
(* only one that updates rows.  The seeding runs before the first request.   *)
(* With three threads a cycle of waits is conceivable, which Postgres breaks  *)
(* by an error; the model has no such step and is meant for one or two.      *)
(***************************************************************************)
EXTENDS SemVer, FiniteSets

CONSTANTS
  Thread,       \* handler threads
  Shape,        \* what detect_bump_type holds for structure
  Bounds,       \* the bounds of the decision variables
  Level,        \* default_level of an autonomy policy
  Tools,        \* the tools list of an autonomy policy
  Listed,       \* the structures whose causal edges name their causes in lists
  Yaml,         \* the content of organizational_model.yaml
  YamlVersion,  \* its domain.version
  Chosen,       \* the versions a client may give to a spec it creates
  NotLoaded,    \* _spec_instance is None
  NoVersion,    \* no version
  Faults,       \* what can go wrong, of AllFaults
  MaxRequests   \* bound on the requests that write

\* A spec, as far as the code tells two of them apart.
Content == [shape : Shape, bounds : Bounds, level : Level, tools : Tools]

ASSUME YamlAssumption == Yaml \in Content /\ YamlVersion \in Version
ASSUME ClientAssumption == Listed \subseteq Shape /\ Chosen \subseteq Version
ASSUME NameAssumption == NotLoaded \notin Content /\ NoVersion \notin Version
ASSUME MaxRequestsAssumption == MaxRequests \in Nat
\* A SELECT of get_spec or of the start-up fails; the process dies and restarts.
AllFaults == {"read", "restart"}
ASSUME FaultsAssumption == Faults \subseteq AllFaults

VARIABLES
  specs,    \* the specs table, a function on the versions stored
  live,     \* _spec_instance
  boot,     \* where seed_from_yaml is
  pc,       \* pc[t]: the statement thread t is about to run
  loc,      \* loc[t]: its local variables
  started   \* requests that write so far

vars == <<specs, live, boot, pc, loc, started>>

\* parent and type: what the row was derived from and how, of change_summary.
Row == [status : {"draft", "active", "archived"}, content : Content,
        parent : Version \cup {NoVersion}, type : BumpType \cup {"none", "chosen"}]

Locals == [
  target   : Version \cup {NoVersion},     \* spec_id of the request
  version  : Version \cup {NoVersion},     \* new_version
  content  : Content,                      \* yaml_content
  type     : BumpType \cup {"none", "chosen"}, \* the type if detected
  then     : {"idle", "read"},             \* whether activate_spec follows
  read     : {"draft", "active", "archived"}, \* target.status as loaded
  scan     : SUBSET Version,               \* rows the bulk UPDATE has matched
  archived : SUBSET Version,               \* rows it has updated
  flip     : BOOLEAN ]                     \* the target has been updated

TypeOK ==
  /\ DOMAIN specs \in SUBSET Version
  /\ specs \in [DOMAIN specs -> Row]
  /\ live \in Content \cup {NotLoaded}
  /\ boot \in {"check", "activate", "up"}
  /\ pc \in [Thread -> {"idle", "update", "insert", "read", "scan", "archive",
                        "flip", "commit", "install"}]
  /\ loc \in [Thread -> Locals]
  /\ started \in 0..MaxRequests

Blank == [target |-> NoVersion, version |-> NoVersion, content |-> Yaml, type |-> "none",
          then |-> "idle", read |-> "draft", scan |-> {}, archived |-> {}, flip |-> FALSE]

Init ==
  /\ specs = [v \in {} |-> [status |-> "draft"]]
  /\ live = NotLoaded
  /\ boot = "check"
  /\ pc = [t \in Thread |-> "idle"]
  /\ loc = [t \in Thread |-> Blank]
  /\ started = 0

-----------------------------------------------------------------------------
(* The table. *)

Stored == DOMAIN specs
ActiveVersions == {v \in Stored : specs[v].status = "active"}

\* The row of a new spec and its spec_versions entry, in one transaction.
Inserted(version, content, parent, type) ==
  [v \in Stored \cup {version} |->
     IF v = version THEN [status |-> "draft", content |-> content,
                          parent |-> parent, type |-> type]
     ELSE specs[v]]

\* Rows updated by transactions not yet committed.
LockedBy(t) == loc[t].archived \cup IF loc[t].flip THEN {loc[t].target} ELSE {}
Free(t, rows) == \A u \in Thread \ {t} : LockedBy(u) \cap rows = {}

-----------------------------------------------------------------------------
(* Threads. *)

Go(t, next, locals) ==
  /\ pc' = [pc EXCEPT ![t] = next]
  /\ loc' = [loc EXCEPT ![t] = locals]

\* The request ends: with its answer, or with an error that rolls back.
End(t) == Go(t, "idle", Blank)

Request(t) ==
  /\ pc[t] = "idle" /\ boot = "up"
  /\ started < MaxRequests
  /\ started' = started + 1

-----------------------------------------------------------------------------
(* Requests. *)

\* create_spec of a client's YAML, version 1.0.0 unless it names one; the unique
\* constraint refuses a version that is there.
Create(t) ==
  \E v \in Chosen \cup {InitialVersion}, c \in Content :
    /\ Request(t)
    /\ v \notin Stored
    /\ specs' = Inserted(v, c, NoVersion, "none")
    /\ UNCHANGED <<live, boot, pc, loc>>

\* bump_spec: the type is given or detected against the parent, the version is
\* computed from the highest of the domain.  Detection puts the edges in a set,
\* which raises for an edge that holds a list: the request ends there.
BumpSpec(t) ==
  \E p \in Stored, c \in Content, chosen \in BumpType \cup {"none"} :
    LET type == IF chosen = "none" THEN DetectBump(specs[p].content, c) ELSE chosen IN
    /\ Request(t)
    /\ chosen = "none" => {specs[p].content.shape, c.shape} \cap Listed = {}
    /\ Go(t, "update", [Blank EXCEPT !.target = p, !.content = c,
                          !.version = Bump(MaxVersion(Stored), type),
                          !.type = IF chosen = "none" THEN type ELSE "chosen"])
    /\ UNCHANGED <<specs, live, boot>>

\* update_autonomy_policy merges what the body gives into the policy of the row.
UpdatePolicy(t) ==
  \E p \in Stored, level \in Level, tools \in Tools :
    /\ Request(t)
    /\ Go(t, "update", [Blank EXCEPT !.target = p,
                          !.content = [specs[p].content EXCEPT !.level = level, !.tools = tools],
                          !.version = Bump(MaxVersion(Stored), "minor"),
                          !.type = "chosen", !.then = "read"])
    /\ UNCHANGED <<specs, live, boot>>

\* update_spec computes the highest version again in its own transaction.
UpdateRead(t) ==
  /\ pc[t] = "update"
  /\ IF Newer(loc[t].version, MaxVersion(Stored)) THEN Go(t, "insert", loc[t]) ELSE End(t)
  /\ UNCHANGED <<specs, live, boot, started>>

\* The INSERT, refused if the same version came in between, and then, for a
\* policy, activate_spec of the new row.
UpdateInsert(t) ==
  LET l == loc[t] IN
  /\ pc[t] = "insert"
  /\ IF l.version \in Stored THEN End(t) /\ UNCHANGED specs
     ELSE /\ specs' = Inserted(l.version, l.content, l.target, l.type)
          /\ IF l.then = "idle" THEN End(t)
             ELSE Go(t, "read", [Blank EXCEPT !.target = l.version])
  /\ UNCHANGED <<live, boot, started>>

\* PUT /specs/{id}/activate.
Activate(t) ==
  \E v \in Stored :
    /\ Request(t)
    /\ Go(t, "scan", [Blank EXCEPT !.target = v, !.read = specs[v].status])
    /\ UNCHANGED <<specs, live, boot>>

\* activate_spec loads the target ...
ActivateRead(t) ==
  /\ pc[t] = "read"
  /\ Go(t, "scan", [loc[t] EXCEPT !.read = specs[loc[t].target].status])
  /\ UNCHANGED <<specs, live, boot, started>>

\* Mutants: the bulk UPDATE spares nothing, or everything.
ActivateScanAll(t) ==
  /\ pc[t] = "scan"
  /\ Go(t, "archive", [loc[t] EXCEPT !.scan = ActiveVersions])
  /\ UNCHANGED <<specs, live, boot, started>>
ActivateScanNone(t) ==
  /\ pc[t] = "scan"
  /\ Go(t, "archive", loc[t])
  /\ UNCHANGED <<specs, live, boot, started>>

\* ... its bulk UPDATE matches the other active rows ...
ActivateScan(t) ==
  /\ pc[t] = "scan"
  /\ Go(t, "archive", [loc[t] EXCEPT !.scan = ActiveVersions \ {loc[t].target}])
  /\ UNCHANGED <<specs, live, boot, started>>

\* ... waits for those that are locked, leaves out what is no longer active ...
ActivateArchive(t) ==
  /\ pc[t] = "archive"
  /\ Free(t, loc[t].scan)
  /\ Go(t, "flip", [loc[t] EXCEPT !.archived = loc[t].scan \cap ActiveVersions])
  /\ UNCHANGED <<specs, live, boot, started>>

\* ... and the flush updates the target, unless the session loaded it as active
\* already and has no change to write.
ActivateFlip(t) ==
  /\ pc[t] = "flip"
  /\ loc[t].read # "active" => Free(t, {loc[t].target})
  /\ Go(t, "commit", [loc[t] EXCEPT !.flip = (loc[t].read # "active")])
  /\ UNCHANGED <<specs, live, boot, started>>

\* Mutants: the status is misspelt; the connection goes back to the pool with
\* its transaction open.
ActivateCommitStatus(t) ==
  LET l == loc[t] IN
  /\ pc[t] = "commit"
  /\ specs' = [v \in Stored |->
                 IF l.flip /\ v = l.target THEN [specs[v] EXCEPT !.status = "active"]
                 ELSE IF v \in l.archived THEN [specs[v] EXCEPT !.status = "deprecated"]
                 ELSE specs[v]]
  /\ End(t)
  /\ UNCHANGED <<live, boot, started>>
ActivateCommitOpen(t) ==
  /\ pc[t] = "commit"
  /\ pc' = [pc EXCEPT ![t] = "idle"]
  /\ UNCHANGED <<specs, live, boot, loc, started>>

ActivateCommit(t) ==
  LET l == loc[t] IN
  /\ pc[t] = "commit"
  /\ specs' = [v \in Stored |->
                 IF l.flip /\ v = l.target THEN [specs[v] EXCEPT !.status = "active"]
                 ELSE IF v \in l.archived THEN [specs[v] EXCEPT !.status = "archived"]
                 ELSE specs[v]]
  /\ End(t)
  /\ UNCHANGED <<live, boot, started>>

-----------------------------------------------------------------------------
(* get_spec *)

\* The first call of the process loads the active spec; without one, or if the
\* read fails, it takes the YAML file.
LoadSpec(t) ==
  /\ pc[t] = "idle" /\ boot = "up" /\ live = NotLoaded
  /\ \/ \E v \in ActiveVersions :
          Go(t, "install", [Blank EXCEPT !.content = specs[v].content])
     \/ /\ ActiveVersions = {} \/ "read" \in Faults
        /\ Go(t, "install", Blank)
  /\ UNCHANGED <<specs, live, boot, started>>

\* Two first calls both load, and the later one stays.
InstallSpec(t) ==
  /\ pc[t] = "install"
  /\ live' = loc[t].content
  /\ End(t)
  /\ UNCHANGED <<specs, boot, started>>

-----------------------------------------------------------------------------
(* Start-up. *)

\* seed_from_yaml: nothing to do if a spec is active; create_spec raises if the
\* YAML's version is there already, which ends the start-up's seeding, as a
\* database that does not answer does.
SeedCheck ==
  /\ boot = "check"
  /\ IF ActiveVersions # {} \/ YamlVersion \in Stored
     THEN boot' = "up" /\ UNCHANGED specs
     ELSE /\ specs' = Inserted(YamlVersion, Yaml, NoVersion, "none")
          /\ boot' = "activate"
  /\ UNCHANGED <<live, pc, loc, started>>

SeedFails ==
  /\ "read" \in Faults
  /\ boot # "up"
  /\ boot' = "up"
  /\ UNCHANGED <<specs, live, pc, loc, started>>

SeedActivate ==
  /\ boot = "activate"
  /\ specs' = [v \in Stored |->
                 IF v = YamlVersion THEN [specs[v] EXCEPT !.status = "active"]
                 ELSE IF v \in ActiveVersions THEN [specs[v] EXCEPT !.status = "archived"]
                 ELSE specs[v]]
  /\ boot' = "up"
  /\ UNCHANGED <<live, pc, loc, started>>

Restart ==
  /\ "restart" \in Faults
  /\ live' = NotLoaded
  /\ boot' = "check"
  /\ pc' = [t \in Thread |-> "idle"]
  /\ loc' = [t \in Thread |-> Blank]
  /\ UNCHANGED <<specs, started>>

-----------------------------------------------------------------------------
Start(t) == Create(t) \/ BumpSpec(t) \/ UpdatePolicy(t) \/ Activate(t) \/ LoadSpec(t)

Continue(t) ==
  \/ UpdateRead(t) \/ UpdateInsert(t)
  \/ ActivateRead(t) \/ ActivateScan(t) \/ ActivateArchive(t) \/ ActivateFlip(t)
  \/ ActivateCommit(t) \/ InstallSpec(t)

Seeding == SeedCheck \/ SeedActivate \/ SeedFails

Next == (\E t \in Thread : Start(t) \/ Continue(t)) \/ Seeding \/ Restart

Spec == Init /\ [][Next]_vars

\* A handler thread that can take its next statement takes it.
FairSpec == Spec /\ \A t \in Thread : WF_vars(Continue(t))

-----------------------------------------------------------------------------
(* Properties. *)

\* spec_repository.py:264, "Only one spec per domain can be active at a time",
\* with one request at a time.
OneActive == Cardinality(ActiveVersions) <= 1

\* get_active_spec's reader sees a catalog with a single current version, which
\* is never withdrawn: also not by activating the active one again, by a crash
\* inside an activation or by any later start-up.
Catalog == INSTANCE SpecCatalog WITH
  published <- Stored,
  current <- IF ActiveVersions = {} THEN NoVersion
             ELSE CHOOSE v \in ActiveVersions : TRUE
RefinesCatalog == Catalog!Spec

\* The order of versions by their first difference.
After(v, w) == \E i \in 1..3 : v[i] > w[i] /\ \A j \in 1..(i - 1) : v[j] = w[j]

\* However requests overlap, a derived spec is newer than its parent.
DerivedIsNewer ==
  \A v \in Stored : specs[v].parent # NoVersion => After(v, specs[v].parent)

\* versioning.py:7, "MAJOR: breaking changes (variable set or causal graph
\* changed)": a spec whose type was detected and that changes the structure of
\* its parent has a higher major version, whichever version was the highest.
BreakingIsMajor ==
  \A v \in Stored :
    LET p == specs[v].parent IN
    p # NoVersion /\ specs[v].type \in BumpType
    /\ specs[v].content.shape # specs[p].content.shape => v[1] > p[1]

\* No activation waits for ever for a row that another one has locked.
RequestsFinish == \A t \in Thread : pc[t] # "idle" ~> pc[t] = "idle"

-----------------------------------------------------------------------------
(* What the repository says of the program and the program does not do. *)

\* specs.py:248, "The new spec is activated immediately so callers see the
\* updated policy": with no request under way, what the process works with is
\* the active spec.
LiveIsActive ==
  (\A t \in Thread : pc[t] = "idle") /\ boot = "up" /\ live # NotLoaded
  => \A v \in ActiveVersions : live = specs[v].content

\* spec_repository.py:135, "Return the single active spec": with requests that
\* overlap, a spec that is active is followed by another.
StaysActive == [][ActiveVersions # {} => ActiveVersions' # {}]_vars

\* spec_repository.py:189, a new version that "is not strictly greater than the
\* current maximum version" is refused: a derived spec is newer than every spec
\* stored before it, also if requests overlap.
DerivedIsNewest ==
  [][\A v \in Stored' \ Stored :
       specs'[v].parent # NoVersion => \A w \in Stored : After(v, w)]_vars

\* README.md:266: after a start-up that reached the database a spec is active.
SeedingActivates == boot = "up" => ActiveVersions # {}

\* versioning.py:7-9: of two specs whose types were detected, the same major
\* version means the same structure.
SameMajorSameShape ==
  \A v, w \in Stored :
    v[1] = w[1] /\ specs[v].type \in BumpType /\ specs[w].type \in BumpType
    => specs[v].content.shape = specs[w].content.shape
=============================================================================
