----------------------------- MODULE DomainArtifacts -----------------------------
(***************************************************************************)
(* What the processes make of the active spec: the spec singleton             *)
(* (spec/spec_loader.py), the sales data and the demand model, which are files  *)
(* that all processes share (data/generate_data.py,                           *)
(* models/train_demand_model.py), the SystemModel of agents/tools.py, the      *)
(* settings and the vocabulary, and the admin buttons of ui/sidebar.py that     *)
(* renew some of these.                                                     *)
(*                                                                         *)
(* A request is a tool call or a button.  Each get_spec(), each check of a      *)
(* file, the opening of a file (which empties it), the end of writing it and    *)
(* each access to a global is an action; pc[t] names the one thread t is about  *)
(* to do.  Numbers are left out: data and models are known by the spec they     *)
(* come from, or are Bad if they come from a file that was not whole.           *)
(*                                                                         *)
(* Every spec names the path of the model that train() writes, and has the      *)
(* decision variables the settings are made from.                            *)
(***************************************************************************)
EXTENDS Integers, FiniteSets, TLC

CONSTANTS
  Thread,
  Home,           \* Home[t]: the process of thread t
  Ui,             \* the Streamlit process, the one with the buttons
  SpecId,         \* specs that the repository takes (their graphs have no cycle)
  Yaml,           \* the one in the YAML file
  Broken,         \* those that do not parse: nothing else of a text is looked at
  Version,        \* Version[s]: the version in its text
  None,           \* nothing
  Bad,            \* what is made of a file that is not whole
  MaxRequests,    \* bound on the requests that are started
  MaxActivations, \* bound on the activations
  MaxFaults       \* bound on crashes, reads of the database and embeddings that fail

Proc == {Home[t] : t \in Thread} \cup {Ui}

ASSUME ThreadAssumption == IsFiniteSet(Thread) /\ DOMAIN Home = Thread
ASSUME SpecAssumption ==
  /\ Yaml \in SpecId /\ {None, Bad} \cap SpecId = {} /\ None # Bad
  /\ DOMAIN Version = SpecId /\ Broken \subseteq SpecId \ {Yaml}
ASSUME BoundAssumption == {MaxRequests, MaxActivations, MaxFaults} \subseteq Nat

VARIABLES
  active,   \* the active row of the spec table, or None
  csv,      \* data/sales.csv
  pkl,      \* models/demand_model.pkl
  spec,     \* spec[p]: _spec_instance
  model,    \* model[p]: _system_model
  settings, \* settings[p]: the spec of _settings_cache
  vocab,    \* vocab[p][v]: the spec whose words are cached under version v
  pc,       \* pc[t]: what thread t does next
  loc,      \* loc[t]: its request
  alone,    \* alone[t]: no other request has run since its request began
  repair,   \* how far a repair has come: 1 after data alone, 2 after a model
  requests, activations, faults

shared == <<active, csv, pkl, spec, model, settings, vocab>>
counters == <<requests, activations, faults>>
dvars == <<shared, pc, loc, alone, repair, counters>>

Data == SpecId \cup {Bad}
File == [of : SUBSET Data, cut : BOOLEAN] \cup {None}
ASSUME FileAssumption == None \notin [of : SUBSET Data, cut : BOOLEAN]
Kind == {"tool", "regenerate", "retrain", "reindex", "ask"}
Button == {"regenerate", "retrain", "reindex"}
At == {"idle", "read", "install", "ground", "model", "init", "data", "gen", "open",
       "csv", "pkl", "train", "dump", "pickle", "load", "build", "return", "settings",
       "reset", "count", "embed", "delete", "lock", "insert", "search", "fallback", "faiss"}
Model == [spec : SpecId, data : Data, graph : SpecId]
\* spec: the one read, init: the one SystemModel() began with, data: what is written or
\* was read, end: how the last request of the thread ended.
Request == [kind : Kind, spec : SpecId \cup {None}, init : SpecId \cup {None},
            data : Data \cup {None}, falling : BOOLEAN]
NoRequest(k) == [kind |-> k, spec |-> None, init |-> None, data |-> None, falling |-> FALSE]

DomainTypeOK ==
  /\ active \in SpecId \cup {None}
  /\ {csv, pkl} \subseteq File
  /\ spec \in [Proc -> SpecId \cup {None}]
  /\ model \in [Proc -> Model \cup {None}]
  /\ settings \in [Proc -> SpecId \cup {None}]
  /\ vocab \in [Proc -> [{Version[s] : s \in SpecId} -> SpecId \cup {None}]]
  /\ pc \in [Thread -> At]
  /\ loc \in [Thread -> Request]
  /\ alone \in [Thread -> BOOLEAN]
  /\ repair \in 0..2
  /\ requests \in 0..MaxRequests /\ activations \in 0..MaxActivations
  /\ faults \in 0..MaxFaults

\* The image has data and a model of the YAML file; a checkout has neither.  The seed has
\* made a row of that file.
DomainInit ==
  /\ active = Yaml
  /\ \E baked \in BOOLEAN :
       LET file == IF baked THEN [of |-> {Yaml}, cut |-> FALSE] ELSE None
       IN csv = file /\ pkl = file
  /\ spec = [p \in Proc |-> None] /\ model = [p \in Proc |-> None]
  /\ settings = [p \in Proc |-> None]
  /\ vocab = [p \in Proc |-> [v \in {Version[s] : s \in SpecId} |-> None]]
  /\ pc = [t \in Thread |-> "idle"]
  /\ loc = [t \in Thread |-> NoRequest("tool")]
  /\ alone = [t \in Thread |-> TRUE]
  /\ repair = 0 /\ requests = 0 /\ activations = 0 /\ faults = 0

Fault == faults < MaxFaults /\ faults' = faults + 1
NoFault == UNCHANGED faults

Go(t, there) == pc' = [pc EXCEPT ![t] = there]
End(t) ==
  /\ Go(t, "idle")
  /\ loc' = [loc EXCEPT ![t] = NoRequest("tool")]

Busy == {t \in Thread : pc[t] # "idle"}

-----------------------------------------------------------------------------
(* Requests begin.  A tool call and a question follow the planner's get_spec().   *)

FirstStep(k) ==
  CASE k = "tool" -> "ground" [] k = "regenerate" -> "gen" [] k = "retrain" -> "train"
    [] k = "reindex" -> "embed" [] k = "ask" -> "count"

Start(t, k) ==
  /\ pc[t] = "idle" /\ requests < MaxRequests
  /\ k \in Button => Home[t] = Ui
  /\ requests' = requests + 1
  /\ loc' = [loc EXCEPT ![t] = NoRequest(k)]
  /\ alone' = [u \in Thread |-> IF u = t THEN Busy = {} ELSE alone[u] /\ u \notin Busy]
  /\ Go(t, IF k \in Button \/ spec[Home[t]] = None THEN "read" ELSE FirstStep(k))
  /\ UNCHANGED <<shared, repair, activations, faults>>

Activate(s) ==
  /\ activations < MaxActivations /\ s # active
  /\ activations' = activations + 1
  /\ active' = s
  /\ UNCHANGED <<csv, pkl, spec, model, settings, vocab, pc, loc, alone, repair,
                 requests, faults>>

\* _load_spec_with_fallback: no active spec, and one that does not parse, is the YAML's.
Parsed(s) == IF s \in SpecId \ Broken THEN s ELSE Yaml

\* get_spec() and reload_spec() load, then assign.
ReadSpec(t) ==
  /\ pc[t] = "read"
  /\ \/ NoFault /\ loc' = [loc EXCEPT ![t].spec = Parsed(active)]
     \/ Fault /\ loc' = [loc EXCEPT ![t].spec = Yaml]
  /\ Go(t, "install")
  /\ UNCHANGED <<shared, alone, repair, requests, activations>>

InstallSpec(t) ==
  /\ pc[t] = "install"
  /\ spec' = [spec EXCEPT ![Home[t]] = loc[t].spec]
  /\ Go(t, FirstStep(loc[t].kind))
  /\ UNCHANGED <<active, csv, pkl, model, settings, vocab, loc, alone, repair, counters>>

\* The planner's vocabulary of the spec, kept by the version in the spec's text.
Ground(t) ==
  LET p == Home[t]
      v == Version[spec[p]]
  IN /\ pc[t] = "ground"
     /\ vocab' = [vocab EXCEPT ![p][v] = IF @ = None THEN spec[p] ELSE @]
     /\ Go(t, "model")
     /\ UNCHANGED <<active, csv, pkl, spec, model, settings, loc, alone, repair, counters>>

-----------------------------------------------------------------------------
(* SystemModel(), and what it makes when it is missing. *)

CheckModel(t) ==
  /\ pc[t] = "model"
  /\ Go(t, IF model[Home[t]] = None THEN "init" ELSE "return")
  /\ UNCHANGED <<shared, loc, alone, repair, counters>>

InitModel(t) ==
  /\ pc[t] = "init"
  /\ loc' = [loc EXCEPT ![t].init = spec[Home[t]]]
  /\ Go(t, "data")
  /\ UNCHANGED <<shared, alone, repair, counters>>

\* _ensure_data and _ensure_model ask only whether the file exists.
EnsureData(t) ==
  /\ pc[t] = "data"
  /\ Go(t, IF csv = None THEN "gen" ELSE "pkl")
  /\ UNCHANGED <<shared, loc, alone, repair, counters>>

\* Mutant: a model that is there is not read.
EnsureModelUnread(t) ==
  /\ pc[t] = "pkl"
  /\ Go(t, IF pkl = None THEN "train" ELSE "build")
  /\ UNCHANGED <<shared, loc, alone, repair, counters>>

EnsureModel(t) ==
  /\ pc[t] = "pkl"
  /\ Go(t, IF pkl = None THEN "train" ELSE "load")
  /\ UNCHANGED <<shared, loc, alone, repair, counters>>

\* A file that is opened for writing is empty.  Those who write it at the same time mix
\* what they write, unless it is the same (the seeds are fixed).
Opened(file, content, writers) ==
  IF writers = {} THEN [of |-> {content}, cut |-> FALSE]
  ELSE [file EXCEPT !.of = @ \cup {content}]

Writing(here) == {t \in Thread : pc[t] = here}

Whole(file, writers) == writers = {} /\ ~file.cut /\ Cardinality(file.of) = 1

\* What one finds in a file.
Held(file, writers) ==
  IF Whole(file, writers) THEN CHOOSE c \in file.of : TRUE ELSE Bad

\* generate: get_spec() and the rows.
Generate(t) ==
  /\ pc[t] = "gen"
  /\ loc' = [loc EXCEPT ![t].data = spec[Home[t]]]
  /\ Go(t, "open")
  /\ UNCHANGED <<shared, alone, repair, counters>>

OpenCsv(t) ==
  /\ pc[t] = "open"
  /\ csv' = Opened(csv, loc[t].data, Writing("csv"))
  /\ repair' = 0
  /\ Go(t, "csv")
  /\ UNCHANGED <<active, pkl, spec, model, settings, vocab, loc, alone, counters>>

CloseCsv(t) ==
  /\ pc[t] = "csv"
  /\ IF loc[t].kind = "tool" THEN Go(t, "pkl") /\ UNCHANGED <<loc, repair>>
     ELSE End(t) /\ repair' = IF alone[t] THEN 1 ELSE 0
  /\ UNCHANGED <<shared, alone, counters>>

\* train.  A file that is not whole may not parse.
Train(t) ==
  LET whole == csv # None /\ Whole(csv, Writing("csv"))
  IN /\ pc[t] = "train"
     /\ \/ /\ csv # None
           /\ loc' = [loc EXCEPT ![t].data = Held(csv, Writing("csv"))]
           /\ Go(t, "dump")
        \/ ~whole /\ End(t)
     /\ UNCHANGED <<shared, alone, repair, counters>>

OpenPkl(t) ==
  /\ pc[t] = "dump"
  /\ pkl' = Opened(pkl, loc[t].data, Writing("pickle"))
  /\ repair' = IF loc[t].kind = "retrain" /\ alone[t] THEN repair ELSE 0
  /\ Go(t, "pickle")
  /\ UNCHANGED <<active, csv, spec, model, settings, vocab, loc, alone, counters>>

ClosePkl(t) ==
  /\ pc[t] = "pickle"
  /\ Go(t, IF loc[t].kind = "tool" THEN "load" ELSE "reset")
  /\ UNCHANGED <<shared, loc, alone, repair, counters>>

\* A pickle that is cut does not load; a mixed one may, as nobody trained it.
LoadModel(t) ==
  LET whole == Whole(pkl, Writing("pickle"))
  IN /\ pc[t] = "load"
     /\ \/ /\ whole \/ Cardinality(pkl.of) > 1
           /\ loc' = [loc EXCEPT ![t].data = Held(pkl, Writing("pickle"))]
           /\ Go(t, "build")
        \/ ~whole /\ End(t)
     /\ UNCHANGED <<shared, alone, repair, counters>>

\* build_graph: get_spec() once more; then the assignment.
BuildGraph(t) ==
  LET p == Home[t]
  IN /\ pc[t] = "build"
     /\ model' = [model EXCEPT ![p] =
          [spec |-> loc[t].init, data |-> loc[t].data, graph |-> spec[p]]]
     /\ Go(t, "return")
     /\ UNCHANGED <<active, csv, pkl, spec, settings, vocab, loc, alone, repair, counters>>

\* _get_system_model returns the global, which may have been reset: then the tool fails.
ReturnModel(t) ==
  /\ pc[t] = "return"
  /\ IF model[Home[t]] = None THEN End(t) ELSE Go(t, "settings") /\ UNCHANGED loc
  /\ UNCHANGED <<shared, alone, repair, counters>>

\* The settings are made once; then the scenarios are run.
RunScenarios(t) ==
  /\ pc[t] = "settings"
  /\ settings' = [settings EXCEPT ![Home[t]] = IF @ = None THEN spec[Home[t]] ELSE @]
  /\ End(t)
  /\ UNCHANGED <<active, csv, pkl, spec, model, vocab, alone, repair, counters>>

\* Mutant: the model is not reset after training.
ResetModelNot(t) ==
  /\ pc[t] = "reset"
  /\ repair' = IF alone[t] /\ repair > 0 THEN 2 ELSE 0
  /\ End(t)
  /\ UNCHANGED <<shared, alone, counters>>

\* reload_system_model, the end of the training button.
ResetModel(t) ==
  /\ pc[t] = "reset"
  /\ model' = [model EXCEPT ![Home[t]] = None]
  /\ repair' = IF alone[t] /\ repair > 0 THEN 2 ELSE 0
  /\ End(t)
  /\ UNCHANGED <<active, csv, pkl, spec, settings, vocab, alone, counters>>

\* A process dies and starts again; a file it was writing stays as far as it got.
DomainCrash(p) ==
  LET cuts(here) == \E t \in Writing(here) : Home[t] = p
  IN /\ Fault
     /\ csv' = IF cuts("csv") THEN [csv EXCEPT !.cut = TRUE] ELSE csv
     /\ pkl' = IF cuts("pickle") THEN [pkl EXCEPT !.cut = TRUE] ELSE pkl
     /\ repair' = IF cuts("csv") \/ cuts("pickle") THEN 0 ELSE repair
     /\ spec' = [spec EXCEPT ![p] = None] /\ model' = [model EXCEPT ![p] = None]
     /\ settings' = [settings EXCEPT ![p] = None]
     /\ vocab' = [vocab EXCEPT ![p] = [v \in DOMAIN @ |-> None]]
     /\ pc' = [t \in Thread |-> IF Home[t] = p THEN "idle" ELSE pc[t]]
     /\ loc' = [t \in Thread |-> IF Home[t] = p THEN NoRequest("tool") ELSE loc[t]]
     /\ UNCHANGED <<active, alone, requests, activations>>

DomainStep(t) ==
  \/ ReadSpec(t) \/ InstallSpec(t) \/ Ground(t)
  \/ CheckModel(t) \/ InitModel(t) \/ EnsureData(t) \/ EnsureModel(t)
  \/ Generate(t) \/ OpenCsv(t) \/ CloseCsv(t)
  \/ Train(t) \/ OpenPkl(t) \/ ClosePkl(t) \/ LoadModel(t)
  \/ BuildGraph(t) \/ ReturnModel(t) \/ RunScenarios(t) \/ ResetModel(t)
=============================================================================
