----------------------------- MODULE KnowledgeIndex -----------------------------
(***************************************************************************)
(* The knowledge index (knowledge/retriever.py, knowledge/build_index.py) with *)
(* a database, and with DomainArtifacts, whose threads, processes and specs it  *)
(* shares, everything the analytical tools and the admin buttons do.           *)
(*                                                                         *)
(* A copy is one run's rows of knowledge_documents.  The transaction is READ    *)
(* COMMITTED: its DELETE sees the rows that are committed when it starts, waits *)
(* for whoever is deleting them, and leaves rows inserted since.               *)
(***************************************************************************)
EXTENDS DomainArtifacts, CausalModel

CONSTANTS
  FaissDir,   \* there is a directory knowledge_index/ (the image has none, a checkout has
              \* one without index.pkl)
  FaissBuilt, \* there is all of a FAISS index in it, built without a database
  Drawn       \* the graphs CausalSound is checked for

ASSUME FaissAssumption == FaissDir \in BOOLEAN /\ FaissBuilt \in BOOLEAN /\ (FaissBuilt => FaissDir)
ASSUME DrawnAssumption == Drawn \subseteq Graph

VARIABLES
  docs,   \* the copies in the table
  doomed, \* doomed[t]: the copies thread t's DELETE deletes
  ready,  \* ready[p]: _pgvector_index_ready
  store   \* store[p]: _faiss_vectorstore is loaded

kvars == <<docs, doomed, ready, store>>
vars == <<dvars, kvars>>
rest == <<shared, alone, repair, requests, activations>>

\* As many copies as the threads can have in the table and in their transactions, and one.
Copy == 1..(Cardinality(Thread) * (Cardinality(Thread) + 1) + 1)

TypeOK ==
  /\ DomainTypeOK
  /\ docs \subseteq Copy
  /\ doomed \in [Thread -> SUBSET Copy]
  /\ ready \in [Proc -> BOOLEAN] /\ store \in [Proc -> BOOLEAN]

Init ==
  /\ DomainInit
  /\ docs = {}
  /\ doomed = [t \in Thread |-> {}]
  /\ ready = [p \in Proc |-> FALSE] /\ store = [p \in Proc |-> FALSE]
 

\* A build that fails fails its button and the fall-back; before a search it is ignored.
BuildFails(t) ==
  IF loc[t].kind = "ask" /\ ~loc[t].falling THEN Go(t, "search") /\ UNCHANGED loc ELSE End(t)

\* _ensure_pgvector_index, once per process; an error counts as checked this time.
CountDocs(t) ==
  LET p == Home[t]
  IN /\ pc[t] = "count"
     /\ \/ /\ NoFault /\ (ready[p] \/ docs # {})
           /\ ready' = [ready EXCEPT ![p] = TRUE]
           /\ Go(t, "search")
        \/ NoFault /\ ~ready[p] /\ docs = {} /\ Go(t, "embed") /\ UNCHANGED ready
        \/ Fault /\ ~ready[p] /\ Go(t, "search") /\ UNCHANGED ready
     /\ UNCHANGED <<rest, loc, docs, doomed, store>>

Embed(t) ==
  /\ pc[t] = "embed"
  /\ \/ NoFault /\ Go(t, "delete") /\ UNCHANGED loc
     \/ Fault /\ BuildFails(t)
  /\ UNCHANGED <<rest, kvars>>

\* The DELETE starts, gets its locks, and the rows are inserted and committed.
Delete(t) ==
  /\ pc[t] = "delete"
  /\ doomed' = [doomed EXCEPT ![t] = docs]
  /\ Go(t, "lock")
  /\ UNCHANGED <<rest, faults, loc, docs, ready, store>>

\* Mutant: the DELETE is a transaction of its own.
LockCommitted(t) ==
  /\ pc[t] = "lock"
  /\ docs' = docs \ doomed[t]
  /\ doomed' = [doomed EXCEPT ![t] = {}]
  /\ Go(t, "insert")
  /\ UNCHANGED <<rest, faults, loc, ready, store>>

\* Mutant: waits for the rows to be there again.
LockWaits(t) ==
  /\ pc[t] = "lock"
  /\ doomed[t] \subseteq docs
  /\ \A u \in Thread \ {t} : pc[u] = "insert" => doomed[u] \cap doomed[t] = {}
  /\ Go(t, "insert")
  /\ UNCHANGED <<rest, faults, loc, kvars>>

Lock(t) ==
  /\ pc[t] = "lock"
  /\ \A u \in Thread \ {t} : pc[u] = "insert" => doomed[u] \cap doomed[t] \cap docs = {}
  /\ doomed' = [doomed EXCEPT ![t] = @ \cap docs]
  /\ Go(t, "insert")
  /\ UNCHANGED <<rest, faults, loc, docs, ready, store>>

Insert(t) ==
  /\ pc[t] = "insert"
  /\ \/ /\ NoFault
        /\ docs' = (docs \ doomed[t]) \cup
                     {CHOOSE c \in Copy : \A u \in Thread : c \notin docs \cup doomed[u]}
        /\ CASE loc[t].kind = "reindex" -> End(t) /\ UNCHANGED ready
             [] loc[t].falling -> Go(t, "faiss") /\ UNCHANGED <<loc, ready>>
             [] OTHER -> Go(t, "search") /\ ready' = [ready EXCEPT ![Home[t]] = TRUE]
                         /\ UNCHANGED loc
     \/ Fault /\ BuildFails(t) /\ UNCHANGED <<docs, ready>>
  /\ doomed' = [doomed EXCEPT ![t] = {}]
  /\ UNCHANGED <<rest, store>>

\* The nearest rows of the table; an error of any kind falls back to FAISS.
Search(t) ==
  /\ pc[t] = "search"
  /\ \/ NoFault /\ End(t)
     \/ Fault /\ Go(t, "fallback") /\ UNCHANGED loc
  /\ UNCHANGED <<rest, kvars>>

\* A missing directory is built; with a database that builds the table again, not the index.
Fallback(t) ==
  /\ pc[t] = "fallback"
  /\ \/ store[Home[t]] /\ End(t)
     \/ ~store[Home[t]] /\ FaissDir /\ Go(t, "faiss") /\ UNCHANGED loc
     \/ ~store[Home[t]] /\ ~FaissDir /\ Go(t, "embed") /\ loc' = [loc EXCEPT ![t].falling = TRUE]
  /\ UNCHANGED <<rest, faults, kvars>>

\* Loading what is not there, or not all there, fails the tool.
LoadFaiss(t) ==
  /\ pc[t] = "faiss"
  /\ store' = [store EXCEPT ![Home[t]] = @ \/ FaissBuilt]
  /\ End(t)
  /\ UNCHANGED <<rest, faults, docs, doomed, ready>>

\* The transactions of a process that dies are rolled back.
Crash(p) ==
  /\ DomainCrash(p)
  /\ doomed' = [t \in Thread |-> IF Home[t] = p THEN {} ELSE doomed[t]]
  /\ ready' = [ready EXCEPT ![p] = FALSE] /\ store' = [store EXCEPT ![p] = FALSE]
  /\ UNCHANGED docs

KnowledgeStep(t) ==
  \/ CountDocs(t) \/ Embed(t) \/ Delete(t) \/ Lock(t) \/ Insert(t)
  \/ Search(t) \/ Fallback(t) \/ LoadFaiss(t)

Step(t) == (DomainStep(t) /\ UNCHANGED kvars) \/ KnowledgeStep(t)

Next ==
  \/ \E t \in Thread : Step(t)
  \/ \E t \in Thread, k \in Kind : Start(t, k) /\ UNCHANGED kvars
  \/ \E s \in SpecId : Activate(s) /\ UNCHANGED kvars
  \/ \E p \in Proc : Crash(p)

Spec == Init /\ [][Next]_vars
\* A thread that has begun a request runs on; a lock that is free is granted.
FairSpec == Spec /\ \A t \in Thread : WF_vars(Step(t))

-----------------------------------------------------------------------------
(* Properties. *)

\* Generating the data and then training, each with nothing else under way, repairs what
\* any crash or overlap before has left of either file, and the tools of the interface
\* use what has been trained (agents/tools.py:41, "e.g. after retraining").
Repaired ==
  repair = 2 /\ Writing("csv") \cup Writing("pickle") = {} =>
    /\ Whole(csv, {}) /\ Whole(pkl, {})
    /\ pkl.of = csv.of
    /\ model[Ui] # None => model[Ui].data \in csv.of

\* With no noise the simulation gives the profit of the graph, a price above the cost never
\* loses, and the price that is advised earns the most.
AdviceSound(graph) ==
  LET expected == [price \in 2..6 |-> Simulated(graph, price, 2, 3, 9 - price, 0)]
  IN /\ Simulated(graph, 7, 2, 3, 5, 0) = Meaning(7, 2, 3, 5)["profit"]
     /\ \A noise \in {-6, -1, 4} : Simulated(graph, 7, 2, 3, 5, noise) >= 0
     /\ expected[BestPrice(<<2, 3, 4, 5, 6>>, expected)] = 9

\* The order is complete exactly when nothing reaches itself, has causes before their
\* effects, and gives the values that the formulas mean, or an error if a formula needs what
\* is not among its causes: never another value.
Sound(graph) ==
  LET order == EvalOrder(graph)
      values == Evaluate(graph, 7, 2, 3, 5)
      meant == Meaning(7, 2, 3, 5)
  IN /\ IsAcyclic(graph) <=> ~HasCycle(graph)
     /\ \A e \in ToSet(EdgeSeq(graph)), j \in DOMAIN order :
          e[2] = order[j] => \E i \in 1..(j - 1) : order[i] = e[1]
     /\ IsAcyclic(graph) =>
          \/ values = KeyError /\ ~Covered(graph)
          \/ \A v \in ToSet(NodeSeq(graph)) \cap DOMAIN meant : values[v] = meant[v]
     /\ IsAcyclic(graph) /\ Covered(graph) /\ "demand" \in DOMAIN values =>
          AdviceSound(graph)

AllSound == \A graph \in Drawn : Sound(graph)

\* A process that has a model evaluates whatever relationships its spec may have by the
\* formulas: no cycle passes (system/system_graph.py:31), and a graph gives the values of
\* the formulas or, if they need what no edge names, an error (system/system_model.py:114).
CausalSound == \A p \in Proc : model[p] # None => AllSound

\* A rebuild deletes every row and inserts them again, and may fail at any point, but
\* nobody ever finds the table empty that has once been filled
\* (knowledge/build_index.py:295).
OnceFilled == [][docs # {} => docs' # {}]_vars

\* Every tool call and every button ends, builds that wait for each other included.
RequestsEnd == \A t \in Thread : pc[t] # "idle" ~> pc[t] = "idle"

-----------------------------------------------------------------------------
(* What the code does not keep. *)

\* When nothing runs, the parts of a process go by one spec (spec/spec_loader.py:393,
\* "shared across all components").
OneSpec ==
  Busy = {} => \A p \in Proc :
    /\ model[p] # None => model[p].spec = spec[p] /\ model[p].graph = spec[p]
    /\ settings[p] \in {None, spec[p]}

\* The planner's words are those of the spec (system/grounded_tokens.py:10, "from the
\* active spec at runtime").
WordsOfSpec ==
  \A p \in Proc :
    spec[p] # None => vocab[p][Version[spec[p]]] \in {None, spec[p]}

\* What SystemModel() makes it can use, and others can (system/system_model.py:102).
ModelSound == \A p \in Proc : model[p] # None => model[p].data # Bad

\* A search finds each document once.
OneCopy == Cardinality(docs) <= 1

\* The fall-back has an index to load (knowledge/retriever.py:105, "falling back to
\* FAISS").
FallbackLoads == \A t \in Thread : pc[t] = "faiss" => FaissBuilt

\* A tool that has made the model gets it.
ModelReturned == \A t \in Thread : pc[t] = "return" => model[Home[t]] # None
=============================================================================
