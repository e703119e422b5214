------------------------------ MODULE DomainProofs ------------------------------
(***************************************************************************)
(* Proofs about DomainArtifacts and KnowledgeIndex, for any threads,          *)
(* processes, specs, crashes and activations: types, what a retraining        *)
(* repairs, and the table of the knowledge index; and about CausalModel, for   *)
(* any graph: cycles, the order of evaluation, values and advice.             *)
(***************************************************************************)
EXTENDS KnowledgeIndex, FiniteSetTheorems, TLAPS

-----------------------------------------------------------------------------
(* Types.  A step uses what earlier steps of its request have put into its     *)
(* process, its local variables and the files.                               *)

Filled == [of : SUBSET Data, cut : BOOLEAN]

Known(t) ==
  /\ pc[t] = "install" => loc[t].spec \in SpecId
  /\ pc[t] \notin {"idle", "read", "install"} => spec[Home[t]] \in SpecId
  /\ pc[t] \in {"ground", "model", "init", "data", "pkl", "load", "build"} =>
       loc[t].kind = "tool"
  /\ pc[t] \in {"data", "gen", "open", "csv", "pkl", "train", "dump", "pickle", "load",
                "build"} /\ loc[t].kind = "tool" => loc[t].init \in SpecId
  /\ pc[t] \in {"open", "csv", "dump", "pickle", "build"} => loc[t].data \in Data
  /\ pc[t] = "csv" => csv \in Filled
  /\ pc[t] \in {"pickle", "load"} => pkl \in Filled
DInv == DomainTypeOK /\ \A t \in Thread : Known(t)

\* A request that ends leaves its thread nothing to know.
LEMMA NoRequestType == \A k \in Kind : NoRequest(k) \in Request
BY DEF NoRequest, Request

LEMMA FirstStepType == \A k \in Kind : FirstStep(k) \in {"ground", "gen", "train", "embed", "count"}
BY DEF FirstStep, Kind

LEMMA ParsedType == \A s : Parsed(s) \in SpecId
BY SpecAssumption DEF Parsed

\* What is read from a file is data, as long as the file has been opened once.
LEMMA HeldType ==
  ASSUME NEW file \in Filled, NEW writers
  PROVE  Held(file, writers) \in Data
<1>1. CASE Whole(file, writers)
  <2>1. file.of # {}
    BY <1>1, FS_EmptySet DEF Whole, Filled
  <2> QED
    BY <1>1, <2>1 DEF Held, Filled
<1>2. CASE ~Whole(file, writers)
  BY <1>2 DEF Held, Data
<1> QED
  BY <1>1, <1>2

LEMMA OpenedType ==
  ASSUME NEW file \in File, NEW content \in Data, NEW writers,
         writers # {} => file \in Filled
  PROVE  Opened(file, content, writers) \in Filled
BY DEF Opened, Filled, File

\* A step of one thread, which takes nothing from the others.
LEMMA StepType ==
  ASSUME DInv, NEW t \in Thread, NEW x \in At, NEW r \in Request,
         pc' = [pc EXCEPT ![t] = x], loc' = [loc EXCEPT ![t] = r],
         \A p \in Proc : spec[p] \in SpecId => spec'[p] \in SpecId,
         csv \in Filled => csv' \in Filled, pkl \in Filled => pkl' \in Filled,
         Known(t)'
  PROVE  pc' \in [Thread -> At] /\ loc' \in [Thread -> Request] /\ \A u \in Thread : Known(u)'
<1>1. pc \in [Thread -> At] /\ loc \in [Thread -> Request]
  BY DEF DInv, DomainTypeOK
<1>2. ASSUME NEW u \in Thread, u # t PROVE Known(u)'
  <2>1. Known(u) /\ pc'[u] = pc[u] /\ loc'[u] = loc[u]
    BY <1>1, <1>2 DEF DInv
  <2>2. Home[u] \in Proc
    BY DEF Proc
  <2> QED
    BY <2>1, <2>2 DEF Known
<1> QED
  BY <1>1, <1>2

\* The same, with the local variables as they are.
LEMMA StayType ==
  ASSUME DInv, NEW t \in Thread, NEW x \in At,
         pc' = [pc EXCEPT ![t] = x], loc' = loc,
         \A p \in Proc : spec[p] \in SpecId => spec'[p] \in SpecId,
         csv \in Filled => csv' \in Filled, pkl \in Filled => pkl' \in Filled,
         Known(t)'
  PROVE  pc' \in [Thread -> At] /\ loc' \in [Thread -> Request] /\ \A u \in Thread : Known(u)'
<1>1. loc \in [Thread -> Request]
  BY DEF DInv, DomainTypeOK
<1>2. loc' = [loc EXCEPT ![t] = loc[t]] /\ loc[t] \in Request
  BY <1>1
<1> QED
  BY <1>2, StepType

\* The end of a request.
LEMMA EndType ==
  ASSUME DInv, NEW t \in Thread, End(t),
         \A p \in Proc : spec[p] \in SpecId => spec'[p] \in SpecId,
         csv \in Filled => csv' \in Filled, pkl \in Filled => pkl' \in Filled
  PROVE  pc' \in [Thread -> At] /\ loc' \in [Thread -> Request] /\ \A u \in Thread : Known(u)'
<1>1. NoRequest("tool") \in Request /\ "idle" \in At
  BY NoRequestType DEF Kind, At
<1>2. pc' = [pc EXCEPT ![t] = "idle"] /\ loc' = [loc EXCEPT ![t] = NoRequest("tool")]
  BY DEF End, Go
<1>3. pc'[t] = "idle"
  BY <1>2 DEF DInv, DomainTypeOK
<1>4. Known(t)'
  BY <1>3 DEF Known
<1> QED
  BY <1>1, <1>2, <1>4, StepType

\* Every action of the data, the model and the specs keeps the types.
LEMMA DomainTypes ==
  ASSUME DInv, NEW t \in Thread, DomainStep(t)
  PROVE  DInv'
<1>T. /\ active \in SpecId \cup {None} /\ csv \in File /\ pkl \in File
      /\ spec \in [Proc -> SpecId \cup {None}]
      /\ model \in [Proc -> Model \cup {None}]
      /\ settings \in [Proc -> SpecId \cup {None}]
      /\ vocab \in [Proc -> [{Version[s] : s \in SpecId} -> SpecId \cup {None}]]
      /\ pc \in [Thread -> At] /\ loc \in [Thread -> Request]
      /\ alone \in [Thread -> BOOLEAN] /\ repair \in 0..2
      /\ requests \in 0..MaxRequests /\ activations \in 0..MaxActivations
      /\ faults \in 0..MaxFaults
  BY DEF DInv, DomainTypeOK
<1>K. Known(t) /\ loc[t] \in Request /\ Home[t] \in Proc /\ Yaml \in SpecId
  BY <1>T, SpecAssumption DEF DInv, Proc
<1>F. File = Filled \cup {None} /\ None \notin Filled
  BY FileAssumption DEF File, Filled
<1>n. MaxFaults \in Nat
  BY BoundAssumption
<1>f. Fault \/ NoFault => faults' \in 0..MaxFaults
  BY <1>T, <1>n DEF Fault, NoFault
<1>e. SpecId \subseteq Data
  BY DEF Data
<1>1. CASE ReadSpec(t)
  <2>1. \E s \in SpecId : loc' = [loc EXCEPT ![t].spec = s]
    BY <1>1, <1>K, ParsedType DEF ReadSpec
  <2>2. PICK s \in SpecId : loc' = [loc EXCEPT ![t].spec = s]
    BY <2>1
  <2> DEFINE r == [loc[t] EXCEPT !.spec = s]
  <2>3. r \in Request /\ r.spec = s
    BY <1>K DEF Request
  <2>4. pc' = [pc EXCEPT ![t] = "install"] /\ "install" \in At /\ loc' = [loc EXCEPT ![t] = r]
        /\ UNCHANGED <<shared, alone, repair, requests, activations>>
    BY <1>1, <2>2 DEF ReadSpec, Go, At
  <2>5. Known(t)'
    BY <1>T, <2>3, <2>4 DEF Known
  <2> HIDE DEF r
  <2>6. \A p \in Proc : spec[p] \in SpecId => spec'[p] \in SpecId
    BY <2>4 DEF shared
  <2>7. UNCHANGED <<csv, pkl>>
    BY <2>4 DEF shared
  <2>8. pc' \in [Thread -> At] /\ loc' \in [Thread -> Request] /\ \A u \in Thread : Known(u)'
    BY <2>3, <2>4, <2>5, <2>6, <2>7, StepType
  <2> QED
    BY <1>1, <1>T, <1>f, <2>4, <2>8 DEF ReadSpec, DInv, DomainTypeOK, shared
<1>2. CASE InstallSpec(t)
  <2>1. loc[t].spec \in SpecId /\ loc[t].kind \in Kind
    BY <1>2, <1>K DEF InstallSpec, Known, Request
  <2>2. FirstStep(loc[t].kind) \in {"ground", "gen", "train", "embed", "count"}
    BY <2>1, FirstStepType
  <2>3. FirstStep(loc[t].kind) \in At
    BY <2>2 DEF At
  <2>4. spec' = [spec EXCEPT ![Home[t]] = loc[t].spec]
    BY <1>2 DEF InstallSpec
  <2>5. \A p \in Proc : spec[p] \in SpecId => spec'[p] \in SpecId
    BY <1>T, <1>K, <2>1, <2>4
  <2>6. spec' \in [Proc -> SpecId \cup {None}] /\ spec'[Home[t]] \in SpecId
    BY <1>T, <1>K, <2>1, <2>4
  <2>7. pc' = [pc EXCEPT ![t] = FirstStep(loc[t].kind)] /\ loc' = loc /\ UNCHANGED <<csv, pkl>>
    BY <1>2 DEF InstallSpec, Go
  <2>8. loc[t].kind = "tool" <=> FirstStep(loc[t].kind) = "ground"
    <3>1. \A k \in Kind : k = "tool" <=> FirstStep(k) = "ground"
      BY DEF FirstStep, Kind
    <3> QED
      BY <2>1, <3>1
  <2>9. Known(t)'
    BY <1>T, <2>2, <2>6, <2>7, <2>8 DEF Known
  <2>10. pc' \in [Thread -> At] /\ loc' \in [Thread -> Request] /\ \A u \in Thread : Known(u)'
    BY <2>3, <2>5, <2>7, <2>9, StayType
  <2> QED
    BY <1>2, <1>T, <2>6, <2>10 DEF InstallSpec, DInv, DomainTypeOK, counters
<1>3. CASE Ground(t)
  <2> DEFINE p == Home[t]
             v == Version[spec[p]]
             word == IF vocab[p][v] = None THEN spec[p] ELSE vocab[p][v]
  <2>1. spec[p] \in SpecId
    BY <1>3, <1>K DEF Ground, Known
  <2>2. v \in {Version[s] : s \in SpecId}
    BY <2>1
  <2>3. word \in SpecId \cup {None}
    BY <1>T, <1>K, <2>1, <2>2
  <2>4. vocab' = [vocab EXCEPT ![p][v] = word]
    BY <1>3 DEF Ground
  <2> HIDE DEF p, v, word
  <2>5. vocab' \in [Proc -> [{Version[s] : s \in SpecId} -> SpecId \cup {None}]]
    BY <1>T, <2>2, <2>3, <2>4
  <2>6. pc' = [pc EXCEPT ![t] = "model"] /\ loc' = loc /\ UNCHANGED <<csv, pkl, spec>>
    BY <1>3 DEF Ground, Go
  <2>7. "model" \in At /\ pc'[t] = "model"
    BY <1>T, <2>6 DEF At
  <2>8. Known(t)'
    BY <1>3, <1>K, <2>1, <2>6, <2>7 DEF Ground, Known, p
  <2>9. pc' \in [Thread -> At] /\ loc' \in [Thread -> Request] /\ \A u \in Thread : Known(u)'
    BY <2>6, <2>7, <2>8, StayType
  <2> QED
    BY <1>3, <1>T, <2>5, <2>9 DEF Ground, DInv, DomainTypeOK, counters
<1>4. CASE CheckModel(t)
  <2> DEFINE x == IF model[Home[t]] = None THEN "init" ELSE "return"
  <2>1. x \in At /\ x \in {"init", "return"}
    BY DEF At
  <2>2. pc' = [pc EXCEPT ![t] = x] /\ loc' = loc /\ UNCHANGED <<shared, alone, repair, counters>>
    BY <1>4 DEF CheckModel, Go
  <2>3. Known(t)'
    BY <1>4, <1>T, <1>K, <2>1, <2>2 DEF CheckModel, Known, shared
  <2> HIDE DEF x
  <2>4. pc' \in [Thread -> At] /\ loc' \in [Thread -> Request] /\ \A u \in Thread : Known(u)'
    BY <2>1, <2>2, <2>3, StayType DEF shared
  <2> QED
    BY <1>T, <2>2, <2>4 DEF DInv, DomainTypeOK, counters, shared
<1>5. CASE InitModel(t)
  <2> DEFINE r == [loc[t] EXCEPT !.init = spec[Home[t]]]
  <2>1. spec[Home[t]] \in SpecId
    BY <1>5, <1>K DEF InitModel, Known
  <2>2. r \in Request /\ r.init = spec[Home[t]] /\ r.kind = loc[t].kind
    BY <1>K, <2>1 DEF Request
  <2>3. pc' = [pc EXCEPT ![t] = "data"] /\ loc' = [loc EXCEPT ![t] = r]
        /\ UNCHANGED <<shared, alone, repair, counters>> /\ "data" \in At
    BY <1>5 DEF InitModel, Go, At, counters
  <2>4. loc[t].kind = "tool"
    BY <1>5, <1>K DEF InitModel, Known
  <2>5. Known(t)'
    BY <1>T, <2>1, <2>2, <2>3, <2>4 DEF Known, shared
  <2> HIDE DEF r
  <2>6. pc' \in [Thread -> At] /\ loc' \in [Thread -> Request] /\ \A u \in Thread : Known(u)'
    BY <2>2, <2>3, <2>5, StepType DEF shared
  <2> QED
    BY <1>T, <2>3, <2>6 DEF DInv, DomainTypeOK, counters, shared
<1>6. CASE EnsureData(t)
  <2> DEFINE x == IF csv = None THEN "gen" ELSE "pkl"
  <2>1. x \in At /\ x \in {"gen", "pkl"}
    BY DEF At
  <2>2. pc' = [pc EXCEPT ![t] = x] /\ loc' = loc /\ UNCHANGED <<shared, alone, repair, counters>>
    BY <1>6 DEF EnsureData, Go
  <2>3. Known(t)'
    BY <1>6, <1>T, <1>K, <2>1, <2>2 DEF EnsureData, Known, shared
  <2> HIDE DEF x
  <2>4. pc' \in [Thread -> At] /\ loc' \in [Thread -> Request] /\ \A u \in Thread : Known(u)'
    BY <2>1, <2>2, <2>3, StayType DEF shared
  <2> QED
    BY <1>T, <2>2, <2>4 DEF DInv, DomainTypeOK, counters, shared
<1>7. CASE EnsureModel(t)
  <2> DEFINE x == IF pkl = None THEN "train" ELSE "load"
  <2>1. x \in At /\ x \in {"train", "load"} /\ (x = "load" => pkl \in Filled)
    BY <1>T, <1>F DEF At
  <2>2. pc' = [pc EXCEPT ![t] = x] /\ loc' = loc /\ UNCHANGED <<shared, alone, repair, counters>>
    BY <1>7 DEF EnsureModel, Go
  <2>3. Known(t)'
    BY <1>7, <1>T, <1>K, <2>1, <2>2 DEF EnsureModel, Known, shared
  <2> HIDE DEF x
  <2>4. pc' \in [Thread -> At] /\ loc' \in [Thread -> Request] /\ \A u \in Thread : Known(u)'
    BY <2>1, <2>2, <2>3, StayType DEF shared
  <2> QED
    BY <1>T, <2>2, <2>4 DEF DInv, DomainTypeOK, counters, shared
<1>8. CASE Generate(t)
  <2> DEFINE r == [loc[t] EXCEPT !.data = spec[Home[t]]]
  <2>1. spec[Home[t]] \in SpecId
    BY <1>8, <1>K DEF Generate, Known
  <2>2. r \in Request /\ r.data \in Data /\ r.kind = loc[t].kind /\ r.init = loc[t].init
    BY <1>K, <1>e, <2>1 DEF Request
  <2>3. pc' = [pc EXCEPT ![t] = "open"] /\ loc' = [loc EXCEPT ![t] = r]
        /\ UNCHANGED <<shared, alone, repair, counters>> /\ "open" \in At
    BY <1>8 DEF Generate, Go, At, counters
  <2>4. Known(t)'
    BY <1>8, <1>T, <1>K, <2>1, <2>2, <2>3 DEF Generate, Known, shared
  <2> HIDE DEF r
  <2>5. pc' \in [Thread -> At] /\ loc' \in [Thread -> Request] /\ \A u \in Thread : Known(u)'
    BY <2>2, <2>3, <2>4, StepType DEF shared
  <2> QED
    BY <1>T, <2>3, <2>5 DEF DInv, DomainTypeOK, counters, shared
<1>9. CASE OpenCsv(t)
  <2>1. loc[t].data \in Data /\ spec[Home[t]] \in SpecId
    BY <1>9, <1>K DEF OpenCsv, Known
  <2>2. Writing("csv") # {} => csv \in Filled
    <3>1. \A u \in Thread : pc[u] = "csv" => csv \in Filled
      BY DEF DInv, Known
    <3> QED
      BY <3>1 DEF Writing
  <2>3. csv' \in Filled
    BY <1>9, <1>T, <2>1, <2>2, OpenedType DEF OpenCsv
  <2>4. pc' = [pc EXCEPT ![t] = "csv"] /\ loc' = loc /\ UNCHANGED <<spec, pkl>> /\ "csv" \in At
    BY <1>9 DEF OpenCsv, Go, At
  <2>5. Known(t)'
    BY <1>9, <1>T, <1>K, <2>1, <2>3, <2>4 DEF OpenCsv, Known
  <2>6. pc' \in [Thread -> At] /\ loc' \in [Thread -> Request] /\ \A u \in Thread : Known(u)'
    BY <2>3, <2>4, <2>5, StayType
  <2>7. csv' \in File /\ repair' \in 0..2
    BY <1>9, <1>F, <2>3 DEF OpenCsv
  <2>8. UNCHANGED <<active, pkl, spec, model, settings, vocab, alone, counters>>
    BY <1>9 DEF OpenCsv
  <2> QED
    BY <1>T, <2>6, <2>7, <2>8 DEF DInv, DomainTypeOK, counters
<1>10. CASE CloseCsv(t)
  <2>1. UNCHANGED <<shared, alone, counters>> /\ repair' \in 0..2
    BY <1>10, <1>T DEF CloseCsv
  <2>2. CASE loc[t].kind = "tool"
    <3>1. pc' = [pc EXCEPT ![t] = "pkl"] /\ loc' = loc /\ "pkl" \in At
      BY <1>10, <2>2 DEF CloseCsv, Go, At
    <3>2. Known(t)'
      BY <1>10, <1>T, <1>K, <2>1, <2>2, <3>1 DEF CloseCsv, Known, shared
    <3>3. pc' \in [Thread -> At] /\ loc' \in [Thread -> Request] /\ \A u \in Thread : Known(u)'
      BY <2>1, <3>1, <3>2, StayType DEF shared
    <3> QED
      BY <1>T, <2>1, <3>3 DEF DInv, DomainTypeOK, counters, shared
  <2>3. CASE loc[t].kind # "tool"
    <3>1. End(t)
      BY <1>10, <2>3 DEF CloseCsv
    <3>2. pc' \in [Thread -> At] /\ loc' \in [Thread -> Request] /\ \A u \in Thread : Known(u)'
      BY <2>1, <3>1, EndType DEF shared
    <3> QED
      BY <1>T, <2>1, <3>2 DEF DInv, DomainTypeOK, counters, shared
  <2> QED
    BY <2>2, <2>3
<1>11. CASE Train(t)
  <2>1. UNCHANGED <<shared, alone, repair, counters>>
    BY <1>11 DEF Train
  <2>2. CASE End(t)
    <3>1. pc' \in [Thread -> At] /\ loc' \in [Thread -> Request] /\ \A u \in Thread : Known(u)'
      BY <2>1, <2>2, EndType DEF shared
    <3> QED
      BY <1>T, <2>1, <3>1 DEF DInv, DomainTypeOK, counters, shared
  <2>3. CASE /\ csv # None
             /\ loc' = [loc EXCEPT ![t].data = Held(csv, Writing("csv"))]
             /\ Go(t, "dump")
    <3> DEFINE d == Held(csv, Writing("csv"))
               r == [loc[t] EXCEPT !.data = d]
    <3>1. d \in Data
      BY <1>T, <1>F, <2>3, HeldType
    <3> HIDE DEF d
    <3>2. r \in Request /\ r.data \in Data /\ r.kind = loc[t].kind /\ r.init = loc[t].init
      BY <1>K, <3>1 DEF Request
    <3>3. pc' = [pc EXCEPT ![t] = "dump"] /\ loc' = [loc EXCEPT ![t] = r] /\ "dump" \in At
      BY <2>3 DEF Go, At, d
    <3>4. Known(t)'
      BY <1>11, <1>T, <1>K, <2>1, <3>2, <3>3 DEF Train, Known, shared
    <3> HIDE DEF r
    <3>5. pc' \in [Thread -> At] /\ loc' \in [Thread -> Request] /\ \A u \in Thread : Known(u)'
      BY <2>1, <3>2, <3>3, <3>4, StepType DEF shared
    <3> QED
      BY <1>T, <2>1, <3>5 DEF DInv, DomainTypeOK, counters, shared
  <2> QED
    BY <1>11, <2>2, <2>3 DEF Train
<1>12. CASE OpenPkl(t)
  <2>1. loc[t].data \in Data /\ spec[Home[t]] \in SpecId
    BY <1>12, <1>K DEF OpenPkl, Known
  <2>2. Writing("pickle") # {} => pkl \in Filled
    <3>1. \A u \in Thread : pc[u] = "pickle" => pkl \in Filled
      BY DEF DInv, Known
    <3> QED
      BY <3>1 DEF Writing
  <2>3. pkl' \in Filled
    BY <1>12, <1>T, <2>1, <2>2, OpenedType DEF OpenPkl
  <2>4. pc' = [pc EXCEPT ![t] = "pickle"] /\ loc' = loc /\ UNCHANGED <<spec, csv>>
        /\ "pickle" \in At
    BY <1>12 DEF OpenPkl, Go, At
  <2>5. Known(t)'
    BY <1>12, <1>T, <1>K, <2>1, <2>3, <2>4 DEF OpenPkl, Known
  <2>6. pc' \in [Thread -> At] /\ loc' \in [Thread -> Request] /\ \A u \in Thread : Known(u)'
    BY <2>3, <2>4, <2>5, StayType
  <2>7. pkl' \in File /\ repair' \in 0..2
    BY <1>12, <1>F, <1>T, <2>3 DEF OpenPkl
  <2>8. UNCHANGED <<active, csv, spec, model, settings, vocab, alone, counters>>
    BY <1>12 DEF OpenPkl
  <2> QED
    BY <1>T, <2>6, <2>7, <2>8 DEF DInv, DomainTypeOK, counters
<1>13. CASE ClosePkl(t)
  <2> DEFINE x == IF loc[t].kind = "tool" THEN "load" ELSE "reset"
  <2>1. x \in At /\ x \in {"load", "reset"} /\ (x = "load" => loc[t].kind = "tool")
    BY DEF At
  <2>2. pc' = [pc EXCEPT ![t] = x] /\ loc' = loc /\ UNCHANGED <<shared, alone, repair, counters>>
    BY <1>13 DEF ClosePkl, Go
  <2>3. Known(t)'
    BY <1>13, <1>T, <1>K, <2>1, <2>2 DEF ClosePkl, Known, shared
  <2> HIDE DEF x
  <2>4. pc' \in [Thread -> At] /\ loc' \in [Thread -> Request] /\ \A u \in Thread : Known(u)'
    BY <2>1, <2>2, <2>3, StayType DEF shared
  <2> QED
    BY <1>T, <2>2, <2>4 DEF DInv, DomainTypeOK, counters, shared
<1>14. CASE LoadModel(t)
  <2>1. UNCHANGED <<shared, alone, repair, counters>>
    BY <1>14 DEF LoadModel
  <2>2. CASE End(t)
    <3>1. pc' \in [Thread -> At] /\ loc' \in [Thread -> Request] /\ \A u \in Thread : Known(u)'
      BY <2>1, <2>2, EndType DEF shared
    <3> QED
      BY <1>T, <2>1, <3>1 DEF DInv, DomainTypeOK, counters, shared
  <2>3. CASE /\ loc' = [loc EXCEPT ![t].data = Held(pkl, Writing("pickle"))]
             /\ Go(t, "build")
    <3> DEFINE d == Held(pkl, Writing("pickle"))
               r == [loc[t] EXCEPT !.data = d]
    <3>1. d \in Data
      BY <1>14, <1>K, HeldType DEF LoadModel, Known
    <3> HIDE DEF d
    <3>2. r \in Request /\ r.data \in Data /\ r.kind = loc[t].kind /\ r.init = loc[t].init
      BY <1>K, <3>1 DEF Request
    <3>3. pc' = [pc EXCEPT ![t] = "build"] /\ loc' = [loc EXCEPT ![t] = r] /\ "build" \in At
      BY <2>3 DEF Go, At, d
    <3>4. Known(t)'
      BY <1>14, <1>T, <1>K, <2>1, <3>2, <3>3 DEF LoadModel, Known, shared
    <3> HIDE DEF r
    <3>5. pc' \in [Thread -> At] /\ loc' \in [Thread -> Request] /\ \A u \in Thread : Known(u)'
      BY <2>1, <3>2, <3>3, <3>4, StepType DEF shared
    <3> QED
      BY <1>T, <2>1, <3>5 DEF DInv, DomainTypeOK, counters, shared
  <2> QED
    BY <1>14, <2>2, <2>3 DEF LoadModel
<1>15. CASE BuildGraph(t)
  <2> DEFINE m == [spec |-> loc[t].init, data |-> loc[t].data, graph |-> spec[Home[t]]]
  <2>1. m \in Model
    BY <1>15, <1>K DEF BuildGraph, Known, Model
  <2>2. model' = [model EXCEPT ![Home[t]] = m]
    BY <1>15 DEF BuildGraph
  <2> HIDE DEF m
  <2>3. model' \in [Proc -> Model \cup {None}]
    BY <1>T, <2>1, <2>2
  <2>4. pc' = [pc EXCEPT ![t] = "return"] /\ loc' = loc /\ UNCHANGED <<spec, csv, pkl>>
        /\ "return" \in At
    BY <1>15 DEF BuildGraph, Go, At
  <2>5. Known(t)'
    BY <1>15, <1>T, <1>K, <2>4 DEF BuildGraph, Known
  <2>6. pc' \in [Thread -> At] /\ loc' \in [Thread -> Request] /\ \A u \in Thread : Known(u)'
    BY <2>4, <2>5, StayType
  <2>7. UNCHANGED <<active, csv, pkl, spec, settings, vocab, alone, repair, counters>>
    BY <1>15 DEF BuildGraph
  <2> QED
    BY <1>T, <2>3, <2>6, <2>7 DEF DInv, DomainTypeOK, counters
<1>16. CASE ReturnModel(t)
  <2>1. UNCHANGED <<shared, alone, repair, counters>>
    BY <1>16 DEF ReturnModel
  <2>2. CASE End(t)
    <3>1. pc' \in [Thread -> At] /\ loc' \in [Thread -> Request] /\ \A u \in Thread : Known(u)'
      BY <2>1, <2>2, EndType DEF shared
    <3> QED
      BY <1>T, <2>1, <3>1 DEF DInv, DomainTypeOK, counters, shared
  <2>3. CASE Go(t, "settings") /\ UNCHANGED loc
    <3>1. pc' = [pc EXCEPT ![t] = "settings"] /\ loc' = loc /\ "settings" \in At
      BY <2>3 DEF Go, At
    <3>2. Known(t)'
      BY <1>16, <1>T, <1>K, <2>1, <3>1 DEF ReturnModel, Known, shared
    <3>3. pc' \in [Thread -> At] /\ loc' \in [Thread -> Request] /\ \A u \in Thread : Known(u)'
      BY <2>1, <3>1, <3>2, StayType DEF shared
    <3> QED
      BY <1>T, <2>1, <3>3 DEF DInv, DomainTypeOK, counters, shared
  <2> QED
    BY <1>16, <2>2, <2>3 DEF ReturnModel
<1>17. CASE RunScenarios(t)
  <2>1. spec[Home[t]] \in SpecId
    BY <1>17, <1>K DEF RunScenarios, Known
  <2>2. settings' \in [Proc -> SpecId \cup {None}]
    BY <1>17, <1>T, <1>K, <2>1 DEF RunScenarios
  <2>3. UNCHANGED <<active, csv, pkl, spec, model, vocab, alone, repair, counters>> /\ End(t)
    BY <1>17 DEF RunScenarios
  <2>4. pc' \in [Thread -> At] /\ loc' \in [Thread -> Request] /\ \A u \in Thread : Known(u)'
    BY <2>3, EndType
  <2> QED
    BY <1>T, <2>2, <2>3, <2>4 DEF DInv, DomainTypeOK, counters
<1>18. CASE ResetModel(t)
  <2>1. model' \in [Proc -> Model \cup {None}]
    BY <1>18, <1>T DEF ResetModel
  <2>r. repair' \in 0..2
    <3>1. repair' = 2 \/ repair' = 0
      BY <1>18 DEF ResetModel
    <3> QED
      BY <3>1
  <2>2. UNCHANGED <<active, csv, pkl, spec, settings, vocab, alone, counters>> /\ End(t)
    BY <1>18 DEF ResetModel
  <2>3. pc' \in [Thread -> At] /\ loc' \in [Thread -> Request] /\ \A u \in Thread : Known(u)'
    BY <2>2, EndType
  <2> QED
    BY <1>T, <2>1, <2>r, <2>2, <2>3 DEF DInv, DomainTypeOK, counters
<1> QED
  BY <1>1, <1>2, <1>3, <1>4, <1>5, <1>6, <1>7, <1>8, <1>9, <1>10, <1>11, <1>12, <1>13,
     <1>14, <1>15, <1>16, <1>17, <1>18 DEF DomainStep

\* A thread at the knowledge index has asked for it, and its process has a spec.
Index == {"count", "embed", "delete", "lock", "insert", "search", "fallback", "faiss"}

LEMMA IndexStep ==
  ASSUME DInv, NEW t \in Thread, pc[t] \in Index, NEW x \in Index,
         pc' = [pc EXCEPT ![t] = x], NEW r \in Request, loc' = [loc EXCEPT ![t] = r],
         UNCHANGED rest, Fault \/ NoFault
  PROVE  DInv'
<1>T. /\ DomainTypeOK /\ Known(t) /\ pc \in [Thread -> At] /\ loc \in [Thread -> Request]
      /\ faults \in 0..MaxFaults
  BY DEF DInv, DomainTypeOK
<1>1. x \in At /\ pc'[t] = x /\ UNCHANGED <<spec, csv, pkl>>
  BY <1>T DEF Index, At, rest, shared
<1>2. spec[Home[t]] \in SpecId
  BY <1>T DEF Known, Index
<1>3. Known(t)'
  BY <1>1, <1>2 DEF Known, Index
<1>4. pc' \in [Thread -> At] /\ loc' \in [Thread -> Request] /\ \A u \in Thread : Known(u)'
  BY <1>1, <1>3, StepType
<1>5. MaxFaults \in Nat
  BY BoundAssumption
<1>6. faults' \in 0..MaxFaults
  BY <1>T, <1>5 DEF Fault, NoFault
<1> QED
  BY <1>T, <1>4, <1>6 DEF DInv, DomainTypeOK, rest, shared

LEMMA IndexEnd ==
  ASSUME DInv, NEW t \in Thread, End(t), UNCHANGED rest, Fault \/ NoFault
  PROVE  DInv'
<1>T. DomainTypeOK /\ faults \in 0..MaxFaults /\ MaxFaults \in Nat
  BY BoundAssumption DEF DInv, DomainTypeOK
<1>1. UNCHANGED <<spec, csv, pkl>>
  BY DEF rest, shared
<1>2. pc' \in [Thread -> At] /\ loc' \in [Thread -> Request] /\ \A u \in Thread : Known(u)'
  BY <1>1, EndType
<1>3. faults' \in 0..MaxFaults
  BY <1>T DEF Fault, NoFault
<1> QED
  BY <1>T, <1>2, <1>3 DEF DInv, DomainTypeOK, rest, shared

\* What a step of the index does to the rest: it ends the request or goes on within
\* the index, and touches nothing else of the state.
Indexing(t) ==
  /\ pc[t] \in Index
  /\ UNCHANGED rest /\ (Fault \/ NoFault)
  /\ \/ End(t)
     \/ \E x \in Index : Go(t, x) /\ UNCHANGED loc
     \/ \E x \in Index : Go(t, x) /\ loc' = [loc EXCEPT ![t].falling = TRUE]

LEMMA IndexActions ==
  ASSUME NEW t \in Thread, KnowledgeStep(t)
  PROVE  Indexing(t)
<1>s. UNCHANGED faults => NoFault
  BY DEF NoFault
<1>1. CASE CountDocs(t)
  <2>1. pc[t] \in Index /\ UNCHANGED rest /\ (Fault \/ NoFault) /\ UNCHANGED loc
    BY <1>1 DEF CountDocs, Index
  <2>2. Go(t, "search") \/ Go(t, "embed")
    BY <1>1 DEF CountDocs
  <2>3. \E x \in Index : Go(t, x)
    BY <2>2 DEF Index
  <2> QED
    BY <2>1, <2>3 DEF Indexing
<1>2. CASE Embed(t)
  <2>1. pc[t] \in Index /\ UNCHANGED rest /\ (Fault \/ NoFault)
    BY <1>2 DEF Embed, Index
  <2>2. (Go(t, "delete") /\ UNCHANGED loc) \/ (Go(t, "search") /\ UNCHANGED loc) \/ End(t)
    BY <1>2 DEF Embed, BuildFails
  <2>3. End(t) \/ \E x \in Index : Go(t, x) /\ UNCHANGED loc
    BY <2>2 DEF Index
  <2> QED
    BY <2>1, <2>3 DEF Indexing
<1>3. CASE Delete(t)
  <2>1. pc[t] \in Index /\ UNCHANGED <<rest, faults, loc>> /\ Go(t, "lock") /\ "lock" \in Index
    BY <1>3 DEF Delete, Index
  <2> QED
    BY <1>s, <2>1 DEF Indexing
<1>4. CASE Lock(t)
  <2>1. pc[t] \in Index /\ UNCHANGED <<rest, faults, loc>> /\ Go(t, "insert")
        /\ "insert" \in Index
    BY <1>4 DEF Lock, Index
  <2> QED
    BY <1>s, <2>1 DEF Indexing
<1>5. CASE Insert(t)
  <2>1. pc[t] \in Index /\ UNCHANGED rest /\ (Fault \/ NoFault)
    BY <1>5 DEF Insert, Index
  <2>2. \/ End(t)
        \/ Go(t, "faiss") /\ UNCHANGED loc
        \/ Go(t, "search") /\ UNCHANGED loc
    BY <1>5 DEF Insert, BuildFails
  <2>3. End(t) \/ \E x \in Index : Go(t, x) /\ UNCHANGED loc
    BY <2>2 DEF Index
  <2> QED
    BY <2>1, <2>3 DEF Indexing
<1>6. CASE Search(t)
  <2>1. pc[t] \in Index /\ UNCHANGED rest /\ (Fault \/ NoFault)
    BY <1>6 DEF Search, Index
  <2>2. End(t) \/ (Go(t, "fallback") /\ UNCHANGED loc)
    BY <1>6 DEF Search
  <2>3. End(t) \/ \E x \in Index : Go(t, x) /\ UNCHANGED loc
    BY <2>2 DEF Index
  <2> QED
    BY <2>1, <2>3 DEF Indexing
<1>7. CASE Fallback(t)
  <2>1. pc[t] \in Index /\ UNCHANGED <<rest, faults>>
    BY <1>7 DEF Fallback, Index
  <2>2. \/ End(t)
        \/ Go(t, "faiss") /\ UNCHANGED loc
        \/ Go(t, "embed") /\ loc' = [loc EXCEPT ![t].falling = TRUE]
    BY <1>7 DEF Fallback
  <2>3. "faiss" \in Index /\ "embed" \in Index
    BY DEF Index
  <2> QED
    BY <1>s, <2>1, <2>2, <2>3 DEF Indexing
<1>8. CASE LoadFaiss(t)
  <2>1. pc[t] \in Index /\ UNCHANGED <<rest, faults>> /\ End(t)
    BY <1>8 DEF LoadFaiss, Index
  <2> QED
    BY <1>s, <2>1 DEF Indexing
<1> QED
  BY <1>1, <1>2, <1>3, <1>4, <1>5, <1>6, <1>7, <1>8 DEF KnowledgeStep

LEMMA IndexTypes ==
  ASSUME DInv, NEW t \in Thread, Indexing(t)
  PROVE  DInv'
<1>T. loc \in [Thread -> Request] /\ loc[t] \in Request
  BY DEF DInv, DomainTypeOK
<1>a. pc[t] \in Index /\ UNCHANGED rest /\ (Fault \/ NoFault)
  BY DEF Indexing
<1>1. CASE End(t)
  BY <1>1, <1>a, IndexEnd
<1>2. ASSUME NEW x \in Index, Go(t, x), UNCHANGED loc PROVE DInv'
  <2>1. pc' = [pc EXCEPT ![t] = x] /\ loc' = [loc EXCEPT ![t] = loc[t]]
    BY <1>T, <1>2 DEF Go
  <2> QED
    BY <1>a, <1>T, <2>1, IndexStep
<1>3. ASSUME NEW x \in Index, Go(t, x), loc' = [loc EXCEPT ![t].falling = TRUE] PROVE DInv'
  <2> DEFINE r == [loc[t] EXCEPT !.falling = TRUE]
  <2>1. pc' = [pc EXCEPT ![t] = x] /\ loc' = [loc EXCEPT ![t] = r]
    BY <1>3 DEF Go
  <2>2. r \in Request
    BY <1>T DEF Request
  <2> HIDE DEF r
  <2> QED
    BY <1>a, <2>1, <2>2, IndexStep
<1> QED
  BY <1>1, <1>2, <1>3 DEF Indexing

LEMMA StartTypes ==
  ASSUME DInv, NEW t \in Thread, NEW k \in Kind, Start(t, k)
  PROVE  DInv'
<1>T. /\ DomainTypeOK /\ pc \in [Thread -> At] /\ loc \in [Thread -> Request]
      /\ alone \in [Thread -> BOOLEAN] /\ requests \in 0..MaxRequests
      /\ spec \in [Proc -> SpecId \cup {None}] /\ Home[t] \in Proc
  BY DEF DInv, DomainTypeOK, Proc
<1> DEFINE x == IF k \in Button \/ spec[Home[t]] = None THEN "read" ELSE FirstStep(k)
           r == NoRequest(k)
<1>1. FirstStep(k) \in {"ground", "gen", "train", "embed", "count"}
  BY FirstStepType
<1>2. x \in At /\ x \in {"read", "ground", "gen", "train", "embed", "count"}
  BY <1>1 DEF At
<1>3. r \in Request /\ r.kind = k
  BY NoRequestType DEF NoRequest
<1>4. pc' = [pc EXCEPT ![t] = x] /\ loc' = [loc EXCEPT ![t] = r]
      /\ UNCHANGED <<shared, repair, activations, faults>> /\ requests' = requests + 1
      /\ requests < MaxRequests
  BY DEF Start, Go
<1>5. x # "read" => spec[Home[t]] \in SpecId /\ k \notin Button
  BY <1>T
<1>6. (x = "ground" => k = "tool") /\ (x \in {"gen", "train"} => k \in Button)
  <2>1. /\ FirstStep(k) = "ground" => k = "tool"
        /\ FirstStep(k) \in {"gen", "train"} => k \in Button
    BY DEF FirstStep, Kind, Button
  <2> QED
    BY <2>1
<1>7. Known(t)'
  BY <1>T, <1>2, <1>3, <1>4, <1>5, <1>6 DEF Known, shared
<1>8. requests' \in 0..MaxRequests
  BY <1>T, <1>4, BoundAssumption
<1>9. alone' \in [Thread -> BOOLEAN]
  BY <1>T DEF Start
<1> HIDE DEF x, r
<1>10. pc' \in [Thread -> At] /\ loc' \in [Thread -> Request] /\ \A u \in Thread : Known(u)'
  BY <1>2, <1>3, <1>4, <1>7, StepType DEF shared
<1> QED
  BY <1>T, <1>4, <1>8, <1>9, <1>10 DEF DInv, DomainTypeOK, shared

LEMMA ActivateTypes ==
  ASSUME DInv, NEW s \in SpecId, Activate(s)
  PROVE  DInv'
<1>1. activations' \in 0..MaxActivations
  BY BoundAssumption DEF DInv, DomainTypeOK, Activate
<1> QED
  BY <1>1 DEF DInv, DomainTypeOK, Activate, Known

\* The threads of a process that dies are idle; the others know what they did, as a file
\* that is cut is still a file.
LEMMA CrashTypes ==
  ASSUME DInv, NEW p \in Proc, DomainCrash(p)
  PROVE  DInv'
<1> DEFINE cuts(here) == \E t \in Writing(here) : Home[t] = p
<1>T. /\ DomainTypeOK /\ pc \in [Thread -> At] /\ loc \in [Thread -> Request]
      /\ csv \in File /\ pkl \in File
      /\ spec \in [Proc -> SpecId \cup {None}] /\ model \in [Proc -> Model \cup {None}]
      /\ settings \in [Proc -> SpecId \cup {None}] /\ repair \in 0..2
      /\ vocab \in [Proc -> [{Version[s] : s \in SpecId} -> SpecId \cup {None}]]
      /\ faults \in 0..MaxFaults
  BY DEF DInv, DomainTypeOK
<1>F. File = Filled \cup {None} /\ None \notin Filled
  BY FileAssumption DEF File, Filled
<1>1. cuts("csv") => csv \in Filled
  BY DEF DInv, Known, Writing
<1>2. cuts("pickle") => pkl \in Filled
  BY DEF DInv, Known, Writing
<1>3. csv' = IF cuts("csv") THEN [csv EXCEPT !.cut = TRUE] ELSE csv
  BY DEF DomainCrash
<1>4. pkl' = IF cuts("pickle") THEN [pkl EXCEPT !.cut = TRUE] ELSE pkl
  BY DEF DomainCrash
<1>5. (csv \in Filled => csv' \in Filled) /\ (pkl \in Filled => pkl' \in Filled)
  BY <1>3, <1>4 DEF Filled
<1>6. csv' \in File /\ pkl' \in File
  BY <1>T, <1>F, <1>1, <1>2, <1>3, <1>4, <1>5
<1>7. spec' \in [Proc -> SpecId \cup {None}] /\ model' \in [Proc -> Model \cup {None}]
      /\ settings' \in [Proc -> SpecId \cup {None}]
  BY <1>T DEF DomainCrash
<1>8. vocab' \in [Proc -> [{Version[s] : s \in SpecId} -> SpecId \cup {None}]]
  <2> DEFINE none == [v \in DOMAIN vocab[p] |-> None]
  <2>1. none \in [{Version[s] : s \in SpecId} -> SpecId \cup {None}]
    BY <1>T
  <2>2. vocab' = [vocab EXCEPT ![p] = none]
    BY DEF DomainCrash
  <2> HIDE DEF none
  <2> QED
    BY <1>T, <2>1, <2>2
<1>9. repair' \in 0..2
  <2>1. repair' = 0 \/ repair' = repair
    BY DEF DomainCrash
  <2> QED
    BY <1>T, <2>1
<1>10. faults' \in 0..MaxFaults
  BY <1>T, BoundAssumption DEF DomainCrash, Fault
<1>11. NoRequest("tool") \in Request /\ "idle" \in At
  BY NoRequestType DEF Kind, At
<1>12. pc' = [t \in Thread |-> IF Home[t] = p THEN "idle" ELSE pc[t]]
       /\ loc' = [t \in Thread |-> IF Home[t] = p THEN NoRequest("tool") ELSE loc[t]]
       /\ spec' = [spec EXCEPT ![p] = None]
       /\ UNCHANGED <<active, alone, requests, activations>>
  BY DEF DomainCrash
<1>13. pc' \in [Thread -> At] /\ loc' \in [Thread -> Request]
  BY <1>T, <1>11, <1>12
<1>14. ASSUME NEW t \in Thread PROVE Known(t)'
  <2>1. CASE Home[t] = p
    <3>1. pc'[t] = "idle"
      BY <1>12, <2>1
    <3> QED
      BY <3>1 DEF Known
  <2>2. CASE Home[t] # p
    <3>1. pc'[t] = pc[t] /\ loc'[t] = loc[t] /\ spec'[Home[t]] = spec[Home[t]] /\ Known(t)
      BY <1>12, <1>T, <2>2 DEF DInv, Proc
    <3> QED
      BY <1>5, <3>1 DEF Known
  <2> QED
    BY <2>1, <2>2
<1> QED
  BY <1>T, <1>6, <1>7, <1>8, <1>9, <1>10, <1>12, <1>13, <1>14 DEF DInv, DomainTypeOK

LEMMA DInvInit == Init => DInv
<1> SUFFICES ASSUME Init PROVE DInv
  OBVIOUS
<1>1. DomainInit
  BY DEF Init
<1>2. csv \in File /\ pkl \in File
  <2>1. PICK baked \in BOOLEAN :
          LET file == IF baked THEN [of |-> {Yaml}, cut |-> FALSE] ELSE None
          IN csv = file /\ pkl = file
    BY <1>1 DEF DomainInit
  <2> QED
    BY <2>1, SpecAssumption DEF File, Data
<1>3. Yaml \in SpecId /\ MaxRequests \in Nat /\ MaxActivations \in Nat /\ MaxFaults \in Nat
  BY SpecAssumption, BoundAssumption
<1>4. NoRequest("tool") \in Request /\ "idle" \in At
  BY NoRequestType DEF Kind, At
<1>5. DomainTypeOK
  BY <1>1, <1>2, <1>3, <1>4 DEF DomainInit, DomainTypeOK
<1>6. \A t \in Thread : Known(t)
  BY <1>1 DEF DomainInit, Known
<1> QED
  BY <1>5, <1>6 DEF DInv

LEMMA DInvNext == DInv /\ [Next]_vars => DInv'
<1> SUFFICES ASSUME DInv, [Next]_vars PROVE DInv'
  OBVIOUS
<1>1. CASE UNCHANGED vars
  BY <1>1 DEF DInv, DomainTypeOK, Known, vars, dvars, shared, counters
<1>2. ASSUME NEW t \in Thread, Step(t) PROVE DInv'
  BY <1>2, DomainTypes, IndexActions, IndexTypes DEF Step
<1>3. ASSUME NEW t \in Thread, NEW k \in Kind, Start(t, k) PROVE DInv'
  BY <1>3, StartTypes
<1>4. ASSUME NEW s \in SpecId, Activate(s) PROVE DInv'
  BY <1>4, ActivateTypes
<1>5. ASSUME NEW p \in Proc, Crash(p) PROVE DInv'
  BY <1>5, CrashTypes DEF Crash
<1> QED
  BY <1>1, <1>2, <1>3, <1>4, <1>5 DEF Next

THEOREM DInvAlways == Spec => []DInv
BY DInvInit, DInvNext, PTL DEF Spec

\* The types of everything that tool calls and admin buttons share and keep
\* (spec/spec_loader.py:391, agents/tools.py:41): a request never uses what its process
\* does not have, whichever processes die and whoever renews what meanwhile.
THEOREM DomainTypesAlways == Spec => []DomainTypeOK
BY DInvAlways, PTL DEF DInv

-----------------------------------------------------------------------------
(* What a retraining repairs.  A request that is alone has its files to itself: *)
(* the data it generates are whole, the model it trains is made from them, and  *)
(* nobody holds an older model when it resets its own.                         *)

Single(file) == file.cut = FALSE /\ \E d : file.of = {d}

Own(t) ==
  /\ pc[t] # "idle" /\ loc[t].kind \in Button => Home[t] = Ui
  /\ pc[t] \in {"gen", "open", "csv"} => loc[t].kind \in {"tool", "regenerate"}
  /\ pc[t] \in {"train", "dump", "pickle"} => loc[t].kind \in {"tool", "retrain"}
  /\ pc[t] = "reset" => loc[t].kind = "retrain"
  /\ pc[t] # "idle" /\ alone[t] => \A u \in Thread \ {t} : pc[u] = "idle"
  /\ pc[t] = "csv" /\ alone[t] => csv.cut = FALSE /\ csv.of = {loc[t].data}
  /\ pc[t] = "dump" /\ loc[t].kind = "retrain" /\ alone[t] /\ repair > 0 =>
       loc[t].data \in csv.of
  /\ pc[t] \in {"pickle", "reset"} /\ alone[t] /\ repair > 0 =>
       pkl.cut = FALSE /\ pkl.of = csv.of
  /\ pc[t] = "build" /\ Home[t] = Ui /\ repair = 2 => loc[t].data \in csv.of

Files ==
  /\ repair > 0 => Writing("csv") = {} /\ Single(csv)
  /\ repair = 2 => /\ pkl.cut = FALSE /\ pkl.of = csv.of
                   /\ model[Ui] # None => model[Ui].data \in csv.of

RInv == Files /\ \A t \in Thread : Own(t)

LEMMA SingleIsWhole ==
  ASSUME NEW file, Single(file)
  PROVE  Whole(file, {}) /\ Cardinality(file.of) = 1 /\ Held(file, {}) \in file.of
<1>1. PICK d : file.of = {d}
  BY DEF Single
<1>2. Cardinality(file.of) = 1
  BY <1>1, FS_Singleton
<1>3. Whole(file, {})
  BY <1>2 DEF Single, Whole
<1> QED
  BY <1>1, <1>2, <1>3 DEF Held

LEMMA RInvRepaired == RInv => Repaired
<1> SUFFICES ASSUME RInv, repair = 2
             PROVE  Whole(csv, {}) /\ Whole(pkl, {}) /\ pkl.of = csv.of
                    /\ (model[Ui] # None => model[Ui].data \in csv.of)
  BY DEF Repaired
<1>1. Single(csv) /\ pkl.cut = FALSE /\ pkl.of = csv.of
  BY DEF RInv, Files
<1>2. Single(pkl)
  BY <1>1 DEF Single
<1> QED
  BY <1>1, <1>2, SingleIsWhole DEF RInv, Files

\* A step of thread t: the others, if any of them is busy, are not alone.
LEMMA StepRepairs ==
  ASSUME DInv, RInv, NEW t \in Thread, pc[t] # "idle", NEW x, NEW r,
         pc' = [pc EXCEPT ![t] = x], loc' = [loc EXCEPT ![t] = r], alone' = alone,
         repair' = 2 => (repair = 2 /\ csv' = csv) \/ alone[t],
         Files', Own(t)'
  PROVE  RInv'
<1>T. pc \in [Thread -> At] /\ loc \in [Thread -> Request]
  BY DEF DInv, DomainTypeOK
<1>1. ASSUME NEW u \in Thread, u # t PROVE Own(u)'
  <2>1. pc'[u] = pc[u] /\ loc'[u] = loc[u] /\ alone'[u] = alone[u] /\ Own(u) /\ Own(t)
    BY <1>T, <1>1 DEF RInv
  <2>2. ~(pc[u] # "idle" /\ alone[u])
    BY <1>1, <2>1 DEF Own
  <2>3. alone[t] => pc[u] = "idle"
    BY <1>1, <2>1 DEF Own
  <2>4. pc[u] = "build" /\ repair' = 2 => repair = 2 /\ csv' = csv
    BY <2>3
  <2> QED
    BY <2>1, <2>2, <2>4 DEF Own
<1> QED
  BY <1>1 DEF RInv

\* A step that leaves the files and the repair as they are and resets a model at most.
LEMMA PlainRepairs ==
  ASSUME DInv, RInv, NEW t \in Thread, pc[t] # "idle", NEW x, NEW r, x # "csv",
         pc' = [pc EXCEPT ![t] = x], loc' = [loc EXCEPT ![t] = r],
         UNCHANGED <<csv, pkl, model, repair, alone>>,
         Own(t)'
  PROVE  RInv'
<1>T. pc \in [Thread -> At] /\ loc \in [Thread -> Request]
  BY DEF DInv, DomainTypeOK
<1>1. Writing("csv") = {} => Writing("csv")' = {}
  BY <1>T DEF Writing
<1>2. Files'
  BY <1>1 DEF RInv, Files, Single
<1> QED
  BY <1>2, StepRepairs

\* The same, with the local variables as they are and the thread at a place where
\* nothing is asked of it but its kind.
Free == {"install", "ground", "model", "init", "data", "pkl", "load", "return", "settings"}
          \cup Index

LEMMA FreeRepairs ==
  ASSUME DInv, RInv, NEW t \in Thread, pc[t] # "idle", NEW x \in Free, NEW r,
         r.kind = loc[t].kind,
         pc' = [pc EXCEPT ![t] = x], loc' = [loc EXCEPT ![t] = r],
         UNCHANGED <<csv, pkl, model, repair, alone>>
  PROVE  RInv'
<1>T. pc \in [Thread -> At] /\ loc \in [Thread -> Request]
  BY DEF DInv, DomainTypeOK
<1>1. pc'[t] = x /\ loc'[t].kind = loc[t].kind /\ Own(t) /\ x # "csv"
  BY <1>T DEF RInv, Free, Index
<1>2. \A u \in Thread \ {t} : pc'[u] = pc[u]
  BY <1>T
<1>3. Own(t)'
  BY <1>1, <1>2 DEF Own, Free, Index
<1> QED
  BY <1>1, <1>3, PlainRepairs

LEMMA EndRepairs ==
  ASSUME DInv, RInv, NEW t \in Thread, pc[t] # "idle", End(t),
         UNCHANGED <<csv, pkl, model, repair, alone>>
  PROVE  RInv'
<1>T. pc \in [Thread -> At]
  BY DEF DInv, DomainTypeOK
<1>1. pc' = [pc EXCEPT ![t] = "idle"] /\ loc' = [loc EXCEPT ![t] = NoRequest("tool")]
  BY DEF End, Go
<1>2. pc'[t] = "idle"
  BY <1>T, <1>1
<1>3. Own(t)'
  BY <1>2 DEF Own
<1> QED
  BY <1>1, <1>3, PlainRepairs

LEMMA DomainRepairs ==
  ASSUME DInv, RInv, NEW t \in Thread, DomainStep(t)
  PROVE  RInv'
<1>T. /\ pc \in [Thread -> At] /\ loc \in [Thread -> Request] /\ loc[t] \in Request
      /\ csv \in File /\ pkl \in File /\ repair \in 0..2
      /\ model \in [Proc -> Model \cup {None}] /\ Home[t] \in Proc
  BY DEF DInv, DomainTypeOK, Proc
<1>O. Own(t) /\ Known(t) /\ Files
  BY DEF RInv, DInv
<1>l. loc' = loc => loc' = [loc EXCEPT ![t] = loc[t]]
  BY <1>T
<1>w. \A u \in Thread \ {t} : pc[t] # "idle" /\ alone[t] => pc[u] = "idle"
  BY <1>O DEF Own
<1>F. File = Filled \cup {None} /\ None \notin Filled
  BY FileAssumption DEF File, Filled
<1>1. CASE ReadSpec(t)
  <2>1. PICK s : loc' = [loc EXCEPT ![t].spec = s]
    BY <1>1 DEF ReadSpec
  <2>2. loc' = [loc EXCEPT ![t] = [loc[t] EXCEPT !.spec = s]]
        /\ [loc[t] EXCEPT !.spec = s].kind = loc[t].kind
    BY <1>T, <2>1 DEF Request
  <2>3. pc[t] # "idle" /\ pc' = [pc EXCEPT ![t] = "install"] /\ "install" \in Free
        /\ UNCHANGED <<csv, pkl, model, repair, alone>>
    BY <1>1 DEF ReadSpec, Go, Free, shared
  <2> QED
    BY <2>2, <2>3, FreeRepairs
<1>2. CASE InstallSpec(t)
  <2> DEFINE x == FirstStep(loc[t].kind)
  <2>1. /\ x \in {"ground", "gen", "train", "embed", "count"}
        /\ x = "gen" => loc[t].kind = "regenerate"
        /\ x = "train" => loc[t].kind = "retrain"
    <3>1. \A k \in Kind : /\ FirstStep(k) = "gen" => k = "regenerate"
                          /\ FirstStep(k) = "train" => k = "retrain"
      BY DEF FirstStep, Kind
    <3> QED
      BY <1>T, <3>1, FirstStepType DEF Request
  <2>2. pc[t] = "install" /\ pc' = [pc EXCEPT ![t] = x] /\ loc' = loc
        /\ UNCHANGED <<csv, pkl, model, repair, alone>>
    BY <1>2 DEF InstallSpec, Go
  <2> HIDE DEF x
  <2>3. pc'[t] = x /\ \A u \in Thread \ {t} : pc'[u] = pc[u]
    BY <1>T, <2>2
  <2>4. Own(t)'
    BY <1>O, <2>1, <2>2, <2>3 DEF Own
  <2> QED
    BY <1>l, <2>1, <2>2, <2>4, PlainRepairs
<1>3. CASE Ground(t)
  BY <1>3, <1>l, FreeRepairs DEF Ground, Go, Free
<1>4. CASE CheckModel(t)
  <2> DEFINE x == IF model[Home[t]] = None THEN "init" ELSE "return"
  <2>1. x \in Free
    BY DEF Free
  <2>2. pc[t] # "idle" /\ pc' = [pc EXCEPT ![t] = x] /\ loc' = loc
        /\ UNCHANGED <<csv, pkl, model, repair, alone>>
    BY <1>4 DEF CheckModel, Go, shared
  <2> HIDE DEF x
  <2> QED
    BY <1>l, <2>1, <2>2, FreeRepairs
<1>5. CASE InitModel(t)
  <2> DEFINE r == [loc[t] EXCEPT !.init = spec[Home[t]]]
  <2>1. r.kind = loc[t].kind
    BY <1>T DEF Request
  <2>2. pc[t] # "idle" /\ pc' = [pc EXCEPT ![t] = "data"] /\ loc' = [loc EXCEPT ![t] = r]
        /\ UNCHANGED <<csv, pkl, model, repair, alone>> /\ "data" \in Free
    BY <1>5 DEF InitModel, Go, Free, shared
  <2> HIDE DEF r
  <2> QED
    BY <2>1, <2>2, FreeRepairs
<1>6. CASE EnsureData(t)
  <2> DEFINE x == IF csv = None THEN "gen" ELSE "pkl"
  <2>1. pc[t] = "data" /\ pc' = [pc EXCEPT ![t] = x] /\ loc' = loc /\ loc[t].kind = "tool"
        /\ UNCHANGED <<csv, pkl, model, repair, alone>>
    BY <1>6, <1>O DEF EnsureData, Go, shared, Known
  <2>2. x \in {"gen", "pkl"} /\ pc'[t] = x /\ \A u \in Thread \ {t} : pc'[u] = pc[u]
    BY <1>T, <2>1
  <2> HIDE DEF x
  <2>3. Own(t)'
    BY <1>O, <2>1, <2>2 DEF Own
  <2> QED
    BY <1>l, <2>1, <2>2, <2>3, PlainRepairs
<1>7. CASE EnsureModel(t)
  <2> DEFINE x == IF pkl = None THEN "train" ELSE "load"
  <2>1. pc[t] = "pkl" /\ pc' = [pc EXCEPT ![t] = x] /\ loc' = loc /\ loc[t].kind = "tool"
        /\ UNCHANGED <<csv, pkl, model, repair, alone>>
    BY <1>7, <1>O DEF EnsureModel, Go, shared, Known
  <2>2. x \in {"train", "load"} /\ pc'[t] = x /\ \A u \in Thread \ {t} : pc'[u] = pc[u]
    BY <1>T, <2>1
  <2> HIDE DEF x
  <2>3. Own(t)'
    BY <1>O, <2>1, <2>2 DEF Own
  <2> QED
    BY <1>l, <2>1, <2>2, <2>3, PlainRepairs
<1>8. CASE Generate(t)
  <2> DEFINE r == [loc[t] EXCEPT !.data = spec[Home[t]]]
  <2>1. r.kind = loc[t].kind
    BY <1>T DEF Request
  <2>2. pc[t] = "gen" /\ pc' = [pc EXCEPT ![t] = "open"] /\ loc' = [loc EXCEPT ![t] = r]
        /\ UNCHANGED <<csv, pkl, model, repair, alone>>
    BY <1>8 DEF Generate, Go, shared
  <2> HIDE DEF r
  <2>3. pc'[t] = "open" /\ loc'[t].kind = loc[t].kind /\ \A u \in Thread \ {t} : pc'[u] = pc[u]
    BY <1>T, <2>1, <2>2
  <2>4. Own(t)'
    BY <1>O, <2>2, <2>3 DEF Own
  <2> QED
    BY <2>2, <2>4, PlainRepairs
<1>9. CASE OpenCsv(t)
  <2>1. pc[t] = "open" /\ pc' = [pc EXCEPT ![t] = "csv"] /\ loc' = loc /\ repair' = 0
        /\ UNCHANGED <<pkl, model, alone>>
        /\ csv' = Opened(csv, loc[t].data, Writing("csv"))
    BY <1>9 DEF OpenCsv, Go
  <2>2. pc'[t] = "csv" /\ \A u \in Thread \ {t} : pc'[u] = pc[u]
    BY <1>T, <2>1
  <2>3. Files'
    BY <2>1 DEF Files
  <2>4. ASSUME alone[t] PROVE csv'.cut = FALSE /\ csv'.of = {loc[t].data}
    <3>1. Writing("csv") = {}
      BY <1>w, <2>1, <2>4 DEF Writing
    <3> QED
      BY <2>1, <3>1 DEF Opened
  <2>5. Own(t)'
    BY <1>O, <2>1, <2>2, <2>4 DEF Own
  <2>6. pc[t] # "idle" /\ (repair' = 2 => alone[t])
    BY <2>1
  <2> QED
    BY <1>l, <2>1, <2>3, <2>5, <2>6, StepRepairs
<1>10. CASE CloseCsv(t)
  <2>1. pc[t] = "csv" /\ UNCHANGED <<csv, pkl, model, alone>>
    BY <1>10 DEF CloseCsv, shared
  <2>2. repair = 0
    <3>1. t \in Writing("csv")
      BY <2>1 DEF Writing
    <3> QED
      BY <1>T, <1>O, <3>1 DEF Files
  <2>3. CASE loc[t].kind = "tool"
    <3>1. pc' = [pc EXCEPT ![t] = "pkl"] /\ loc' = loc /\ repair' = repair /\ "pkl" \in Free
      BY <1>10, <2>3 DEF CloseCsv, Go, Free
    <3> QED
      BY <1>l, <2>1, <3>1, FreeRepairs
  <2>4. CASE loc[t].kind # "tool"
    <3>1. End(t) /\ repair' = IF alone[t] THEN 1 ELSE 0
      BY <1>10, <2>4 DEF CloseCsv
    <3>2. pc' = [pc EXCEPT ![t] = "idle"] /\ loc' = [loc EXCEPT ![t] = NoRequest("tool")]
      BY <3>1 DEF End, Go
    <3>3. pc'[t] = "idle"
      BY <1>T, <3>2
    <3>4. Own(t)'
      BY <3>3 DEF Own
    <3>5. repair' # 2
      BY <3>1
    <3>6. ASSUME repair' > 0 PROVE Writing("csv")' = {} /\ Single(csv)'
      <4>1. alone[t]
        BY <3>1, <3>6
      <4>2. \A u \in Thread : pc'[u] = "idle"
        BY <1>T, <1>w, <2>1, <3>2, <4>1
      <4>3. csv.cut = FALSE /\ csv.of = {loc[t].data}
        BY <1>O, <2>1, <4>1 DEF Own
      <4> QED
        BY <2>1, <4>2, <4>3 DEF Writing, Single
    <3>7. Files'
      BY <3>5, <3>6 DEF Files
    <3> QED
      BY <2>1, <3>2, <3>4, <3>5, <3>7, StepRepairs
  <2> QED
    BY <2>3, <2>4
<1>11. CASE Train(t)
  <2>1. pc[t] = "train" /\ UNCHANGED <<csv, pkl, model, repair, alone>>
    BY <1>11 DEF Train, shared
  <2>2. CASE End(t)
    BY <2>1, <2>2, EndRepairs
  <2>3. CASE /\ loc' = [loc EXCEPT ![t].data = Held(csv, Writing("csv"))]
             /\ Go(t, "dump")
    <3> DEFINE d == Held(csv, Writing("csv"))
               r == [loc[t] EXCEPT !.data = d]
    <3>1. repair > 0 => d \in csv.of
      BY <1>O, SingleIsWhole DEF Files
    <3> HIDE DEF d
    <3>2. r.kind = loc[t].kind /\ r.data = d
      BY <1>T DEF Request
    <3>3. pc' = [pc EXCEPT ![t] = "dump"] /\ loc' = [loc EXCEPT ![t] = r]
      BY <2>3 DEF Go, d
    <3> HIDE DEF r
    <3>4. pc'[t] = "dump" /\ loc'[t].kind = loc[t].kind /\ loc'[t].data = d
          /\ \A u \in Thread \ {t} : pc'[u] = pc[u]
      BY <1>T, <3>2, <3>3
    <3>5. Own(t)'
      BY <1>O, <2>1, <3>1, <3>4 DEF Own
    <3> QED
      BY <2>1, <3>3, <3>5, PlainRepairs
  <2> QED
    BY <1>11, <2>2, <2>3 DEF Train
<1>12. CASE OpenPkl(t)
  <2>1. pc[t] = "dump" /\ pc' = [pc EXCEPT ![t] = "pickle"] /\ loc' = loc
        /\ UNCHANGED <<csv, model, alone>>
        /\ pkl' = Opened(pkl, loc[t].data, Writing("pickle"))
        /\ repair' = IF loc[t].kind = "retrain" /\ alone[t] THEN repair ELSE 0
    BY <1>12 DEF OpenPkl, Go
  <2>2. pc'[t] = "pickle" /\ \A u \in Thread \ {t} : pc'[u] = pc[u]
    BY <1>T, <2>1
  <2>3. ASSUME repair' > 0
        PROVE  /\ repair' = repair /\ repair > 0
               /\ Single(csv) /\ Writing("csv") = {} /\ pkl'.cut = FALSE /\ pkl'.of = csv.of
    <3>1. loc[t].kind = "retrain" /\ alone[t] /\ repair' = repair
      BY <2>1, <2>3
    <3>2. loc[t].data \in csv.of /\ Single(csv) /\ Writing("csv") = {}
      BY <1>O, <2>1, <2>3, <3>1 DEF Own, Files
    <3>3. csv.of = {loc[t].data}
      BY <3>2 DEF Single
    <3>4. Writing("pickle") = {}
      BY <1>w, <2>1, <3>1 DEF Writing
    <3> QED
      BY <2>1, <2>3, <3>1, <3>2, <3>3, <3>4 DEF Opened
  <2>4. Files'
    <3>1. Writing("csv") = {} => Writing("csv")' = {}
      BY <1>T, <2>2 DEF Writing
    <3>2. repair' = 2 => (model[Ui] # None => model[Ui].data \in csv.of)
      BY <1>O, <2>1 DEF Files
    <3>3. repair' = 2 => repair' > 0
      OBVIOUS
    <3> QED
      BY <2>1, <2>3, <3>1, <3>2, <3>3 DEF Files, Single
  <2>5. Own(t)'
    BY <1>O, <2>1, <2>2, <2>3 DEF Own
  <2>6. repair' = 2 => repair = 2
    BY <2>1
  <2> QED
    BY <1>l, <2>1, <2>4, <2>5, <2>6, StepRepairs
<1>13. CASE ClosePkl(t)
  <2> DEFINE x == IF loc[t].kind = "tool" THEN "load" ELSE "reset"
  <2>1. pc[t] = "pickle" /\ pc' = [pc EXCEPT ![t] = x] /\ loc' = loc
        /\ UNCHANGED <<csv, pkl, model, repair, alone>>
    BY <1>13 DEF ClosePkl, Go, shared
  <2>2. x \in {"load", "reset"} /\ (x = "reset" => loc[t].kind # "tool")
    OBVIOUS
  <2> HIDE DEF x
  <2>3. pc'[t] = x /\ \A u \in Thread \ {t} : pc'[u] = pc[u]
    BY <1>T, <2>1
  <2>4. Own(t)'
    BY <1>O, <2>1, <2>2, <2>3 DEF Own
  <2> QED
    BY <1>l, <2>1, <2>2, <2>4, PlainRepairs
<1>14. CASE LoadModel(t)
  <2>1. pc[t] = "load" /\ UNCHANGED <<csv, pkl, model, repair, alone>>
    BY <1>14 DEF LoadModel, shared
  <2>2. CASE End(t)
    BY <2>1, <2>2, EndRepairs
  <2>3. CASE /\ Whole(pkl, Writing("pickle")) \/ Cardinality(pkl.of) > 1
             /\ loc' = [loc EXCEPT ![t].data = Held(pkl, Writing("pickle"))]
             /\ Go(t, "build")
    <3> DEFINE d == Held(pkl, Writing("pickle"))
               r == [loc[t] EXCEPT !.data = d]
    <3>1. ASSUME repair = 2 PROVE d \in csv.of
      <4>1. Single(pkl) /\ pkl.of = csv.of
        BY <1>O, <3>1 DEF Files, Single
      <4>2. Cardinality(pkl.of) = 1
        BY <4>1, SingleIsWhole
      <4>3. Writing("pickle") = {}
        BY <2>3, <4>2 DEF Whole
      <4> QED
        BY <4>1, <4>3, SingleIsWhole
    <3> HIDE DEF d
    <3>2. r.kind = loc[t].kind /\ r.data = d
      BY <1>T DEF Request
    <3>3. pc' = [pc EXCEPT ![t] = "build"] /\ loc' = [loc EXCEPT ![t] = r]
      BY <2>3 DEF Go, d
    <3> HIDE DEF r
    <3>4. pc'[t] = "build" /\ loc'[t].kind = loc[t].kind /\ loc'[t].data = d
          /\ \A u \in Thread \ {t} : pc'[u] = pc[u]
      BY <1>T, <3>2, <3>3
    <3>5. Own(t)'
      BY <1>O, <2>1, <3>1, <3>4 DEF Own
    <3> QED
      BY <2>1, <3>3, <3>5, PlainRepairs
  <2> QED
    BY <1>14, <2>2, <2>3 DEF LoadModel
<1>15. CASE BuildGraph(t)
  <2> DEFINE m == [spec |-> loc[t].init, data |-> loc[t].data, graph |-> spec[Home[t]]]
  <2>1. pc[t] = "build" /\ pc' = [pc EXCEPT ![t] = "return"] /\ loc' = loc
        /\ UNCHANGED <<csv, pkl, repair, alone>> /\ model' = [model EXCEPT ![Home[t]] = m]
    BY <1>15 DEF BuildGraph, Go
  <2>2. m.data = loc[t].data
    OBVIOUS
  <2> HIDE DEF m
  <2>3. pc'[t] = "return" /\ \A u \in Thread \ {t} : pc'[u] = pc[u]
    BY <1>T, <2>1
  <2>4. Own(t)'
    BY <1>O, <2>1, <2>3 DEF Own
  <2>5. repair = 2 /\ model'[Ui] # None => model'[Ui].data \in csv.of
    <3>1. CASE Home[t] = Ui
      BY <1>T, <1>O, <2>1, <2>2, <3>1 DEF Own
    <3>2. CASE Home[t] # Ui
      <4>1. Ui \in Proc
        BY DEF Proc
      <4>2. model'[Ui] = model[Ui]
        BY <1>T, <2>1, <3>2, <4>1
      <4> QED
        BY <1>O, <4>2 DEF Files
    <3> QED
      BY <3>1, <3>2
  <2>6. Writing("csv") = {} => Writing("csv")' = {}
    BY <1>T, <2>1 DEF Writing
  <2>7. Files'
    BY <1>O, <2>1, <2>5, <2>6 DEF Files, Single
  <2> QED
    BY <1>l, <2>1, <2>4, <2>7, StepRepairs
<1>16. CASE ReturnModel(t)
  <2>1. pc[t] # "idle" /\ UNCHANGED <<csv, pkl, model, repair, alone>>
    BY <1>16 DEF ReturnModel, shared
  <2>2. CASE End(t)
    BY <2>1, <2>2, EndRepairs
  <2>3. CASE Go(t, "settings") /\ UNCHANGED loc
    BY <1>l, <2>1, <2>3, FreeRepairs DEF Go, Free
  <2> QED
    BY <1>16, <2>2, <2>3 DEF ReturnModel
<1>17. CASE RunScenarios(t)
  BY <1>17, EndRepairs DEF RunScenarios
<1>18. CASE ResetModel(t)
  <2>1. pc[t] = "reset" /\ End(t) /\ UNCHANGED <<csv, pkl, alone>>
        /\ model' = [model EXCEPT ![Home[t]] = None]
        /\ repair' = IF alone[t] /\ repair > 0 THEN 2 ELSE 0
    BY <1>18 DEF ResetModel
  <2>2. pc' = [pc EXCEPT ![t] = "idle"] /\ loc' = [loc EXCEPT ![t] = NoRequest("tool")]
    BY <2>1 DEF End, Go
  <2>3. pc'[t] = "idle"
    BY <1>T, <2>2
  <2>4. Own(t)'
    BY <2>3 DEF Own
  <2>5. Home[t] = Ui
    BY <1>O, <2>1 DEF Own, Button
  <2>6. model'[Ui] = None
    BY <1>T, <2>1, <2>5
  <2>7. Writing("csv") = {} => Writing("csv")' = {}
    BY <1>T, <2>2 DEF Writing
  <2>8. repair' > 0 => alone[t] /\ repair > 0
    BY <2>1
  <2>9. Files'
    <3>1. ASSUME repair' > 0 PROVE Writing("csv")' = {} /\ Single(csv)'
      BY <1>O, <2>1, <2>7, <2>8, <3>1 DEF Files, Single
    <3>2. ASSUME repair' = 2 PROVE pkl'.cut = FALSE /\ pkl'.of = csv'.of
      <4>1. repair > 0 /\ alone[t]
        BY <2>8, <3>2
      <4> QED
        BY <1>O, <2>1, <4>1 DEF Own
    <3> QED
      BY <2>6, <3>1, <3>2 DEF Files
  <2>10. repair' = 2 => alone[t]
    BY <2>1
  <2> QED
    BY <2>1, <2>2, <2>4, <2>9, <2>10, StepRepairs
<1> QED
  BY <1>1, <1>2, <1>3, <1>4, <1>5, <1>6, <1>7, <1>8, <1>9, <1>10, <1>11, <1>12, <1>13,
     <1>14, <1>15, <1>16, <1>17, <1>18 DEF DomainStep

LEMMA IndexRepairs ==
  ASSUME DInv, RInv, NEW t \in Thread, Indexing(t)
  PROVE  RInv'
<1>T. loc \in [Thread -> Request] /\ loc[t] \in Request
  BY DEF DInv, DomainTypeOK
<1>a. pc[t] # "idle" /\ UNCHANGED <<csv, pkl, model, repair, alone>>
  BY DEF Indexing, Index, rest, shared
<1>1. CASE End(t)
  BY <1>1, <1>a, EndRepairs
<1>2. ASSUME NEW x \in Index, Go(t, x), UNCHANGED loc PROVE RInv'
  <2>1. pc' = [pc EXCEPT ![t] = x] /\ loc' = [loc EXCEPT ![t] = loc[t]] /\ x \in Free
    BY <1>T, <1>2 DEF Go, Free
  <2> QED
    BY <1>a, <2>1, FreeRepairs
<1>3. ASSUME NEW x \in Index, Go(t, x), loc' = [loc EXCEPT ![t].falling = TRUE] PROVE RInv'
  <2> DEFINE r == [loc[t] EXCEPT !.falling = TRUE]
  <2>1. pc' = [pc EXCEPT ![t] = x] /\ loc' = [loc EXCEPT ![t] = r] /\ x \in Free
    BY <1>3 DEF Go, Free
  <2>2. r.kind = loc[t].kind
    BY <1>T DEF Request
  <2> HIDE DEF r
  <2> QED
    BY <1>a, <2>1, <2>2, FreeRepairs
<1> QED
  BY <1>1, <1>2, <1>3 DEF Indexing

\* A request that begins is alone if nothing else is under way, and ends the others'.
LEMMA StartRepairs ==
  ASSUME DInv, RInv, NEW t \in Thread, NEW k \in Kind, Start(t, k)
  PROVE  RInv'
<1>T. pc \in [Thread -> At] /\ loc \in [Thread -> Request] /\ alone \in [Thread -> BOOLEAN]
  BY DEF DInv, DomainTypeOK
<1> DEFINE x == IF k \in Button \/ spec[Home[t]] = None THEN "read" ELSE FirstStep(k)
<1>1. /\ FirstStep(k) \in {"ground", "gen", "train", "embed", "count"}
      /\ FirstStep(k) = "gen" => k = "regenerate"
      /\ FirstStep(k) = "train" => k = "retrain"
  <2>1. \A j \in Kind : /\ FirstStep(j) = "gen" => j = "regenerate"
                        /\ FirstStep(j) = "train" => j = "retrain"
    BY DEF FirstStep, Kind
  <2> QED
    BY <2>1, FirstStepType
<1>2. /\ x \in {"read", "ground", "gen", "train", "embed", "count"}
      /\ x = "gen" => k = "regenerate"
      /\ x = "train" => k = "retrain"
  BY <1>1
<1>3. pc' = [pc EXCEPT ![t] = x] /\ loc' = [loc EXCEPT ![t] = NoRequest(k)]
      /\ UNCHANGED <<csv, pkl, model, repair>> /\ (k \in Button => Home[t] = Ui)
      /\ pc[t] = "idle"
      /\ alone' = [u \in Thread |-> IF u = t THEN Busy = {} ELSE alone[u] /\ u \notin Busy]
  BY DEF Start, Go, shared
<1> HIDE DEF x
<1>4. pc'[t] = x /\ loc'[t].kind = k /\ alone'[t] = (Busy = {})
  BY <1>T, <1>3 DEF NoRequest
<1>5. Writing("csv") = {} => Writing("csv")' = {}
  BY <1>T, <1>2, <1>3 DEF Writing
<1>6. Files'
  BY <1>3, <1>5 DEF RInv, Files, Single
<1>7. Own(t)'
  <2>1. alone'[t] => \A u \in Thread \ {t} : pc'[u] = "idle"
    BY <1>T, <1>3, <1>4 DEF Busy
  <2> QED
    BY <1>2, <1>3, <1>4, <2>1 DEF Own
<1>8. ASSUME NEW u \in Thread, u # t PROVE Own(u)'
  <2>1. pc'[u] = pc[u] /\ loc'[u] = loc[u] /\ Own(u)
    BY <1>T, <1>3, <1>8 DEF RInv
  <2>2. pc[u] # "idle" => ~alone'[u]
    BY <1>3, <1>8 DEF Busy
  <2> QED
    BY <1>3, <2>1, <2>2 DEF Own
<1> QED
  BY <1>6, <1>7, <1>8 DEF RInv

\* The files a process that dies is writing are cut; no repair survives that.
LEMMA CrashRepairs ==
  ASSUME DInv, RInv, NEW p \in Proc, DomainCrash(p)
  PROVE  RInv'
<1> DEFINE cuts(here) == \E t \in Writing(here) : Home[t] = p
<1>T. pc \in [Thread -> At] /\ loc \in [Thread -> Request] /\ repair \in 0..2
      /\ model \in [Proc -> Model \cup {None}] /\ Ui \in Proc
  BY DEF DInv, DomainTypeOK, Proc
<1>1. /\ csv' = IF cuts("csv") THEN [csv EXCEPT !.cut = TRUE] ELSE csv
      /\ pkl' = IF cuts("pickle") THEN [pkl EXCEPT !.cut = TRUE] ELSE pkl
      /\ repair' = IF cuts("csv") \/ cuts("pickle") THEN 0 ELSE repair
      /\ model' = [model EXCEPT ![p] = None] /\ alone' = alone
      /\ pc' = [t \in Thread |-> IF Home[t] = p THEN "idle" ELSE pc[t]]
      /\ loc' = [t \in Thread |-> IF Home[t] = p THEN NoRequest("tool") ELSE loc[t]]
  BY DEF DomainCrash
<1>2. repair' > 0 => UNCHANGED <<csv, pkl, repair>>
  BY <1>1
<1>3. model'[Ui] = None \/ model'[Ui] = model[Ui]
  BY <1>T, <1>1
<1>4. Writing("csv") = {} => Writing("csv")' = {}
  BY <1>T, <1>1 DEF Writing
<1>5. Files'
  <2>1. repair' = 2 => repair' > 0
    OBVIOUS
  <2> QED
    BY <1>2, <1>3, <1>4, <2>1 DEF RInv, Files, Single
<1>6. ASSUME NEW t \in Thread PROVE Own(t)'
  <2>1. CASE Home[t] = p
    <3>1. pc'[t] = "idle"
      BY <1>1, <2>1
    <3> QED
      BY <3>1 DEF Own
  <2>2. CASE Home[t] # p
    <3>1. pc'[t] = pc[t] /\ loc'[t] = loc[t] /\ alone'[t] = alone[t] /\ Own(t)
      BY <1>1, <2>2 DEF RInv
    <3>2. \A u \in Thread : pc[u] = "idle" => pc'[u] = "idle"
      BY <1>1
    <3>3. pc[t] = "csv" /\ alone[t] => csv' = csv
      <4>1. ASSUME pc[t] = "csv", alone[t], NEW u \in Writing("csv") PROVE Home[u] # p
        BY <2>2, <3>1, <4>1 DEF Own, Writing
      <4> QED
        BY <1>1, <4>1
    <3>4. repair' = 2 => repair' > 0
      OBVIOUS
    <3> QED
      BY <1>2, <3>1, <3>2, <3>3, <3>4 DEF Own
  <2> QED
    BY <2>1, <2>2
<1> QED
  BY <1>5, <1>6 DEF RInv

LEMMA RInvNext == DInv /\ RInv /\ [Next]_vars => RInv'
<1> SUFFICES ASSUME DInv, RInv, [Next]_vars PROVE RInv'
  OBVIOUS
<1>1. CASE UNCHANGED <<csv, pkl, model, pc, loc, alone, repair>>
  BY <1>1 DEF RInv, Files, Own, Single, Writing
<1>2. ASSUME NEW t \in Thread, Step(t) PROVE RInv'
  BY <1>2, DomainRepairs, IndexActions, IndexRepairs DEF Step
<1>3. ASSUME NEW t \in Thread, NEW k \in Kind, Start(t, k) PROVE RInv'
  BY <1>3, StartRepairs
<1>4. ASSUME NEW s \in SpecId, Activate(s) PROVE RInv'
  BY <1>1, <1>4 DEF Activate
<1>5. ASSUME NEW p \in Proc, Crash(p) PROVE RInv'
  BY <1>5, CrashRepairs DEF Crash
<1>6. CASE UNCHANGED vars
  BY <1>1, <1>6 DEF vars, dvars, shared
<1> QED
  BY <1>2, <1>3, <1>4, <1>5, <1>6 DEF Next

LEMMA RInvInit == Init => RInv
<1> SUFFICES ASSUME Init PROVE RInv
  OBVIOUS
<1>1. repair = 0 /\ \A t \in Thread : pc[t] = "idle"
  BY DEF Init, DomainInit
<1> QED
  BY <1>1 DEF RInv, Files, Own

\* Whatever crashes and overlaps have left of the data and the model, and whichever
\* processes use them meanwhile, the two buttons repair both files, and the interface
\* then uses what has been trained (ui/sidebar.py:291, agents/tools.py:41).
THEOREM RepairedAlways == Spec => []Repaired
BY RInvInit, RInvNext, RInvRepaired, DInvInit, DInvNext, PTL DEF Spec

\* A table of the knowledge index that has once been filled is never found empty, for
\* any number of processes that rebuild it at the same time
\* (knowledge/build_index.py:295).
THEOREM OnceFilledAlways == Spec => OnceFilled
<1>1. ASSUME [Next]_vars, docs # {} PROVE docs' # {}
  <2>1. CASE UNCHANGED docs
    BY <1>1, <2>1
  <2>2. ASSUME NEW t \in Thread, Insert(t) PROVE docs' # {}
    BY <1>1, <2>2 DEF Insert
  <2>3. ASSUME NEW t \in Thread, Step(t) PROVE docs' # {}
    BY <2>1, <2>2, <2>3 DEF Step, KnowledgeStep, CountDocs, Embed, Delete, Lock, Search,
       Fallback, LoadFaiss, kvars
  <2> QED
    BY <1>1, <2>1, <2>3 DEF Next, Crash, kvars, vars
<1>2. [Next]_vars => [docs # {} => docs' # {}]_vars
  BY <1>1
<1> QED
  BY <1>2, PTL DEF Spec, OnceFilled
-----------------------------------------------------------------------------
(* The copies of the table.  A copy belongs to the thread that inserted it.  A   *)
(* DELETE that has begun deletes what its thread inserted before, so that a       *)
(* thread has at most one copy in the table, and there is always one to insert.   *)

InUse == {c \in Copy : c \in docs \/ \E t \in Thread : c \in doomed[t]}
Distinct(own, copies) == \A c, d \in copies : own[c] = own[d] => c = d
Deleting == {"lock", "insert"}
Fits(own) ==
  /\ Distinct(own, docs) /\ \A t \in Thread : Distinct(own, doomed[t])
  /\ \A t \in Thread, c \in docs : pc[t] \in Deleting /\ own[c] = t => c \in doomed[t]
KTypes ==
  /\ docs \subseteq Copy
  /\ doomed \in [Thread -> SUBSET Copy]
  /\ ready \in [Proc -> BOOLEAN] /\ store \in [Proc -> BOOLEAN]
KInv == KTypes /\ \E own \in [InUse -> Thread] : Fits(own)

LEMMA CopyType ==
  /\ Cardinality(Thread) \in Nat
  /\ Cardinality(Thread) * (Cardinality(Thread) + 1) \in Nat
  /\ Copy \subseteq Nat /\ IsFiniteSet(Copy)
  /\ Cardinality(Copy) = Cardinality(Thread) * (Cardinality(Thread) + 1) + 1
<1> DEFINE n == Cardinality(Thread)
           m == n * (n + 1)
<1>1. n \in Nat
  BY ThreadAssumption, FS_CardinalityType
<1>2. m \in Nat
  BY <1>1
<1>3. Copy = 1..(m + 1)
  BY DEF Copy
<1> HIDE DEF m, n
<1>4. 1 \in Int /\ m + 1 \in Int /\ ~(1 > m + 1) /\ (m + 1) - 1 + 1 = m + 1
  BY <1>2
<1>5. IsFiniteSet(1..(m + 1)) /\ Cardinality(1..(m + 1)) = m + 1
  BY <1>4, FS_Interval
<1>6. Copy \subseteq Nat
  BY <1>2, <1>3
<1> QED
  BY <1>1, <1>2, <1>3, <1>5, <1>6 DEF m, n

\* No more copies are in use than there are pairs of an owner and a set of copies.
LEMMA InUseBound ==
  ASSUME KTypes, NEW own \in [InUse -> Thread], Fits(own)
  PROVE  Cardinality(InUse) <= Cardinality(Thread) * (Cardinality(Thread) + 1)
<1> DEFINE sets == {doomed[t] : t \in Thread}
           all == sets \cup {docs}
           n == Cardinality(Thread)
           k == Cardinality(all)
<1>1. IsFiniteSet(Thread) /\ n \in Nat
  BY ThreadAssumption, CopyType
<1>2. IsFiniteSet(sets) /\ Cardinality(sets) <= n
  <2>1. doomed \in Surjection(Thread, sets)
    BY DEF KTypes, Surjection
  <2> HIDE DEF sets
  <2> QED
    BY <1>1, <2>1, FS_Surjection
<1>3. Cardinality(sets) \in Nat
  BY <1>2, FS_CardinalityType
<1> HIDE DEF sets
<1>4. IsFiniteSet(all) /\ (k = Cardinality(sets) \/ k = Cardinality(sets) + 1)
  BY <1>2, FS_AddElement
<1>5. k \in Nat /\ k <= n + 1
  BY <1>1, <1>2, <1>3, <1>4
<1> DEFINE found == [c \in InUse |-> CHOOSE s \in all : c \in s]
           g == [c \in InUse |-> <<own[c], found[c]>>]
<1>6. \A c \in InUse : \E s \in all : c \in s
  BY DEF InUse, sets
<1>7. \A c \in InUse : own[c] \in Thread /\ found[c] \in all /\ c \in found[c]
  BY <1>6
<1>8. \A s \in all : Distinct(own, s)
  BY DEF Fits, sets
<1> HIDE DEF all, k, n, found
<1>9. ASSUME NEW c \in InUse, NEW d \in InUse, g[c] = g[d] PROVE c = d
  <2>1. own[c] = own[d] /\ found[c] = found[d]
    BY <1>9
  <2> QED
    BY <1>7, <1>8, <2>1 DEF Distinct
<1>10. g \in [InUse -> Thread \X all]
  BY <1>7
<1>11. g \in Injection(InUse, Thread \X all)
  BY <1>9, <1>10 DEF Injection, IsInjective
<1> HIDE DEF g
<1>12. IsFiniteSet(Thread \X all) /\ Cardinality(Thread \X all) = n * k
  BY <1>1, <1>4, FS_Product DEF n, k
<1>13. Cardinality(InUse) <= n * k /\ IsFiniteSet(InUse)
  BY <1>11, <1>12, FS_Injection
<1>14. Cardinality(InUse) \in Nat
  BY <1>13, FS_CardinalityType
<1>15. n * k <= n * (n + 1) /\ n * k \in Nat /\ n * (n + 1) \in Nat
  BY <1>1, <1>5
<1>16. Cardinality(InUse) <= n * (n + 1)
  BY <1>13, <1>14, <1>15
<1> QED
  BY <1>16 DEF n

LEMMA FreeCopy ==
  ASSUME KInv
  PROVE  \E c \in Copy : c \notin InUse
<1>1. PICK own \in [InUse -> Thread] : Fits(own)
  BY DEF KInv
<1>2. Cardinality(InUse) <= Cardinality(Thread) * (Cardinality(Thread) + 1)
  BY <1>1, InUseBound DEF KInv
<1>3. InUse \subseteq Copy
  BY DEF InUse
<1>4. CASE InUse = Copy
  BY <1>2, <1>4, CopyType
<1> QED
  BY <1>3, <1>4

\* A step that inserts nothing, and after which a DELETE that is under way still
\* deletes what its thread inserted before.
LEMMA NothingInserted ==
  ASSUME KInv, KTypes', docs' \subseteq docs,
         \A t \in Thread : doomed'[t] \subseteq doomed[t] \/ doomed'[t] \subseteq docs,
         \A t \in Thread : pc'[t] \in Deleting =>
           \/ docs' \subseteq doomed'[t]
           \/ pc[t] \in Deleting /\ doomed[t] \cap docs' \subseteq doomed'[t]
  PROVE  KInv'
<1>1. PICK own \in [InUse -> Thread] : Fits(own)
  BY DEF KInv
<1>2. InUse' \subseteq InUse
  <2>1. Copy' = Copy
    BY DEF Copy
  <2> QED
    BY <2>1 DEF InUse
<1> DEFINE mine == [c \in InUse' |-> own[c]]
<1>3. mine \in [InUse' -> Thread]
  BY <1>2
<1>4. docs' \subseteq InUse' /\ \A t \in Thread : doomed'[t] \subseteq InUse'
  BY DEF KTypes, InUse
<1>5. \A c \in InUse' : mine[c] = own[c]
  OBVIOUS
<1> HIDE DEF mine
<1>6. Distinct(mine, docs')
  BY <1>1, <1>4, <1>5 DEF Fits, Distinct
<1>7. \A t \in Thread : Distinct(mine, doomed'[t])
  BY <1>1, <1>4, <1>5 DEF Fits, Distinct
<1>8. ASSUME NEW t \in Thread, NEW c \in docs', pc'[t] \in Deleting, mine[c] = t
      PROVE  c \in doomed'[t]
  <2>1. c \in docs /\ own[c] = t
    BY <1>4, <1>5, <1>8
  <2>2. pc[t] \in Deleting => c \in doomed[t]
    BY <1>1, <2>1 DEF Fits
  <2> QED
    BY <1>8, <2>2
<1> QED
  BY <1>3, <1>6, <1>7, <1>8 DEF KInv, Fits, Distinct, Deleting

\* A rebuild that succeeds: its thread's old copy is deleted, the new one is its own.
LEMMA CopyInserted ==
  ASSUME KInv, NEW t \in Thread, pc[t] \in Deleting, NEW c \in Copy, c \notin InUse,
         docs' = (docs \ doomed[t]) \cup {c}, doomed' = [doomed EXCEPT ![t] = {}],
         pc'[t] \notin Deleting, \A u \in Thread \ {t} : pc'[u] = pc[u],
         ready' \in [Proc -> BOOLEAN], store' \in [Proc -> BOOLEAN]
  PROVE  KInv'
<1>1. PICK own \in [InUse -> Thread] : Fits(own)
  BY DEF KInv
<1>2. docs' \subseteq Copy /\ doomed' \in [Thread -> SUBSET Copy]
  BY DEF KInv, KTypes
<1>3. KTypes'
  <2>1. Copy' = Copy /\ Proc' = Proc
    BY DEF Copy, Proc
  <2> QED
    BY <1>2, <2>1 DEF KTypes
<1>4. /\ \A u \in Thread \ {t} : doomed'[u] = doomed[u]
      /\ doomed'[t] = {}
  BY DEF KInv, KTypes
<1>5. InUse' \subseteq InUse \cup {c}
  <2>1. Copy' = Copy
    BY DEF Copy
  <2> QED
    BY <1>4, <2>1 DEF InUse
<1> DEFINE mine == [d \in InUse' |-> IF d = c THEN t ELSE own[d]]
<1>6. mine \in [InUse' -> Thread]
  BY <1>5
<1>7. docs' \subseteq InUse' /\ \A u \in Thread : doomed'[u] \subseteq InUse'
  BY <1>3 DEF KTypes, InUse
<1>8. \A d \in InUse' : mine[d] = IF d = c THEN t ELSE own[d]
  OBVIOUS
<1> HIDE DEF mine
<1>9. \A u \in Thread : c \notin doomed[u]
  BY DEF InUse
<1>10. \A d \in docs \ doomed[t] : own[d] # t /\ d # c
  <2>1. c \notin docs
    BY DEF InUse
  <2> QED
    BY <1>1, <2>1 DEF Fits
<1>11. Distinct(mine, docs')
  BY <1>1, <1>7, <1>8, <1>10 DEF Fits, Distinct
<1>12. \A u \in Thread : Distinct(mine, doomed'[u])
  <2>1. Distinct(mine, doomed'[t])
    BY <1>4 DEF Distinct
  <2>2. ASSUME NEW u \in Thread \ {t} PROVE Distinct(mine, doomed'[u])
    BY <1>1, <1>4, <1>7, <1>8, <1>9 DEF Fits, Distinct
  <2> QED
    BY <2>1, <2>2
<1>13. ASSUME NEW u \in Thread, NEW d \in docs', pc'[u] \in Deleting, mine[d] = u
       PROVE  d \in doomed'[u]
  <2>1. u # t /\ pc[u] \in Deleting
    BY <1>13
  <2>2. d # c
    BY <1>7, <1>8, <1>13, <2>1
  <2>3. d \in docs /\ own[d] = u
    BY <1>7, <1>8, <1>13, <2>2
  <2> QED
    BY <1>1, <1>4, <2>1, <2>3 DEF Fits
<1> QED
  BY <1>3, <1>6, <1>11, <1>12, <1>13 DEF KInv, Fits, Distinct, Deleting

\* A step that leaves the table and the transactions as they are.
LEMMA TableKept ==
  ASSUME KInv, UNCHANGED <<docs, doomed>>,
         \A t \in Thread : pc'[t] \in Deleting => pc[t] \in Deleting,
         ready' \in [Proc -> BOOLEAN], store' \in [Proc -> BOOLEAN]
  PROVE  KInv'
<1>1. KTypes'
  <2>1. Copy' = Copy /\ Proc' = Proc
    BY DEF Copy, Proc
  <2> QED
    BY <2>1 DEF KInv, KTypes
<1> QED
  BY <1>1, NothingInserted

LEMMA StepKept ==
  ASSUME DInv, KInv, NEW t \in Thread, NEW x, x \notin Deleting,
         pc' = [pc EXCEPT ![t] = x], UNCHANGED <<docs, doomed>>,
         ready' \in [Proc -> BOOLEAN], store' \in [Proc -> BOOLEAN]
  PROVE  KInv'
<1>1. pc \in [Thread -> At]
  BY DEF DInv, DomainTypeOK
<1>2. \A u \in Thread : pc'[u] \in Deleting => pc[u] \in Deleting
  BY <1>1
<1> QED
  BY <1>2, TableKept

\* The tools and the buttons have nothing to do with the table.
LEMMA DomainElsewhere ==
  ASSUME DInv, NEW t \in Thread, DomainStep(t)
  PROVE  \E x : x \notin Deleting /\ pc' = [pc EXCEPT ![t] = x]
<1>1. CASE InstallSpec(t)
  <2> DEFINE x == FirstStep(loc[t].kind)
  <2>1. loc[t].kind \in Kind
    BY DEF DInv, DomainTypeOK, Request
  <2>2. x \notin Deleting
    BY <2>1, FirstStepType DEF Deleting
  <2>3. pc' = [pc EXCEPT ![t] = x]
    BY <1>1 DEF InstallSpec, Go
  <2> HIDE DEF x
  <2> QED
    BY <2>2, <2>3
<1>2. CASE \/ ReadSpec(t) \/ Ground(t) \/ InitModel(t) \/ Generate(t) \/ OpenCsv(t)
           \/ OpenPkl(t) \/ BuildGraph(t) \/ RunScenarios(t) \/ ResetModel(t)
  <2>1. \E x \in {"install", "model", "data", "open", "csv", "pickle", "return", "idle"} :
          pc' = [pc EXCEPT ![t] = x]
    BY <1>2 DEF ReadSpec, Ground, InitModel, Generate, OpenCsv, OpenPkl, BuildGraph,
       RunScenarios, ResetModel, Go, End
  <2> QED
    BY <2>1 DEF Deleting
<1>3. CASE CheckModel(t) \/ EnsureData(t) \/ EnsureModel(t) \/ ClosePkl(t)
  <2>1. \E x \in {"init", "return", "gen", "pkl", "train", "load", "reset"} :
          pc' = [pc EXCEPT ![t] = x]
    BY <1>3 DEF CheckModel, EnsureData, EnsureModel, ClosePkl, Go
  <2> QED
    BY <2>1 DEF Deleting
<1>4. CASE CloseCsv(t) \/ Train(t) \/ LoadModel(t) \/ ReturnModel(t)
  <2>1. \E x \in {"pkl", "idle", "dump", "build", "settings"} : pc' = [pc EXCEPT ![t] = x]
    BY <1>4 DEF CloseCsv, Train, LoadModel, ReturnModel, Go, End
  <2> QED
    BY <2>1 DEF Deleting
<1> QED
  BY <1>1, <1>2, <1>3, <1>4 DEF DomainStep

LEMMA IndexCopies ==
  ASSUME DInv, KInv, NEW t \in Thread, KnowledgeStep(t)
  PROVE  KInv'
<1>T. /\ pc \in [Thread -> At] /\ Home[t] \in Proc /\ KTypes
      /\ docs \subseteq Copy /\ doomed \in [Thread -> SUBSET Copy]
      /\ ready \in [Proc -> BOOLEAN] /\ store \in [Proc -> BOOLEAN]
  BY DEF DInv, DomainTypeOK, Proc, KInv, KTypes
<1>c. Copy' = Copy /\ Proc' = Proc
  BY DEF Copy, Proc
<1>1. CASE CountDocs(t)
  <2>1. \E x \in {"search", "embed"} : pc' = [pc EXCEPT ![t] = x]
    BY <1>1 DEF CountDocs, Go
  <2>2. \E x : x \notin Deleting /\ pc' = [pc EXCEPT ![t] = x]
    BY <2>1 DEF Deleting
  <2>3. ready' \in [Proc -> BOOLEAN] /\ UNCHANGED <<docs, doomed, store>>
    BY <1>1, <1>T DEF CountDocs
  <2> QED
    BY <1>T, <2>2, <2>3, StepKept
<1>2. CASE Embed(t)
  <2>1. \E x \in {"delete", "search", "idle"} : pc' = [pc EXCEPT ![t] = x]
    BY <1>2 DEF Embed, BuildFails, Go, End
  <2>2. \E x : x \notin Deleting /\ pc' = [pc EXCEPT ![t] = x]
    BY <2>1 DEF Deleting
  <2>3. UNCHANGED <<docs, doomed, ready, store>>
    BY <1>2 DEF Embed, kvars
  <2> QED
    BY <1>T, <2>2, <2>3, StepKept
<1>3. CASE Delete(t)
  <2>1. doomed' = [doomed EXCEPT ![t] = docs] /\ UNCHANGED <<docs, ready, store>>
        /\ pc' = [pc EXCEPT ![t] = "lock"]
    BY <1>3 DEF Delete, Go
  <2>2. doomed'[t] = docs /\ \A u \in Thread \ {t} : doomed'[u] = doomed[u] /\ pc'[u] = pc[u]
    BY <1>T, <2>1
  <2>3. doomed' \in [Thread -> SUBSET Copy]
    BY <1>T, <2>1
  <2>4. KTypes'
    BY <1>T, <1>c, <2>1, <2>3 DEF KTypes
  <2>5. \A u \in Thread : doomed'[u] \subseteq doomed[u] \/ doomed'[u] \subseteq docs
    BY <2>2
  <2>6. \A u \in Thread : pc'[u] \in Deleting =>
          \/ docs' \subseteq doomed'[u]
          \/ pc[u] \in Deleting /\ doomed[u] \cap docs' \subseteq doomed'[u]
    BY <2>1, <2>2
  <2> QED
    BY <2>1, <2>4, <2>5, <2>6, NothingInserted
<1>4. CASE Lock(t)
  <2>1. doomed' = [doomed EXCEPT ![t] = doomed[t] \cap docs] /\ UNCHANGED <<docs, ready, store>>
        /\ pc[t] = "lock" /\ pc' = [pc EXCEPT ![t] = "insert"]
    BY <1>4 DEF Lock, Go
  <2>2. doomed'[t] = doomed[t] \cap docs
        /\ \A u \in Thread \ {t} : doomed'[u] = doomed[u] /\ pc'[u] = pc[u]
    BY <1>T, <2>1
  <2>3. doomed' \in [Thread -> SUBSET Copy]
    BY <1>T, <2>1
  <2>4. KTypes'
    BY <1>T, <1>c, <2>1, <2>3 DEF KTypes
  <2>5. \A u \in Thread : doomed'[u] \subseteq doomed[u] \/ doomed'[u] \subseteq docs
    BY <2>2
  <2>6. pc[t] \in Deleting
    BY <2>1 DEF Deleting
  <2>7. \A u \in Thread : pc'[u] \in Deleting =>
          \/ docs' \subseteq doomed'[u]
          \/ pc[u] \in Deleting /\ doomed[u] \cap docs' \subseteq doomed'[u]
    BY <2>1, <2>2, <2>6
  <2> QED
    BY <2>1, <2>4, <2>5, <2>7, NothingInserted
<1>5. CASE Insert(t)
  <2>1. doomed' = [doomed EXCEPT ![t] = {}] /\ store' = store /\ pc[t] = "insert"
    BY <1>5 DEF Insert
  <2>2. \E x \in {"idle", "faiss", "search"} : pc' = [pc EXCEPT ![t] = x]
    BY <1>5 DEF Insert, BuildFails, Go, End
  <2>3. pc'[t] \notin Deleting /\ \A u \in Thread \ {t} : pc'[u] = pc[u]
    BY <1>T, <2>2 DEF Deleting
  <2>4. ready' \in [Proc -> BOOLEAN]
    BY <1>5, <1>T DEF Insert
  <2>5. CASE docs' = docs
    <3>1. doomed'[t] = {} /\ \A u \in Thread \ {t} : doomed'[u] = doomed[u]
      BY <1>T, <2>1
    <3>2. doomed' \in [Thread -> SUBSET Copy]
      BY <1>T, <2>1
    <3>3. KTypes'
      BY <1>T, <1>c, <2>1, <2>4, <2>5, <3>2 DEF KTypes
    <3>4. \A u \in Thread : doomed'[u] \subseteq doomed[u] \/ doomed'[u] \subseteq docs
      BY <3>1
    <3>5. \A u \in Thread : pc'[u] \in Deleting =>
            \/ docs' \subseteq doomed'[u]
            \/ pc[u] \in Deleting /\ doomed[u] \cap docs' \subseteq doomed'[u]
      BY <2>3, <3>1
    <3> QED
      BY <2>5, <3>3, <3>4, <3>5, NothingInserted
  <2>6. CASE docs' = (docs \ doomed[t]) \cup
               {CHOOSE c \in Copy : \A u \in Thread : c \notin docs \cup doomed[u]}
    <3> DEFINE new == CHOOSE c \in Copy : \A u \in Thread : c \notin docs \cup doomed[u]
    <3>1. PICK free \in Copy : free \notin InUse
      BY FreeCopy
    <3>2. \A u \in Thread : free \notin docs \cup doomed[u]
      BY <3>1 DEF InUse
    <3>3. new \in Copy /\ \A u \in Thread : new \notin docs \cup doomed[u]
      BY <3>2
    <3>4. docs' = (docs \ doomed[t]) \cup {new}
      BY <2>6
    <3> HIDE DEF new
    <3>5. new \notin InUse
      BY <3>3 DEF InUse
    <3>6. pc[t] \in Deleting /\ store' \in [Proc -> BOOLEAN]
      BY <1>T, <2>1 DEF Deleting
    <3> QED
      BY <2>1, <2>3, <2>4, <3>3, <3>4, <3>5, <3>6, CopyInserted
  <2> QED
    BY <1>5, <2>5, <2>6 DEF Insert
<1>6. CASE Search(t)
  <2>1. \E x \in {"fallback", "idle"} : pc' = [pc EXCEPT ![t] = x]
    BY <1>6 DEF Search, Go, End
  <2>2. \E x : x \notin Deleting /\ pc' = [pc EXCEPT ![t] = x]
    BY <2>1 DEF Deleting
  <2>3. UNCHANGED <<docs, doomed, ready, store>>
    BY <1>6 DEF Search, kvars
  <2> QED
    BY <1>T, <2>2, <2>3, StepKept
<1>7. CASE Fallback(t)
  <2>1. \E x \in {"faiss", "embed", "idle"} : pc' = [pc EXCEPT ![t] = x]
    BY <1>7 DEF Fallback, Go, End
  <2>2. \E x : x \notin Deleting /\ pc' = [pc EXCEPT ![t] = x]
    BY <2>1 DEF Deleting
  <2>3. UNCHANGED <<docs, doomed, ready, store>>
    BY <1>7 DEF Fallback, kvars
  <2> QED
    BY <1>T, <2>2, <2>3, StepKept
<1>8. CASE LoadFaiss(t)
  <2>1. \E x : x \notin Deleting /\ pc' = [pc EXCEPT ![t] = x]
    BY <1>8 DEF LoadFaiss, Go, End, Deleting
  <2>2. FaissBuilt \in BOOLEAN => store' \in [Proc -> BOOLEAN]
    BY <1>8, <1>T DEF LoadFaiss
  <2>3. UNCHANGED <<docs, doomed, ready>>
    BY <1>8 DEF LoadFaiss
  <2> QED
    BY <1>T, <2>1, <2>2, <2>3, StepKept, FaissAssumption
<1> QED
  BY <1>1, <1>2, <1>3, <1>4, <1>5, <1>6, <1>7, <1>8 DEF KnowledgeStep

LEMMA CrashCopies ==
  ASSUME DInv, KInv, NEW p \in Proc, Crash(p)
  PROVE  KInv'
<1>T. /\ pc \in [Thread -> At] /\ docs \subseteq Copy /\ doomed \in [Thread -> SUBSET Copy]
      /\ ready \in [Proc -> BOOLEAN] /\ store \in [Proc -> BOOLEAN]
  BY DEF DInv, DomainTypeOK, KInv, KTypes
<1>c. Copy' = Copy /\ Proc' = Proc
  BY DEF Copy, Proc
<1>1. /\ doomed' = [t \in Thread |-> IF Home[t] = p THEN {} ELSE doomed[t]]
      /\ pc' = [t \in Thread |-> IF Home[t] = p THEN "idle" ELSE pc[t]]
      /\ ready' \in [Proc -> BOOLEAN] /\ store' \in [Proc -> BOOLEAN] /\ docs' = docs
  BY <1>T DEF Crash, DomainCrash
<1>2. doomed' \in [Thread -> SUBSET Copy]
  BY <1>T, <1>1
<1>3. KTypes'
  BY <1>T, <1>c, <1>1, <1>2 DEF KTypes
<1>4. \A u \in Thread : doomed'[u] \subseteq doomed[u] \/ doomed'[u] \subseteq docs
  BY <1>1
<1>5. \A u \in Thread : pc'[u] \in Deleting =>
        pc[u] \in Deleting /\ doomed[u] \cap docs' \subseteq doomed'[u]
  BY <1>1 DEF Deleting
<1> QED
  BY <1>1, <1>3, <1>4, <1>5, NothingInserted

LEMMA KInvInit == Init => KInv
<1> SUFFICES ASSUME Init PROVE KInv
  OBVIOUS
<1>1. docs = {} /\ doomed = [t \in Thread |-> {}] /\ KTypes
  BY DEF Init, KTypes
<1>2. InUse = {}
  BY <1>1 DEF InUse
<1> DEFINE own == [c \in {} |-> c]
<1>3. own \in [InUse -> Thread] /\ Fits(own)
  BY <1>1, <1>2 DEF Fits, Distinct
<1> QED
  BY <1>1, <1>3 DEF KInv

LEMMA KInvNext == DInv /\ KInv /\ [Next]_vars => KInv'
<1> SUFFICES ASSUME DInv, KInv, [Next]_vars PROVE KInv'
  OBVIOUS
<1>T. ready \in [Proc -> BOOLEAN] /\ store \in [Proc -> BOOLEAN]
  BY DEF KInv, KTypes
<1>1. CASE UNCHANGED vars
  <2>1. UNCHANGED <<pc, docs, doomed, ready, store>>
    BY <1>1 DEF vars, dvars, kvars
  <2> QED
    BY <1>T, <2>1, TableKept
<1>2. ASSUME NEW t \in Thread, DomainStep(t), UNCHANGED kvars PROVE KInv'
  <2>1. UNCHANGED <<docs, doomed, ready, store>>
    BY <1>2 DEF kvars
  <2> QED
    BY <1>T, <1>2, <2>1, DomainElsewhere, StepKept
<1>3. ASSUME NEW t \in Thread, KnowledgeStep(t) PROVE KInv'
  BY <1>3, IndexCopies
<1>4. ASSUME NEW t \in Thread, NEW k \in Kind, Start(t, k), UNCHANGED kvars PROVE KInv'
  <2> DEFINE x == IF k \in Button \/ spec[Home[t]] = None THEN "read" ELSE FirstStep(k)
  <2>1. x \notin Deleting
    BY FirstStepType DEF Deleting
  <2>2. pc' = [pc EXCEPT ![t] = x] /\ UNCHANGED <<docs, doomed, ready, store>>
    BY <1>4 DEF Start, Go, kvars
  <2> HIDE DEF x
  <2> QED
    BY <1>T, <2>1, <2>2, StepKept
<1>5. ASSUME NEW s \in SpecId, Activate(s), UNCHANGED kvars PROVE KInv'
  <2>1. UNCHANGED <<pc, docs, doomed, ready, store>>
    BY <1>5 DEF Activate, kvars
  <2> QED
    BY <1>T, <2>1, TableKept
<1>6. ASSUME NEW p \in Proc, Crash(p) PROVE KInv'
  BY <1>6, CrashCopies
<1> QED
  BY <1>1, <1>2, <1>3, <1>4, <1>5, <1>6 DEF Next, Step

\* A rebuild that gets its locks always has a copy to insert that nobody else inserts or
\* deletes, and every request, whichever fail or die, leaves the table, the transactions
\* and the flags of its process as their types say (knowledge/build_index.py:295).
THEOREM IndexTypesAlways == Spec => []TypeOK
<1>1. DInv /\ KInv => TypeOK
  BY DEF DInv, KInv, KTypes, TypeOK
<1> QED
  BY <1>1, DInvInit, DInvNext, KInvInit, KInvNext, PTL DEF Spec

LEMMA CopyOfEach ==
  ASSUME KInv
  PROVE  Cardinality(docs) <= Cardinality(Thread)
<1>1. PICK own \in [InUse -> Thread] : Fits(own)
  BY DEF KInv
<1>2. docs \subseteq InUse
  BY DEF KInv, KTypes, InUse
<1> DEFINE mine == [c \in docs |-> own[c]]
<1>3. mine \in [docs -> Thread] /\ \A c, d \in docs : mine[c] = mine[d] => c = d
  BY <1>1, <1>2 DEF Fits, Distinct
<1> HIDE DEF mine
<1>4. mine \in Injection(docs, Thread)
  BY <1>3 DEF Injection, IsInjective
<1> QED
  BY <1>4, ThreadAssumption, FS_Injection

\* However many processes rebuild the table at once and whichever of them fail or die,
\* a search finds each document at most once for each thread that can rebuild it: the
\* copies that overlapping rebuilds leave do not pile up, as the next rebuild deletes
\* them all (knowledge/build_index.py:295).
THEOREM CopiesBounded == Spec => [](Cardinality(docs) <= Cardinality(Thread))
BY CopyOfEach, DInvInit, DInvNext, KInvInit, KInvNext, PTL DEF Spec

-----------------------------------------------------------------------------
(* Least elements, in place of induction. *)

LEMMA LeastNumber ==
  ASSUME NEW S, S \subseteq Nat, S # {}
  PROVE  \E m \in S : \A n \in S : m <= n
<1> DEFINE R == OpToRel(<, Nat)
<1>1. PICK m \in S : \A n \in S : ~ (<<n, m>> \in R)
  <2>1. IsWellFoundedOn(R, Nat)
    BY NatLessThanWellFounded, Zenon
  <2> HIDE DEF R
  <2> QED
    BY <2>1, WFMin
<1>2. ASSUME NEW n \in S PROVE m <= n
  <2>1. n \in Nat /\ m \in Nat
    OBVIOUS
  <2>2. ~ (n < m)
    BY <1>1, <2>1 DEF OpToRel
  <2> QED
    BY <2>1, <2>2
<1> QED
  BY <1>2

LEMMA SmallestSubset ==
  ASSUME NEW S, IsFiniteSet(S), NEW B, B \subseteq SUBSET S, B # {}
  PROVE  \E T \in B : \A x \in T : T \ {x} \notin B
<1> DEFINE R == StrictSubsetOrdering(S)
<1>1. IsWellFoundedOn(R, FiniteSubsetsOf(S)) /\ B \subseteq FiniteSubsetsOf(S)
  BY FS_StrictSubsetOrderingWellFounded, FS_FiniteSubsetsOfFinite
<1>2. PICK T \in B : \A U \in B : ~ (<<U, T>> \in R)
  <2> HIDE DEF R
  <2> QED
    BY <1>1, WFMin
<1>3. ASSUME NEW x \in T, T \ {x} \in B PROVE FALSE
  BY <1>2, <1>3 DEF StrictSubsetOrdering
<1> QED
  BY <1>3

\* What holds of 0, and of the next number whenever of one, holds of all of them.
LEMMA UpTo ==
  ASSUME NEW n \in Nat, NEW Good, 0 \in Good,
         \A k \in 1..n : k - 1 \in Good => k \in Good
  PROVE  0..n \subseteq Good
<1> DEFINE B == {k \in 0..n : k \notin Good}
<1>1. ASSUME B # {} PROVE FALSE
  <2>1. B \subseteq Nat
    OBVIOUS
  <2>2. PICK m \in B : \A k \in B : m <= k
    <3> HIDE DEF B
    <3> QED
      BY <1>1, <2>1, LeastNumber
  <2>3. m \in 1..n /\ m - 1 \in 0..n
    <3>1. m \in 0..n /\ m # 0
      OBVIOUS
    <3> QED
      BY <3>1
  <2>4. m - 1 \notin B
    BY <2>2, <2>3
  <2> QED
    BY <2>3, <2>4
<1> QED
  BY <1>1

-----------------------------------------------------------------------------
(* Firsts. *)

LEMMA MaxOf ==
  ASSUME NEW n \in Nat, NEW T \in SUBSET (1..n), T # {}
  PROVE  Max(T) \in T /\ \A k \in T : k <= Max(T)
<1> DEFINE Below == {n - k : k \in T}
<1>1. Below \subseteq Nat /\ Below # {}
  <2>1. ASSUME NEW k \in T PROVE n - k \in Nat
    <3>1. k \in 1..n
      OBVIOUS
    <3> QED
      BY <3>1
  <2> QED
    BY <2>1
<1>2. PICK b \in Below : \A c \in Below : b <= c
  <2> HIDE DEF Below
  <2> QED
    BY <1>1, LeastNumber
<1>3. PICK m \in T : b = n - m
  OBVIOUS
<1>4. ASSUME NEW k \in T PROVE m >= k
  <2>1. n - m <= n - k
    BY <1>2, <1>3
  <2>2. k \in 1..n /\ m \in 1..n
    OBVIOUS
  <2> QED
    BY <2>1, <2>2
<1>5. Max(T) \in T /\ \A k \in T : Max(T) >= k
  BY <1>4 DEF Max
<1> QED
  BY <1>5

LEMMA MaxOfInterval ==
  ASSUME NEW n \in Nat, NEW k \in 1..n
  PROVE  Max(1..k) = k /\ (1..k) \ {k} = 1..(k - 1) /\ 1..k # {}
<1>1. 1..k \in SUBSET (1..n) /\ k \in 1..k
  OBVIOUS
<1>2. Max(1..k) \in 1..k /\ \A j \in 1..k : j <= Max(1..k)
  BY <1>1, MaxOf
<1> QED
  BY <1>1, <1>2

\* acc after x, in Firsts.
FirstsStep(S, acc, x) == IF x \in S /\ ~Contains(acc, x) THEN Append(acc, x) ELSE acc

\* values after v, in Evaluate.
EvaluateStep(predicted, values, v) ==
  IF values = KeyError THEN KeyError
  ELSE IF v \in DOMAIN values THEN values
  ELSE IF v = "demand" THEN Put(values, v, predicted)
  ELSE IF v \notin DOMAIN Needs THEN values
  ELSE IF Needs[v] \subseteq DOMAIN values THEN Put(values, v, Formula(v, values))
  ELSE KeyError

\* Either of them, so that what a fold comes to is said once.
FoldStep(kind, a, acc, x) ==
  IF kind = "firsts" THEN FirstsStep(a, acc, x) ELSE EvaluateStep(a, acc, x)

FoldsTo(kind, a, base, s, U, f) ==
  f = [T \in SUBSET U |-> IF T = {} THEN base
                          ELSE FoldStep(kind, a, f[T \ {Max(T)}], s[Max(T)])]

LEMMA FoldOneMore ==
  ASSUME NEW kind, NEW a, NEW base, NEW s, NEW n \in Nat, NEW U \in SUBSET (1..n), U # {},
         NEW f, FoldsTo(kind, a, base, s, U \ {Max(U)}, f)
  PROVE  \E g : FoldsTo(kind, a, base, s, U, g)
<1> DEFINE x == Max(U)
           g == [T \in SUBSET U |-> IF x \in T THEN FoldStep(kind, a, f[T \ {x}], s[x])
                                    ELSE f[T]]
<1>1. x \in U /\ \A k \in U : k <= x
  BY MaxOf
<1>2. ASSUME NEW T \in SUBSET U, x \in T
      PROVE  Max(T) = x /\ T # {} /\ T \ {x} \in SUBSET U /\ x \notin T \ {x}
  <2>1. T \in SUBSET (1..n)
    OBVIOUS
  <2>2. Max(T) \in T /\ \A k \in T : k <= Max(T)
    BY <1>2, <2>1, MaxOf
  <2>3. Max(T) \in U /\ Max(T) \in Int /\ x \in Int
    <3>1. Max(T) \in U /\ x \in U
      BY <2>2, <1>1
    <3>2. \A k \in U : k \in Int
      OBVIOUS
    <3> HIDE DEF x
    <3> QED
      BY <3>1, <3>2
  <2>4. x <= Max(T) /\ Max(T) <= x
    BY <1>1, <1>2, <2>2, <2>3
  <2> HIDE DEF x
  <2> QED
    BY <1>2, <2>3, <2>4
<1>3. ASSUME NEW T \in SUBSET U, x \notin T
      PROVE  f[T] = IF T = {} THEN base
                    ELSE FoldStep(kind, a, f[T \ {Max(T)}], s[Max(T)])
  <2>1. T \in SUBSET (U \ {x})
    BY <1>3
  <2> QED
    BY <2>1 DEF FoldsTo
<1>4. ASSUME NEW T \in SUBSET U
      PROVE  g[T] = IF T = {} THEN base
                    ELSE FoldStep(kind, a, g[T \ {Max(T)}], s[Max(T)])
  <2>1. CASE x \in T
    <3>1. Max(T) = x /\ T # {} /\ T \ {x} \in SUBSET U /\ x \notin T \ {x}
      BY <1>2, <2>1
    <3>2. g[T] = FoldStep(kind, a, f[T \ {x}], s[x]) /\ g[T \ {x}] = f[T \ {x}]
      BY <2>1, <3>1
    <3> HIDE DEF g, x
    <3> QED
      BY <3>1, <3>2
  <2>2. CASE x \notin T
    <3>1. g[T] = f[T] /\ T \ {Max(T)} \in SUBSET U /\ x \notin T \ {Max(T)}
      BY <2>2
    <3>2. g[T \ {Max(T)}] = f[T \ {Max(T)}]
      BY <3>1
    <3> HIDE DEF g, x
    <3> QED
      BY <1>3, <2>2, <3>1, <3>2
  <2> QED
    BY <2>1, <2>2
<1>5. g = [T \in SUBSET U |-> g[T]]
  OBVIOUS
<1> HIDE DEF g
<1>6. FoldsTo(kind, a, base, s, U, g)
  BY <1>4, <1>5 DEF FoldsTo
<1> QED
  BY <1>6

LEMMA FoldExists ==
  ASSUME NEW kind, NEW a, NEW base, NEW s, NEW n \in Nat
  PROVE  \E f : FoldsTo(kind, a, base, s, 1..n, f)
<1> DEFINE B == {U \in SUBSET (1..n) : ~ \E f : FoldsTo(kind, a, base, s, U, f)}
<1>1. ASSUME B # {} PROVE FALSE
  <2>1. IsFiniteSet(1..n) /\ B \subseteq SUBSET (1..n)
    BY FS_Interval
  <2>2. PICK U \in B : \A x \in U : U \ {x} \notin B
    <3> HIDE DEF B
    <3> QED
      BY <1>1, <2>1, SmallestSubset
  <2>3. U \in SUBSET (1..n) /\ ~ \E f : FoldsTo(kind, a, base, s, U, f)
    OBVIOUS
  <2>4. CASE U = {}
    <3> DEFINE f == [T \in SUBSET U |-> base]
    <3>1. FoldsTo(kind, a, base, s, U, f)
      BY <2>4 DEF FoldsTo
    <3> QED
      BY <2>3, <3>1
  <2>5. CASE U # {}
    <3>1. Max(U) \in U
      BY <2>3, <2>5, MaxOf
    <3>2. U \ {Max(U)} \notin B /\ U \ {Max(U)} \in SUBSET (1..n)
      BY <2>2, <2>3, <3>1
    <3>3. PICK f : FoldsTo(kind, a, base, s, U \ {Max(U)}, f)
      BY <3>2
    <3> QED
      BY <2>3, <2>5, <3>3, FoldOneMore
  <2> QED
    BY <2>4, <2>5
<1>2. 1..n \in SUBSET (1..n)
  OBVIOUS
<1> QED
  BY <1>1, <1>2

\* A fold goes through the sequence from its first element to its last.
LEMMA FoldWalk ==
  ASSUME NEW kind, NEW a, NEW base, NEW s, NEW n \in Nat,
         NEW f, FoldsTo(kind, a, base, s, 1..n, f)
  PROVE  \E h : /\ h[0] = base /\ h[n] = f[1..n]
                /\ \A k \in 1..n : h[k] = FoldStep(kind, a, h[k - 1], s[k])
<1> DEFINE h == [k \in 0..n |-> f[1..k]]
<1>1. h[0] = base /\ h[n] = f[1..n]
  <2>1. 1..0 = {} /\ 1..0 \in SUBSET (1..n) /\ 0 \in 0..n /\ n \in 0..n
    OBVIOUS
  <2>2. f[{}] = base
    BY <2>1 DEF FoldsTo
  <2> QED
    BY <2>1, <2>2
<1>2. ASSUME NEW k \in 1..n PROVE h[k] = FoldStep(kind, a, h[k - 1], s[k])
  <2>1. Max(1..k) = k /\ (1..k) \ {k} = 1..(k - 1) /\ 1..k # {}
    BY MaxOfInterval
  <2>2. 1..k \in SUBSET (1..n) /\ k \in 0..n /\ k - 1 \in 0..n
    OBVIOUS
  <2>3. f[1..k] = FoldStep(kind, a, f[(1..k) \ {Max(1..k)}], s[Max(1..k)])
    BY <2>1, <2>2 DEF FoldsTo
  <2> QED
    BY <2>1, <2>2, <2>3
<1> HIDE DEF h
<1> QED
  BY <1>1, <1>2

FirstsFolds(s, S, U, f) ==
  f = [T \in SUBSET U |-> IF T = {} THEN <<>>
                          ELSE FirstsStep(S, f[T \ {Max(T)}], s[Max(T)])]

LEMMA FirstsFold ==
  ASSUME NEW s, NEW S, NEW U, NEW f
  PROVE  FirstsFolds(s, S, U, f) <=> FoldsTo("firsts", S, <<>>, s, U, f)
BY DEF FirstsFolds, FoldsTo, FoldStep

LEMMA FirstsWalk ==
  ASSUME NEW X, NEW s \in Seq(X), NEW S
  PROVE  \E h : /\ h[0] = <<>>
                /\ \A k \in 1..Len(s) : h[k] = FirstsStep(S, h[k - 1], s[k])
                /\ Firsts(s, S) = h[Len(s)]
<1>1. Len(s) \in Nat /\ DOMAIN s = 1..Len(s)
  OBVIOUS
<1>2. \E f : FirstsFolds(s, S, 1..Len(s), f)
  BY <1>1, FoldExists, FirstsFold
<1>3. PICK f : f = CHOOSE g : FirstsFolds(s, S, 1..Len(s), g)
  OBVIOUS
<1>4. FoldsTo("firsts", S, <<>>, s, 1..Len(s), f)
  BY <1>2, <1>3, FirstsFold
<1>5. Firsts(s, S) = (CHOOSE g : FirstsFolds(s, S, DOMAIN s, g))[DOMAIN s]
  BY DEF Firsts, FoldLeft, MapThenFoldSet, FirstsFolds, FirstsStep
<1>6. PICK h : /\ h[0] = <<>> /\ h[Len(s)] = f[1..Len(s)]
               /\ \A k \in 1..Len(s) : h[k] = FoldStep("firsts", S, h[k - 1], s[k])
  BY <1>1, <1>4, FoldWalk
<1>7. \A k \in 1..Len(s) : h[k] = FirstsStep(S, h[k - 1], s[k])
  BY <1>6 DEF FoldStep
<1> QED
  BY <1>1, <1>3, <1>5, <1>6, <1>7

EvaluateFolds(order, base, predicted, U, f) ==
  f = [T \in SUBSET U |-> IF T = {} THEN base
                          ELSE EvaluateStep(predicted, f[T \ {Max(T)}], order[Max(T)])]

LEMMA EvaluateFold ==
  ASSUME NEW order, NEW base, NEW predicted, NEW U, NEW f
  PROVE  EvaluateFolds(order, base, predicted, U, f)
           <=> FoldsTo("evaluate", predicted, base, order, U, f)
BY DEF EvaluateFolds, FoldsTo, FoldStep

Given(price, marketing, unitCost) ==
  [price |-> price, marketing |-> marketing, _unit_cost |-> unitCost]

LEMMA EvaluateWalk ==
  ASSUME NEW graph, NEW price, NEW marketing, NEW unitCost, NEW predicted,
         NEW X, NEW order \in Seq(X), order = EvalOrder(graph)
  PROVE  \E h : /\ h[0] = Given(price, marketing, unitCost)
                /\ \A k \in 1..Len(order) : h[k] = EvaluateStep(predicted, h[k - 1], order[k])
                /\ Evaluate(graph, price, marketing, unitCost, predicted) = h[Len(order)]
<1>1. Len(order) \in Nat /\ DOMAIN order = 1..Len(order)
  OBVIOUS
<1>2. PICK base : base = Given(price, marketing, unitCost)
  OBVIOUS
<1>3. \E f : EvaluateFolds(order, base, predicted, 1..Len(order), f)
  BY <1>1, FoldExists, EvaluateFold
<1>4. PICK f : f = CHOOSE g : EvaluateFolds(order, base, predicted, 1..Len(order), g)
  OBVIOUS
<1>5. FoldsTo("evaluate", predicted, base, order, 1..Len(order), f)
  BY <1>3, <1>4, EvaluateFold
<1>6. Evaluate(graph, price, marketing, unitCost, predicted) =
        (CHOOSE g : EvaluateFolds(order, base, predicted, DOMAIN order, g))[DOMAIN order]
  BY <1>2 DEF Evaluate, FoldLeft, MapThenFoldSet, EvaluateFolds, EvaluateStep, Given
<1>7. PICK h : /\ h[0] = base /\ h[Len(order)] = f[1..Len(order)]
               /\ \A k \in 1..Len(order) :
                    h[k] = FoldStep("evaluate", predicted, h[k - 1], order[k])
  BY <1>1, <1>5, FoldWalk
<1>8. \A k \in 1..Len(order) : h[k] = EvaluateStep(predicted, h[k - 1], order[k])
  BY <1>7 DEF FoldStep
<1> QED
  BY <1>1, <1>2, <1>4, <1>6, <1>7, <1>8

Once(s) == \A i, j \in 1..Len(s) : s[i] = s[j] => i = j

LEMMA OnceAppend ==
  ASSUME NEW X, NEW s \in Seq(X), NEW x \in X, Once(s), ~Contains(s, x)
  PROVE  Once(Append(s, x))
<1>1. ASSUME NEW i \in 1..(Len(s) + 1), NEW j \in 1..(Len(s) + 1),
             Append(s, x)[i] = Append(s, x)[j]
      PROVE  i = j
  <2>1. \A k \in 1..(Len(s) + 1) : \/ k \in 1..Len(s) /\ Append(s, x)[k] = s[k]
                                   \/ k = Len(s) + 1 /\ Append(s, x)[k] = x
    OBVIOUS
  <2>2. \A k \in 1..Len(s) : s[k] # x
    BY DEF Contains
  <2> QED
    BY <1>1, <2>1, <2>2 DEF Once
<1>2. Len(Append(s, x)) = Len(s) + 1
  OBVIOUS
<1> QED
  BY <1>1, <1>2 DEF Once

LEMMA ToSetOf ==
  ASSUME NEW X, NEW s \in Seq(X)
  PROVE  /\ ToSet(s) = {s[i] : i \in 1..Len(s)}
         /\ ToSet(s) \subseteq X
         /\ \A x : Contains(s, x) <=> x \in ToSet(s)
<1>1. DOMAIN s = 1..Len(s)
  OBVIOUS
<1> QED
  BY <1>1 DEF ToSet, Contains

LEMMA ToSetAppend ==
  ASSUME NEW X, NEW s \in Seq(X), NEW x \in X
  PROVE  ToSet(Append(s, x)) = ToSet(s) \cup {x}
<1> DEFINE t == Append(s, x)
<1>1. t \in Seq(X) /\ Len(t) = Len(s) + 1 /\ Len(s) \in Nat
  OBVIOUS
<1>2. \A i \in 1..Len(s) : t[i] = s[i]
  OBVIOUS
<1>3. t[Len(s) + 1] = x
  OBVIOUS
<1>4. ToSet(t) = {t[i] : i \in 1..Len(t)} /\ ToSet(s) = {s[i] : i \in 1..Len(s)}
  BY <1>1, ToSetOf
<1>5. 1..Len(t) = 1..Len(s) \cup {Len(s) + 1}
  BY <1>1
<1> HIDE DEF t
<1>6. ToSet(t) \subseteq ToSet(s) \cup {x}
  BY <1>2, <1>3, <1>4, <1>5
<1>7. ToSet(s) \subseteq ToSet(t) /\ x \in ToSet(t)
  BY <1>2, <1>3, <1>4, <1>5
<1> QED
  BY <1>6, <1>7 DEF t

\* Firsts(s, S) has the members of S that s has, each once.
LEMMA FirstsOf ==
  ASSUME NEW X, NEW s \in Seq(X), NEW S
  PROVE  /\ Firsts(s, S) \in Seq(X)
         /\ Once(Firsts(s, S))
         /\ ToSet(Firsts(s, S)) = ToSet(s) \cap S
<1>1. PICK h : /\ h[0] = <<>>
               /\ \A k \in 1..Len(s) : h[k] = FirstsStep(S, h[k - 1], s[k])
               /\ Firsts(s, S) = h[Len(s)]
  BY FirstsWalk
<1>2. Len(s) \in Nat /\ \A k \in 1..Len(s) : s[k] \in X
  OBVIOUS
<1> DEFINE Seen(k) == {s[i] : i \in 1..k}
           Good == {k \in Nat : k <= Len(s) => /\ h[k] \in Seq(X) /\ Once(h[k])
                                               /\ ToSet(h[k]) = Seen(k) \cap S}
<1>3. 0 \in Good
  <2>1. <<>> \in Seq(X) /\ Once(<<>>) /\ ToSet(<<>>) = {} /\ Seen(0) = {}
    BY DEF Once, ToSet
  <2> QED
    BY <1>1, <2>1
<1>4. ASSUME NEW k \in 1..Len(s), k - 1 \in Good PROVE k \in Good
  <2>1. k \in Nat /\ k - 1 \in Nat /\ k - 1 <= Len(s) /\ s[k] \in X
    BY <1>2
  <2>2. h[k - 1] \in Seq(X) /\ Once(h[k - 1]) /\ ToSet(h[k - 1]) = Seen(k - 1) \cap S
    BY <1>4, <2>1
  <2>3. Seen(k) = Seen(k - 1) \cup {s[k]}
    <3>1. 1..k = 1..(k - 1) \cup {k}
      BY <2>1
    <3> QED
      BY <3>1
  <2>4. h[k] = FirstsStep(S, h[k - 1], s[k])
    BY <1>1
  <2>5. Contains(h[k - 1], s[k]) <=> s[k] \in ToSet(h[k - 1])
    BY <2>2, ToSetOf
  <2> HIDE DEF Seen
  <2>6. CASE s[k] \in S /\ ~Contains(h[k - 1], s[k])
    <3>1. h[k] = Append(h[k - 1], s[k])
      BY <2>4, <2>6 DEF FirstsStep
    <3>2. h[k] \in Seq(X)
      BY <2>1, <2>2, <3>1
    <3>3. Once(h[k])
      BY <2>1, <2>2, <2>6, <3>1, OnceAppend
    <3>4. ToSet(h[k]) = ToSet(h[k - 1]) \cup {s[k]}
      BY <2>1, <2>2, <3>1, ToSetAppend
    <3>5. ToSet(h[k]) = Seen(k) \cap S
      BY <2>2, <2>3, <2>6, <3>4
    <3> QED
      BY <2>1, <3>2, <3>3, <3>5
  <2>7. CASE ~(s[k] \in S /\ ~Contains(h[k - 1], s[k]))
    <3>1. h[k] = h[k - 1]
      BY <2>4, <2>7 DEF FirstsStep
    <3>2. Seen(k) \cap S = Seen(k - 1) \cap S
      BY <2>2, <2>3, <2>5, <2>7
    <3> QED
      BY <2>1, <2>2, <3>1, <3>2
  <2> QED
    BY <2>6, <2>7
<1>5. Len(s) \in Good
  <2> HIDE DEF Good
  <2>1. 0..Len(s) \subseteq Good
    BY <1>2, <1>3, <1>4, UpTo
  <2> QED
    BY <1>2, <2>1
<1>6. ToSet(s) = Seen(Len(s))
  BY ToSetOf
<1> QED
  BY <1>1, <1>2, <1>5, <1>6

-----------------------------------------------------------------------------
(* FlattenSeq. *)

LEMMA ToSetConcat ==
  ASSUME NEW X, NEW s \in Seq(X), NEW t \in Seq(X)
  PROVE  ToSet(s \o t) = ToSet(s) \cup ToSet(t)
<1> DEFINE u == s \o t
<1>1. u \in Seq(X) /\ Len(u) = Len(s) + Len(t) /\ Len(s) \in Nat /\ Len(t) \in Nat
  OBVIOUS
<1>2. \A i \in 1..Len(s) : u[i] = s[i] /\ i \in 1..Len(u)
  OBVIOUS
<1>3. \A i \in 1..Len(t) : u[Len(s) + i] = t[i] /\ Len(s) + i \in 1..Len(u)
  OBVIOUS
<1>4. ASSUME NEW i \in 1..Len(u), i \notin 1..Len(s)
      PROVE  i - Len(s) \in 1..Len(t) /\ u[i] = t[i - Len(s)]
  BY <1>4
<1>5. /\ ToSet(u) = {u[i] : i \in 1..Len(u)}
      /\ ToSet(s) = {s[i] : i \in 1..Len(s)} /\ ToSet(t) = {t[i] : i \in 1..Len(t)}
  BY <1>1, ToSetOf
<1> HIDE DEF u
<1>6. ToSet(s) \subseteq ToSet(u) /\ ToSet(t) \subseteq ToSet(u)
  BY <1>2, <1>3, <1>5
<1>7. ASSUME NEW i \in 1..Len(u) PROVE u[i] \in ToSet(s) \cup ToSet(t)
  BY <1>2, <1>4, <1>5
<1> QED
  BY <1>5, <1>6, <1>7 DEF u

LEMMA OnceConcat ==
  ASSUME NEW X, NEW s \in Seq(X), NEW t \in Seq(X), Once(s), Once(t),
         ToSet(s) \cap ToSet(t) = {}
  PROVE  Once(s \o t)
<1> DEFINE u == s \o t
<1>1. Len(u) = Len(s) + Len(t) /\ Len(s) \in Nat /\ Len(t) \in Nat
  OBVIOUS
<1>2. \A i \in 1..Len(s) : u[i] = s[i]
  OBVIOUS
<1>3. ASSUME NEW i \in 1..Len(u), i \notin 1..Len(s)
      PROVE  i - Len(s) \in 1..Len(t) /\ u[i] = t[i - Len(s)]
  BY <1>3
<1>4. \A i \in 1..Len(s), j \in 1..Len(t) : s[i] # t[j]
  <2>1. ToSet(s) = {s[i] : i \in 1..Len(s)}
    BY ToSetOf
  <2>2. ToSet(t) = {t[j] : j \in 1..Len(t)}
    BY ToSetOf
  <2> QED
    BY <2>1, <2>2
<1> HIDE DEF u
<1>5. ASSUME NEW i \in 1..Len(u), NEW j \in 1..Len(u), u[i] = u[j] PROVE i = j
  <2>1. CASE i \in 1..Len(s) /\ j \in 1..Len(s)
    BY <1>2, <1>5, <2>1 DEF Once
  <2>2. CASE i \in 1..Len(s) /\ j \notin 1..Len(s)
    BY <1>2, <1>3, <1>4, <1>5, <2>2
  <2>3. CASE i \notin 1..Len(s) /\ j \in 1..Len(s)
    BY <1>2, <1>3, <1>4, <1>5, <2>3
  <2>4. CASE i \notin 1..Len(s) /\ j \notin 1..Len(s)
    <3>1. i - Len(s) \in 1..Len(t) /\ j - Len(s) \in 1..Len(t) /\ t[i - Len(s)] = t[j - Len(s)]
      BY <1>3, <1>5, <2>4
    <3>2. i - Len(s) = j - Len(s)
      BY <3>1 DEF Once
    <3> QED
      BY <1>1, <3>2
  <2> QED
    BY <2>1, <2>2, <2>3, <2>4
<1> QED
  BY <1>5 DEF Once, u

Flattens(ss, n, f) == f = [i \in 1..n |-> IF i = 1 THEN ss[i] ELSE f[i - 1] \o ss[i]]

LEMMA FlattenFold ==
  ASSUME NEW ss, NEW n \in Nat
  PROVE  \E f : Flattens(ss, n, f)
<1> DEFINE Good == {k \in Nat : \E f : Flattens(ss, k, f)}
<1>1. 0 \in Good
  <2> DEFINE f == [i \in 1..0 |-> <<>>]
  <2>1. Flattens(ss, 0, f)
    BY DEF Flattens
  <2> QED
    BY <2>1
<1>2. ASSUME NEW k \in 1..n, k - 1 \in Good PROVE k \in Good
  <2>1. PICK f : Flattens(ss, k - 1, f)
    BY <1>2
  <2> DEFINE g == [i \in 1..k |-> IF i = k THEN IF k = 1 THEN ss[k] ELSE f[k - 1] \o ss[k]
                                  ELSE f[i]]
  <2>2. ASSUME NEW i \in 1..k PROVE g[i] = IF i = 1 THEN ss[i] ELSE g[i - 1] \o ss[i]
    <3>1. CASE i = k
      <4>1. k # 1 => k - 1 \in 1..k /\ k - 1 # k
        OBVIOUS
      <4> QED
        BY <3>1, <4>1
    <3>2. CASE i # k
      <4>1. i \in 1..(k - 1)
        BY <3>2
      <4>2. f[i] = IF i = 1 THEN ss[i] ELSE f[i - 1] \o ss[i]
        BY <2>1, <4>1 DEF Flattens
      <4>3. i # 1 => i - 1 \in 1..k /\ i - 1 # k
        BY <4>1
      <4>4. g[i] = f[i] /\ (i # 1 => g[i - 1] = f[i - 1])
        BY <3>2, <4>3
      <4> HIDE DEF g
      <4> QED
        BY <4>2, <4>4
    <3> QED
      BY <3>1, <3>2
  <2>3. g = [i \in 1..k |-> g[i]]
    OBVIOUS
  <2> HIDE DEF g
  <2>4. Flattens(ss, k, g)
    BY <2>2, <2>3 DEF Flattens
  <2>5. k \in Nat
    OBVIOUS
  <2> QED
    BY <2>4, <2>5
<1> HIDE DEF Good
<1>3. 0..n \subseteq Good /\ n \in 0..n
  BY <1>1, <1>2, UpTo
<1> QED
  BY <1>3 DEF Good

LEMMA FlattenWalk ==
  ASSUME NEW X, NEW ss \in Seq(Seq(X)), ss # <<>>
  PROVE  \E h : /\ h[1] = ss[1]
                /\ \A k \in 2..Len(ss) : h[k] = h[k - 1] \o ss[k]
                /\ FlattenSeq(ss) = h[Len(ss)]
<1>1. Len(ss) \in Nat /\ Len(ss) # 0
  OBVIOUS
<1>2. \E f : Flattens(ss, Len(ss), f)
  BY <1>1, FlattenFold
<1>3. PICK f : f = CHOOSE g : Flattens(ss, Len(ss), g)
  OBVIOUS
<1>4. Flattens(ss, Len(ss), f)
  BY <1>2, <1>3
<1>5. FlattenSeq(ss) = (CHOOSE g : Flattens(ss, Len(ss), g))[Len(ss)]
  BY <1>1 DEF FlattenSeq, Flattens
<1>6. f[1] = ss[1]
  BY <1>1, <1>4 DEF Flattens
<1>7. ASSUME NEW k \in 2..Len(ss) PROVE f[k] = f[k - 1] \o ss[k]
  <2>1. k \in 1..Len(ss) /\ k # 1
    BY <1>1
  <2> QED
    BY <1>4, <2>1 DEF Flattens
<1> QED
  BY <1>3, <1>5, <1>6, <1>7

Disjoint(ss) == \A i, j \in 1..Len(ss) : i # j => ToSet(ss[i]) \cap ToSet(ss[j]) = {}

\* FlattenSeq(ss) has what the sequences of ss have, and each once if they have.
LEMMA FlattenOf ==
  ASSUME NEW X, NEW ss \in Seq(Seq(X))
  PROVE  /\ FlattenSeq(ss) \in Seq(X)
         /\ ToSet(FlattenSeq(ss)) = UNION {ToSet(ss[k]) : k \in 1..Len(ss)}
         /\ (\A k \in 1..Len(ss) : Once(ss[k])) /\ Disjoint(ss) => Once(FlattenSeq(ss))
<1>0. Len(ss) \in Nat /\ \A k \in 1..Len(ss) : ss[k] \in Seq(X)
  OBVIOUS
<1>1. CASE ss = <<>>
  <2>1. FlattenSeq(ss) = <<>>
    BY <1>1 DEF FlattenSeq
  <2>2. Len(<<>>) = 0 /\ Len(ss) = 0 /\ <<>> \in Seq(X)
    BY <1>1
  <2>3. ToSet(<<>>) = {} /\ Once(<<>>)
    BY DEF ToSet, Once
  <2> QED
    BY <2>1, <2>2, <2>3
<1>2. CASE ss # <<>>
  <2>1. PICK h : /\ h[1] = ss[1]
                 /\ \A k \in 2..Len(ss) : h[k] = h[k - 1] \o ss[k]
                 /\ FlattenSeq(ss) = h[Len(ss)]
    BY <1>2, FlattenWalk
  <2> DEFINE All(k) == UNION {ToSet(ss[i]) : i \in 1..k}
             Apart == (\A k \in 1..Len(ss) : Once(ss[k])) /\ Disjoint(ss)
             Good == {k \in Nat : k # 0 /\ k <= Len(ss) =>
                         /\ h[k] \in Seq(X) /\ ToSet(h[k]) = All(k) /\ (Apart => Once(h[k]))}
  <2>2. 0 \in Good
    OBVIOUS
  <2>3. ASSUME NEW k \in 1..Len(ss), k - 1 \in Good PROVE k \in Good
    <3>1. k \in Nat /\ ss[k] \in Seq(X)
      BY <1>0
    <3>2. CASE k = 1
      <4>1. h[k] = ss[k] /\ All(k) = ToSet(ss[k])
        BY <2>1, <3>2
      <4>2. Apart => Once(ss[k])
        OBVIOUS
      <4> HIDE DEF All, Apart
      <4> QED
        BY <3>1, <4>1, <4>2
    <3>3. CASE k # 1
      <4>1. /\ h[k - 1] \in Seq(X) /\ ToSet(h[k - 1]) = All(k - 1) /\ (Apart => Once(h[k - 1]))
        <5>1. k - 1 # 0 /\ k - 1 <= Len(ss)
          BY <1>0, <3>3
        <5> HIDE DEF All, Apart
        <5> QED
          BY <2>3, <5>1
      <4>2. h[k] = h[k - 1] \o ss[k]
        <5>1. k \in 2..Len(ss)
          BY <1>0, <3>3
        <5> QED
          BY <2>1, <5>1
      <4>3. All(k) = All(k - 1) \cup ToSet(ss[k])
        <5>1. 1..k = 1..(k - 1) \cup {k}
          BY <3>1, <3>3
        <5> QED
          BY <5>1
      <4>4. h[k] \in Seq(X) /\ ToSet(h[k]) = All(k)
        <5> HIDE DEF All
        <5> QED
          BY <3>1, <4>1, <4>2, <4>3, ToSetConcat
      <4>5. ASSUME Apart PROVE Once(h[k])
        <5>1. Once(ss[k]) /\ Once(h[k - 1])
          BY <4>1, <4>5
        <5>2. ASSUME NEW i \in 1..(k - 1) PROVE ToSet(ss[i]) \cap ToSet(ss[k]) = {}
          <6>1. i \in 1..Len(ss) /\ i # k
            BY <1>0
          <6> QED
            BY <4>5, <6>1 DEF Disjoint
        <5>3. All(k - 1) \cap ToSet(ss[k]) = {}
          BY <5>2
        <5> HIDE DEF All
        <5> QED
          BY <3>1, <4>1, <4>2, <5>1, <5>3, OnceConcat
      <4> HIDE DEF All, Apart
      <4> QED
        BY <3>1, <4>4, <4>5
    <3> QED
      BY <3>2, <3>3
  <2>4. Len(ss) \in Good
    <3> HIDE DEF Good
    <3>1. 0..Len(ss) \subseteq Good
      BY <1>0, <2>2, <2>3, UpTo
    <3> QED
      BY <1>0, <3>1
  <2>5. Len(ss) # 0 /\ Len(ss) <= Len(ss)
    BY <1>0, <1>2
  <2>6. /\ FlattenSeq(ss) \in Seq(X) /\ ToSet(FlattenSeq(ss)) = All(Len(ss))
        /\ (Apart => Once(FlattenSeq(ss)))
    <3> HIDE DEF All, Apart
    <3> QED
      BY <2>1, <2>4, <2>5
  <2> QED
    BY <2>6
<1> QED
  BY <1>1, <1>2

-----------------------------------------------------------------------------
(* Edges and nodes. *)

LEMMA OnceCount ==
  ASSUME NEW X, NEW s \in Seq(X), Once(s)
  PROVE  IsFiniteSet(ToSet(s)) /\ Cardinality(ToSet(s)) = Len(s)
<1>1. s \in [1..Len(s) -> ToSet(s)] /\ Len(s) \in Nat
  BY ToSetOf
<1>2. s \in Bijection(1..Len(s), ToSet(s))
  <2>1. ToSet(s) = {s[i] : i \in 1..Len(s)}
    BY ToSetOf
  <2> QED
    BY <1>1, <2>1 DEF Once, Bijection, Injection, Surjection, IsInjective
<1>3. ExistsBijection(1..Len(s), ToSet(s))
  BY <1>2 DEF ExistsBijection
<1>4. IsFiniteSet(1..Len(s)) /\ Cardinality(1..Len(s)) = Len(s)
  <2>1. PICK n \in Nat : n = Len(s)
    BY <1>1
  <2>2. 1 \in Int /\ n \in Int
    OBVIOUS
  <2>3. IsFiniteSet(1..n) /\ Cardinality(1..n) = IF 1 > n THEN 0 ELSE n - 1 + 1
    BY <2>2, FS_Interval
  <2> QED
    BY <2>1, <2>3
<1> QED
  BY <1>3, <1>4, FS_Bijection

Edges(graph) == ToSet(EdgeSeq(graph))
Nodes(graph) == ToSet(NodeSeq(graph))

LEMMA EdgesOf ==
  ASSUME NEW graph \in Graph
  PROVE  /\ EdgeSeq(graph) \in Seq(STRING \X STRING)
         /\ Once(EdgeSeq(graph))
         /\ Edges(graph) \subseteq STRING \X STRING
<1> DEFINE ss == [k \in DOMAIN graph |->
                    [j \in DOMAIN graph[k].from_vars |->
                       <<graph[k].from_vars[j], graph[k].to_var>>]]
           added == FlattenSeq(ss)
<1>1. graph \in Seq([from_vars : Seq(STRING), to_var : STRING])
  BY DEF Graph
<1>2. ASSUME NEW k \in 1..Len(graph)
      PROVE  [j \in DOMAIN graph[k].from_vars |->
                <<graph[k].from_vars[j], graph[k].to_var>>] \in Seq(STRING \X STRING)
  <2>1. graph[k].from_vars \in Seq(STRING) /\ graph[k].to_var \in STRING
    <3>1. PICK R : R = [from_vars : Seq(STRING), to_var : STRING]
      OBVIOUS
    <3>2. graph \in Seq(R)
      BY <1>1, <3>1
    <3>3. graph[k] \in R
      BY <3>2
    <3> QED
      BY <3>1, <3>3
  <2>2. PICK from \in Seq(STRING), to \in STRING : from = graph[k].from_vars /\ to = graph[k].to_var
    BY <2>1
  <2>3. [j \in DOMAIN from |-> <<from[j], to>>] \in Seq(STRING \X STRING)
    <3>1. DOMAIN from = 1..Len(from) /\ Len(from) \in Nat
      OBVIOUS
    <3>2. \A j \in 1..Len(from) : <<from[j], to>> \in STRING \X STRING
      BY <2>2
    <3>3. PICK f : f = [j \in 1..Len(from) |-> <<from[j], to>>]
      OBVIOUS
    <3>4. \A j \in 1..Len(from) : f[j] \in STRING \X STRING
      BY <3>2, <3>3
    <3>5. f \in [1..Len(from) -> STRING \X STRING]
      BY <3>3, <3>4
    <3>6. PICK P : P = STRING \X STRING
      OBVIOUS
    <3>7. f \in Seq(P)
      BY <3>1, <3>5, <3>6
    <3> QED
      BY <3>1, <3>3, <3>6, <3>7
  <2> QED
    BY <2>2, <2>3
<1>3. ss \in Seq(Seq(STRING \X STRING))
  <2>1. DOMAIN graph = 1..Len(graph) /\ Len(graph) \in Nat
    BY <1>1
  <2>2. \A k \in 1..Len(graph) : ss[k] \in Seq(STRING \X STRING)
    BY <1>2, <2>1
  <2>3. ss = [k \in 1..Len(graph) |-> ss[k]]
    BY <2>1
  <2> HIDE DEF ss
  <2> QED
    BY <2>1, <2>2, <2>3
<1>4. EdgeSeq(graph) = Firsts(added, ToSet(added))
  BY DEF EdgeSeq
<1> HIDE DEF ss
<1>5. added \in Seq(STRING \X STRING)
  BY <1>3, FlattenOf
<1> HIDE DEF added
<1>6. /\ EdgeSeq(graph) \in Seq(STRING \X STRING)
      /\ Once(EdgeSeq(graph))
  BY <1>4, <1>5, FirstsOf
<1> QED
  BY <1>6, ToSetOf DEF Edges

LEMMA PairOf ==
  ASSUME NEW A, NEW e \in A \X A
  PROVE  e \in Seq(A) /\ ToSet(e) = {e[1], e[2]}
<1>1. PICK v \in A, w \in A : e = <<v, w>>
  OBVIOUS
<1>2. <<v, w>> \in Seq(A) /\ DOMAIN <<v, w>> = 1..2 /\ <<v, w>>[1] = v /\ <<v, w>>[2] = w
  OBVIOUS
<1>3. ToSet(e) = {e[i] : i \in 1..2}
  BY <1>1, <1>2 DEF ToSet
<1> QED
  BY <1>1, <1>2, <1>3

LEMMA NodesOf ==
  ASSUME NEW graph \in Graph
  PROVE  /\ NodeSeq(graph) \in Seq(Nodes(graph))
         /\ Once(NodeSeq(graph))
         /\ Nodes(graph) = {e[1] : e \in Edges(graph)} \cup {e[2] : e \in Edges(graph)}
         /\ Nodes(graph) \subseteq STRING
         /\ IsFiniteSet(Nodes(graph)) /\ Cardinality(Nodes(graph)) = Len(NodeSeq(graph))
<1> DEFINE edges == EdgeSeq(graph)
           ends == FlattenSeq(edges)
<1>1. edges \in Seq(STRING \X STRING)
  BY EdgesOf
<1>2. ASSUME NEW k \in 1..Len(edges)
      PROVE  edges[k] \in Seq(STRING) /\ ToSet(edges[k]) = {edges[k][1], edges[k][2]}
  <2> HIDE DEF edges
  <2>1. edges[k] \in STRING \X STRING
    BY <1>1
  <2>2. PICK A, e : A = STRING /\ e = edges[k]
    OBVIOUS
  <2>3. e \in A \X A
    BY <2>1, <2>2
  <2>4. e \in Seq(A) /\ ToSet(e) = {e[1], e[2]}
    BY ONLY <2>3, PairOf
  <2> QED
    BY <2>2, <2>4
<1>3. edges \in Seq(Seq(STRING))
  BY <1>1, <1>2
<1>4. NodeSeq(graph) = Firsts(ends, ToSet(ends))
  BY DEF NodeSeq
<1>5. ends \in Seq(STRING) /\ ToSet(ends) = UNION {ToSet(edges[k]) : k \in 1..Len(edges)}
  <2> HIDE DEF edges
  <2> QED
    BY <1>3, FlattenOf
<1>6. Edges(graph) = {edges[k] : k \in 1..Len(edges)}
  BY <1>1, ToSetOf DEF Edges
<1> HIDE DEF edges
<1>7. ToSet(ends) = {e[1] : e \in Edges(graph)} \cup {e[2] : e \in Edges(graph)}
  <2>1. ToSet(ends) = UNION {{edges[k][1], edges[k][2]} : k \in 1..Len(edges)}
    BY <1>2, <1>5
  <2> QED
    BY <1>6, <2>1
<1> HIDE DEF ends
<1>8. /\ NodeSeq(graph) \in Seq(STRING) /\ Once(NodeSeq(graph))
      /\ ToSet(NodeSeq(graph)) = ToSet(ends)
  BY <1>4, <1>5, FirstsOf
<1>9. /\ Nodes(graph) = {NodeSeq(graph)[i] : i \in 1..Len(NodeSeq(graph))}
      /\ Nodes(graph) \subseteq STRING
  BY <1>8, ToSetOf DEF Nodes
<1>10. NodeSeq(graph) \in Seq(Nodes(graph))
  BY <1>8, <1>9
<1>11. IsFiniteSet(Nodes(graph)) /\ Cardinality(Nodes(graph)) = Len(NodeSeq(graph))
  BY <1>8, OnceCount DEF Nodes
<1> QED
  BY <1>7, <1>8, <1>9, <1>10, <1>11 DEF Nodes

LEMMA CausesOf ==
  ASSUME NEW graph \in Graph, NEW w
  PROVE  Causes(graph, w) = {v \in Nodes(graph) : <<v, w>> \in Edges(graph)}
<1>1. \A e \in Edges(graph) : e = <<e[1], e[2]>> /\ e[1] \in Nodes(graph)
  BY EdgesOf, NodesOf
<1>2. Causes(graph, w) = {e[1] : e \in {d \in Edges(graph) : d[2] = w}}
  BY DEF Causes, Edges
<1>3. ASSUME NEW v \in Causes(graph, w) PROVE v \in Nodes(graph) /\ <<v, w>> \in Edges(graph)
  BY <1>1, <1>2
<1>4. ASSUME NEW v \in Nodes(graph), <<v, w>> \in Edges(graph) PROVE v \in Causes(graph, w)
  <2>1. <<v, w>>[1] = v /\ <<v, w>>[2] = w
    OBVIOUS
  <2> QED
    BY <1>2, <1>4, <2>1
<1> QED
  BY <1>3, <1>4

LEMMA EffectsOf ==
  ASSUME NEW graph \in Graph, NEW v
  PROVE  /\ Effects(graph, v) \in Seq(Nodes(graph))
         /\ Once(Effects(graph, v))
         /\ ToSet(Effects(graph, v)) = {w \in Nodes(graph) : <<v, w>> \in Edges(graph)}
<1> DEFINE from == {e \in Edges(graph) : e[1] = v}
           out == Firsts(EdgeSeq(graph), from)
           eff == [k \in DOMAIN out |-> out[k][2]]
<1>1. Effects(graph, v) = eff
  BY DEF Effects, Edges
<1>2. /\ EdgeSeq(graph) \in Seq(STRING \X STRING) /\ Edges(graph) \subseteq STRING \X STRING
      /\ Edges(graph) = ToSet(EdgeSeq(graph))
  BY EdgesOf DEF Edges
<1>3. out \in Seq(STRING \X STRING) /\ Once(out) /\ ToSet(out) = from
  <2> HIDE DEF from
  <2>1. out \in Seq(STRING \X STRING) /\ Once(out) /\ ToSet(out) = ToSet(EdgeSeq(graph)) \cap from
    BY <1>2, FirstsOf
  <2> QED
    BY <1>2, <2>1 DEF from
<1> HIDE DEF out
<1>4. /\ DOMAIN out = 1..Len(out) /\ Len(out) \in Nat
      /\ from = {out[k] : k \in 1..Len(out)}
  BY <1>3, ToSetOf
<1>5. \A e \in Edges(graph) : e = <<e[1], e[2]>> /\ e[2] \in Nodes(graph)
  BY <1>2, NodesOf
<1>6. \A k \in 1..Len(out) : out[k] = <<v, out[k][2]>> /\ out[k][2] \in Nodes(graph)
  BY <1>4, <1>5
<1>7. eff \in Seq(Nodes(graph)) /\ Len(eff) = Len(out) /\ \A k \in 1..Len(out) : eff[k] = out[k][2]
  BY <1>4, <1>6
<1>8. Once(eff)
  <2> HIDE DEF eff
  <2>1. ASSUME NEW i \in 1..Len(out), NEW j \in 1..Len(out), eff[i] = eff[j] PROVE i = j
    <3>1. out[i] = out[j]
      BY <1>6, <1>7, <2>1
    <3> QED
      BY <1>3, <3>1 DEF Once
  <2> QED
    BY <1>7, <2>1 DEF Once
<1>9. ToSet(eff) = {w \in Nodes(graph) : <<v, w>> \in Edges(graph)}
  <2> HIDE DEF eff
  <2>1. ToSet(eff) = {out[k][2] : k \in 1..Len(out)}
    BY <1>7, ToSetOf
  <2>2. ASSUME NEW w \in Nodes(graph), <<v, w>> \in Edges(graph) PROVE w \in ToSet(eff)
    <3>1. <<v, w>> \in from /\ <<v, w>>[2] = w
      BY <2>2
    <3> HIDE DEF from
    <3> QED
      BY <1>4, <2>1, <3>1
  <2>3. ASSUME NEW k \in 1..Len(out)
        PROVE  out[k][2] \in Nodes(graph) /\ <<v, out[k][2]>> \in Edges(graph)
    <3>1. out[k] \in from
      BY <1>4
    <3> QED
      BY <1>6, <3>1
  <2> QED
    BY <2>1, <2>2, <2>3
<1> QED
  BY <1>1, <1>7, <1>8, <1>9

-----------------------------------------------------------------------------
(* The order. *)

Before(s, m) == {s[i] : i \in 1..m}

LEMMA BeforeOf ==
  ASSUME NEW X, NEW s \in Seq(X), NEW m \in 0..Len(s)
  PROVE  ToSet(SubSeq(s, 1, m)) = Before(s, m)
<1> DEFINE t == SubSeq(s, 1, m)
<1>1. t \in Seq(X) /\ Len(t) = m /\ \A i \in 1..m : t[i] = s[i]
  OBVIOUS
<1>2. ToSet(t) = {t[i] : i \in 1..m}
  BY <1>1, ToSetOf
<1> HIDE DEF t
<1> QED
  BY <1>1, <1>2 DEF t, Before

\* What is placed, and the generation that was placed last, at its end.
Placing(graph, placed, latest) ==
  /\ placed \in Seq(Nodes(graph)) /\ latest \in Seq(Nodes(graph))
  /\ Len(latest) <= Len(placed)
  /\ \A k \in 1..Len(latest) : latest[k] = placed[Len(placed) - Len(latest) + k]
  /\ Once(placed)
  \* causes are of an earlier generation
  /\ \A j \in 1..Len(placed) : \A v \in Causes(graph, placed[j]) :
       \E i \in 1..(Len(placed) - Len(latest)) : i < j /\ placed[i] = v
  \* and a node whose causes are has been placed
  /\ \A v \in Nodes(graph) :
       Causes(graph, v) \subseteq Before(placed, Len(placed) - Len(latest)) => v \in ToSet(placed)

\* The effects of the k-th node of a generation that come after it in the next one.
Freed(graph, placed, latest, k) ==
  {v \in Nodes(graph) : /\ <<latest[k], v>> \in Edges(graph)
                        /\ Causes(graph, v) \subseteq
                             Before(placed, Len(placed) - Len(latest) + k)}

LEMMA FreedApart ==
  ASSUME NEW graph \in Graph, NEW placed, NEW latest, Placing(graph, placed, latest),
         NEW i \in 1..Len(latest), NEW j \in 1..Len(latest), i < j,
         NEW v \in Freed(graph, placed, latest, i), v \in Freed(graph, placed, latest, j)
  PROVE  FALSE
<1> DEFINE b == Len(placed) - Len(latest)
<1>1. /\ placed \in Seq(Nodes(graph)) /\ latest \in Seq(Nodes(graph))
      /\ Len(latest) <= Len(placed) /\ Len(latest) \in Nat /\ Len(placed) \in Nat
      /\ Once(placed) /\ latest[j] = placed[b + j] /\ latest[j] \in Nodes(graph)
  BY DEF Placing
<1>2. latest[j] \in Causes(graph, v)
  BY <1>1, CausesOf DEF Freed
<1>3. latest[j] \in Before(placed, b + i)
  BY <1>2 DEF Freed
<1>4. PICK k \in 1..(b + i) : placed[k] = placed[b + j]
  BY <1>1, <1>3 DEF Before
<1>5. k \in 1..Len(placed) /\ b + j \in 1..Len(placed) /\ k # b + j
  BY <1>1
<1> QED
  BY <1>1, <1>4, <1>5 DEF Once

\* Nothing is placed twice.
LEMMA FreedNew ==
  ASSUME NEW graph \in Graph, NEW placed, NEW latest, Placing(graph, placed, latest),
         NEW k \in 1..Len(latest), NEW v \in Freed(graph, placed, latest, k), v \in ToSet(placed)
  PROVE  FALSE
<1> DEFINE b == Len(placed) - Len(latest)
<1>1. /\ placed \in Seq(Nodes(graph)) /\ latest \in Seq(Nodes(graph))
      /\ Len(latest) <= Len(placed) /\ Len(latest) \in Nat /\ Len(placed) \in Nat
      /\ Once(placed) /\ latest[k] = placed[b + k] /\ latest[k] \in Nodes(graph)
  BY DEF Placing
<1>2. latest[k] \in Causes(graph, v)
  BY <1>1, CausesOf DEF Freed
<1>3. PICK j \in 1..Len(placed) : placed[j] = v
  BY <1>1, ToSetOf
<1>4. PICK i \in 1..b : placed[i] = placed[b + k]
  BY <1>1, <1>2, <1>3 DEF Placing
<1>5. i \in 1..Len(placed) /\ b + k \in 1..Len(placed) /\ i # b + k
  BY <1>1
<1> QED
  BY <1>1, <1>4, <1>5 DEF Once

LEMMA AfterOf ==
  ASSUME NEW graph \in Graph, NEW placed, NEW latest, Placing(graph, placed, latest)
  PROVE  /\ After(graph, placed, latest) \in Seq(Nodes(graph))
         /\ Once(After(graph, placed, latest))
         /\ ToSet(After(graph, placed, latest)) =
              UNION {Freed(graph, placed, latest, k) : k \in 1..Len(latest)}
         /\ ToSet(placed) \cap ToSet(After(graph, placed, latest)) = {}
<1> DEFINE b == Len(placed) - Len(latest)
           free(k) == {v \in ToSet(NodeSeq(graph)) :
                         Causes(graph, v) \subseteq ToSet(SubSeq(placed, 1, b + k))}
           ss == [k \in DOMAIN latest |-> Firsts(Effects(graph, latest[k]), free(k))]
<1>1. /\ placed \in Seq(Nodes(graph)) /\ latest \in Seq(Nodes(graph))
      /\ Len(latest) <= Len(placed) /\ Len(latest) \in Nat /\ Len(placed) \in Nat
      /\ DOMAIN latest = 1..Len(latest)
  BY DEF Placing
<1>2. ASSUME NEW k \in 1..Len(latest)
      PROVE  /\ ss[k] \in Seq(Nodes(graph)) /\ Once(ss[k])
             /\ ToSet(ss[k]) = Freed(graph, placed, latest, k)
  <2>1. b + k \in 0..Len(placed)
    BY <1>1
  <2>2. ToSet(SubSeq(placed, 1, b + k)) = Before(placed, b + k)
    BY <1>1, <2>1, BeforeOf
  <2>3. free(k) = {v \in Nodes(graph) : Causes(graph, v) \subseteq Before(placed, b + k)}
    BY <2>2 DEF Nodes
  <2>4. ss[k] = Firsts(Effects(graph, latest[k]), free(k))
    BY <1>1
  <2>5. /\ Effects(graph, latest[k]) \in Seq(Nodes(graph))
        /\ ToSet(Effects(graph, latest[k])) =
             {w \in Nodes(graph) : <<latest[k], w>> \in Edges(graph)}
    BY EffectsOf
  <2> HIDE DEF ss, free
  <2>6. /\ ss[k] \in Seq(Nodes(graph)) /\ Once(ss[k])
        /\ ToSet(ss[k]) = ToSet(Effects(graph, latest[k])) \cap free(k)
    BY <2>4, <2>5, FirstsOf
  <2> QED
    BY <2>3, <2>5, <2>6 DEF Freed
<1>3. After(graph, placed, latest) = FlattenSeq(ss)
  BY DEF After
<1>4. ss = [k \in 1..Len(latest) |-> ss[k]]
  BY <1>1
<1> HIDE DEF ss
<1>5. ss \in Seq(Seq(Nodes(graph))) /\ Len(ss) = Len(latest)
  BY <1>1, <1>2, <1>4
<1>6. Disjoint(ss)
  <2>1. ASSUME NEW i \in 1..Len(latest), NEW j \in 1..Len(latest), i # j,
               NEW v \in ToSet(ss[i]), v \in ToSet(ss[j])
        PROVE  FALSE
    <3>1. v \in Freed(graph, placed, latest, i) /\ v \in Freed(graph, placed, latest, j)
      BY <1>2, <2>1
    <3>2. i < j \/ j < i
      BY <2>1
    <3> QED
      BY <3>1, <3>2, FreedApart
  <2> QED
    BY <1>5, <2>1 DEF Disjoint
<1>7. /\ FlattenSeq(ss) \in Seq(Nodes(graph)) /\ Once(FlattenSeq(ss))
      /\ ToSet(FlattenSeq(ss)) = UNION {ToSet(ss[k]) : k \in 1..Len(ss)}
  BY <1>2, <1>5, <1>6, FlattenOf
<1>8. ToSet(FlattenSeq(ss)) = UNION {Freed(graph, placed, latest, k) : k \in 1..Len(latest)}
  BY <1>2, <1>5, <1>7
<1>9. ToSet(placed) \cap ToSet(FlattenSeq(ss)) = {}
  BY <1>8, FreedNew
<1> QED
  BY <1>3, <1>7, <1>8, <1>9

LEMMA PlacingNext ==
  ASSUME NEW graph \in Graph, NEW placed, NEW latest, Placing(graph, placed, latest),
         NEW next, next = After(graph, placed, latest)
  PROVE  Placing(graph, placed \o next, next)
<1> DEFINE b == Len(placed) - Len(latest)
           all == placed \o next
<1>1. /\ placed \in Seq(Nodes(graph)) /\ latest \in Seq(Nodes(graph))
      /\ Len(latest) <= Len(placed) /\ Len(latest) \in Nat /\ Len(placed) \in Nat
      /\ Once(placed)
  BY DEF Placing
<1>2. /\ next \in Seq(Nodes(graph)) /\ Once(next) /\ ToSet(placed) \cap ToSet(next) = {}
      /\ ToSet(next) = UNION {Freed(graph, placed, latest, k) : k \in 1..Len(latest)}
  BY AfterOf
<1>3. /\ all \in Seq(Nodes(graph)) /\ Len(next) \in Nat /\ Len(all) = Len(placed) + Len(next)
      /\ \A i \in 1..Len(placed) : all[i] = placed[i]
      /\ \A k \in 1..Len(next) : all[Len(placed) + k] = next[k]
  BY <1>1, <1>2
<1>4. Once(all) /\ ToSet(all) = ToSet(placed) \cup ToSet(next)
  BY <1>1, <1>2, OnceConcat, ToSetConcat
<1> HIDE DEF all
<1>5. Len(all) - Len(next) = Len(placed) /\ Len(next) <= Len(all)
  BY <1>1, <1>3
<1>6. ASSUME NEW j \in 1..Len(all), NEW v \in Causes(graph, all[j])
      PROVE  \E i \in 1..Len(placed) : i < j /\ all[i] = v
  <2>1. CASE j \in 1..Len(placed)
    <3>1. PICK i \in 1..b : i < j /\ placed[i] = v
      BY <1>3, <1>6, <2>1 DEF Placing
    <3>2. i \in 1..Len(placed)
      BY <1>1
    <3> QED
      BY <1>3, <3>1, <3>2
  <2>2. CASE j \notin 1..Len(placed)
    <3>1. PICK k \in 1..Len(next) : j = Len(placed) + k
      <4>1. j - Len(placed) \in 1..Len(next) /\ j = Len(placed) + (j - Len(placed))
        BY <1>1, <1>3, <2>2
      <4> QED
        BY <4>1
    <3>2. all[j] \in ToSet(next)
      <4>1. all[j] = next[k]
        BY <1>3, <3>1
      <4>0. next \in Seq(Nodes(graph))
        BY <1>2
      <4>2. ToSet(next) = {next[i] : i \in 1..Len(next)}
        BY <4>0, ToSetOf
      <4> QED
        BY <4>1, <4>2
    <3>3. PICK m \in 1..Len(latest) : all[j] \in Freed(graph, placed, latest, m)
      BY <1>2, <3>2
    <3>4. v \in Before(placed, b + m)
      BY <1>6, <3>3 DEF Freed
    <3>5. PICK i \in 1..(b + m) : placed[i] = v
      BY <3>4 DEF Before
    <3>6. i \in 1..Len(placed) /\ i < j
      BY <1>1, <3>1
    <3> QED
      BY <1>3, <3>5, <3>6
  <2> QED
    BY <2>1, <2>2
<1>7. ASSUME NEW v \in Nodes(graph), Causes(graph, v) \subseteq Before(all, Len(placed))
      PROVE  v \in ToSet(all)
  <2>1. Before(all, Len(placed)) = Before(placed, Len(placed))
    BY <1>3 DEF Before
  <2>2. CASE Causes(graph, v) \subseteq Before(placed, b)
    BY <1>4, <2>2 DEF Placing
  <2>3. CASE ~(Causes(graph, v) \subseteq Before(placed, b))
    <3> DEFINE S == {i \in 1..Len(placed) : placed[i] \in Causes(graph, v)}
    <3>1. PICK w \in Causes(graph, v) : w \notin Before(placed, b)
      BY <2>3
    <3>2. PICK i \in 1..Len(placed) : placed[i] = w
      BY <1>7, <2>1, <3>1 DEF Before
    <3>3. i \notin 1..b
      BY <3>1, <3>2 DEF Before
    <3>4. S \in SUBSET (1..Len(placed)) /\ i \in S
      BY <3>1, <3>2
    <3>5. PICK m : m = Max(S)
      OBVIOUS
    <3>6. m \in S /\ \A j \in S : j <= m
      BY <1>1, <3>4, <3>5, MaxOf
    <3>7. m \in 1..Len(placed) /\ placed[m] \in Causes(graph, v) /\ i <= m
      BY <3>4, <3>6
    <3>8. PICK k \in 1..Len(latest) : m = b + k
      <4>1. m - b \in 1..Len(latest) /\ m = b + (m - b)
        BY <1>1, <3>3, <3>7
      <4> QED
        BY <4>1
    <3>9. latest[k] = placed[b + k]
      BY DEF Placing
    <3>10. Causes(graph, v) \subseteq Before(placed, b + k)
      <4>1. ASSUME NEW x \in Causes(graph, v) PROVE x \in Before(placed, b + k)
        <5>1. PICK j \in 1..Len(placed) : placed[j] = x
          BY <1>7, <2>1 DEF Before
        <5>2. j <= m
          BY <3>6, <5>1
        <5>3. j \in 1..(b + k)
          BY <3>7, <3>8, <5>2
        <5> QED
          BY <5>1, <5>3 DEF Before
      <4> QED
        BY <4>1
    <3>11. <<latest[k], v>> \in Edges(graph)
      BY <3>7, <3>8, <3>9, CausesOf
    <3>12. v \in Freed(graph, placed, latest, k)
      BY <3>10, <3>11 DEF Freed
    <3> QED
      BY <1>2, <1>4, <3>12
  <2> QED
    BY <2>2, <2>3
<1>8. Placing(graph, all, next)
  BY <1>1, <1>2, <1>3, <1>4, <1>5, <1>6, <1>7 DEF Placing
<1> QED
  BY <1>8 DEF all

Roots(graph) == Firsts(NodeSeq(graph), {v \in ToSet(NodeSeq(graph)) : Causes(graph, v) = {}})

Generation(graph, f, k) ==
  IF k = 0 THEN [placed |-> Roots(graph), latest |-> Roots(graph)]
  ELSE [placed |-> f[k - 1].placed \o After(graph, f[k - 1].placed, f[k - 1].latest),
        latest |-> After(graph, f[k - 1].placed, f[k - 1].latest)]

Generates(graph, n, f) == f = [k \in 0..n |-> Generation(graph, f, k)]

LEMMA GenerationsFold ==
  ASSUME NEW graph, NEW n \in Nat
  PROVE  \E f : Generates(graph, n, f)
<1> DEFINE Good == {k \in Nat : \E f : Generates(graph, k, f)}
<1>1. 0 \in Good
  <2> DEFINE f == [i \in 0..0 |-> [placed |-> Roots(graph), latest |-> Roots(graph)]]
  <2>1. Generates(graph, 0, f)
    BY DEF Generates, Generation
  <2> QED
    BY <2>1
<1>2. ASSUME NEW k \in 1..n, k - 1 \in Good PROVE k \in Good
  <2>1. PICK f : Generates(graph, k - 1, f)
    BY <1>2
  <2> DEFINE g == [i \in 0..k |-> IF i = k THEN Generation(graph, f, k) ELSE f[i]]
  <2>2. ASSUME NEW i \in 0..k PROVE g[i] = Generation(graph, g, i)
    <3>1. i = 0 => i # k
      OBVIOUS
    <3>2. i # 0 => i - 1 \in 0..k /\ i - 1 # k
      OBVIOUS
    <3>3. i # 0 => g[i - 1] = f[i - 1]
      BY <3>2
    <3>4. Generation(graph, g, i) = Generation(graph, f, i)
      <4> HIDE DEF g
      <4> QED
        BY <3>3 DEF Generation
    <3>5. i # k => f[i] = Generation(graph, f, i)
      <4>1. i # k => i \in 0..(k - 1)
        OBVIOUS
      <4> QED
        BY <2>1, <4>1 DEF Generates
    <3>6. g[i] = IF i = k THEN Generation(graph, f, k) ELSE f[i]
      OBVIOUS
    <3> HIDE DEF g
    <3> QED
      BY <3>4, <3>5, <3>6
  <2>3. g = [i \in 0..k |-> g[i]]
    OBVIOUS
  <2> HIDE DEF g
  <2>4. Generates(graph, k, g)
    BY <2>2, <2>3 DEF Generates
  <2>5. k \in Nat
    OBVIOUS
  <2> QED
    BY <2>4, <2>5
<1> HIDE DEF Good
<1>3. 0..n \subseteq Good /\ n \in 0..n
  BY <1>1, <1>2, UpTo
<1> QED
  BY <1>3 DEF Good

LEMMA PlacingRoots ==
  ASSUME NEW graph \in Graph
  PROVE  Placing(graph, Roots(graph), Roots(graph))
<1> DEFINE S == {v \in Nodes(graph) : Causes(graph, v) = {}}
<1>1. Roots(graph) = Firsts(NodeSeq(graph), S)
  BY DEF Roots, Nodes
<1>2. NodeSeq(graph) \in Seq(Nodes(graph)) /\ ToSet(NodeSeq(graph)) = Nodes(graph)
  BY NodesOf DEF Nodes
<1>3. PICK roots : roots = Roots(graph)
  OBVIOUS
<1>4. roots \in Seq(Nodes(graph)) /\ Once(roots) /\ ToSet(roots) = S
  <2> HIDE DEF S
  <2>1. roots \in Seq(Nodes(graph)) /\ Once(roots) /\ ToSet(roots) = Nodes(graph) \cap S
    BY <1>1, <1>2, <1>3, FirstsOf
  <2> QED
    BY <2>1 DEF S
<1>5. Len(roots) \in Nat /\ Len(roots) - Len(roots) = 0
  BY <1>4
<1>6. \A k \in 1..Len(roots) : roots[k] = roots[Len(roots) - Len(roots) + k]
  BY <1>5
<1>7. \A j \in 1..Len(roots) : Causes(graph, roots[j]) = {}
  <2>1. \A j \in 1..Len(roots) : roots[j] \in ToSet(roots)
    BY <1>4, ToSetOf
  <2> QED
    BY <1>4, <2>1
<1>8. Before(roots, 0) = {}
  BY DEF Before
<1>9. \A v \in Nodes(graph) : Causes(graph, v) \subseteq Before(roots, 0) => v \in ToSet(roots)
  BY <1>4, <1>8
<1>10. Placing(graph, roots, roots)
  <2>1. /\ roots \in Seq(Nodes(graph)) /\ Once(roots) /\ Len(roots) <= Len(roots)
        /\ Len(roots) - Len(roots) = 0
    BY <1>4, <1>5
  <2> HIDE DEF S
  <2> QED
    BY <1>6, <1>7, <1>9, <2>1 DEF Placing
<1> QED
  BY <1>3, <1>10

\* The order has each node at most once, after its causes, and every node all of whose
\* causes it has.
LEMMA OrderOf ==
  ASSUME NEW graph \in Graph
  PROVE  LET order == EvalOrder(graph)
         IN /\ order \in Seq(Nodes(graph)) /\ Once(order)
            /\ \A j \in 1..Len(order) : \A v \in Causes(graph, order[j]) :
                 \E i \in 1..(j - 1) : order[i] = v
            /\ \A v \in Nodes(graph) :
                 Causes(graph, v) \subseteq ToSet(order) => v \in ToSet(order)
<1> DEFINE n == Len(NodeSeq(graph))
<1>1. n \in Nat /\ IsFiniteSet(Nodes(graph)) /\ Cardinality(Nodes(graph)) = n
  BY NodesOf
<1> HIDE DEF n
<1>2. \E f : Generates(graph, n, f)
  BY <1>1, GenerationsFold
<1>3. PICK f : f = CHOOSE g : Generates(graph, n, g)
  OBVIOUS
<1>4. Generates(graph, n, f)
  BY <1>2, <1>3
<1>5. EvalOrder(graph) = f[n].placed
  BY <1>3 DEF EvalOrder, Generates, Generation, Roots, n
<1>6. f = [k \in 0..n |-> Generation(graph, f, k)]
  BY <1>4 DEF Generates
<1> DEFINE Good == {k \in Nat : k <= n => /\ Placing(graph, f[k].placed, f[k].latest)
                                          /\ f[k].latest = <<>> \/ Len(f[k].placed) > k}
<1>7. 0 \in Good
  <2>1. f[0] = [placed |-> Roots(graph), latest |-> Roots(graph)]
    BY <1>1, <1>6 DEF Generation
  <2>2. Placing(graph, Roots(graph), Roots(graph))
    BY PlacingRoots
  <2>3. Roots(graph) = <<>> \/ Len(Roots(graph)) > 0
    BY <2>2 DEF Placing
  <2> QED
    BY <2>1, <2>2, <2>3
<1>8. ASSUME NEW k \in 1..n, k - 1 \in Good PROVE k \in Good
  <2>1. k \in Nat /\ k - 1 \in Nat /\ k - 1 <= n /\ k \in 0..n /\ k # 0
    BY <1>1
  <2>2. PICK placed, latest, next :
          /\ placed = f[k - 1].placed /\ latest = f[k - 1].latest
          /\ next = After(graph, placed, latest)
    OBVIOUS
  <2>3. Placing(graph, placed, latest) /\ (latest = <<>> \/ Len(placed) > k - 1)
    BY <1>8, <2>1, <2>2
  <2>4. f[k] = [placed |-> placed \o next, latest |-> next]
    BY <1>6, <2>1, <2>2 DEF Generation
  <2>5. Placing(graph, placed \o next, next)
    BY <2>2, <2>3, PlacingNext
  <2>6. next \in Seq(Nodes(graph)) /\ placed \in Seq(Nodes(graph)) /\ latest \in Seq(Nodes(graph))
    BY <2>3, <2>5 DEF Placing
  <2>7. latest = <<>> => next = <<>>
    <3>1. ASSUME latest = <<>> PROVE next = <<>>
      <4>1. Len(latest) = 0
        BY <3>1
      <4>2. ToSet(next) = UNION {Freed(graph, placed, latest, i) : i \in 1..Len(latest)}
        BY <2>2, <2>3, AfterOf
      <4>3. ToSet(next) = {}
        BY <4>1, <4>2
      <4>4. ToSet(next) = {next[i] : i \in 1..Len(next)}
        BY <2>6, ToSetOf
      <4>5. Len(next) = 0
        <5>1. Len(next) # 0 => 1 \in 1..Len(next)
          BY <2>6
        <5> QED
          BY <4>3, <4>4, <5>1
      <4> QED
        BY <2>6, <4>5
    <3> QED
      BY <3>1
  <2>8. next = <<>> \/ Len(placed \o next) > k
    BY <2>1, <2>3, <2>6, <2>7
  <2>9. f[k].placed = placed \o next /\ f[k].latest = next
    BY <2>4
  <2>10. Placing(graph, f[k].placed, f[k].latest) /\ (f[k].latest = <<>> \/ Len(f[k].placed) > k)
    BY <2>5, <2>8, <2>9
  <2> QED
    BY <2>1, <2>10
<1>9. Placing(graph, f[n].placed, f[n].latest) /\ (f[n].latest = <<>> \/ Len(f[n].placed) > n)
  <2>1. n \in Good
    <3> HIDE DEF Good
    <3>1. 0..n \subseteq Good
      BY <1>1, <1>7, <1>8, UpTo
    <3> QED
      BY <1>1, <3>1
  <2> QED
    BY <1>1, <2>1
<1>10. PICK order, latest : order = f[n].placed /\ latest = f[n].latest
  OBVIOUS
<1>11. Placing(graph, order, latest) /\ (latest = <<>> \/ Len(order) > n)
  BY <1>9, <1>10
<1>12. order \in Seq(Nodes(graph)) /\ Once(order) /\ latest \in Seq(Nodes(graph))
  BY <1>11 DEF Placing
<1>13. Len(order) <= n
  <2>1. ToSet(order) \in SUBSET Nodes(graph)
    BY <1>12, ToSetOf
  <2>2. Cardinality(ToSet(order)) = Len(order)
    BY <1>12, OnceCount
  <2>3. Cardinality(ToSet(order)) <= Cardinality(Nodes(graph))
    BY <1>1, <2>1, FS_Subset
  <2> QED
    BY <1>1, <2>2, <2>3
<1>14. latest = <<>> /\ Len(latest) = 0 /\ Len(order) \in Nat
  BY <1>1, <1>11, <1>12, <1>13
<1>15. ToSet(order) = Before(order, Len(order) - Len(latest))
  BY <1>12, <1>14, ToSetOf DEF Before
<1>16. \A v \in Nodes(graph) : Causes(graph, v) \subseteq ToSet(order) => v \in ToSet(order)
  BY <1>11, <1>15 DEF Placing
<1>17. ASSUME NEW j \in 1..Len(order), NEW v \in Causes(graph, order[j])
       PROVE  \E i \in 1..(j - 1) : order[i] = v
  <2>1. PICK i \in 1..(Len(order) - Len(latest)) : i < j /\ order[i] = v
    BY <1>11 DEF Placing
  <2>2. i \in 1..(j - 1)
    BY <1>14, <2>1
  <2> QED
    BY <2>1, <2>2
<1> QED
  BY <1>5, <1>10, <1>12, <1>16, <1>17

-----------------------------------------------------------------------------
(* Cycles. *)

Followers(graph, v) == ToSet(Effects(graph, v))
Closed(graph, S) == \A v \in S : Followers(graph, v) \subseteq S
Wider(graph, S) == S \cup UNION {Followers(graph, v) : v \in S}

LEMMA FollowersOf ==
  ASSUME NEW graph \in Graph, NEW v
  PROVE  Followers(graph, v) = {w \in Nodes(graph) : <<v, w>> \in Edges(graph)}
BY EffectsOf DEF Followers

Spreads(graph, v, n, f) ==
  f = [k \in 0..n |-> IF k = 0 THEN Followers(graph, v) ELSE Wider(graph, f[k - 1])]

LEMMA SpreadsFold ==
  ASSUME NEW graph, NEW v, NEW n \in Nat
  PROVE  \E f : Spreads(graph, v, n, f)
<1> DEFINE Good == {k \in Nat : \E f : Spreads(graph, v, k, f)}
<1>1. 0 \in Good
  <2> DEFINE f == [i \in 0..0 |-> Followers(graph, v)]
  <2>1. Spreads(graph, v, 0, f)
    BY DEF Spreads
  <2> QED
    BY <2>1
<1>2. ASSUME NEW k \in 1..n, k - 1 \in Good PROVE k \in Good
  <2>1. PICK f : Spreads(graph, v, k - 1, f)
    BY <1>2
  <2> DEFINE g == [i \in 0..k |-> IF i = k THEN Wider(graph, f[k - 1]) ELSE f[i]]
  <2>2. ASSUME NEW i \in 0..k
        PROVE  g[i] = IF i = 0 THEN Followers(graph, v) ELSE Wider(graph, g[i - 1])
    <3>1. i = 0 => i # k
      OBVIOUS
    <3>2. i # 0 => i - 1 \in 0..k /\ i - 1 # k
      OBVIOUS
    <3>3. i # 0 => g[i - 1] = f[i - 1]
      BY <3>2
    <3>4. i # k => f[i] = IF i = 0 THEN Followers(graph, v) ELSE Wider(graph, f[i - 1])
      <4>1. i # k => i \in 0..(k - 1)
        OBVIOUS
      <4> QED
        BY <2>1, <4>1 DEF Spreads
    <3>5. g[i] = IF i = k THEN Wider(graph, f[k - 1]) ELSE f[i]
      OBVIOUS
    <3> HIDE DEF g
    <3> QED
      BY <3>1, <3>3, <3>4, <3>5
  <2>3. g = [i \in 0..k |-> g[i]]
    OBVIOUS
  <2> HIDE DEF g
  <2>4. Spreads(graph, v, k, g)
    BY <2>2, <2>3 DEF Spreads
  <2>5. k \in Nat
    OBVIOUS
  <2> QED
    BY <2>4, <2>5
<1> HIDE DEF Good
<1>3. 0..n \subseteq Good /\ n \in 0..n
  BY <1>1, <1>2, UpTo
<1> QED
  BY <1>3 DEF Good

\* The nodes that v reaches are the least set that has its effects and theirs.
LEMMA ReachesOf ==
  ASSUME NEW graph \in Graph, NEW v
  PROVE  \E R \in SUBSET Nodes(graph) :
           /\ \A w : Reaches(graph, v, w) <=> w \in R
           /\ Followers(graph, v) \subseteq R /\ Closed(graph, R)
           /\ \A S : Followers(graph, v) \subseteq S /\ Closed(graph, S) => R \subseteq S
<1> DEFINE n == Len(NodeSeq(graph))
<1>1. n \in Nat /\ IsFiniteSet(Nodes(graph)) /\ Cardinality(Nodes(graph)) = n
  BY NodesOf
<1> HIDE DEF n
<1>2. \A u : Followers(graph, u) \subseteq Nodes(graph)
  BY FollowersOf
<1>3. PICK f : f = CHOOSE g : Spreads(graph, v, n, g)
  OBVIOUS
<1>4. Spreads(graph, v, n, f)
  BY <1>1, <1>3, SpreadsFold
<1>5. \A w : Reaches(graph, v, w) <=> w \in f[n]
  <2>1. ASSUME NEW w
        PROVE  Reaches(graph, v, w) <=> w \in (CHOOSE g : Spreads(graph, v, n, g))[n]
    BY DEF Reaches, Spreads, Wider, Followers, n
  <2> QED
    BY <1>3, <2>1
<1>6. f[0] = Followers(graph, v) /\ \A k \in 1..n : f[k] = Wider(graph, f[k - 1])
  <2>1. f = [k \in 0..n |-> IF k = 0 THEN Followers(graph, v) ELSE Wider(graph, f[k - 1])]
    BY <1>4 DEF Spreads
  <2>2. 0 \in 0..n /\ \A k \in 1..n : k \in 0..n /\ k # 0
    BY <1>1
  <2> QED
    BY <2>1, <2>2
<1> DEFINE Least(R) == \A S : Followers(graph, v) \subseteq S /\ Closed(graph, S) => R \subseteq S
           Good == {k \in Nat : k <= n => /\ f[k] \in SUBSET Nodes(graph)
                                          /\ Followers(graph, v) \subseteq f[k]
                                          /\ Closed(graph, f[k]) \/ Cardinality(f[k]) > k
                                          /\ Least(f[k])}
<1>7. 0 \in Good
  <2>1. f[0] \in SUBSET Nodes(graph) /\ Followers(graph, v) \subseteq f[0] /\ Least(f[0])
    BY <1>2, <1>6
  <2>2. Closed(graph, f[0]) \/ Cardinality(f[0]) > 0
    <3>1. CASE f[0] = {}
      BY <3>1 DEF Closed
    <3>2. CASE f[0] # {}
      <4>1. IsFiniteSet(f[0])
        BY <1>1, <2>1, FS_Subset
      <4>2. Cardinality(f[0]) \in Nat /\ Cardinality(f[0]) # 0
        BY <3>2, <4>1, FS_CardinalityType, FS_EmptySet
      <4> QED
        BY <4>2
    <3> QED
      BY <3>1, <3>2
  <2> HIDE DEF Least
  <2> QED
    BY <2>1, <2>2
<1>8. ASSUME NEW k \in 1..n, k - 1 \in Good PROVE k \in Good
  <2>1. k \in Nat /\ k - 1 \in Nat /\ k - 1 <= n
    BY <1>1
  <2>2. PICK S, T : S = f[k - 1] /\ T = f[k]
    OBVIOUS
  <2>3. /\ S \in SUBSET Nodes(graph) /\ Followers(graph, v) \subseteq S
        /\ Closed(graph, S) \/ Cardinality(S) > k - 1
        /\ Least(S)
    <3> HIDE DEF Least
    <3> QED
      BY <1>8, <2>1, <2>2
  <2>4. T = Wider(graph, S)
    BY <1>6, <2>2
  <2>5. T \in SUBSET Nodes(graph) /\ Followers(graph, v) \subseteq T /\ S \subseteq T
    BY <1>2, <2>3, <2>4 DEF Wider
  <2>6. Least(T)
    BY <2>3, <2>4 DEF Wider, Closed
  <2>7. Closed(graph, T) \/ Cardinality(T) > k
    <3>1. CASE Closed(graph, S)
      <4>1. T = S
        BY <2>4, <3>1 DEF Wider, Closed
      <4> QED
        BY <3>1, <4>1
    <3>2. CASE ~Closed(graph, S)
      <4>1. T # S
        BY <2>4, <3>2 DEF Wider, Closed
      <4>2. IsFiniteSet(T) /\ S \in SUBSET T
        BY <1>1, <2>5, FS_Subset
      <4>3. Cardinality(S) <= Cardinality(T) /\ Cardinality(T) # Cardinality(S) /\ IsFiniteSet(S)
        BY <4>1, <4>2, FS_Subset
      <4>4. Cardinality(S) \in Nat /\ Cardinality(T) \in Nat
        BY <4>2, <4>3, FS_CardinalityType
      <4> QED
        BY <2>1, <2>3, <3>2, <4>3, <4>4
    <3> QED
      BY <3>1, <3>2
  <2> HIDE DEF Least
  <2> QED
    BY <2>1, <2>2, <2>5, <2>6, <2>7
<1>9. n \in Good
  <2> HIDE DEF Good
  <2>1. 0..n \subseteq Good
    BY <1>1, <1>7, <1>8, UpTo
  <2> QED
    BY <1>1, <2>1
<1>10. PICK R : R = f[n]
  OBVIOUS
<1>11. /\ R \in SUBSET Nodes(graph) /\ Followers(graph, v) \subseteq R
       /\ Closed(graph, R) \/ Cardinality(R) > n
       /\ Least(R)
  <2> HIDE DEF Least
  <2> QED
    BY <1>1, <1>9, <1>10
<1>12. Closed(graph, R)
  <2>1. Cardinality(R) <= n /\ IsFiniteSet(R)
    BY <1>1, <1>11, FS_Subset
  <2>2. Cardinality(R) \in Nat
    BY <2>1, FS_CardinalityType
  <2> QED
    BY <1>1, <1>11, <2>1, <2>2
<1> QED
  BY <1>5, <1>10, <1>11, <1>12

\* A complete order has no cycle.
LEMMA OrderedIsAcyclic ==
  ASSUME NEW graph \in Graph, ToSet(EvalOrder(graph)) = Nodes(graph),
         NEW v \in Nodes(graph), Reaches(graph, v, v)
  PROVE  FALSE
<1>1. PICK order : order = EvalOrder(graph)
  OBVIOUS
<1>2. /\ order \in Seq(Nodes(graph)) /\ Once(order)
      /\ \A j \in 1..Len(order) : \A w \in Causes(graph, order[j]) :
           \E i \in 1..(j - 1) : order[i] = w
  BY <1>1, OrderOf
<1>3. Len(order) \in Nat /\ Nodes(graph) = {order[i] : i \in 1..Len(order)}
  BY <1>1, <1>2, ToSetOf
<1> DEFINE Later(i) == {order[j] : j \in (i + 1)..Len(order)}
<1>4. ASSUME NEW i \in 1..Len(order) PROVE Followers(graph, order[i]) \subseteq Later(i)
  <2>1. ASSUME NEW w \in Followers(graph, order[i]) PROVE w \in Later(i)
    <3>1. w \in Nodes(graph) /\ order[i] \in Causes(graph, w)
      <4>1. order[i] \in Nodes(graph)
        BY <1>2
      <4>2. w \in Nodes(graph) /\ <<order[i], w>> \in Edges(graph)
        BY <2>1, FollowersOf
      <4> QED
        BY <4>1, <4>2, CausesOf
    <3>2. PICK j \in 1..Len(order) : w = order[j]
      BY <1>3, <3>1
    <3>3. PICK k \in 1..(j - 1) : order[k] = order[i]
      BY <1>2, <3>1, <3>2
    <3>4. k \in 1..Len(order)
      BY <1>3
    <3>5. k = i
      BY <1>2, <3>3, <3>4 DEF Once
    <3>6. j \in (i + 1)..Len(order)
      BY <1>3, <3>3, <3>5
    <3> QED
      BY <3>2, <3>6
  <2> QED
    BY <2>1
<1>5. PICK p \in 1..Len(order) : v = order[p]
  BY <1>3
<1>6. Closed(graph, Later(p))
  <2>1. ASSUME NEW j \in (p + 1)..Len(order), NEW w \in Followers(graph, order[j])
        PROVE  w \in Later(p)
    <3>1. j \in 1..Len(order)
      BY <1>3
    <3>2. PICK k \in (j + 1)..Len(order) : w = order[k]
      BY <1>4, <2>1, <3>1
    <3>3. k \in (p + 1)..Len(order)
      BY <1>3, <3>1
    <3> QED
      BY <3>2, <3>3
  <2> QED
    BY <2>1 DEF Closed
<1>7. v \in Later(p)
  <2> HIDE DEF Later
  <2> QED
    BY <1>4, <1>5, <1>6, ReachesOf
<1>8. PICK j \in (p + 1)..Len(order) : order[j] = order[p]
  BY <1>5, <1>7
<1>9. j \in 1..Len(order) /\ j # p
  BY <1>3
<1> QED
  BY <1>2, <1>8, <1>9 DEF Once

\* A node that is not placed has a cause that is not placed either and reaches all that the
\* node reaches; so the one of them that reaches most reaches itself.
LEMMA UnplacedIsCyclic ==
  ASSUME NEW graph \in Graph, ToSet(EvalOrder(graph)) # Nodes(graph)
  PROVE  \E v \in Nodes(graph) : Reaches(graph, v, v)
<1> DEFINE n == Len(NodeSeq(graph))
           R(v) == {w \in Nodes(graph) : Reaches(graph, v, w)}
           U == Nodes(graph) \ ToSet(EvalOrder(graph))
<1>1. n \in Nat /\ IsFiniteSet(Nodes(graph)) /\ Cardinality(Nodes(graph)) = n
  BY NodesOf
<1> HIDE DEF n
<1>2. U # {} /\ U \subseteq Nodes(graph)
  <2>1. ToSet(EvalOrder(graph)) \subseteq Nodes(graph)
    BY OrderOf, ToSetOf
  <2> QED
    BY <2>1
<1>3. ASSUME NEW v \in U PROVE \E u \in U : v \in Followers(graph, u)
  <2>1. v \in Nodes(graph) /\ ~(Causes(graph, v) \subseteq ToSet(EvalOrder(graph)))
    BY OrderOf
  <2>2. PICK u \in Causes(graph, v) : u \notin ToSet(EvalOrder(graph))
    BY <2>1
  <2>3. u \in Nodes(graph) /\ <<u, v>> \in Edges(graph)
    BY CausesOf
  <2> QED
    BY <2>1, <2>2, <2>3, FollowersOf
<1>4. ASSUME NEW v \in Nodes(graph)
      PROVE  /\ Followers(graph, v) \subseteq R(v) /\ Closed(graph, R(v))
             /\ \A S : Followers(graph, v) \subseteq S /\ Closed(graph, S) => R(v) \subseteq S
  <2>1. PICK S \in SUBSET Nodes(graph) :
           /\ \A w : Reaches(graph, v, w) <=> w \in S
           /\ Followers(graph, v) \subseteq S /\ Closed(graph, S)
           /\ \A T : Followers(graph, v) \subseteq T /\ Closed(graph, T) => S \subseteq T
    BY ReachesOf
  <2>2. S = R(v)
    BY <2>1
  <2> HIDE DEF R
  <2> QED
    BY <2>1, <2>2
<1>5. \A v \in Nodes(graph) : R(v) \in SUBSET Nodes(graph)
  OBVIOUS
<1>6. SUFFICES ASSUME \A v \in Nodes(graph) : v \notin R(v) PROVE FALSE
  OBVIOUS
<1> HIDE DEF R, U
<1>7. ASSUME NEW v \in Nodes(graph)
      PROVE  IsFiniteSet(R(v)) /\ Cardinality(R(v)) \in Nat /\ Cardinality(R(v)) <= n
  BY <1>1, <1>5, FS_Subset, FS_CardinalityType
<1> DEFINE Left == {n - Cardinality(R(v)) : v \in U}
<1>8. Left \subseteq Nat /\ Left # {}
  BY <1>1, <1>2, <1>7
<1>9. PICK m \in Left : \A l \in Left : m <= l
  <2> HIDE DEF Left
  <2> QED
    BY <1>8, LeastNumber
<1>10. PICK v \in U : m = n - Cardinality(R(v))
  OBVIOUS
<1>11. PICK u \in U : v \in Followers(graph, u)
  BY <1>3
<1>12. u \in Nodes(graph) /\ v \in Nodes(graph)
  BY <1>2
<1>13. v \in R(u) /\ Followers(graph, v) \subseteq R(u)
  BY <1>4, <1>11, <1>12 DEF Closed
<1>14. R(v) \subseteq R(u)
  BY <1>4, <1>12, <1>13
<1>15. R(v) # R(u)
  BY <1>6, <1>12, <1>13
<1>16. /\ Cardinality(R(v)) <= Cardinality(R(u))
       /\ Cardinality(R(u)) # Cardinality(R(v))
  <2>1. IsFiniteSet(R(u)) /\ R(v) \in SUBSET R(u)
    BY <1>7, <1>12, <1>14
  <2> QED
    BY <1>15, <2>1, FS_Subset
<1>17. m <= n - Cardinality(R(u))
  BY <1>9
<1>18. Cardinality(R(u)) \in Nat /\ Cardinality(R(v)) \in Nat
  BY <1>7, <1>12
<1> QED
  BY <1>1, <1>10, <1>16, <1>17, <1>18

\* The order is complete when it has every node.
LEMMA AcyclicIsComplete ==
  ASSUME NEW graph \in Graph
  PROVE  IsAcyclic(graph) <=> ToSet(EvalOrder(graph)) = Nodes(graph)
<1>1. PICK order : order = EvalOrder(graph)
  OBVIOUS
<1>2. order \in Seq(Nodes(graph)) /\ Once(order)
  BY <1>1, OrderOf
<1>3. Cardinality(ToSet(order)) = Len(order) /\ ToSet(order) \in SUBSET Nodes(graph)
  BY <1>2, OnceCount, ToSetOf
<1>4. IsFiniteSet(Nodes(graph)) /\ Cardinality(Nodes(graph)) = Len(NodeSeq(graph))
  BY NodesOf
<1>5. Cardinality(ToSet(order)) = Cardinality(Nodes(graph)) => ToSet(order) = Nodes(graph)
  BY <1>3, <1>4, FS_Subset
<1> QED
  BY <1>1, <1>3, <1>4, <1>5 DEF IsAcyclic

\* assert_dag_acyclic passes a graph exactly when no node of it reaches itself
\* (system/system_graph.py:31).
THEOREM AcyclicExactly ==
  ASSUME NEW graph \in Graph
  PROVE  IsAcyclic(graph) <=> ~HasCycle(graph)
BY OrderedIsAcyclic, UnplacedIsCyclic, AcyclicIsComplete DEF HasCycle, Nodes

-----------------------------------------------------------------------------
(* Values. *)

Inputs == {"price", "marketing", "_unit_cost"}
Names == Inputs \cup {"demand", "revenue", "cost", "profit"}

\* The formulas hold of m.
Coherent(m, predicted) ==
  /\ m["demand"] = predicted
  /\ m["revenue"] = m["price"] * m["demand"]
  /\ m["cost"] = m["demand"] * m["_unit_cost"]
  /\ m["profit"] = m["revenue"] - m["cost"]

LEMMA MeaningOf ==
  ASSUME NEW price \in Int, NEW marketing \in Int, NEW unitCost \in Int, NEW predicted \in Int
  PROVE  LET m == Meaning(price, marketing, unitCost, predicted)
         IN /\ Coherent(m, predicted) /\ DOMAIN m = Names
            /\ m["price"] = price /\ m["marketing"] = marketing /\ m["_unit_cost"] = unitCost
<1> DEFINE m == Meaning(price, marketing, unitCost, predicted)
<1>1. DOMAIN m = Names
  BY DEF Meaning, Names, Inputs
<1>2. /\ m["price"] = price /\ m["marketing"] = marketing /\ m["_unit_cost"] = unitCost
      /\ m["demand"] = predicted /\ m["revenue"] = price * predicted
      /\ m["cost"] = predicted * unitCost /\ m["profit"] = predicted * (price - unitCost)
  BY DEF Meaning
<1>3. predicted * (price - unitCost) = price * predicted - predicted * unitCost
  OBVIOUS
<1> HIDE DEF m
<1>4. Coherent(m, predicted)
  BY <1>2, <1>3 DEF Coherent
<1> QED
  BY <1>1, <1>2, <1>4 DEF m

LEMMA GivenOf ==
  ASSUME NEW price, NEW marketing, NEW unitCost, NEW g, g = Given(price, marketing, unitCost)
  PROVE  /\ DOMAIN g = Inputs
         /\ g["price"] = price /\ g["marketing"] = marketing /\ g["_unit_cost"] = unitCost
BY DEF Given, Inputs

\* Some of the values that are meant, those that are given included.
Means(values, m) ==
  /\ Inputs \subseteq DOMAIN values /\ DOMAIN values \subseteq Names
  /\ \A v \in DOMAIN values : values[v] = m[v]

LEMMA MeansNoError == ASSUME NEW values, NEW m, Means(values, m) PROVE values # KeyError
<1>1. "price" \in DOMAIN values
  BY DEF Means, Inputs
<1>2. "price" \notin DOMAIN KeyError
  BY DEF KeyError
<1> QED
  BY <1>1, <1>2

LEMMA NeedsOf ==
  /\ DOMAIN Needs = {"revenue", "cost", "profit"}
  /\ Needs["revenue"] = {"price", "demand"} /\ Needs["cost"] = {"demand", "_unit_cost"}
  /\ Needs["profit"] = {"revenue", "cost"}
BY DEF Needs

LEMMA AddedValue ==
  ASSUME NEW values, NEW m, Means(values, m), NEW v \in Names, NEW x, x = m[v],
         v \notin DOMAIN values
  PROVE  Means(Put(values, v, x), m) /\ DOMAIN Put(values, v, x) = DOMAIN values \cup {v}
<1> DEFINE new == Put(values, v, x)
<1>1. DOMAIN new = DOMAIN values \cup {v}
  BY DEF Put
<1>2. new[v] = x
  BY DEF Put
<1>3. \A w \in DOMAIN values : new[w] = values[w]
  BY DEF Put
<1> HIDE DEF new
<1>4. Means(new, m) /\ DOMAIN new = DOMAIN values \cup {v}
  BY <1>1, <1>2, <1>3 DEF Means
<1> QED
  BY <1>4 DEF new

Supplied(values, v) == v \in DOMAIN Needs => Needs[v] \subseteq DOMAIN values

\* A node whose formula has what it needs gets its value.
LEMMA EvaluateStepOf ==
  ASSUME NEW m, NEW predicted, Coherent(m, predicted),
         NEW values, Means(values, m), NEW v, Supplied(values, v)
  PROVE  /\ Means(EvaluateStep(predicted, values, v), m)
         /\ DOMAIN EvaluateStep(predicted, values, v) = DOMAIN values \cup ({v} \cap Names)
<1> DEFINE new == EvaluateStep(predicted, values, v)
<1>0. /\ m["demand"] = predicted
      /\ m["revenue"] = m["price"] * m["demand"]
      /\ m["cost"] = m["demand"] * m["_unit_cost"]
      /\ m["profit"] = m["revenue"] - m["cost"]
  BY DEF Coherent
<1>1. values # KeyError /\ DOMAIN values \subseteq Names
  BY MeansNoError DEF Means
<1>2. CASE v \in DOMAIN values
  <2>1. new = values
    BY <1>1, <1>2 DEF EvaluateStep
  <2> QED
    BY <1>1, <1>2, <2>1
<1>3. CASE v \notin DOMAIN values /\ v = "demand"
  <2>1. new = Put(values, v, predicted)
    BY <1>1, <1>3 DEF EvaluateStep
  <2>2. v \in Names /\ predicted = m[v]
    BY <1>0, <1>3 DEF Names
  <2> QED
    BY <1>3, <2>1, <2>2, AddedValue
<1>4. CASE v \notin DOMAIN values /\ v # "demand" /\ v \notin DOMAIN Needs
  <2>1. new = values
    BY <1>1, <1>4 DEF EvaluateStep
  <2>2. v \notin Names
    <3>1. v \notin Inputs
      BY <1>4 DEF Means
    <3> QED
      BY <1>4, <3>1, NeedsOf DEF Names
  <2> QED
    BY <1>1, <2>1, <2>2
<1>5. CASE v \notin DOMAIN values /\ v \in DOMAIN Needs
  <2>1. v # "demand" /\ v \in {"revenue", "cost", "profit"} /\ v \in Names
    BY <1>5, NeedsOf DEF Names
  <2>2. new = Put(values, v, Formula(v, values))
    BY <1>1, <1>5, <2>1 DEF EvaluateStep, Supplied
  <2>3. \A w \in Needs[v] : values[w] = m[w]
    BY <1>5 DEF Means, Supplied
  <2>4. Formula(v, values) = m[v]
    <3>1. CASE v = "revenue"
      <4>1. Formula(v, values) = values["price"] * values["demand"]
        BY <3>1 DEF Formula
      <4>2. values["price"] = m["price"] /\ values["demand"] = m["demand"]
        BY <2>3, <3>1, NeedsOf
      <4> QED
        BY <1>0, <3>1, <4>1, <4>2
    <3>2. CASE v = "cost"
      <4>1. Formula(v, values) = values["demand"] * values["_unit_cost"]
        BY <3>2 DEF Formula
      <4>2. values["demand"] = m["demand"] /\ values["_unit_cost"] = m["_unit_cost"]
        BY <2>3, <3>2, NeedsOf
      <4> QED
        BY <1>0, <3>2, <4>1, <4>2
    <3>3. CASE v = "profit"
      <4>1. Formula(v, values) = values["revenue"] - values["cost"]
        BY <3>3 DEF Formula
      <4>2. values["revenue"] = m["revenue"] /\ values["cost"] = m["cost"]
        BY <2>3, <3>3, NeedsOf
      <4> QED
        BY <1>0, <3>3, <4>1, <4>2
    <3> QED
      BY <2>1, <3>1, <3>2, <3>3
  <2>5. Means(new, m) /\ DOMAIN new = DOMAIN values \cup {v}
    BY <1>5, <2>1, <2>2, <2>4, AddedValue
  <2> QED
    BY <2>1, <2>5
<1> QED
  BY <1>2, <1>3, <1>4, <1>5

LEMMA EvaluateStepIs ==
  ASSUME NEW m, NEW predicted, Coherent(m, predicted),
         NEW values, Means(values, m), NEW v, Supplied(values, v),
         NEW new, new = EvaluateStep(predicted, values, v)
  PROVE  Means(new, m) /\ DOMAIN new = DOMAIN values \cup ({v} \cap Names)
BY EvaluateStepOf

\* A node whose formula lacks what it needs ends in an error.
LEMMA EvaluateStepFails ==
  ASSUME NEW m, NEW predicted, NEW values, Means(values, m), NEW v, v \in DOMAIN Needs,
         ~(Needs[v] \subseteq DOMAIN values),
         NEW new, new = EvaluateStep(predicted, values, v)
  PROVE  new = KeyError \/ (new = values /\ v \in DOMAIN values)
<1>1. values # KeyError
  BY MeansNoError
<1>2. CASE v \in DOMAIN values
  BY <1>1, <1>2 DEF EvaluateStep
<1>3. CASE v \notin DOMAIN values
  <2>1. v # "demand"
    BY NeedsOf
  <2> QED
    BY <1>1, <1>3, <2>1 DEF EvaluateStep
<1> QED
  BY <1>2, <1>3

\* What is meant, of all that the order places, or an error, which a graph that covers its
\* formulas does not make.
LEMMA EvaluateIs ==
  ASSUME NEW graph \in Graph,
         NEW price \in Int, NEW marketing \in Int, NEW unitCost \in Int, NEW predicted \in Int,
         NEW m, m = Meaning(price, marketing, unitCost, predicted),
         NEW values, values = Evaluate(graph, price, marketing, unitCost, predicted)
  PROVE  \/ values = KeyError /\ ~Covered(graph)
         \/ /\ Means(values, m)
            /\ DOMAIN values = Inputs \cup (ToSet(EvalOrder(graph)) \cap Names)
<1>1. PICK order : order = EvalOrder(graph)
  OBVIOUS
<1>2. /\ order \in Seq(Nodes(graph))
      /\ \A j \in 1..Len(order) : \A v \in Causes(graph, order[j]) :
           \E i \in 1..(j - 1) : order[i] = v
  BY <1>1, OrderOf
<1>3. Len(order) \in Nat
  BY <1>2
<1>4. PICK h : /\ h[0] = Given(price, marketing, unitCost)
               /\ \A k \in 1..Len(order) : h[k] = EvaluateStep(predicted, h[k - 1], order[k])
               /\ values = h[Len(order)]
  BY <1>1, <1>2, EvaluateWalk
<1> DEFINE Fine(k) == /\ Means(h[k], m)
                      /\ DOMAIN h[k] = Inputs \cup (Before(order, k) \cap Names)
           Good == {k \in Nat : k <= Len(order) =>
                      (h[k] = KeyError /\ ~Covered(graph)) \/ Fine(k)}
<1>5. 0 \in Good
  <2>1. PICK g : g = Given(price, marketing, unitCost)
    OBVIOUS
  <2>2. DOMAIN g = Inputs /\ Inputs \subseteq Names
    BY <2>1, GivenOf DEF Names
  <2>3. \A v \in Inputs : g[v] = m[v]
    BY <2>1, GivenOf, MeaningOf DEF Inputs
  <2>4. Means(g, m)
    BY <2>2, <2>3 DEF Means
  <2>5. Before(order, 0) = {}
    BY DEF Before
  <2>6. Means(h[0], m) /\ DOMAIN h[0] = Inputs \cup (Before(order, 0) \cap Names)
    BY <1>4, <2>1, <2>2, <2>4, <2>5
  <2> QED
    BY <2>6
<1>6. ASSUME NEW k \in 1..Len(order), k - 1 \in Good PROVE k \in Good
  <2>1. k \in Nat /\ k - 1 \in Nat /\ k - 1 <= Len(order)
    BY <1>3
  <2>2. PICK was, v, new : was = h[k - 1] /\ v = order[k] /\ new = h[k]
    OBVIOUS
  <2>3. \/ was = KeyError /\ ~Covered(graph)
        \/ Means(was, m) /\ DOMAIN was = Inputs \cup (Before(order, k - 1) \cap Names)
    BY <1>6, <2>1, <2>2
  <2>4. new = EvaluateStep(predicted, was, v) /\ v \in Nodes(graph)
    BY <1>2, <1>4, <2>2
  <2>5. Before(order, k) = Before(order, k - 1) \cup {v}
    <3>1. 1..k = 1..(k - 1) \cup {k}
      BY <2>1
    <3> QED
      BY <2>2, <3>1 DEF Before
  <2>6. CASE Means(was, m) /\ DOMAIN was = Inputs \cup (Before(order, k - 1) \cap Names)
    <3>1. ASSUME Covered(graph), v \in DOMAIN Needs PROVE Needs[v] \subseteq DOMAIN was
      <4>1. Needs[v] \ {"_unit_cost"} \subseteq Causes(graph, v)
        BY <2>4, <3>1 DEF Covered, Nodes
      <4>2. Needs[v] \subseteq Names
        BY <3>1, NeedsOf DEF Names, Inputs
      <4>3. Causes(graph, v) \subseteq Before(order, k - 1)
        BY <1>2, <2>2 DEF Before
      <4>4. "_unit_cost" \in Inputs
        BY DEF Inputs
      <4> QED
        BY <2>6, <4>1, <4>2, <4>3, <4>4
    <3>2. CASE Supplied(was, v)
      <4>1. Coherent(m, predicted)
        BY MeaningOf
      <4> HIDE DEF Good, Fine
      <4>2. /\ Coherent(m, predicted) /\ Means(was, m) /\ Supplied(was, v)
            /\ new = EvaluateStep(predicted, was, v)
        BY <2>4, <2>6, <3>2, <4>1
      <4>3. Means(new, m) /\ DOMAIN new = DOMAIN was \cup ({v} \cap Names)
        BY ONLY <4>2, EvaluateStepIs
      <4>4. Fine(k)
        BY <2>2, <2>5, <2>6, <4>3 DEF Fine
      <4> QED
        BY <2>1, <4>4 DEF Good
    <3>3. CASE ~Supplied(was, v)
      <4>1. ~Covered(graph)
        BY <3>1, <3>3 DEF Supplied
      <4> HIDE DEF Good, Fine
      <4>2. /\ Means(was, m) /\ v \in DOMAIN Needs /\ ~(Needs[v] \subseteq DOMAIN was)
            /\ new = EvaluateStep(predicted, was, v)
        BY <2>4, <2>6, <3>3 DEF Supplied
      <4>3. new = KeyError \/ (new = was /\ v \in DOMAIN was)
        BY ONLY <4>2, EvaluateStepFails
      <4>4. new = KeyError \/ Fine(k)
        BY <2>2, <2>5, <2>6, <4>3 DEF Fine, Means
      <4> QED
        BY <2>1, <2>2, <4>1, <4>4 DEF Good
    <3> QED
      BY <3>2, <3>3
  <2>7. CASE was = KeyError /\ ~Covered(graph)
    <3>1. new = KeyError
      BY <2>4, <2>7 DEF EvaluateStep
    <3> QED
      BY <2>1, <2>2, <2>7, <3>1
  <2> QED
    BY <2>3, <2>6, <2>7
<1>7. Len(order) \in Good
  <2> HIDE DEF Good
  <2>1. 0..Len(order) \subseteq Good
    BY <1>3, <1>5, <1>6, UpTo
  <2> QED
    BY <1>3, <2>1
<1>8. \/ values = KeyError /\ ~Covered(graph)
      \/ Means(values, m) /\ DOMAIN values = Inputs \cup (Before(order, Len(order)) \cap Names)
  BY <1>3, <1>4, <1>7
<1>9. Before(order, Len(order)) = ToSet(order)
  BY <1>2, ToSetOf DEF Before
<1> QED
  BY <1>1, <1>8, <1>9

LEMMA EvaluateOf ==
  ASSUME NEW graph \in Graph, Covered(graph),
         NEW price \in Int, NEW marketing \in Int, NEW unitCost \in Int, NEW predicted \in Int,
         NEW m, m = Meaning(price, marketing, unitCost, predicted),
         NEW values, values = Evaluate(graph, price, marketing, unitCost, predicted)
  PROVE  /\ Means(values, m)
         /\ DOMAIN values = Inputs \cup (ToSet(EvalOrder(graph)) \cap Names)
BY EvaluateIs

\* evaluate() gives every node of an acyclic graph that has a meaning that meaning; or
\* else a KeyError, and that only if a formula has not what it needs among its causes
\* (system/system_model.py:114).
THEOREM ValuesMeant ==
  ASSUME NEW graph \in Graph, IsAcyclic(graph),
         NEW price \in Int, NEW marketing \in Int, NEW unitCost \in Int, NEW predicted \in Int
  PROVE  LET values == Evaluate(graph, price, marketing, unitCost, predicted)
             meant == Meaning(price, marketing, unitCost, predicted)
         IN \/ values = KeyError /\ ~Covered(graph)
            \/ /\ values # KeyError
               /\ \A v \in ToSet(NodeSeq(graph)) \cap DOMAIN meant :
                    v \in DOMAIN values /\ values[v] = meant[v]
<1>1. PICK m : m = Meaning(price, marketing, unitCost, predicted)
  OBVIOUS
<1>2. PICK values : values = Evaluate(graph, price, marketing, unitCost, predicted)
  OBVIOUS
<1>3. \/ values = KeyError /\ ~Covered(graph)
      \/ /\ Means(values, m)
         /\ DOMAIN values = Inputs \cup (ToSet(EvalOrder(graph)) \cap Names)
  BY <1>1, <1>2, EvaluateIs
<1>4. DOMAIN m = Names
  BY <1>1, MeaningOf
<1>5. ToSet(EvalOrder(graph)) = ToSet(NodeSeq(graph))
  BY AcyclicIsComplete DEF Nodes
<1>6. ASSUME NEW v \in ToSet(NodeSeq(graph)) \cap DOMAIN m,
             Means(values, m),
             DOMAIN values = Inputs \cup (ToSet(EvalOrder(graph)) \cap Names)
      PROVE  v \in DOMAIN values /\ values[v] = m[v]
  BY <1>4, <1>5, <1>6 DEF Means
<1>7. Means(values, m) => values # KeyError
  BY MeansNoError
<1> QED
  BY <1>1, <1>2, <1>3, <1>6, <1>7

-----------------------------------------------------------------------------
(* What is simulated and advised. *)

\* monte_carlo gives a profit exactly when the predicted demand is not negative, and else
\* numpy's error (simulation/montecarlo.py:65).  The profit is that of the demand with its
\* noise, none where the noise takes all of it; so without noise it is the graph's, and a
\* price that is not below the cost never loses.
THEOREM SimulatedSound ==
  ASSUME NEW graph \in Graph, IsAcyclic(graph), Covered(graph),
         "demand" \in ToSet(NodeSeq(graph)),
         NEW price \in Int, NEW marketing \in Int, NEW unitCost \in Int,
         NEW predicted \in Int, NEW noise \in Int
  PROVE  LET profit == Simulated(graph, price, marketing, unitCost, predicted, noise)
         IN /\ predicted < 0 => profit = ValueError
            /\ predicted >= 0 =>
                 /\ profit \in Int
                 /\ noise = 0 =>
                      profit = Meaning(price, marketing, unitCost, predicted)["profit"]
                 /\ price >= unitCost => profit >= 0
<1>1. PICK m : m = Meaning(price, marketing, unitCost, predicted)
  OBVIOUS
<1>2. PICK values : values = Evaluate(graph, price, marketing, unitCost, predicted)
  OBVIOUS
<1>3. /\ Means(values, m)
      /\ DOMAIN values = Inputs \cup (ToSet(EvalOrder(graph)) \cap Names)
  BY <1>1, <1>2, EvaluateOf
<1>4. ToSet(EvalOrder(graph)) = ToSet(NodeSeq(graph))
  BY AcyclicIsComplete DEF Nodes
<1>5. m["demand"] = predicted
  BY <1>1, MeaningOf DEF Coherent
<1>6. values["demand"] = predicted
  <2>1. "demand" \in Names
    BY DEF Names
  <2> QED
    BY <1>3, <1>4, <1>5, <2>1 DEF Means
<1>7. PICK noisy : noisy = Max({0, predicted + noise})
  OBVIOUS
<1>8. noisy \in Nat /\ (predicted + noise >= 0 => noisy = predicted + noise)
  <2>1. PICK x \in {0, predicted + noise} : \A y \in {0, predicted + noise} : x >= y
    OBVIOUS
  <2>2. noisy \in {0, predicted + noise} /\ \A y \in {0, predicted + noise} : noisy >= y
    BY <1>7, <2>1 DEF Max
  <2> QED
    BY <2>2
<1>9. PICK profit : profit = Simulated(graph, price, marketing, unitCost, predicted, noise)
  OBVIOUS
<1>10. ASSUME predicted < 0 PROVE profit = ValueError
  BY <1>2, <1>6, <1>9, <1>10 DEF Simulated
<1>11. ASSUME predicted >= 0
       PROVE  profit \in Int /\ profit = noisy * (price - unitCost)
  <2>1. ~(predicted < 0)
    BY <1>11
  <2>2. profit = price * noisy - noisy * unitCost
    BY <1>2, <1>6, <1>7, <1>9, <2>1 DEF Simulated, Earned
  <2> QED
    BY <1>8, <2>2
<1>12. ASSUME predicted >= 0, price >= unitCost PROVE profit >= 0
  <2>1. PICK margin \in Nat : margin = price - unitCost
    BY <1>12
  <2>2. noisy * margin \in Nat
    BY <1>8
  <2> QED
    BY <1>11, <1>12, <2>1, <2>2
<1>13. ASSUME noise = 0, predicted >= 0 PROVE profit = m["profit"]
  <2>1. noisy = predicted
    BY <1>8, <1>13
  <2>2. m["profit"] = predicted * (price - unitCost)
    BY <1>1 DEF Meaning
  <2> QED
    BY <1>11, <1>13, <2>1, <2>2
<1> QED
  BY <1>1, <1>9, <1>10, <1>11, <1>12, <1>13

\* optimize_price returns the first of the prices that no other one beats
\* (optimization/optimizer.py:22).
THEOREM BestPriceFirst ==
  ASSUME NEW prices \in Seq(Int), prices # <<>>, NEW expected,
         \A k \in 1..Len(prices) : expected[prices[k]] \in Int
  PROVE  \E k \in 1..Len(prices) :
           /\ BestPrice(prices, expected) = prices[k]
           /\ \A j \in 1..Len(prices) : expected[prices[j]] <= expected[prices[k]]
           /\ \A j \in 1..(k - 1) : expected[prices[j]] < expected[prices[k]]
<1> DEFINE n == Len(prices)
           Beats(k, i) == /\ \A j \in 1..i : expected[prices[j]] <= expected[prices[k]]
                          /\ \A j \in 1..(k - 1) : expected[prices[j]] < expected[prices[k]]
           Good == {i \in Nat : i # 0 /\ i <= n => \E k \in 1..i : Beats(k, i)}
<1>1. n \in Nat /\ n # 0 /\ DOMAIN prices = 1..n
  OBVIOUS
<1>2. 0 \in Good
  OBVIOUS
<1> HIDE DEF n
<1>3. ASSUME NEW i \in 1..n, i - 1 \in Good PROVE i \in Good
  <2>1. i \in Nat /\ i - 1 \in Nat /\ i - 1 <= n /\ i <= n
    BY <1>1
  <2>2. \A j \in 1..i : expected[prices[j]] \in Int
    BY <1>1 DEF n
  <2>3. CASE i = 1
    <3>1. Beats(1, 1)
      BY <2>2, <2>3
    <3> QED
      BY <2>1, <2>3, <3>1
  <2>4. CASE i # 1
    <3>1. PICK k \in 1..(i - 1) : Beats(k, i - 1)
      BY <1>3, <2>1, <2>4
    <3>2. CASE expected[prices[i]] <= expected[prices[k]]
      <4>1. Beats(k, i)
        BY <2>1, <3>1, <3>2
      <4>2. k \in 1..i
        OBVIOUS
      <4> QED
        BY <2>1, <4>1, <4>2
    <3>3. CASE ~(expected[prices[i]] <= expected[prices[k]])
      <4>1. k \in 1..i
        OBVIOUS
      <4>2. \A j \in 1..(i - 1) : expected[prices[j]] < expected[prices[i]]
        BY <2>2, <3>1, <3>3, <4>1
      <4>3. Beats(i, i)
        BY <2>1, <2>2, <4>2
      <4>4. i \in 1..i
        BY <2>1
      <4> QED
        BY <2>1, <4>3, <4>4
    <3> QED
      BY <3>2, <3>3
  <2> QED
    BY <2>3, <2>4
<1>4. \E k \in 1..n : Beats(k, n)
  <2>1. n \in Good
    <3> HIDE DEF Good
    <3>1. 0..n \subseteq Good
      BY <1>1, <1>2, <1>3, UpTo
    <3> QED
      BY <1>1, <3>1
  <2> QED
    BY <1>1, <2>1
<1>5. PICK k : k = CHOOSE c \in 1..n : Beats(c, n)
  OBVIOUS
<1>6. k \in 1..n /\ Beats(k, n)
  <2> HIDE DEF Beats
  <2> QED
    BY <1>4, <1>5
<1>7. BestPrice(prices, expected) = prices[k]
  BY <1>1, <1>5 DEF BestPrice
<1> QED
  BY <1>6, <1>7 DEF n

-----------------------------------------------------------------------------
(* The checked property. *)

LEMMA EdgesAreOrdered ==
  ASSUME NEW graph \in Graph, NEW order, order = EvalOrder(graph)
  PROVE  \A e \in ToSet(EdgeSeq(graph)), j \in DOMAIN order :
           e[2] = order[j] => \E i \in 1..(j - 1) : order[i] = e[1]
<1>1. /\ order \in Seq(Nodes(graph))
      /\ \A j \in 1..Len(order) : \A v \in Causes(graph, order[j]) :
           \E i \in 1..(j - 1) : order[i] = v
  BY OrderOf
<1>2. DOMAIN order = 1..Len(order)
  BY <1>1
<1>3. ASSUME NEW e \in Edges(graph), NEW j \in 1..Len(order), e[2] = order[j]
      PROVE  e[1] \in Causes(graph, order[j])
  BY <1>3 DEF Causes, Edges
<1> QED
  BY <1>1, <1>2, <1>3 DEF Edges

LEMMA EvaluatedNames ==
  ASSUME NEW graph \in Graph, Covered(graph),
         NEW price \in Int, NEW marketing \in Int, NEW unitCost \in Int, NEW predicted \in Int
  PROVE  DOMAIN Evaluate(graph, price, marketing, unitCost, predicted)
           = Inputs \cup (ToSet(EvalOrder(graph)) \cap Names)
<1>1. PICK m : m = Meaning(price, marketing, unitCost, predicted)
  OBVIOUS
<1>2. PICK values : values = Evaluate(graph, price, marketing, unitCost, predicted)
  OBVIOUS
<1> QED
  BY <1>1, <1>2, EvaluateOf

LEMMA AdviceOf ==
  ASSUME NEW graph \in Graph, IsAcyclic(graph), Covered(graph),
         "demand" \in ToSet(NodeSeq(graph))
  PROVE  AdviceSound(graph)
<1>1. Simulated(graph, 7, 2, 3, 5, 0) = Meaning(7, 2, 3, 5)["profit"]
  BY SimulatedSound
<1>2. \A noise \in {-6, -1, 4} : Simulated(graph, 7, 2, 3, 5, noise) >= 0
  BY SimulatedSound
<1>3. PICK expected :
        expected = [price \in 2..6 |-> Simulated(graph, price, 2, 3, 9 - price, 0)]
  OBVIOUS
<1>4. ASSUME NEW price \in 2..6 PROVE expected[price] = (9 - price) * (price - 3)
  <2>1. price \in Int /\ 9 - price \in Int /\ 9 - price >= 0
    OBVIOUS
  <2>2. Simulated(graph, price, 2, 3, 9 - price, 0) = Meaning(price, 2, 3, 9 - price)["profit"]
    BY <2>1, SimulatedSound
  <2> QED
    BY <1>3, <2>2 DEF Meaning
<1>5. /\ expected[2] = -7 /\ expected[3] = 0 /\ expected[4] = 5 /\ expected[5] = 8
      /\ expected[6] = 9
  BY <1>4
<1>6. PICK prices : prices = <<2, 3, 4, 5, 6>>
  OBVIOUS
<1>7. /\ prices \in Seq(Int) /\ prices # <<>> /\ Len(prices) = 5
      /\ prices[1] = 2 /\ prices[2] = 3 /\ prices[3] = 4 /\ prices[4] = 5 /\ prices[5] = 6
  BY <1>6
<1>8. \A k \in 1..5 : k = 1 \/ k = 2 \/ k = 3 \/ k = 4 \/ k = 5
  OBVIOUS
<1>9. \A k \in 1..Len(prices) : expected[prices[k]] \in Int
  BY <1>5, <1>7, <1>8
<1>10. PICK k \in 1..5 : /\ BestPrice(prices, expected) = prices[k]
                         /\ expected[prices[5]] <= expected[prices[k]]
  <2>1. 5 \in 1..Len(prices)
    BY <1>7
  <2> QED
    BY <1>7, <1>9, <2>1, BestPriceFirst
<1>11. k = 5
  BY <1>5, <1>7, <1>8, <1>10
<1>12. expected[BestPrice(prices, expected)] = 9
  BY <1>5, <1>7, <1>10, <1>11
<1> QED
  BY <1>1, <1>2, <1>3, <1>6, <1>12 DEF AdviceSound

\* Whatever relationships a spec may have, build_graph accepts them exactly when no variable
\* causes itself (system/system_graph.py:31), the order evaluate() follows has every cause
\* before its effects, and its values and the price it makes optimize_price advise are what
\* the formulas mean (system/system_model.py:114).
THEOREM GraphSound ==
  ASSUME NEW graph \in Graph
  PROVE  Sound(graph)
<1>1. PICK order : order = EvalOrder(graph)
  OBVIOUS
<1>2. PICK values : values = Evaluate(graph, 7, 2, 3, 5)
  OBVIOUS
<1>3. PICK meant : meant = Meaning(7, 2, 3, 5)
  OBVIOUS
<1>4. \A e \in ToSet(EdgeSeq(graph)), j \in DOMAIN order :
        e[2] = order[j] => \E i \in 1..(j - 1) : order[i] = e[1]
  BY <1>1, EdgesAreOrdered
<1>5. ASSUME IsAcyclic(graph)
      PROVE  \/ values = KeyError /\ ~Covered(graph)
             \/ \A v \in ToSet(NodeSeq(graph)) \cap DOMAIN meant : values[v] = meant[v]
  BY <1>2, <1>3, <1>5, ValuesMeant
<1>6. ASSUME IsAcyclic(graph), Covered(graph), "demand" \in DOMAIN values
      PROVE  AdviceSound(graph)
  <2>1. DOMAIN values = Inputs \cup (ToSet(EvalOrder(graph)) \cap Names)
    BY <1>2, <1>6, EvaluatedNames
  <2>2. ToSet(EvalOrder(graph)) = ToSet(NodeSeq(graph))
    BY <1>6, AcyclicIsComplete DEF Nodes
  <2>3. "demand" \notin Inputs
    BY DEF Inputs
  <2> QED
    BY <1>6, <2>1, <2>2, <2>3, AdviceOf
<1> QED
  BY <1>1, <1>2, <1>3, <1>4, <1>5, <1>6, AcyclicExactly DEF Sound

\* A process that has a model evaluates any relationships its spec may have by the formulas,
\* and refuses the cyclic ones, at every moment of every behaviour
\* (system/system_graph.py:31, system/system_model.py:114).
THEOREM CausalSoundAlways == Spec => []CausalSound
<1>1. CausalSound
  BY DrawnAssumption, GraphSound DEF CausalSound, AllSound
<1> QED
  BY <1>1, PTL
=============================================================================
