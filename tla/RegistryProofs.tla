----------------------------- MODULE RegistryProofs -----------------------------
(***************************************************************************)
(* Proofs about PromptRegistry, for any number of threads, stages, prompts   *)
(* and labels, with every fault.                                            *)
(***************************************************************************)
EXTENDS PromptRegistry, WellFoundedInduction, TLAPS

-----------------------------------------------------------------------------
(* What only grows: the prompts that were certified once and the labels that  *)
(* are taken.                                                               *)

Place == {"idle"} \cup Operation \cup Serving

Kept(p) == p \in Prompt /\ prompts[p].status \in {"certified", "deprecated"}
Named(s, l) == l \in AnyLabel /\ variants[s][l].status # "none"
Sound(rows) == \A l \in AnyLabel : rows[l].status # "none" => Kept(rows[l].prompt)

\* What the local variables of a thread are good for at its next statement.
Fits(x, l) ==
  /\ x \in {"insert", "certifyPrev", "certify", "deprecate"} => l.prompt \in Prompt
  /\ x \in {"startLabel", "startTotal", "startInsert"} =>
       Kept(l.prompt) /\ l.label \in AnyLabel
  /\ x \in {"adjustTotal", "adjust", "promoteOld", "promote", "retire"} =>
       Named(l.stage, l.label)
  /\ x = "promote" => l.old = NoVariant \/ Named(l.stage, l.old)
  /\ x \in {"load", "store"} => Sound(l.rows)
  /\ x \in {"content", "fetch", "remember"} => Kept(l.prompt)
  /\ x = "answer" => l.prompt = NoPrompt \/ Kept(l.prompt)

Tables ==
  /\ \A s \in Stage : Sound(variants[s])
  /\ \A s \in Stage : Sound(routing[s].rows)

\* Requests wait for the start-up, so nobody touches the draft it is about to certify.
Starting ==
  /\ boot.at # "up" => \A t \in Thread : pc[t] = "idle"
  /\ boot.at = "certify" => /\ boot.record = Seed[boot.stage]
                            /\ prompts[boot.record].status = "draft"
  /\ boot.at = "champion" => Kept(boot.record)

RInv ==
  /\ TypeOK
  /\ Tables
  /\ Starting
  /\ \A t \in Thread : Fits(pc[t], loc[t])

\* A step takes back neither.
Grows ==
  /\ \A p \in Prompt : Kept(p) => Kept(p)'
  /\ \A s \in Stage, l \in AnyLabel : Named(s, l) => Named(s, l)'

-----------------------------------------------------------------------------
(* Routing. *)

LEMMA LeastOne ==
  ASSUME NEW S, S \subseteq Nat, S # {}
  PROVE  \E m \in S : \A n \in S : m <= n
<1> DEFINE R == OpToRel(<, Nat)
<1>1. PICK m \in S : \A n \in S : ~ (<<n, m>> \in R)
  <2>1. IsWellFoundedOn(R, Nat)
    BY NatLessThanWellFounded, Zenon
  <2> HIDE DEF R
  <2> QED
    BY <2>1, WFMin
<1>2. ASSUME NEW n \in S PROVE m <= n
  <2>1. n \in Nat /\ m \in Nat
    OBVIOUS
  <2>2. ~ (n < m)
    BY <1>1, <2>1 DEF OpToRel
  <2> QED
    BY <2>1, <2>2
<1> QED
  BY <1>2

LEMMA OldestIsOne ==
  ASSUME NEW rows \in Rows, NEW labels, labels \subseteq AnyLabel, labels # {}
  PROVE  Oldest(rows, labels) \in labels
<1> DEFINE Ages == {rows[l].created : l \in labels}
<1>1. Ages \subseteq Nat
  BY DEF Rows, VariantRow
<1>2. Ages # {}
  OBVIOUS
<1>3. PICK m \in Ages : \A n \in Ages : m <= n
  <2> HIDE DEF Ages
  <2> QED
    BY <1>1, <1>2, LeastOne
<1>4. PICK l \in labels : rows[l].created = m
  BY <1>3
<1>5. \A k \in labels : rows[l].created <= rows[k].created
  BY <1>3, <1>4
<1> QED
  BY <1>5 DEF Oldest

\* What a session is routed to is one of the rows, and the row is in use.
LEMMA RouteIsNamed ==
  ASSUME NEW rows \in Rows, NEW b
  PROVE  \/ Route(rows, b) = NoVariant
         \/ Route(rows, b) \in AnyLabel /\ rows[Route(rows, b)].status # "none"
<1> DEFINE hit == {c \in Candidates(rows) : b < Reach(rows, c)}
<1>1. Candidates(rows) \subseteq AnyLabel /\ Champions(rows) \subseteq AnyLabel
  BY DEF Candidates, Champions, Rows
<1>2. CASE hit # {}
  <2>1. Oldest(rows, hit) \in hit
    BY <1>1, <1>2, OldestIsOne
  <2>2. Route(rows, b) = Oldest(rows, hit)
    BY <1>2 DEF Route
  <2> QED
    BY <1>1, <2>1, <2>2 DEF Candidates
<1>3. CASE hit = {} /\ Champions(rows) # {}
  <2>1. Oldest(rows, Champions(rows)) \in Champions(rows)
    BY <1>1, <1>3, OldestIsOne
  <2>2. Route(rows, b) = Oldest(rows, Champions(rows))
    BY <1>3 DEF Route
  <2> QED
    BY <1>1, <2>1, <2>2 DEF Champions
<1>4. CASE hit = {} /\ Champions(rows) = {}
  BY <1>4 DEF Route
<1> QED
  BY <1>2, <1>3, <1>4

-----------------------------------------------------------------------------
(* Values. *)

LEMMA BlankTypes ==
  /\ AnyStage \in Stage
  /\ NoRow \in VariantRow /\ NoRows \in Rows
  /\ NotCached \in RoutingEntry
  /\ Blank \in Locals
<1>1. AnyStage \in Stage
  BY StageAssumption DEF AnyStage
<1>2. Full \in Nat /\ 0 \in 0..Full /\ 0 \in Bucket
  BY FullAssumption DEF Bucket
<1>3. NoRow \in VariantRow
  BY <1>2 DEF NoRow, VariantRow, VariantStatus
<1>4. NoRows \in Rows
  BY <1>3 DEF NoRows, Rows
<1>5. NotCached \in RoutingEntry
  BY <1>4 DEF NotCached, RoutingEntry
<1>6. Blank \in Locals
  BY <1>1, <1>2, <1>3, <1>4 DEF Blank, Locals, PromptStatus
<1> QED
  BY <1>1, <1>3, <1>4, <1>5, <1>6

LEMMA BootTypes ==
  ASSUME NEW todo \in SUBSET Stage
  PROVE  BootFrom(todo) \in Boot /\ BootFrom(todo).at \in {"check", "up"}
<1>1. AnyStage \in Stage
  BY BlankTypes
<1>2. CASE todo = {}
  BY <1>1, <1>2 DEF BootFrom, Boot
<1>3. CASE todo # {}
  <2>1. (CHOOSE s \in todo : TRUE) \in Stage
    BY <1>3
  <2> QED
    BY <1>3, <2>1 DEF BootFrom, Boot
<1> QED
  BY <1>2, <1>3

LEMMA ActiveTypes ==
  ASSUME RInv, NEW s \in Stage
  PROVE  Active(s) \in Rows /\ Sound(Active(s))
<1>1. NoRow \in VariantRow /\ NoRow.status = "none"
  BY BlankTypes DEF NoRow
<1>2. variants[s] \in Rows /\ Sound(variants[s])
  BY DEF RInv, TypeOK, Tables
<1> QED
  BY <1>1, <1>2 DEF Active, Rows, Sound

-----------------------------------------------------------------------------
(* Steps. *)

LEMMA RowsStaySound ==
  ASSUME Grows, NEW rows, Sound(rows)
  PROVE  Sound(rows)'
<1>1. ASSUME NEW l \in AnyLabel, rows[l].status # "none" PROVE Kept(rows[l].prompt)'
  <2>1. Kept(rows[l].prompt)
    BY <1>1 DEF Sound
  <2>2. rows[l].prompt \in Prompt
    BY <2>1 DEF Kept
  <2> QED
    BY <2>1, <2>2 DEF Grows
<1> QED
  BY <1>1 DEF Sound

LEMMA StaysFit ==
  ASSUME Grows, NEW x, NEW l \in Locals, Fits(x, l)
  PROVE  Fits(x, l)'
<1>1. \A p : Kept(p) => Kept(p)'
  BY DEF Grows, Kept
<1>2. \A k : Named(l.stage, k) => Named(l.stage, k)'
  <2>1. l.stage \in Stage
    BY DEF Locals
  <2> QED
    BY <2>1 DEF Grows, Named
<1>3. x \in {"load", "store"} => Sound(l.rows)'
  BY RowsStaySound DEF Fits
<1> QED
  BY <1>1, <1>2, <1>3 DEF Fits

\* A step of a thread while nothing is taken back: it leaves the others fit.
LEMMA ThreadStep ==
  ASSUME RInv, NEW t \in Thread, NEW x \in Place, NEW l \in Locals,
         boot.at = "up", Go(t, x, l), UNCHANGED boot, Grows, Fits(x, l)',
         prompts' \in [Prompt -> PromptRow], variants' \in [Stage -> Rows],
         routing' \in [Stage -> RoutingEntry], contents' \in [Prompt -> Content],
         clock' \in Nat, started' \in 0..MaxRequests,
         \A s \in Stage : Sound(variants[s])', \A s \in Stage : Sound(routing[s].rows)'
  PROVE  RInv'
<1>1. pc \in [Thread -> Place] /\ loc \in [Thread -> Locals] /\ boot \in Boot
  BY DEF RInv, TypeOK, Place
<1>2. pc' \in [Thread -> Place] /\ loc' \in [Thread -> Locals]
  BY <1>1 DEF Go
<1>3. TypeOK'
  BY <1>1, <1>2 DEF TypeOK, Place
<1>4. ASSUME NEW u \in Thread PROVE Fits(pc[u], loc[u])'
  <2>1. CASE u = t
    <3>1. pc'[u] = x /\ loc'[u] = l
      BY <1>1, <2>1 DEF Go
    <3> QED
      BY <3>1 DEF Fits, Sound, Kept, Named
  <2>2. CASE u # t
    <3>1. pc'[u] = pc[u] /\ loc'[u] = loc[u]
      BY <1>1, <2>2 DEF Go
    <3>2. loc[u] \in Locals /\ Fits(pc[u], loc[u])
      BY <1>1 DEF RInv
    <3>3. PICK y, k : y = pc[u] /\ k = loc[u]
      OBVIOUS
    <3>4. Fits(y, k)
      BY <3>2, <3>3
    <3>5. Fits(y, k)'
      BY <3>2, <3>3, <3>4, StaysFit
    <3>6. pc'[u] = y /\ loc'[u] = k
      BY <3>1, <3>3
    <3> QED
      BY <3>5, <3>6 DEF Fits, Sound, Kept, Named
  <2> QED
    BY <2>1, <2>2
<1>5. Starting'
  BY DEF Starting
<1>6. Tables'
  BY DEF Tables
<1> QED
  BY <1>3, <1>4, <1>5, <1>6 DEF RInv

\* Likewise, of one that leaves the tables and the caches alone.
LEMMA QuietStep ==
  ASSUME RInv, NEW t \in Thread, NEW x \in Place, NEW l \in Locals,
         boot.at = "up", Go(t, x, l), UNCHANGED <<tables, caches, boot>>, Fits(x, l),
         clock' \in Nat, started' \in 0..MaxRequests
  PROVE  RInv'
<1>1. Grows
  BY DEF Grows, Kept, Named, tables
<1>2. Fits(x, l)'
  BY <1>1, StaysFit
<1>3. /\ prompts' \in [Prompt -> PromptRow] /\ variants' \in [Stage -> Rows]
      /\ routing' \in [Stage -> RoutingEntry] /\ contents' \in [Prompt -> Content]
  BY DEF RInv, TypeOK, tables, caches
<1>4. \A s \in Stage : Sound(variants[s])'
  BY DEF RInv, Tables, Sound, Kept, tables
<1>5. \A s \in Stage : Sound(routing[s].rows)'
  BY DEF RInv, Tables, Sound, Kept, tables, caches
<1> QED
  BY <1>1, <1>2, <1>3, <1>4, <1>5, ThreadStep DEF caches

\* A thread that is somewhere works on a process that has started.
LEMMA Works ==
  ASSUME RInv, NEW t \in Thread, pc[t] # "idle"
  PROVE  /\ boot.at = "up" /\ loc[t] \in Locals /\ Fits(pc[t], loc[t])
         /\ clock \in Nat /\ started \in 0..MaxRequests
         /\ variants \in [Stage -> Rows] /\ prompts \in [Prompt -> PromptRow]
BY DEF RInv, TypeOK, Starting

LEMMA Begins ==
  ASSUME RInv, NEW t \in Thread, Request(t)
  PROVE  /\ boot.at = "up" /\ clock \in Nat /\ started' \in 0..MaxRequests
         /\ variants \in [Stage -> Rows] /\ prompts \in [Prompt -> PromptRow]
<1>1. started \in Nat /\ started < MaxRequests /\ MaxRequests \in Nat
  BY MaxRequestsAssumption DEF RInv, TypeOK, Request
<1> QED
  BY <1>1 DEF RInv, TypeOK, Request, Ready

\* A request that ends leaves nothing behind.
LEMMA BlankFits == Fits("idle", Blank) /\ "idle" \in Place /\ Blank \in Locals
BY BlankTypes DEF Fits, Place

-----------------------------------------------------------------------------
(* Requests on prompts. *)

LEMMA CertifiedTypes ==
  ASSUME prompts \in [Prompt -> PromptRow], NEW target, NEW prev
  PROVE  /\ Certified(target, prev) \in [Prompt -> PromptRow]
         /\ \A p \in Prompt : Kept(p) =>
              Certified(target, prev)[p].status \in {"certified", "deprecated"}
         /\ target \in Prompt => Certified(target, prev)[target].status = "certified"
<1> DEFINE old == [p \in Prompt |-> IF p = prev THEN [prompts[p] EXCEPT !.status = "deprecated"]
                                    ELSE prompts[p]]
<1>1. Certified(target, prev) = [old EXCEPT ![target].status = "certified"]
  BY DEF Certified
<1>2. old \in [Prompt -> PromptRow]
  BY DEF PromptRow, PromptStatus
<1>3. \A p \in Prompt : Kept(p) => old[p].status \in {"certified", "deprecated"}
  BY DEF PromptRow, Kept
<1> HIDE DEF old
<1>4. Certified(target, prev) \in [Prompt -> PromptRow]
  BY <1>1, <1>2 DEF PromptRow, PromptStatus
<1> QED
  BY <1>1, <1>2, <1>3, <1>4 DEF PromptRow

\* A step that changes the prompts and forgets none.
LEMMA PromptStep ==
  ASSUME RInv, NEW t \in Thread, pc[t] # "idle", End(t),
         prompts' \in [Prompt -> PromptRow],
         \A p \in Prompt : Kept(p) => Kept(p)',
         UNCHANGED <<variants, caches, boot, clock, started>>
  PROVE  RInv'
<1>1. Grows
  BY DEF Grows, Named
<1>2. boot.at = "up" /\ clock \in Nat /\ started \in 0..MaxRequests
  BY Works
<1>3. Fits("idle", Blank)'
  BY DEF Fits
<1>4. /\ variants' \in [Stage -> Rows]
      /\ routing' \in [Stage -> RoutingEntry] /\ contents' \in [Prompt -> Content]
  BY DEF RInv, TypeOK, caches
<1>5. \A s \in Stage : Sound(variants[s])' /\ Sound(routing[s].rows)'
  <2>1. ASSUME NEW s \in Stage PROVE Sound(variants[s])' /\ Sound(routing[s].rows)'
    <3>1. PICK r, q : r = variants[s] /\ q = routing[s].rows
      OBVIOUS
    <3>2. Sound(r)' /\ Sound(q)'
      BY <1>1, <3>1, RowsStaySound DEF RInv, Tables
    <3>3. variants'[s] = r /\ routing'[s].rows = q
      BY <3>1 DEF caches
    <3> QED
      BY <3>2, <3>3 DEF Sound, Kept
  <2> QED
    BY <2>1
<1>6. Go(t, "idle", Blank)
  BY DEF End
<1> QED
  BY <1>1, <1>2, <1>3, <1>4, <1>5, <1>6, BlankFits, ThreadStep

LEMMA PromptRequestKeeps ==
  ASSUME RInv, NEW t \in Thread, PromptRequest(t)
  PROVE  RInv'
<1>1. CASE CreateRead(t)
  <2>1. PICK p \in Prompt, s \in Stage :
          /\ Request(t)
          /\ Go(t, "insert", [Blank EXCEPT !.prompt = p, !.stage = s])
          /\ UNCHANGED <<tables, caches, boot, clock>>
    BY <1>1 DEF CreateRead
  <2> DEFINE l == [Blank EXCEPT !.prompt = p, !.stage = s]
  <2>2. l \in Locals /\ l.prompt = p
    BY BlankTypes DEF Locals
  <2>3. "insert" \in Place
    BY DEF Place, Operation
  <2> HIDE DEF l
  <2>4. Fits("insert", l)
    BY <2>2 DEF Fits
  <2> QED
    BY <2>1, <2>2, <2>3, <2>4, Begins, QuietStep DEF l
<1>2. CASE CreateInsert(t)
  <2>1. pc[t] # "idle" /\ loc[t].prompt \in Prompt /\ loc[t].stage \in Stage
    BY <1>2, Works DEF CreateInsert, Fits, Locals
  <2>2. prompts \in [Prompt -> PromptRow]
    BY <2>1, Works
  <2>3. prompts' \in [Prompt -> PromptRow]
    BY <1>2, <2>1, <2>2 DEF CreateInsert, PromptRow, PromptStatus
  <2>4. \A p \in Prompt : Kept(p) => Kept(p)'
    BY <1>2, <2>1, <2>2 DEF CreateInsert, Kept, PromptRow
  <2>5. End(t) /\ UNCHANGED <<variants, caches, boot, clock, started>>
    BY <1>2 DEF CreateInsert
  <2> QED
    BY <2>1, <2>3, <2>4, <2>5, PromptStep
<1>3. CASE CertifyRead(t)
  <2>1. PICK p \in Prompt :
          /\ Request(t)
          /\ Go(t, "certifyPrev", [Blank EXCEPT !.prompt = p, !.stage = prompts[p].stage])
          /\ UNCHANGED <<tables, caches, boot, clock>>
    BY <1>3 DEF CertifyRead
  <2> DEFINE l == [Blank EXCEPT !.prompt = p, !.stage = prompts[p].stage]
  <2>2. prompts[p].stage \in Stage
    BY <2>1, Begins DEF PromptRow
  <2>3. l \in Locals /\ l.prompt = p
    BY <2>2, BlankTypes DEF Locals
  <2>4. "certifyPrev" \in Place
    BY DEF Place, Operation
  <2> HIDE DEF l
  <2>5. Fits("certifyPrev", l)
    BY <2>3 DEF Fits
  <2> QED
    BY <2>1, <2>3, <2>4, <2>5, Begins, QuietStep DEF l
<1>4. CASE CertifyPrev(t)
  <2>1. PICK p \in FirstOf(CertifiedIn(loc[t].stage), NoPrompt) :
          Go(t, "certify", [loc[t] EXCEPT !.prev = p])
    BY <1>4 DEF CertifyPrev
  <2> DEFINE l == [loc[t] EXCEPT !.prev = p]
  <2>2. pc[t] = "certifyPrev" /\ UNCHANGED <<tables, caches, boot, clock, started>>
    BY <1>4 DEF CertifyPrev
  <2>3. p \in Prompt \cup {NoPrompt}
    BY <2>1 DEF FirstOf, CertifiedIn
  <2>4. loc[t] \in Locals /\ loc[t].prompt \in Prompt
    BY <2>2, Works DEF Fits
  <2>5. l \in Locals /\ l.prompt \in Prompt
    BY <2>3, <2>4 DEF Locals
  <2>6. "certify" \in Place
    BY DEF Place, Operation
  <2> HIDE DEF l
  <2>7. Fits("certify", l)
    BY <2>5 DEF Fits
  <2> QED
    BY <2>1, <2>2, <2>5, <2>6, <2>7, Works, QuietStep DEF l
<1>5. CASE CertifyCommit(t)
  <2>1. pc[t] # "idle" /\ prompts \in [Prompt -> PromptRow]
    BY <1>5, Works DEF CertifyCommit
  <2>2. prompts' = Certified(loc[t].prompt, loc[t].prev)
    BY <1>5 DEF CertifyCommit
  <2>3. prompts' \in [Prompt -> PromptRow] /\ \A p \in Prompt : Kept(p) => Kept(p)'
    BY <2>1, <2>2, CertifiedTypes DEF Kept
  <2>4. End(t) /\ UNCHANGED <<variants, caches, boot, clock, started>>
    BY <1>5 DEF CertifyCommit
  <2> QED
    BY <2>1, <2>3, <2>4, PromptStep
<1>6. CASE DeprecateRead(t)
  <2>1. PICK p \in Prompt :
          /\ Request(t)
          /\ Go(t, "deprecate", [Blank EXCEPT !.prompt = p, !.status = prompts[p].status])
          /\ UNCHANGED <<tables, caches, boot, clock>>
    BY <1>6 DEF DeprecateRead
  <2> DEFINE l == [Blank EXCEPT !.prompt = p, !.status = prompts[p].status]
  <2>2. prompts[p].status \in PromptStatus
    BY <2>1, Begins DEF PromptRow
  <2>3. l \in Locals /\ l.prompt = p
    BY <2>2, BlankTypes DEF Locals
  <2>4. "deprecate" \in Place
    BY DEF Place, Operation
  <2> HIDE DEF l
  <2>5. Fits("deprecate", l)
    BY <2>3 DEF Fits
  <2> QED
    BY <2>1, <2>3, <2>4, <2>5, Begins, QuietStep DEF l
<1>7. CASE DeprecateCommit(t)
  <2>1. pc[t] # "idle" /\ prompts \in [Prompt -> PromptRow]
    BY <1>7, Works DEF DeprecateCommit
  <2>2. prompts' \in [Prompt -> PromptRow]
    BY <1>7, <2>1 DEF DeprecateCommit, PromptRow, PromptStatus
  <2>3. \A p \in Prompt : Kept(p) => Kept(p)'
    BY <1>7, <2>1 DEF DeprecateCommit, Kept, PromptRow
  <2>4. End(t) /\ UNCHANGED <<variants, caches, boot, clock, started>>
    BY <1>7 DEF DeprecateCommit
  <2> QED
    BY <2>1, <2>2, <2>3, <2>4, PromptStep
<1> QED
  BY <1>1, <1>2, <1>3, <1>4, <1>5, <1>6, <1>7 DEF PromptRequest

-----------------------------------------------------------------------------
(* Requests on variants. *)

\* What each commit makes of the rows of a stage: no label is given up, and the rows in
\* use keep their prompts.
Follows(old, new) ==
  /\ new \in Rows
  /\ \A k \in AnyLabel : old[k].status # "none" => new[k].status # "none"
  /\ \A k \in AnyLabel : new[k].status # "none" =>
       old[k].status # "none" /\ new[k].prompt = old[k].prompt

LEMMA RowsFollow ==
  ASSUME NEW rows \in Rows, NEW k \in AnyLabel, rows[k].status # "none",
         NEW loaded, NEW pct \in 0..Full, NEW o, o = NoVariant \/ rows[o].status # "none"
  PROVE  /\ Follows(rows, Deprecated(rows, k, loaded))
         /\ Follows(rows, Adjusted(rows, k, loaded, pct))
         /\ Follows(rows, Promoted(rows, k, o))
<1>1. Full \in 0..Full /\ 0 \in 0..Full
  BY FullAssumption
<1>2. Follows(rows, Deprecated(rows, k, loaded))
  BY <1>1 DEF Follows, Deprecated, Rows, VariantRow, VariantStatus
<1>3. Follows(rows, Adjusted(rows, k, loaded, pct))
  BY DEF Follows, Adjusted, Rows, VariantRow, VariantStatus
<1>4. Follows(rows, Promoted(rows, k, o))
  <2> DEFINE old == [l \in AnyLabel |-> IF l = o THEN [rows[l] EXCEPT !.status = "deprecated"]
                                        ELSE rows[l]]
  <2>1. NoVariant \notin AnyLabel
    BY NameAssumption DEF AnyLabel
  <2>2. Follows(rows, old)
    BY <2>1 DEF Follows, Rows, VariantRow, VariantStatus
  <2>3. Promoted(rows, k, o) =
          [old EXCEPT ![k].status = "champion", ![k].pct = Full]
    BY DEF Promoted
  <2> DEFINE row == [old[k] EXCEPT !.status = "champion", !.pct = Full]
  <2>4. Promoted(rows, k, o) = [old EXCEPT ![k] = row]
    BY <2>3
  <2>5. old \in Rows /\ old[k] \in VariantRow /\ old[k].status # "none"
    BY <2>2 DEF Follows, Rows
  <2> HIDE DEF old
  <2>6. row \in VariantRow /\ row.status # "none" /\ row.prompt = old[k].prompt
    BY <1>1, <2>5 DEF VariantRow, VariantStatus
  <2> HIDE DEF row
  <2> QED
    BY <2>2, <2>4, <2>5, <2>6 DEF Follows, Rows
<1> QED
  BY <1>2, <1>3, <1>4

\* A step that changes the rows of one stage.
LEMMA VariantStep ==
  ASSUME RInv, NEW t \in Thread, pc[t] # "idle",
         NEW x \in {"idle", "invalidate"}, NEW l \in Locals, Go(t, x, l),
         NEW s \in Stage, NEW rows \in Rows, variants' = [variants EXCEPT ![s] = rows],
         \A k \in AnyLabel : variants[s][k].status # "none" => rows[k].status # "none",
         Sound(rows), UNCHANGED <<prompts, caches, boot, clock, started>>
  PROVE  RInv'
<1>1. variants \in [Stage -> Rows] /\ boot.at = "up" /\ clock \in Nat
      /\ started \in 0..MaxRequests
  BY Works
<1>2. variants' \in [Stage -> Rows]
  BY <1>1
<1>3. Grows
  <2>1. \A p \in Prompt : Kept(p) => Kept(p)'
    BY DEF Kept
  <2>2. \A r \in Stage, k \in AnyLabel : Named(r, k) => Named(r, k)'
    BY <1>1 DEF Named
  <2> QED
    BY <2>1, <2>2 DEF Grows
<1>4. Fits(x, l)'
  BY DEF Fits
<1>5. /\ prompts' \in [Prompt -> PromptRow] /\ routing' \in [Stage -> RoutingEntry]
      /\ contents' \in [Prompt -> Content]
  BY DEF RInv, TypeOK, caches
<1>6. ASSUME NEW r \in Stage PROVE Sound(variants[r])'
  <2>1. CASE r = s
    <3>1. variants'[r] = rows
      BY <1>1, <2>1
    <3> QED
      BY <3>1 DEF Sound, Kept
  <2>2. CASE r # s
    <3>1. variants'[r] = variants[r] /\ Sound(variants[r])
      BY <1>1, <2>2 DEF RInv, Tables
    <3> QED
      BY <3>1 DEF Sound, Kept
  <2> QED
    BY <2>1, <2>2
<1>7. \A r \in Stage : Sound(routing[r].rows)'
  BY DEF RInv, Tables, Sound, Kept, caches
<1>8. x \in Place
  BY DEF Place, Operation
<1> QED
  BY <1>1, <1>2, <1>3, <1>4, <1>5, <1>6, <1>7, <1>8, ThreadStep

\* Likewise, of a commit that changes rows that are there.
LEMMA FollowStep ==
  ASSUME RInv, NEW t \in Thread, pc[t] # "idle",
         NEW s \in Stage, NEW rows, variants' = [variants EXCEPT ![s] = rows],
         Follows(variants[s], rows),
         Go(t, "invalidate", loc[t]), UNCHANGED <<prompts, caches, boot, clock, started>>
  PROVE  RInv'
<1>1. PICK l : l = loc[t]
  OBVIOUS
<1>2. l \in Locals /\ Go(t, "invalidate", l)
  BY <1>1, Works
<1>3. Sound(rows)
  BY DEF Follows, Sound, RInv, Tables
<1> QED
  BY <1>2, <1>3, VariantStep DEF Follows

LEMMA VariantReadsKeep ==
  ASSUME RInv, NEW t \in Thread,
         StartRead(t) \/ AdjustRead(t) \/ PromoteRead(t) \/ RetireRead(t)
  PROVE  RInv'
<1>0. \A pct \in 0..(Full - 1) : pct \in 0..Full
  BY FullAssumption
<1>1. CASE StartRead(t)
  <2>1. PICK s \in Stage, p \in Prompt, k \in Label, pct \in 1..(Full - 1) :
          /\ Request(t)
          /\ prompts[p].status = "certified"
          /\ Go(t, "startLabel", [Blank EXCEPT !.stage = s, !.prompt = p, !.label = k,
                                               !.pct = pct, !.stamp = clock])
          /\ clock' = clock + 1
          /\ UNCHANGED <<tables, caches, boot>>
    BY <1>1 DEF StartRead
  <2> DEFINE l == [Blank EXCEPT !.stage = s, !.prompt = p, !.label = k,
                                !.pct = pct, !.stamp = clock]
  <2>2. clock \in Nat /\ clock' \in Nat /\ started' \in 0..MaxRequests /\ boot.at = "up"
    BY <2>1, Begins
  <2>3. pct \in 0..Full
    BY FullAssumption
  <2>4. l \in Locals /\ l.prompt = p /\ l.label = k
    BY <2>2, <2>3, BlankTypes DEF Locals, AnyLabel
  <2>5. "startLabel" \in Place /\ k \in AnyLabel
    BY DEF Place, Operation, AnyLabel
  <2> HIDE DEF l
  <2>6. Fits("startLabel", l)
    BY <2>1, <2>4, <2>5 DEF Fits, Kept
  <2> QED
    BY <2>1, <2>2, <2>4, <2>5, <2>6, QuietStep DEF l
<1>2. CASE AdjustRead(t)
  <2>1. PICK s \in Stage, k \in AnyLabel, pct \in 0..(Full - 1) :
          /\ Request(t)
          /\ variants[s][k].status = "candidate"
          /\ Go(t, "adjustTotal", [Blank EXCEPT !.stage = s, !.label = k, !.pct = pct,
                                                !.row = variants[s][k]])
          /\ UNCHANGED <<tables, caches, boot, clock>>
    BY <1>2 DEF AdjustRead
  <2> DEFINE l == [Blank EXCEPT !.stage = s, !.label = k, !.pct = pct,
                                !.row = variants[s][k]]
  <2>2. clock \in Nat /\ started' \in 0..MaxRequests /\ boot.at = "up"
        /\ variants[s][k] \in VariantRow
    BY <2>1, Begins DEF Rows
  <2>3. l \in Locals /\ l.stage = s /\ l.label = k
    BY <1>0, <2>2, BlankTypes DEF Locals
  <2>4. "adjustTotal" \in Place
    BY DEF Place, Operation
  <2> HIDE DEF l
  <2>5. Fits("adjustTotal", l)
    BY <2>1, <2>3 DEF Fits, Named
  <2> QED
    BY <2>1, <2>2, <2>3, <2>4, <2>5, QuietStep DEF l
<1>3. CASE PromoteRead(t)
  <2>1. PICK s \in Stage, k \in AnyLabel :
          /\ Request(t)
          /\ variants[s][k].status = "candidate"
          /\ Go(t, "promoteOld", [Blank EXCEPT !.stage = s, !.label = k])
          /\ UNCHANGED <<tables, caches, boot, clock>>
    BY <1>3 DEF PromoteRead
  <2> DEFINE l == [Blank EXCEPT !.stage = s, !.label = k]
  <2>2. l \in Locals /\ l.stage = s /\ l.label = k
    BY BlankTypes DEF Locals
  <2>3. "promoteOld" \in Place
    BY DEF Place, Operation
  <2> HIDE DEF l
  <2>4. Fits("promoteOld", l)
    BY <2>1, <2>2 DEF Fits, Named
  <2> QED
    BY <2>1, <2>2, <2>3, <2>4, Begins, QuietStep DEF l
<1>4. CASE RetireRead(t)
  <2>1. PICK s \in Stage, k \in AnyLabel :
          /\ Request(t)
          /\ variants[s][k].status # "none"
          /\ Go(t, "retire", [Blank EXCEPT !.stage = s, !.label = k, !.row = variants[s][k]])
          /\ UNCHANGED <<tables, caches, boot, clock>>
    BY <1>4 DEF RetireRead
  <2> DEFINE l == [Blank EXCEPT !.stage = s, !.label = k, !.row = variants[s][k]]
  <2>2. variants[s][k] \in VariantRow
    BY <2>1, Begins DEF Rows
  <2>3. l \in Locals /\ l.stage = s /\ l.label = k
    BY <2>2, BlankTypes DEF Locals
  <2>4. "retire" \in Place
    BY DEF Place, Operation
  <2> HIDE DEF l
  <2>5. Fits("retire", l)
    BY <2>1, <2>3 DEF Fits, Named
  <2> QED
    BY <2>1, <2>3, <2>4, <2>5, Begins, QuietStep DEF l
<1> QED
  BY <1>1, <1>2, <1>3, <1>4

\* A thread that goes on, or ends, without touching anything.
LEMMA GoesOn ==
  ASSUME RInv, NEW t \in Thread, pc[t] # "idle",
         UNCHANGED <<tables, caches, boot, clock, started>>,
         \/ End(t)
         \/ \E x \in Place : Go(t, x, loc[t]) /\ Fits(x, loc[t])
  PROVE  RInv'
<1>1. loc[t] \in Locals /\ boot.at = "up" /\ clock \in Nat /\ started \in 0..MaxRequests
  BY Works
<1>2. CASE End(t)
  BY <1>1, <1>2, BlankFits, QuietStep DEF End
<1>3. CASE \E x \in Place : Go(t, x, loc[t]) /\ Fits(x, loc[t])
  BY <1>1, <1>3, QuietStep
<1> QED
  BY <1>2, <1>3

LEMMA VariantWritesKeep ==
  ASSUME RInv, NEW t \in Thread, pc[t] # "idle",
         \/ StartLabel(t) \/ StartTotal(t) \/ StartInsert(t) \/ AdjustTotal(t)
         \/ AdjustCommit(t) \/ PromoteOld(t) \/ PromoteCommit(t) \/ RetireCommit(t)
         \/ Invalidate(t)
  PROVE  RInv'
<1>0. /\ boot.at = "up" /\ loc[t] \in Locals /\ Fits(pc[t], loc[t])
      /\ clock \in Nat /\ started \in 0..MaxRequests /\ variants \in [Stage -> Rows]
  BY Works
<1>1. CASE StartLabel(t)
  <2>1. "startTotal" \in Place /\ Fits("startTotal", loc[t])
    BY <1>0, <1>1 DEF StartLabel, Fits, Place, Operation
  <2> QED
    BY <1>1, <2>1, GoesOn DEF StartLabel
<1>2. CASE StartTotal(t)
  <2>1. "startInsert" \in Place /\ Fits("startInsert", loc[t])
    BY <1>0, <1>2 DEF StartTotal, Fits, Place, Operation
  <2> QED
    BY <1>2, <2>1, GoesOn DEF StartTotal
<1>3. CASE StartInsert(t)
  <2>1. PICK l : l = loc[t]
    OBVIOUS
  <2>2. l \in Locals /\ Kept(l.prompt) /\ l.label \in AnyLabel /\ l.stage \in Stage
    BY <1>0, <1>3, <2>1 DEF StartInsert, Fits, Locals
  <2>3. CASE variants[l.stage][l.label].status # "none"
    <3>1. End(t) /\ UNCHANGED <<tables, caches, boot, clock, started>>
      BY <1>3, <2>1, <2>3 DEF StartInsert, tables
    <3> QED
      BY <3>1, GoesOn
  <2>4. CASE variants[l.stage][l.label].status = "none"
    <3> DEFINE new == [status |-> "candidate", prompt |-> l.prompt,
                       pct |-> l.pct, created |-> l.stamp]
    <3>1. PICK rows : rows = [variants[l.stage] EXCEPT ![l.label] = new]
      OBVIOUS
    <3>2. new \in VariantRow
      BY <2>2 DEF VariantRow, VariantStatus, Locals, Kept
    <3>3. variants[l.stage] \in Rows /\ Sound(variants[l.stage])
      BY <1>0, <2>2 DEF RInv, Tables
    <3>4. rows \in Rows
      BY <3>1, <3>2, <3>3 DEF Rows
    <3>5. Sound(rows)
      BY <2>2, <3>1, <3>3 DEF Sound, Rows
    <3>6. \A k \in AnyLabel : variants[l.stage][k].status # "none" => rows[k].status # "none"
      BY <2>2, <3>1, <3>3 DEF Rows
    <3>7. /\ variants' = [variants EXCEPT ![l.stage] = rows]
          /\ Go(t, "invalidate", l) /\ UNCHANGED <<prompts, caches, boot, clock, started>>
      BY <1>3, <2>1, <2>4, <3>1 DEF StartInsert
    <3> QED
      BY <2>2, <3>4, <3>5, <3>6, <3>7, VariantStep
  <2> QED
    BY <2>3, <2>4
<1>4. CASE AdjustTotal(t)
  <2>1. "adjust" \in Place /\ Fits("adjust", loc[t])
    BY <1>0, <1>4 DEF AdjustTotal, Fits, Place, Operation
  <2> QED
    BY <1>4, <2>1, GoesOn DEF AdjustTotal
<1>5. CASE AdjustCommit(t)
  <2> DEFINE l == loc[t]
  <2>1. l.stage \in Stage /\ l.pct \in 0..Full /\ Named(l.stage, l.label)
    BY <1>0, <1>5 DEF AdjustCommit, Fits, Locals
  <2>2. PICK rows : rows = Adjusted(variants[l.stage], l.label, l.row, l.pct)
    OBVIOUS
  <2>3. Follows(variants[l.stage], rows)
    BY <1>0, <2>1, <2>2, RowsFollow DEF Named
  <2>4. /\ variants' = [variants EXCEPT ![l.stage] = rows]
        /\ Go(t, "invalidate", loc[t]) /\ UNCHANGED <<prompts, caches, boot, clock, started>>
    BY <1>0, <1>5, <2>1, <2>2 DEF AdjustCommit
  <2>5. PICK s \in Stage : s = l.stage
    BY <2>1
  <2> HIDE DEF l
  <2> QED
    BY <2>3, <2>4, <2>5, FollowStep
<1>6. CASE PromoteOld(t)
  <2> DEFINE l == loc[t]
  <2>1. PICK o \in FirstOf(Champions(variants[l.stage]), NoVariant) :
          Go(t, "promote", [l EXCEPT !.old = o])
    BY <1>6 DEF PromoteOld
  <2>2. l.stage \in Stage /\ Named(l.stage, l.label)
    BY <1>0, <1>6 DEF PromoteOld, Fits, Locals
  <2>3. o = NoVariant \/ Named(l.stage, o)
    BY <1>0, <2>1, <2>2 DEF FirstOf, Champions, Named, Rows
  <2> DEFINE k == [l EXCEPT !.old = o]
  <2>4. k \in Locals /\ k.stage = l.stage /\ k.label = l.label /\ k.old = o
    BY <1>0, <2>3 DEF Locals, Named
  <2>5. "promote" \in Place
    BY DEF Place, Operation
  <2>6. UNCHANGED <<tables, caches, boot, clock, started>>
    BY <1>6 DEF PromoteOld
  <2> HIDE DEF k
  <2>7. Fits("promote", k)
    BY <2>2, <2>3, <2>4 DEF Fits
  <2> QED
    BY <1>0, <2>1, <2>4, <2>5, <2>6, <2>7, QuietStep DEF k
<1>7. CASE PromoteCommit(t)
  <2> DEFINE l == loc[t]
  <2>1. l.stage \in Stage /\ Named(l.stage, l.label)
        /\ (l.old = NoVariant \/ Named(l.stage, l.old))
    BY <1>0, <1>7 DEF PromoteCommit, Fits, Locals
  <2>2. PICK rows : rows = Promoted(variants[l.stage], l.label, l.old)
    OBVIOUS
  <2>3. 0 \in 0..Full
    BY FullAssumption
  <2>4. Follows(variants[l.stage], rows)
    BY <1>0, <2>1, <2>2, <2>3, RowsFollow DEF Named
  <2>5. /\ variants' = [variants EXCEPT ![l.stage] = rows]
        /\ Go(t, "invalidate", loc[t]) /\ UNCHANGED <<prompts, caches, boot, clock, started>>
    BY <1>0, <1>7, <2>1, <2>2 DEF PromoteCommit
  <2>6. PICK s \in Stage : s = l.stage
    BY <2>1
  <2> HIDE DEF l
  <2> QED
    BY <2>4, <2>5, <2>6, FollowStep
<1>8. CASE RetireCommit(t)
  <2> DEFINE l == loc[t]
  <2>1. l.stage \in Stage /\ Named(l.stage, l.label)
    BY <1>0, <1>8 DEF RetireCommit, Fits, Locals
  <2>2. PICK rows : rows = Deprecated(variants[l.stage], l.label, l.row)
    OBVIOUS
  <2>3. 0 \in 0..Full
    BY FullAssumption
  <2>4. Follows(variants[l.stage], rows)
    BY <1>0, <2>1, <2>2, <2>3, RowsFollow DEF Named
  <2>5. /\ variants' = [variants EXCEPT ![l.stage] = rows]
        /\ Go(t, "invalidate", loc[t]) /\ UNCHANGED <<prompts, caches, boot, clock, started>>
    BY <1>0, <1>8, <2>1, <2>2 DEF RetireCommit
  <2>6. PICK s \in Stage : s = l.stage
    BY <2>1
  <2> HIDE DEF l
  <2> QED
    BY <2>4, <2>5, <2>6, FollowStep
<1>9. CASE Invalidate(t)
  <2>1. /\ routing' = [s \in Stage |-> NotCached] /\ Go(t, "idle", Blank)
        /\ UNCHANGED <<tables, contents, boot, clock, started>>
    BY <1>9 DEF Invalidate, End
  <2>2. Grows
    BY <2>1 DEF Grows, Kept, Named, tables
  <2>3. \A s \in Stage : Sound(routing[s].rows)'
    BY <2>1 DEF Sound, NotCached, NoRows, NoRow
  <2>4. \A s \in Stage : Sound(variants[s])'
    BY <2>1 DEF RInv, Tables, Sound, Kept, tables
  <2>5. /\ prompts' \in [Prompt -> PromptRow] /\ variants' \in [Stage -> Rows]
        /\ routing' \in [Stage -> RoutingEntry] /\ contents' \in [Prompt -> Content]
    BY <2>1, BlankTypes DEF RInv, TypeOK, tables
  <2>6. Fits("idle", Blank)'
    BY DEF Fits
  <2> QED
    BY <1>0, <2>1, <2>2, <2>3, <2>4, <2>5, <2>6, BlankFits, ThreadStep
<1> QED
  BY <1>1, <1>2, <1>3, <1>4, <1>5, <1>6, <1>7, <1>8, <1>9

LEMMA VariantRequestKeeps ==
  ASSUME RInv, NEW t \in Thread, VariantRequest(t)
  PROVE  RInv'
<1>1. \/ StartRead(t) \/ AdjustRead(t) \/ PromoteRead(t) \/ RetireRead(t)
      \/ StartLabel(t) \/ StartTotal(t) \/ StartInsert(t) \/ AdjustTotal(t)
      \/ AdjustCommit(t) \/ PromoteOld(t) \/ PromoteCommit(t) \/ RetireCommit(t)
      \/ Invalidate(t)
  BY DEF VariantRequest
<1>2. CASE StartRead(t) \/ AdjustRead(t) \/ PromoteRead(t) \/ RetireRead(t)
  BY <1>2, VariantReadsKeep
<1>3. CASE \/ StartLabel(t) \/ StartTotal(t) \/ StartInsert(t) \/ AdjustTotal(t)
           \/ AdjustCommit(t) \/ PromoteOld(t) \/ PromoteCommit(t) \/ RetireCommit(t)
           \/ Invalidate(t)
  <2>1. pc[t] # "idle"
    BY <1>3 DEF StartLabel, StartTotal, StartInsert, AdjustTotal, AdjustCommit, PromoteOld,
                PromoteCommit, RetireCommit, Invalidate
  <2> QED
    BY <1>3, <2>1, VariantWritesKeep
<1> QED
  BY <1>1, <1>2, <1>3

-----------------------------------------------------------------------------
(* Serving. *)

\* Whatever a session is routed to has a prompt that was certified.
LEMMA SelectFits ==
  ASSUME RInv, NEW t \in Thread, NEW l \in Locals, Sound(l.rows), Select(t, l)
  PROVE  \E x \in Place, k \in Locals : Go(t, x, k) /\ Fits(x, k)
<1> DEFINE v == Route(l.rows, l.bucket)
<1>1. l.rows \in Rows
  BY DEF Locals
<1>2. CASE v = NoVariant
  <2>1. Go(t, "certified", l)
    BY <1>2 DEF Select
  <2>2. Fits("certified", l) /\ "certified" \in Place
    BY DEF Fits, Place, Serving
  <2> QED
    BY <2>1, <2>2
<1>3. CASE v # NoVariant
  <2>1. v \in AnyLabel /\ l.rows[v].status # "none"
    BY <1>1, <1>3, RouteIsNamed
  <2>2. Kept(l.rows[v].prompt) /\ l.rows[v].prompt \in Prompt
    BY <2>1 DEF Sound, Kept
  <2> DEFINE k == [l EXCEPT !.label = v, !.prompt = l.rows[v].prompt]
  <2>3. Go(t, "content", k)
    BY <1>3 DEF Select
  <2> HIDE DEF v
  <2>4. k \in Locals /\ k.prompt = l.rows[v].prompt
    BY <2>1, <2>2 DEF Locals
  <2> HIDE DEF k
  <2>5. Fits("content", k) /\ "content" \in Place
    BY <2>2, <2>4 DEF Fits, Place, Serving
  <2> QED
    BY <2>3, <2>4, <2>5
<1> QED
  BY <1>2, <1>3

\* A serving step that changes a cache only.
LEMMA CacheStep ==
  ASSUME RInv, NEW t \in Thread, boot.at = "up", NEW x \in Place, NEW k \in Locals,
         Go(t, x, k), Fits(x, k), UNCHANGED <<tables, boot, clock, started>>,
         routing' \in [Stage -> RoutingEntry], contents' \in [Prompt -> Content],
         \A s \in Stage : Sound(routing'[s].rows)
  PROVE  RInv'
<1>1. Grows
  BY DEF Grows, Kept, Named, tables
<1>2. Fits(x, k)'
  BY <1>1, StaysFit
<1>3. /\ prompts' \in [Prompt -> PromptRow] /\ variants' \in [Stage -> Rows]
      /\ clock' \in Nat /\ started' \in 0..MaxRequests
  BY DEF RInv, TypeOK, tables
<1>4. \A s \in Stage : Sound(variants[s])'
  BY DEF RInv, Tables, Sound, Kept, tables
<1>5. \A s \in Stage : Sound(routing[s].rows)'
  BY DEF Sound, Kept, tables
<1>6. UNCHANGED boot
  OBVIOUS
<1> QED
  BY <1>1, <1>2, <1>3, <1>4, <1>5, <1>6, ThreadStep

LEMMA FetchedTypes ==
  ASSUME contents \in [Prompt -> Content], NEW p, NEW c \in Content, Fetched(p, c)
  PROVE  contents' \in [Prompt -> Content]
BY DEF Fetched

LEMMA ServeReadsKeep ==
  ASSUME RInv, NEW t \in Thread,
         ServeLookup(t) \/ ServeLoad(t) \/ ServeContent(t) \/ ServeCertified(t) \/ ServeAnswer(t)
  PROVE  RInv'
<1>1. CASE ServeLookup(t)
  <2>1. PICK s \in Stage, b \in Bucket :
          /\ Ready(t)
          /\ IF routing[s].known
             THEN Select(t, [[Blank EXCEPT !.stage = s, !.bucket = b]
                               EXCEPT !.rows = routing[s].rows])
             ELSE Go(t, "load", [Blank EXCEPT !.stage = s, !.bucket = b])
          /\ UNCHANGED <<tables, caches, boot, clock, started>>
    BY <1>1 DEF ServeLookup
  <2> DEFINE l == [Blank EXCEPT !.stage = s, !.bucket = b]
             k == [l EXCEPT !.rows = routing[s].rows]
  <2>2. boot.at = "up" /\ clock \in Nat /\ started \in 0..MaxRequests
    BY <2>1 DEF RInv, TypeOK, Ready
  <2>3. l \in Locals
    BY BlankTypes DEF Locals
  <2> HIDE DEF l
  <2>4. routing[s].rows \in Rows /\ Sound(routing[s].rows)
    BY DEF RInv, TypeOK, Tables, RoutingEntry
  <2>5. k \in Locals /\ k.rows = routing[s].rows
    BY <2>3, <2>4 DEF Locals
  <2> HIDE DEF k
  <2>6. CASE routing[s].known
    <3>1. Select(t, k)
      BY <2>1, <2>6 DEF k, l
    <3>2. PICK x \in Place, m \in Locals : Go(t, x, m) /\ Fits(x, m)
      BY <2>4, <2>5, <3>1, SelectFits
    <3> QED
      BY <2>1, <2>2, <3>2, QuietStep
  <2>7. CASE ~routing[s].known
    <3>1. Go(t, "load", l)
      BY <2>1, <2>7 DEF l
    <3>2. l.rows = NoRows
      BY BlankTypes DEF l, Blank
    <3>3. Fits("load", l) /\ "load" \in Place
      BY <3>2 DEF Fits, Place, Serving, Sound, NoRows, NoRow
    <3> QED
      BY <2>1, <2>2, <2>3, <3>1, <3>3, QuietStep
  <2> QED
    BY <2>6, <2>7
<1>2. CASE ServeLoad(t)
  <2>1. /\ boot.at = "up" /\ loc[t] \in Locals /\ loc[t].stage \in Stage
        /\ clock \in Nat /\ started \in 0..MaxRequests
    BY <1>2, Works DEF ServeLoad, Locals
  <2>2. "store" \in Place /\ UNCHANGED <<tables, caches, boot, clock, started>>
    BY <1>2 DEF ServeLoad, Place, Serving
  <2>3. CASE Go(t, "store", [loc[t] EXCEPT !.rows = Active(loc[t].stage)])
    <3> DEFINE k == [loc[t] EXCEPT !.rows = Active(loc[t].stage)]
    <3>1. Active(loc[t].stage) \in Rows /\ Sound(Active(loc[t].stage))
      BY <2>1, ActiveTypes
    <3>2. k \in Locals /\ k.rows = Active(loc[t].stage)
      BY <2>1, <3>1 DEF Locals
    <3> HIDE DEF k
    <3>3. Fits("store", k)
      BY <3>1, <3>2 DEF Fits
    <3> QED
      BY <2>1, <2>2, <2>3, <3>2, <3>3, QuietStep DEF k
  <2>4. CASE Go(t, "store", [loc[t] EXCEPT !.fault = TRUE])
    <3> DEFINE k == [loc[t] EXCEPT !.fault = TRUE]
    <3>0. pc[t] = "load"
      BY <1>2 DEF ServeLoad
    <3>1. k \in Locals /\ k.rows = loc[t].rows
      BY <2>1 DEF Locals
    <3>2. Sound(loc[t].rows)
      BY <3>0 DEF RInv, Fits
    <3> HIDE DEF k
    <3>3. Fits("store", k)
      BY <3>1, <3>2 DEF Fits
    <3> QED
      BY <2>1, <2>2, <2>4, <3>1, <3>3, QuietStep DEF k
  <2> QED
    BY <1>2, <2>3, <2>4 DEF ServeLoad
<1>3. CASE ServeContent(t)
  <2>1. pc[t] = "content" /\ UNCHANGED <<tables, caches, boot, clock, started>>
    BY <1>3 DEF ServeContent
  <2>2. Kept(loc[t].prompt) /\ contents[loc[t].prompt] \in Content
    BY <2>1, Works DEF Fits, Kept, RInv, TypeOK
  <2>3. \E x \in {"fetch", "certified", "answer"} : Go(t, x, loc[t])
    BY <1>3, <2>2 DEF ServeContent, Content
  <2>4. \A x \in {"fetch", "certified", "answer"} : x \in Place /\ Fits(x, loc[t])
    BY <2>2 DEF Fits, Place, Serving
  <2> QED
    BY <2>1, <2>3, <2>4, GoesOn
<1>4. CASE ServeCertified(t)
  <2> DEFINE l == [loc[t] EXCEPT !.label = NoVariant]
  <2>1. /\ boot.at = "up" /\ loc[t] \in Locals /\ clock \in Nat
        /\ started \in 0..MaxRequests
    BY <1>4, Works DEF ServeCertified
  <2>2. l \in Locals
    BY <2>1 DEF Locals
  <2>3. UNCHANGED <<tables, caches, boot, clock, started>>
    BY <1>4 DEF ServeCertified
  <2>4. /\ "answer" \in Place /\ "remember" \in Place
    BY DEF Place, Serving
  <2>5. CASE \E p \in FirstOf(CertifiedIn(l.stage), NoPrompt) :
               Go(t, IF p = NoPrompt THEN "answer" ELSE "remember", [l EXCEPT !.prompt = p])
    <3>1. PICK p \in FirstOf(CertifiedIn(l.stage), NoPrompt) :
            Go(t, IF p = NoPrompt THEN "answer" ELSE "remember", [l EXCEPT !.prompt = p])
      BY <2>5
    <3> HIDE DEF l
    <3>2. p = NoPrompt \/ Kept(p)
      BY <3>1 DEF FirstOf, CertifiedIn, Kept
    <3> DEFINE k == [l EXCEPT !.prompt = p]
               x == IF p = NoPrompt THEN "answer" ELSE "remember"
    <3>3. k \in Locals /\ k.prompt = p
      BY <2>2, <3>2 DEF Locals, Kept
    <3> HIDE DEF k
    <3>4. Fits(x, k) /\ x \in Place
      BY <2>4, <3>2, <3>3 DEF Fits
    <3>5. Go(t, x, k)
      BY <3>1 DEF k
    <3> HIDE DEF x
    <3> QED
      BY <2>1, <2>3, <3>3, <3>4, <3>5, QuietStep
  <2>6. CASE Go(t, "answer", [l EXCEPT !.prompt = NoPrompt, !.fault = TRUE])
    <3> HIDE DEF l
    <3> DEFINE k == [l EXCEPT !.prompt = NoPrompt, !.fault = TRUE]
    <3>1. k \in Locals /\ k.prompt = NoPrompt
      BY <2>2 DEF Locals
    <3> HIDE DEF k
    <3>2. Fits("answer", k)
      BY <3>1 DEF Fits
    <3> QED
      BY <2>1, <2>3, <2>4, <2>6, <3>1, <3>2, QuietStep DEF k
  <2> QED
    BY <1>4, <2>5, <2>6 DEF ServeCertified
<1>5. CASE ServeAnswer(t)
  <2>1. pc[t] # "idle" /\ End(t) /\ UNCHANGED <<tables, caches, boot, clock, started>>
    BY <1>5 DEF ServeAnswer
  <2> QED
    BY <2>1, GoesOn
<1> QED
  BY <1>1, <1>2, <1>3, <1>4, <1>5

LEMMA ServeWritesKeep ==
  ASSUME RInv, NEW t \in Thread, ServeStore(t) \/ ServeFetch(t) \/ ServeRemember(t)
  PROVE  RInv'
<1>0. /\ boot.at = "up" /\ loc[t] \in Locals /\ Fits(pc[t], loc[t])
  BY Works DEF ServeStore, ServeFetch, ServeRemember
<1>1. /\ routing \in [Stage -> RoutingEntry] /\ contents \in [Prompt -> Content]
      /\ \A s \in Stage : Sound(routing[s].rows)
  BY DEF RInv, TypeOK, Tables
<1>2. CASE ServeStore(t)
  <2>1. PICK l : l = loc[t]
    OBVIOUS
  <2>2. /\ l \in Locals /\ Sound(l.rows) /\ l.rows \in Rows /\ l.stage \in Stage
    BY <1>0, <1>2, <2>1 DEF ServeStore, Fits, Locals
  <2>3. /\ Select(t, l) /\ UNCHANGED <<tables, contents, boot, clock, started>>
        /\ routing' = IF routing[l.stage].known THEN routing
                      ELSE [routing EXCEPT ![l.stage] = [known |-> TRUE, rows |-> l.rows]]
    BY <1>2, <2>1 DEF ServeStore
  <2>4. PICK x \in Place, k \in Locals : Go(t, x, k) /\ Fits(x, k)
    BY <2>2, <2>3, SelectFits
  <2>5. routing' \in [Stage -> RoutingEntry]
    BY <1>1, <2>2, <2>3 DEF RoutingEntry
  <2>6. \A s \in Stage : routing'[s].rows = routing[s].rows \/ routing'[s].rows = l.rows
    BY <1>1, <2>2, <2>3
  <2>7. \A s \in Stage : Sound(routing'[s].rows)
    BY <1>1, <2>2, <2>6 DEF Sound
  <2> QED
    BY <1>0, <1>1, <2>3, <2>4, <2>5, <2>7, CacheStep
<1>3. CASE ServeFetch(t)
  <2>1. pc[t] = "fetch" /\ UNCHANGED <<tables, routing, boot, clock, started>>
    BY <1>3 DEF ServeFetch
  <2>2. Kept(loc[t].prompt)
    BY <1>0, <2>1 DEF Fits
  <2>3. contents' \in [Prompt -> Content]
    BY <1>1, <1>3, FetchedTypes DEF ServeFetch, Content
  <2>4. "answer" \in Place /\ "certified" \in Place
    BY DEF Place, Serving
  <2>5. CASE Go(t, "answer", loc[t])
    <3>1. Fits("answer", loc[t])
      BY <2>2 DEF Fits
    <3>2. PICK k \in Locals : k = loc[t]
      BY <1>0
    <3> QED
      BY <1>0, <1>1, <2>1, <2>3, <2>4, <2>5, <3>1, <3>2, CacheStep
  <2>6. CASE Go(t, "certified", [loc[t] EXCEPT !.fault = TRUE])
    <3>1. PICK k : k = [loc[t] EXCEPT !.fault = TRUE]
      OBVIOUS
    <3>2. k \in Locals
      BY <1>0, <3>1 DEF Locals
    <3>3. Fits("certified", k) /\ Go(t, "certified", k)
      BY <2>6, <3>1 DEF Fits
    <3> QED
      BY <1>0, <1>1, <2>1, <2>3, <2>4, <3>2, <3>3, CacheStep
  <2> QED
    BY <1>3, <2>5, <2>6 DEF ServeFetch
<1>4. CASE ServeRemember(t)
  <2>1. /\ pc[t] = "remember" /\ UNCHANGED <<tables, routing, boot, clock, started>>
        /\ Go(t, "answer", loc[t])
    BY <1>4 DEF ServeRemember
  <2>2. Fits("answer", loc[t]) /\ "answer" \in Place
    BY <1>0, <2>1 DEF Fits, Place, Serving
  <2>3. contents' \in [Prompt -> Content]
    BY <1>1, <1>4, FetchedTypes DEF ServeRemember, Content
  <2>4. PICK k \in Locals : k = loc[t]
    BY <1>0
  <2> QED
    BY <1>0, <1>1, <2>1, <2>2, <2>3, <2>4, CacheStep
<1> QED
  BY <1>2, <1>3, <1>4

-----------------------------------------------------------------------------
(* Start-up. *)

\* No request is under way before it has ended.
LEMMA BootStep ==
  ASSUME RInv, boot.at # "up", boot' \in Boot, UNCHANGED <<pc, loc, started>>,
         prompts' \in [Prompt -> PromptRow], variants' \in [Stage -> Rows],
         routing' \in [Stage -> RoutingEntry], contents' \in [Prompt -> Content],
         clock' \in Nat, Tables',
         boot'.at = "certify" => /\ boot'.record = Seed[boot'.stage]
                                 /\ prompts'[boot'.record].status = "draft",
         boot'.at = "champion" => Kept(boot.record)'
  PROVE  RInv'
<1>1. \A t \in Thread : pc'[t] = "idle"
  BY DEF RInv, Starting
<1>2. TypeOK'
  BY DEF RInv, TypeOK
<1>3. Starting'
  BY <1>1 DEF Starting, Kept
<1>4. \A t \in Thread : Fits(pc[t], loc[t])'
  BY <1>1 DEF Fits
<1> QED
  BY <1>2, <1>3, <1>4 DEF RInv

\* Tables whose rows are left alone stay sound when no prompt is forgotten.
LEMMA TablesStay ==
  ASSUME RInv, \A p \in Prompt : Kept(p) => Kept(p)', UNCHANGED <<variants, routing>>
  PROVE  Tables'
<1>1. Grows
  BY DEF Grows, Named
<1>2. ASSUME NEW s \in Stage PROVE Sound(variants[s])' /\ Sound(routing[s].rows)'
  <2>1. PICK r, q : r = variants[s] /\ q = routing[s].rows
    OBVIOUS
  <2>2. Sound(r)' /\ Sound(q)'
    BY <1>1, <2>1, RowsStaySound DEF RInv, Tables
  <2>3. variants'[s] = r /\ routing'[s].rows = q
    BY <2>1
  <2> QED
    BY <2>2, <2>3 DEF Sound, Kept
<1> QED
  BY <1>2 DEF Tables

LEMMA DoneTypes ==
  ASSUME boot \in Boot, BootDone
  PROVE  boot' \in Boot /\ boot'.at \in {"check", "up"}
<1>1. boot.todo \ {boot.stage} \in SUBSET Stage
  BY DEF Boot
<1> QED
  BY <1>1, BootTypes DEF BootDone

LEMMA SeedCheckKeeps ==
  ASSUME RInv, SeedCheck
  PROVE  RInv'
<1>1. /\ boot.at = "check" /\ boot \in Boot /\ boot.stage \in Stage
      /\ UNCHANGED <<variants, caches, pc, loc, clock, started>>
  BY DEF SeedCheck, RInv, TypeOK, Boot
<1>2. /\ prompts \in [Prompt -> PromptRow] /\ variants' \in [Stage -> Rows]
      /\ routing' \in [Stage -> RoutingEntry] /\ contents' \in [Prompt -> Content]
      /\ clock' \in Nat
  BY <1>1 DEF RInv, TypeOK, caches
<1>3. CASE \E p \in CertifiedIn(boot.stage) :
             boot' = [boot EXCEPT !.at = "champion", !.record = p] /\ UNCHANGED prompts
  <2>1. PICK p \in CertifiedIn(boot.stage) :
          boot' = [boot EXCEPT !.at = "champion", !.record = p] /\ UNCHANGED prompts
    BY <1>3
  <2>2. Kept(p)
    BY <2>1 DEF CertifiedIn, Kept
  <2>3. boot' \in Boot /\ boot'.at = "champion" /\ boot'.record = p
    BY <1>1, <2>1, <2>2 DEF Boot, Kept
  <2>4. Tables'
    BY <1>1, <2>1, TablesStay DEF Kept, caches
  <2>5. Kept(boot.record)'
    BY <2>1, <2>2, <2>3 DEF Kept
  <2>6. prompts' \in [Prompt -> PromptRow]
    BY <1>2, <2>1
  <2> QED
    BY <1>1, <1>2, <2>3, <2>4, <2>5, <2>6, BootStep
<1>4. CASE BootDone /\ UNCHANGED prompts
  <2>1. boot' \in Boot /\ boot'.at \in {"check", "up"}
    BY <1>1, <1>4, DoneTypes
  <2>2. Tables'
    BY <1>1, <1>4, TablesStay DEF Kept, caches
  <2>3. prompts' \in [Prompt -> PromptRow]
    BY <1>2, <1>4
  <2> QED
    BY <1>1, <1>2, <2>1, <2>2, <2>3, BootStep
<1>5. CASE /\ prompts[Seed[boot.stage]].status = "absent"
           /\ prompts' = [prompts EXCEPT ![Seed[boot.stage]] =
                            [status |-> "draft", stage |-> boot.stage]]
           /\ boot' = [boot EXCEPT !.at = "certify", !.record = Seed[boot.stage]]
  <2>1. Seed[boot.stage] \in Prompt
    BY <1>1, SeedAssumption
  <2>2. prompts' \in [Prompt -> PromptRow]
    BY <1>1, <1>2, <1>5 DEF PromptRow, PromptStatus
  <2>3. \A p \in Prompt : Kept(p) => Kept(p)'
    BY <1>2, <1>5 DEF Kept
  <2>4. Tables'
    BY <1>1, <2>3, TablesStay DEF caches
  <2>5. /\ boot' \in Boot /\ boot'.at = "certify" /\ boot'.record = Seed[boot'.stage]
        /\ prompts'[boot'.record].status = "draft"
    BY <1>1, <1>2, <1>5, <2>1 DEF Boot
  <2> QED
    BY <1>1, <1>2, <2>2, <2>4, <2>5, BootStep
<1>6. SeedCreate(boot.stage) =>
        \/ BootDone /\ UNCHANGED prompts
        \/ /\ prompts[Seed[boot.stage]].status = "absent"
           /\ prompts' = [prompts EXCEPT ![Seed[boot.stage]] =
                            [status |-> "draft", stage |-> boot.stage]]
           /\ boot' = [boot EXCEPT !.at = "certify", !.record = Seed[boot.stage]]
  BY DEF SeedCreate
<1> QED
  BY <1>3, <1>4, <1>5, <1>6 DEF SeedCheck

LEMMA SeedCertifyKeeps ==
  ASSUME RInv, SeedCertify
  PROVE  RInv'
<1>1. /\ boot.at = "certify" /\ boot \in Boot /\ boot.record \in Prompt
      /\ UNCHANGED <<variants, caches, pc, loc, clock, started>>
      /\ boot' = [boot EXCEPT !.at = "champion"]
  BY SeedAssumption DEF SeedCertify, RInv, TypeOK, Boot, Starting
<1>2. /\ prompts \in [Prompt -> PromptRow] /\ variants' \in [Stage -> Rows]
      /\ routing' \in [Stage -> RoutingEntry] /\ contents' \in [Prompt -> Content]
      /\ clock' \in Nat
  BY <1>1 DEF RInv, TypeOK, caches
<1>3. PICK q : prompts' = Certified(boot.record, q)
  BY DEF SeedCertify
<1>4. /\ prompts' \in [Prompt -> PromptRow]
      /\ \A p \in Prompt : Kept(p) => Kept(p)'
      /\ prompts'[boot.record].status = "certified"
  BY <1>1, <1>2, <1>3, CertifiedTypes DEF Kept
<1>5. boot' \in Boot /\ boot'.at = "champion" /\ boot'.record = boot.record
  BY <1>1 DEF Boot
<1>6. Kept(boot.record)'
  BY <1>1, <1>4, <1>5 DEF Kept
<1>7. Tables'
  BY <1>1, <1>4, TablesStay DEF caches
<1> QED
  BY <1>1, <1>2, <1>4, <1>5, <1>6, <1>7, BootStep

LEMMA SeedChampionKeeps ==
  ASSUME RInv, SeedChampion
  PROVE  RInv'
<1> DEFINE s == boot.stage
           p == boot.record
<1>1. /\ boot.at = "champion" /\ boot \in Boot /\ s \in Stage /\ BootDone
      /\ UNCHANGED <<prompts, contents, pc, loc, started>>
  BY DEF SeedChampion, RInv, TypeOK, Boot
<1>2. /\ prompts' \in [Prompt -> PromptRow] /\ variants \in [Stage -> Rows]
      /\ routing \in [Stage -> RoutingEntry] /\ contents' \in [Prompt -> Content]
      /\ clock \in Nat
  BY <1>1 DEF RInv, TypeOK
<1>3. boot' \in Boot /\ boot'.at \in {"check", "up"}
  BY <1>1, DoneTypes
<1>4. Kept(p) /\ p \in AnyLabel
  BY <1>1 DEF RInv, Starting, Kept, AnyLabel
<1>5. CASE UNCHANGED <<variants, clock, routing>>
  <2>1. Tables'
    BY <1>1, <1>5, TablesStay DEF Kept
  <2>2. /\ variants' \in [Stage -> Rows] /\ routing' \in [Stage -> RoutingEntry]
        /\ clock' \in Nat
    BY <1>2, <1>5
  <2> QED
    BY <1>1, <1>2, <1>3, <2>1, <2>2, BootStep
<1>6. CASE /\ variants' = [variants EXCEPT ![s][p] =
                            [status |-> "champion", prompt |-> p, pct |-> Full,
                             created |-> clock]]
           /\ clock' = clock + 1
           /\ routing' = [r \in Stage |-> NotCached]
  <2> DEFINE new == [status |-> "champion", prompt |-> p, pct |-> Full, created |-> clock]
  <2>1. PICK rows : rows = [variants[s] EXCEPT ![p] = new]
    OBVIOUS
  <2>2. variants' = [variants EXCEPT ![s] = rows]
    BY <1>6, <2>1
  <2>3. new \in VariantRow
    BY <1>2, <1>4, FullAssumption DEF VariantRow, VariantStatus, Kept
  <2>4. variants[s] \in Rows /\ Sound(variants[s])
    BY <1>1, <1>2 DEF RInv, Tables
  <2>5. rows \in Rows
    BY <2>1, <2>3, <2>4 DEF Rows
  <2>6. Sound(rows)
    BY <1>4, <2>1, <2>4 DEF Sound, Rows
  <2> HIDE DEF new
  <2>7. variants' \in [Stage -> Rows] /\ clock' \in Nat
    <3>1. variants' \in [Stage -> Rows]
      BY <1>2, <2>2, <2>5
    <3>2. clock' \in Nat
      BY <1>2, <1>6
    <3> QED
      BY <3>1, <3>2
  <2>8. routing' \in [Stage -> RoutingEntry]
    BY <1>6, BlankTypes
  <2> HIDE DEF s
  <2>9. ASSUME NEW r \in Stage PROVE Sound(variants[r])'
    <3>1. variants'[r] = IF r = s THEN rows ELSE variants[r]
      BY <1>2, <2>2
    <3>2. Sound(variants[r])
      BY DEF RInv, Tables
    <3> QED
      BY <1>1, <2>6, <3>1, <3>2 DEF Sound, Kept
  <2>10. ASSUME NEW r \in Stage PROVE Sound(routing[r].rows)'
    BY <1>6 DEF Sound, NotCached, NoRows, NoRow
  <2>11. Tables'
    BY <2>9, <2>10 DEF Tables
  <2> QED
    BY <1>1, <1>2, <1>3, <2>7, <2>8, <2>11, BootStep
<1> QED
  BY <1>5, <1>6 DEF SeedChampion

LEMMA SeedEndsKeep ==
  ASSUME RInv, SeedFails \/ SeedSkipped
  PROVE  RInv'
<1>1. boot \in Boot /\ UNCHANGED <<tables, caches, pc, loc, clock, started>>
  BY DEF SeedFails, SeedSkipped, RInv, TypeOK
<1>2. boot.at # "up"
  BY StageAssumption DEF SeedFails, SeedSkipped, BootFrom
<1>3. boot' \in Boot /\ boot'.at \in {"check", "up"}
  <2>1. CASE SeedFails
    BY <1>1, <2>1, DoneTypes DEF SeedFails
  <2>2. CASE SeedSkipped
    BY <2>2, BootTypes DEF SeedSkipped
  <2> QED
    BY <2>1, <2>2
<1>4. Tables'
  BY <1>1, TablesStay DEF Kept, tables, caches
<1>5. /\ prompts' \in [Prompt -> PromptRow] /\ variants' \in [Stage -> Rows]
      /\ routing' \in [Stage -> RoutingEntry] /\ contents' \in [Prompt -> Content]
      /\ clock' \in Nat
  BY <1>1 DEF RInv, TypeOK, tables, caches
<1> QED
  BY <1>1, <1>2, <1>3, <1>4, <1>5, BootStep

LEMMA RestartKeeps ==
  ASSUME RInv, Restart
  PROVE  RInv'
<1>1. boot' \in Boot /\ boot'.at \in {"check", "up"}
  BY BootTypes DEF Restart
<1>2. \A t \in Thread : pc'[t] = "idle"
  BY DEF Restart
<1>3. TypeOK'
  BY <1>1, BlankTypes DEF RInv, TypeOK, Restart, tables, Content
<1>4. ASSUME NEW s \in Stage PROVE Sound(variants[s])' /\ Sound(routing[s].rows)'
  <2>1. Sound(variants[s])'
    BY DEF RInv, Tables, Restart, tables, Sound, Kept
  <2>2. Sound(routing[s].rows)'
    BY DEF Restart, Sound, NotCached, NoRows, NoRow
  <2> QED
    BY <2>1, <2>2
<1>5. Starting'
  BY <1>1, <1>2 DEF Starting
<1>6. \A t \in Thread : Fits(pc[t], loc[t])'
  BY <1>2 DEF Fits
<1> QED
  BY <1>3, <1>4, <1>5, <1>6 DEF RInv, Tables

-----------------------------------------------------------------------------
(* The invariant. *)

LEMMA RInvInit == Init => RInv
<1> SUFFICES ASSUME Init PROVE RInv
  OBVIOUS
<1>1. boot \in Boot /\ boot.at \in {"check", "up"}
  BY BootTypes DEF Init
<1>2. TypeOK
  BY <1>1, BlankTypes, MaxRequestsAssumption
     DEF Init, TypeOK, PromptRow, PromptStatus, Content
<1>3. Tables
  BY DEF Init, Tables, Sound, NotCached, NoRows, NoRow
<1>4. Starting /\ \A t \in Thread : Fits(pc[t], loc[t])
  BY <1>1 DEF Init, Starting, Fits
<1> QED
  BY <1>2, <1>3, <1>4 DEF RInv

LEMMA RInvStutter ==
  ASSUME RInv, UNCHANGED vars
  PROVE  RInv'
<1>1. TypeOK'
  BY DEF RInv, TypeOK, vars
<1>2. Tables'
  BY DEF RInv, Tables, Sound, Kept, vars
<1>3. Starting'
  BY DEF RInv, Starting, Kept, vars
<1>4. ASSUME NEW t \in Thread PROVE Fits(pc[t], loc[t])'
  BY DEF RInv, Fits, Sound, Kept, Named, vars
<1> QED
  BY <1>1, <1>2, <1>3, <1>4 DEF RInv

LEMMA RInvNext == RInv /\ [Next]_vars => RInv'
<1> SUFFICES ASSUME RInv, [Next]_vars PROVE RInv'
  OBVIOUS
<1>1. ASSUME NEW t \in Thread, PromptRequest(t) PROVE RInv'
  BY <1>1, PromptRequestKeeps
<1>2. ASSUME NEW t \in Thread, VariantRequest(t) PROVE RInv'
  BY <1>2, VariantRequestKeeps
<1>3. ASSUME NEW t \in Thread, Serve(t) PROVE RInv'
  BY <1>3, ServeReadsKeep, ServeWritesKeep DEF Serve
<1>4. CASE Seeding
  BY <1>4, SeedCheckKeeps, SeedCertifyKeeps, SeedChampionKeeps, SeedEndsKeep DEF Seeding
<1>5. CASE Restart
  BY <1>5, RestartKeeps
<1>6. CASE UNCHANGED vars
  BY <1>6, RInvStutter
<1> QED
  BY <1>1, <1>2, <1>3, <1>4, <1>5, <1>6 DEF Next

LEMMA RInvAlways == Spec => []RInv
BY RInvInit, RInvNext, PTL DEF Spec

-----------------------------------------------------------------------------
(* The theorems. *)

\* Tables, caches, the start-up and the local variables of the requests keep their types:
\* no request goes on with a prompt or a label that is not there (prompts/registry.py:316,
\* routing.py:83), however many overlap and whatever fails.
THEOREM RegistryTypesAlways == Spec => []TypeOK
<1>1. RInv => TypeOK
  BY DEF RInv
<1> QED
  BY <1>1, RInvAlways, PTL

\* Only a prompt that was certified once is put in traffic (prompts/registry.py:316,
\* 623): no answer has a draft, whichever requests, faults and start-ups come between
\* the routing and the answer.
THEOREM DraftsNeverServed == Spec => []NoDraftServed
<1>1. RInv => NoDraftServed
  BY DEF RInv, Fits, Kept, NoDraftServed
<1> QED
  BY <1>1, RInvAlways, PTL

-----------------------------------------------------------------------------
(* What requests have settled. *)

\* A stage loses its last champion.
LosesChampion(s) == Champions(variants[s]) # {} /\ Champions(variants'[s]) = {}

LEMMA ChampionsOf ==
  ASSUME NEW rows \in Rows
  PROVE  \A k : k \in Champions(rows) <=> k \in AnyLabel /\ rows[k].status = "champion"
BY DEF Champions, Rows

\* A row that takes a free label leaves the champions.
LEMMA InsertLeavesChampions ==
  ASSUME NEW rows \in Rows, NEW k \in AnyLabel, rows[k].status = "none", NEW row \in VariantRow
  PROVE  Champions(rows) \subseteq Champions([rows EXCEPT ![k] = row])
<1>1. PICK new : new = [rows EXCEPT ![k] = row]
  OBVIOUS
<1>2. new \in Rows
  BY <1>1 DEF Rows
<1>3. ASSUME NEW c \in Champions(rows) PROVE c \in Champions(new)
  <2>1. c \in AnyLabel /\ rows[c].status = "champion"
    BY <1>3, ChampionsOf
  <2>2. new[c] = rows[c]
    BY <1>1, <2>1 DEF Rows
  <2> QED
    BY <1>2, <2>1, <2>2, ChampionsOf
<1> QED
  BY <1>1, <1>3

\* So does a change of percentage; the retirement of a row takes only that row; and a
\* promotion leaves one champion at least.
LEMMA CommitsLeaveChampions ==
  ASSUME NEW rows \in Rows, NEW k \in AnyLabel, rows[k].status # "none",
         NEW loaded, NEW pct \in 0..Full, NEW o, o = NoVariant \/ rows[o].status # "none"
  PROVE  /\ Champions(rows) \subseteq Champions(Adjusted(rows, k, loaded, pct))
         /\ Champions(rows) \ {k} \subseteq Champions(Deprecated(rows, k, loaded))
         /\ k \in Champions(Promoted(rows, k, o))
<1>1. Champions(rows) \subseteq Champions(Adjusted(rows, k, loaded, pct))
  <2>1. PICK new : new = Adjusted(rows, k, loaded, pct)
    OBVIOUS
  <2>2. new \in Rows
    BY <2>1, RowsFollow DEF Follows
  <2>3. \A c \in AnyLabel : new[c].status = rows[c].status
    BY <2>1 DEF Adjusted, Rows, VariantRow
  <2> QED
    BY <2>1, <2>2, <2>3, ChampionsOf
<1>2. Champions(rows) \ {k} \subseteq Champions(Deprecated(rows, k, loaded))
  <2>1. PICK new : new = Deprecated(rows, k, loaded)
    OBVIOUS
  <2>2. new \in Rows
    BY <2>1, RowsFollow DEF Follows
  <2>3. \A c \in AnyLabel : c # k => new[c] = rows[c]
    BY <2>1 DEF Deprecated, Rows
  <2> QED
    BY <2>1, <2>2, <2>3, ChampionsOf
<1>3. k \in Champions(Promoted(rows, k, o))
  <2> DEFINE old == [l \in AnyLabel |-> IF l = o THEN [rows[l] EXCEPT !.status = "deprecated"]
                                        ELSE rows[l]]
  <2>1. PICK new : new = Promoted(rows, k, o)
    OBVIOUS
  <2>2. new \in Rows
    BY <2>1, RowsFollow DEF Follows
  <2>3. new = [old EXCEPT ![k] = [old[k] EXCEPT !.status = "champion", !.pct = Full]]
    BY <2>1 DEF Promoted
  <2>4. old[k] \in VariantRow
    BY DEF Rows, VariantRow, VariantStatus
  <2> HIDE DEF old
  <2>5. new[k] = [old[k] EXCEPT !.status = "champion", !.pct = Full] \/ k \notin DOMAIN old
    BY <2>3
  <2>6. k \in DOMAIN old
    BY DEF old
  <2>7. new[k].status = "champion"
    BY <2>4, <2>5, <2>6 DEF VariantRow
  <2> QED
    BY <2>1, <2>2, <2>7, ChampionsOf
<1> QED
  BY <1>1, <1>2, <1>3

\* Only the retirement of a champion takes the last one of a stage.
LEMMA ChampionsStand ==
  ASSUME RInv, [Next]_vars, NEW s \in Stage, LosesChampion(s)
  PROVE  \E t \in Thread : RetireCommit(t) /\ loc[t].label \in Champions(variants[s])
<1>0. variants \in [Stage -> Rows] /\ variants[s] \in Rows
  BY DEF RInv, TypeOK
<1>1. variants' # variants
  BY DEF LosesChampion
<1>2. \/ SeedChampion
      \/ \E t \in Thread : StartInsert(t) \/ AdjustCommit(t) \/ PromoteCommit(t)
                           \/ RetireCommit(t)
  BY <1>1 DEF Next, PromptRequest, VariantRequest, Serve, Seeding, Restart, CreateRead,
     CreateInsert, CertifyRead, CertifyPrev, CertifyCommit, DeprecateRead, DeprecateCommit,
     StartRead, StartLabel, StartTotal, AdjustRead, AdjustTotal, PromoteRead, PromoteOld,
     RetireRead, Invalidate, ServeLookup, ServeLoad, ServeStore, ServeContent, ServeFetch,
     ServeCertified, ServeRemember, ServeAnswer, SeedCheck, SeedCertify, SeedFails,
     SeedSkipped, tables, vars
<1>3. ASSUME NEW r \in Stage, NEW rows \in Rows, variants' = [variants EXCEPT ![r] = rows],
             r = s => Champions(variants[s]) \subseteq Champions(rows)
      PROVE  FALSE
  <2>1. variants'[s] = IF r = s THEN rows ELSE variants[s]
    BY <1>0, <1>3
  <2> QED
    BY <1>3, <2>1 DEF LosesChampion
<1>4. CASE SeedChampion
  <2>1. /\ boot.stage \in Stage /\ boot.record \in AnyLabel /\ boot.record \in Prompt
        /\ clock \in Nat /\ Full \in 0..Full
    BY <1>4, FullAssumption DEF SeedChampion, RInv, TypeOK, Boot, Starting, Kept, AnyLabel
  <2> DEFINE row == [status |-> "champion", prompt |-> boot.record, pct |-> Full,
                     created |-> clock]
  <2>2. PICK rows : rows = [variants[boot.stage] EXCEPT ![boot.record] = row]
    OBVIOUS
  <2>3. /\ variants' = [variants EXCEPT ![boot.stage] = rows]
        /\ variants[boot.stage][boot.record].status = "none"
    BY <1>1, <1>4, <2>2 DEF SeedChampion
  <2>4. row \in VariantRow
    BY <2>1 DEF VariantRow, VariantStatus
  <2> HIDE DEF row
  <2>5. rows \in Rows
    BY <1>0, <2>1, <2>2, <2>4 DEF Rows
  <2>6. Champions(variants[boot.stage]) \subseteq Champions(rows)
    BY <1>0, <2>1, <2>2, <2>3, <2>4, InsertLeavesChampions
  <2>7. PICK r \in Stage : r = boot.stage
    BY <2>1
  <2> QED
    BY <1>3, <2>3, <2>5, <2>6, <2>7
<1>5. ASSUME NEW t \in Thread, StartInsert(t) PROVE FALSE
  <2>1. PICK l : l = loc[t]
    OBVIOUS
  <2>2. pc[t] = "startInsert"
    BY <1>5 DEF StartInsert
  <2>3. l \in Locals /\ Kept(l.prompt) /\ l.label \in AnyLabel /\ l.stage \in Stage
    BY <2>1, <2>2, Works DEF Fits, Locals
  <2> DEFINE row == [status |-> "candidate", prompt |-> l.prompt,
                     pct |-> l.pct, created |-> l.stamp]
  <2>4. row \in VariantRow
    BY <2>3 DEF VariantRow, VariantStatus, Locals, Kept
  <2>5. PICK rows : rows = [variants[l.stage] EXCEPT ![l.label] = row]
    OBVIOUS
  <2>6. /\ variants[l.stage][l.label].status = "none"
        /\ variants' = [variants EXCEPT ![l.stage] = rows]
    BY <1>1, <1>5, <2>1, <2>5 DEF StartInsert
  <2> HIDE DEF row
  <2>7. rows \in Rows
    BY <1>0, <2>3, <2>4, <2>5 DEF Rows
  <2>8. Champions(variants[l.stage]) \subseteq Champions(rows)
    BY <1>0, <2>3, <2>4, <2>5, <2>6, InsertLeavesChampions
  <2> QED
    BY <1>3, <2>3, <2>6, <2>7, <2>8
<1>6. ASSUME NEW t \in Thread, AdjustCommit(t) \/ PromoteCommit(t) \/ RetireCommit(t)
      PROVE  RetireCommit(t) /\ loc[t].label \in Champions(variants[s])
  <2>1. PICK l : l = loc[t]
    OBVIOUS
  <2>2. pc[t] \in {"adjust", "promote", "retire"}
    BY <1>6 DEF AdjustCommit, PromoteCommit, RetireCommit
  <2>3. /\ l \in Locals /\ l.stage \in Stage /\ Named(l.stage, l.label) /\ l.pct \in 0..Full
        /\ pc[t] = "promote" => l.old = NoVariant \/ Named(l.stage, l.old)
    BY <2>1, <2>2, Works DEF Fits, Locals
  <2>4. PICK old \in Rows : old = variants[l.stage]
    BY <1>0, <2>3
  <2>5. old[l.label].status # "none" /\ l.label \in AnyLabel
        /\ (pc[t] = "promote" => l.old = NoVariant \/ old[l.old].status # "none")
    BY <2>3, <2>4 DEF Named
  <2>6. CASE AdjustCommit(t)
    <3>1. PICK rows : rows = Adjusted(old, l.label, l.row, l.pct)
      OBVIOUS
    <3>2. variants' = [variants EXCEPT ![l.stage] = rows]
      BY <1>0, <2>1, <2>3, <2>4, <2>6, <3>1 DEF AdjustCommit
    <3>3. rows \in Rows
      BY <2>3, <2>5, <3>1, RowsFollow DEF Follows
    <3>4. Champions(old) \subseteq Champions(rows)
      BY <2>3, <2>5, <3>1, CommitsLeaveChampions
    <3> QED
      BY <1>3, <2>3, <2>4, <3>2, <3>3, <3>4
  <2>7. CASE PromoteCommit(t)
    <3>1. PICK rows : rows = Promoted(old, l.label, l.old)
      OBVIOUS
    <3>2. variants' = [variants EXCEPT ![l.stage] = rows] /\ pc[t] = "promote"
      BY <1>0, <2>1, <2>3, <2>4, <2>7, <3>1 DEF PromoteCommit
    <3>3. rows \in Rows
      BY <2>3, <2>5, <3>1, <3>2, RowsFollow DEF Follows
    <3>4. l.label \in Champions(rows)
      BY <2>3, <2>5, <3>1, <3>2, CommitsLeaveChampions
    <3>5. variants'[s] = IF l.stage = s THEN rows ELSE variants[s]
      BY <1>0, <2>3, <3>2
    <3> QED
      BY <3>4, <3>5 DEF LosesChampion
  <2>8. CASE RetireCommit(t)
    <3>1. PICK rows : rows = Deprecated(old, l.label, l.row)
      OBVIOUS
    <3>2. variants' = [variants EXCEPT ![l.stage] = rows]
      BY <1>0, <2>1, <2>3, <2>4, <2>8, <3>1 DEF RetireCommit
    <3>3. rows \in Rows
      BY <2>3, <2>5, <3>1, RowsFollow DEF Follows
    <3>4. Champions(old) \ {l.label} \subseteq Champions(rows)
      BY <2>3, <2>5, <3>1, CommitsLeaveChampions
    <3>5. l.stage = s
      BY <1>3, <2>3, <3>2, <3>3
    <3>6. l.label \in Champions(old)
      BY <1>3, <2>3, <2>4, <3>2, <3>3, <3>4, <3>5
    <3> QED
      BY <2>1, <2>4, <2>8, <3>5, <3>6
  <2> QED
    BY <1>6, <2>6, <2>7, <2>8
<1> QED
  BY <1>2, <1>4, <1>5, <1>6

\* No step of the start-up replaces what was certified after the seed was.
LEMMA CertifiedStand ==
  ASSUME RInv, Seeding, NEW s \in Stage,
         prompts[Seed[s]].status \in {"certified", "deprecated"}
  PROVE  CertifiedIn(s) \subseteq CertifiedIn(s)'
<1>1. /\ prompts \in [Prompt -> PromptRow] /\ boot.stage \in Stage
      /\ Seed[s] \in Prompt /\ Seed[boot.stage] \in Prompt
  BY SeedAssumption DEF RInv, TypeOK, Boot
<1>2. SUFFICES ASSUME NEW q \in Prompt, prompts[q].status = "certified", prompts[q].stage = s
               PROVE  prompts'[q].status = "certified" /\ prompts'[q].stage = s
  BY DEF CertifiedIn
<1>3. CASE SeedCheck
  <2>1. \/ UNCHANGED prompts
        \/ /\ prompts[Seed[boot.stage]].status = "absent"
           /\ prompts' = [prompts EXCEPT ![Seed[boot.stage]] =
                            [status |-> "draft", stage |-> boot.stage]]
    BY <1>3 DEF SeedCheck, SeedCreate
  <2> QED
    BY <1>1, <1>2, <2>1
<1>4. CASE SeedCertify
  <2>1. /\ boot.record = Seed[boot.stage] /\ prompts[boot.record].status = "draft"
    BY <1>4 DEF SeedCertify, RInv, Starting
  <2>2. PICK p \in FirstOf(CertifiedIn(boot.stage), NoPrompt) :
          prompts' = Certified(boot.record, p)
    BY <1>4 DEF SeedCertify
  <2>3. boot.stage # s
    BY <2>1
  <2>4. p # q
    BY <1>2, <2>2, <2>3, NameAssumption DEF FirstOf, CertifiedIn
  <2>5. boot.record # q
    BY <1>2, <2>1
  <2>6. prompts'[q] = prompts[q]
    BY <1>1, <2>2, <2>4, <2>5 DEF Certified
  <2> QED
    BY <1>2, <2>6
<1>5. CASE SeedChampion \/ SeedFails \/ SeedSkipped
  BY <1>2, <1>5 DEF SeedChampion, SeedFails, SeedSkipped, tables
<1> QED
  BY <1>3, <1>4, <1>5 DEF Seeding

LEMMA CertificationStands ==
  ASSUME RInv, NEW t \in Thread, CertifyCommit(t)
  PROVE  prompts'[loc[t].prompt].status = "certified"
<1>1. pc[t] = "certify" /\ prompts' = Certified(loc[t].prompt, loc[t].prev)
  BY DEF CertifyCommit
<1>2. loc[t].prompt \in Prompt /\ prompts \in [Prompt -> PromptRow]
  BY <1>1, Works DEF Fits
<1> QED
  BY <1>1, <1>2, CertifiedTypes

\* However requests and start-ups overlap: a certification certifies its target
\* (prompts/registry.py:222), a stage loses its last champion only by the retirement of it
\* (registry.py:504), and no start-up replaces what has been certified since the seed was
\* (registry.py:658).
THEOREM OutcomeAlwaysStands == Spec => OutcomeStands
<1>1. RInv /\ [Next]_vars =>
        [/\ \A t \in Thread :
              CertifyCommit(t) => prompts'[loc[t].prompt].status = "certified"
         /\ \A s \in Stage :
              Champions(variants[s]) # {} /\ Champions(variants'[s]) = {}
              => \E t \in Thread : RetireCommit(t) /\ loc[t].label \in Champions(variants[s])
         /\ Seeding => \A s \in Stage :
              prompts[Seed[s]].status \in {"certified", "deprecated"}
              => CertifiedIn(s) \subseteq CertifiedIn(s)']_vars
  <2> SUFFICES ASSUME RInv, [Next]_vars
               PROVE  /\ \A t \in Thread :
                           CertifyCommit(t) => prompts'[loc[t].prompt].status = "certified"
                      /\ \A s \in Stage :
                           Champions(variants[s]) # {} /\ Champions(variants'[s]) = {}
                           => \E t \in Thread :
                                RetireCommit(t) /\ loc[t].label \in Champions(variants[s])
                      /\ Seeding => \A s \in Stage :
                           prompts[Seed[s]].status \in {"certified", "deprecated"}
                           => CertifiedIn(s) \subseteq CertifiedIn(s)'
    OBVIOUS
  <2>1. \A t \in Thread :
          CertifyCommit(t) => prompts'[loc[t].prompt].status = "certified"
    BY CertificationStands
  <2>2. \A s \in Stage :
          Champions(variants[s]) # {} /\ Champions(variants'[s]) = {}
          => \E t \in Thread : RetireCommit(t) /\ loc[t].label \in Champions(variants[s])
    BY ChampionsStand DEF LosesChampion
  <2>3. Seeding => \A s \in Stage :
          prompts[Seed[s]].status \in {"certified", "deprecated"}
          => CertifiedIn(s) \subseteq CertifiedIn(s)'
    BY CertifiedStand
  <2> QED
    BY <2>1, <2>2, <2>3
<1> QED
  BY <1>1, RInvAlways, PTL DEF Spec, OutcomeStands
=============================================================================
