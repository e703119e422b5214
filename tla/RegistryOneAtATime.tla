--------------------------- MODULE RegistryOneAtATime ---------------------------
(***************************************************************************)
(* Proofs about PromptRegistry when one thread serves all requests, so one    *)
(* after another, for any number of stages, prompts, labels and percentages:  *)
(* what the tables and the caches then keep to, and with it what the sums of   *)
(* the percentages and the walk of select_variant come to.                    *)
(***************************************************************************)
EXTENDS RegistryProofs, FiniteSetTheorems

-----------------------------------------------------------------------------
\* Of some subsets of a finite set, one is such that taking an element away leads
\* out of them.
LEMMA LeastSubset ==
  ASSUME NEW S, IsFiniteSet(S), NEW B, B \subseteq SUBSET S, B # {}
  PROVE  \E T \in B : \A x \in T : T \ {x} \notin B
<1> DEFINE R == StrictSubsetOrdering(S)
<1>1. IsWellFoundedOn(R, FiniteSubsetsOf(S)) /\ B \subseteq FiniteSubsetsOf(S)
  BY FS_StrictSubsetOrderingWellFounded, FS_FiniteSubsetsOfFinite
<1>2. PICK T \in B : \A U \in B : ~ (<<U, T>> \in R)
  <2> HIDE DEF R
  <2> QED
    BY <1>1, WFMin
<1>3. ASSUME NEW x \in T, T \ {x} \in B PROVE FALSE
  BY <1>2, <1>3 DEF StrictSubsetOrdering
<1> QED
  BY <1>3

-----------------------------------------------------------------------------
(* Sums of percentages. *)

\* What the fold of TotalShare unfolds to: an element at a time, whichever CHOOSE
\* picks.
Folds(rows, T, f) ==
  f = [s \in SUBSET T |->
         IF s = {} THEN 0
         ELSE rows[CHOOSE x \in s : TRUE].pct + f[s \ {CHOOSE x \in s : TRUE}]]

\* f gives every subset of T the sum of its percentages, whichever element one
\* begins with.
Adds(rows, T, f) ==
  /\ f \in [SUBSET T -> Nat]
  /\ f[{}] = 0
  /\ \A s \in SUBSET T : \A x \in s : f[s] = rows[x].pct + f[s \ {x}]

Counted(rows, T) == IsFiniteSet(T) /\ \A l \in T : rows[l].pct \in Nat

LEMMA FewerCounted ==
  ASSUME NEW rows, NEW T, Counted(rows, T), NEW U \in SUBSET T
  PROVE  Counted(rows, U)
BY FS_Subset DEF Counted

LEMMA AddsOneMore ==
  ASSUME NEW rows, NEW T, NEW x \in T, Counted(rows, T),
         NEW f, Adds(rows, T \ {x}, f)
  PROVE  \E g : Adds(rows, T, g)
<1> DEFINE g == [s \in SUBSET T |-> IF x \in s THEN rows[x].pct + f[s \ {x}] ELSE f[s]]
<1>1. /\ f \in [SUBSET (T \ {x}) -> Nat] /\ f[{}] = 0
      /\ \A s \in SUBSET (T \ {x}) : \A y \in s : f[s] = rows[y].pct + f[s \ {y}]
  BY DEF Adds
<1>2. g \in [SUBSET T -> Nat]
  <2>1. ASSUME NEW s \in SUBSET T
        PROVE  (IF x \in s THEN rows[x].pct + f[s \ {x}] ELSE f[s]) \in Nat
    <3>1. CASE x \in s
      <4>1. s \ {x} \in SUBSET (T \ {x})
        OBVIOUS
      <4> QED
        BY <1>1, <3>1, <4>1 DEF Counted
    <3>2. CASE x \notin s
      BY <1>1, <3>2
    <3> QED
      BY <3>1, <3>2
  <2> QED
    BY <2>1
<1>3. g[{}] = 0
  BY <1>1
<1>4. ASSUME NEW s \in SUBSET T, NEW y \in s
      PROVE  g[s] = rows[y].pct + g[s \ {y}]
  <2>1. CASE x \notin s
    <3>1. s \in SUBSET (T \ {x}) /\ s \ {y} \in SUBSET T /\ x \notin s \ {y}
      BY <2>1
    <3> QED
      BY <1>1, <2>1, <3>1
  <2>2. CASE x = y
    <3>1. s \ {y} \in SUBSET T /\ x \notin s \ {y} /\ x \in s
      BY <2>2
    <3> QED
      BY <2>2, <3>1
  <2>3. CASE x \in s /\ x # y
    <3> DEFINE r == s \ {x}
    <3>1. r \in SUBSET (T \ {x}) /\ y \in r /\ r \ {y} \in SUBSET (T \ {x})
      BY <2>3
    <3>2. f[r] = rows[y].pct + f[r \ {y}]
      BY <1>1, <3>1
    <3>3. (s \ {y}) \ {x} = r \ {y} /\ s \ {y} \in SUBSET T /\ x \in s \ {y}
      BY <2>3
    <3>4. g[s] = rows[x].pct + f[r]
      BY <2>3
    <3>5. g[s \ {y}] = rows[x].pct + f[r \ {y}]
      BY <3>3
    <3>6. f[r] \in Nat /\ f[r \ {y}] \in Nat /\ rows[y].pct \in Nat /\ rows[x].pct \in Nat
      BY <1>1, <3>1 DEF Counted
    <3> QED
      BY <3>2, <3>4, <3>5, <3>6
  <2> QED
    BY <2>1, <2>2, <2>3
<1> HIDE DEF g
<1> QED
  BY <1>2, <1>3, <1>4 DEF Adds

LEMMA AddsExist ==
  ASSUME NEW rows, NEW T, Counted(rows, T)
  PROVE  \E f : Adds(rows, T, f)
<1> DEFINE B == {U \in SUBSET T : ~ \E f : Adds(rows, U, f)}
<1>1. ASSUME B # {} PROVE FALSE
  <2>1. IsFiniteSet(T) /\ B \subseteq SUBSET T
    BY DEF Counted
  <2>2. PICK U \in B : \A x \in U : U \ {x} \notin B
    <3> HIDE DEF B
    <3> QED
      BY <1>1, <2>1, LeastSubset
  <2>3. U \in SUBSET T /\ Counted(rows, U)
    BY FewerCounted
  <2>4. CASE U = {}
    <3> DEFINE f == [s \in SUBSET U |-> 0]
    <3>1. Adds(rows, U, f)
      BY <2>4 DEF Adds
    <3> QED
      BY <3>1
  <2>5. CASE U # {}
    <3>1. PICK x \in U : TRUE
      BY <2>5
    <3>2. PICK f : Adds(rows, U \ {x}, f)
      BY <2>2, <2>3
    <3>3. \E g : Adds(rows, U, g)
      BY <2>3, <3>2, AddsOneMore
    <3> QED
      BY <3>3
  <2> QED
    BY <2>4, <2>5
<1> QED
  BY <1>1

\* The sums are what the fold computes, and the fold computes nothing else.
LEMMA AddsFolds ==
  ASSUME NEW rows, NEW T, NEW f, Adds(rows, T, f)
  PROVE  Folds(rows, T, f)
<1>1. ASSUME NEW s \in SUBSET T, s # {}
      PROVE  f[s] = rows[CHOOSE x \in s : TRUE].pct + f[s \ {CHOOSE x \in s : TRUE}]
  <2>1. (CHOOSE x \in s : TRUE) \in s
    BY <1>1
  <2> QED
    BY <2>1 DEF Adds
<1>2. f = [s \in SUBSET T |-> f[s]]
  BY DEF Adds
<1>3. f[{}] = 0
  BY DEF Adds
<1>4. ASSUME NEW s \in SUBSET T
      PROVE  f[s] = IF s = {} THEN 0
                    ELSE rows[CHOOSE x \in s : TRUE].pct + f[s \ {CHOOSE x \in s : TRUE}]
  BY <1>1, <1>3
<1> QED
  BY <1>2, <1>4 DEF Folds

LEMMA FoldIsOne ==
  ASSUME NEW rows, NEW T, IsFiniteSet(T), NEW f, NEW g, Folds(rows, T, f), Folds(rows, T, g)
  PROVE  f = g
<1> DEFINE B == {s \in SUBSET T : f[s] # g[s]}
<1>0. /\ f = [s \in SUBSET T |-> f[s]] /\ g = [s \in SUBSET T |-> g[s]]
      /\ \A s \in SUBSET T :
           /\ f[s] = IF s = {} THEN 0
                     ELSE rows[CHOOSE x \in s : TRUE].pct + f[s \ {CHOOSE x \in s : TRUE}]
           /\ g[s] = IF s = {} THEN 0
                     ELSE rows[CHOOSE x \in s : TRUE].pct + g[s \ {CHOOSE x \in s : TRUE}]
  BY DEF Folds
<1>1. ASSUME B # {} PROVE FALSE
  <2>1. B \subseteq SUBSET T
    OBVIOUS
  <2>2. PICK U \in B : \A x \in U : U \ {x} \notin B
    <3> HIDE DEF B
    <3> QED
      BY <1>1, <2>1, LeastSubset
  <2>3. U \in SUBSET T /\ f[U] # g[U]
    OBVIOUS
  <2>4. CASE U = {}
    BY <1>0, <2>3, <2>4
  <2>5. CASE U # {}
    <3>1. PICK x \in U : x = CHOOSE y \in U : TRUE
      BY <2>5
    <3>2. f[U \ {x}] = g[U \ {x}] /\ U \ {x} \in SUBSET T
      BY <2>2, <2>3
    <3>3. f[U] = rows[x].pct + f[U \ {x}] /\ g[U] = rows[x].pct + g[U \ {x}]
      BY <1>0, <2>3, <2>5, <3>1
    <3> QED
      BY <2>3, <3>2, <3>3
  <2> QED
    BY <2>4, <2>5
<1> QED
  BY <1>0, <1>1

LEMMA AddsLess ==
  ASSUME NEW rows, NEW T, NEW U \in SUBSET T, NEW f, Adds(rows, T, f)
  PROVE  Adds(rows, U, [s \in SUBSET U |-> f[s]])
<1> DEFINE g == [s \in SUBSET U |-> f[s]]
<1>1. /\ f \in [SUBSET T -> Nat] /\ f[{}] = 0
      /\ \A s \in SUBSET T : \A x \in s : f[s] = rows[x].pct + f[s \ {x}]
  BY DEF Adds
<1>2. \A s \in SUBSET U : s \in SUBSET T /\ g[s] = f[s]
  OBVIOUS
<1>3. g \in [SUBSET U -> Nat] /\ g[{}] = 0
  BY <1>1, <1>2
<1>4. ASSUME NEW s \in SUBSET U, NEW x \in s PROVE g[s] = rows[x].pct + g[s \ {x}]
  <2>1. s \ {x} \in SUBSET U
    OBVIOUS
  <2> QED
    BY <1>1, <1>2, <2>1
<1> HIDE DEF g
<1> QED
  BY <1>3, <1>4 DEF Adds

\* TotalShare is the sum: nothing for no labels, and otherwise an element's percentage
\* and the sum of the others.
LEMMA ShareIsSum ==
  ASSUME NEW rows, NEW T, Counted(rows, T), NEW f, Adds(rows, T, f)
  PROVE  TotalShare(rows, T) = f[T]
<1>1. TotalShare(rows, T) = (CHOOSE h : Folds(rows, T, h))[T]
  BY DEF TotalShare, MapThenSumSet, MapThenFoldSet, Folds
<1>2. Folds(rows, T, f)
  BY AddsFolds
<1>3. PICK h : h = CHOOSE k : Folds(rows, T, k)
  OBVIOUS
<1>4. Folds(rows, T, h)
  BY <1>2, <1>3
<1>5. h = f
  BY <1>2, <1>4, FoldIsOne DEF Counted
<1> QED
  BY <1>1, <1>3, <1>5

LEMMA ShareAdds ==
  ASSUME NEW rows, NEW T, Counted(rows, T)
  PROVE  /\ TotalShare(rows, T) \in Nat
         /\ T = {} => TotalShare(rows, T) = 0
         /\ \A x \in T : TotalShare(rows, T) = rows[x].pct + TotalShare(rows, T \ {x})
<1>1. PICK f : Adds(rows, T, f)
  BY AddsExist
<1>2. ASSUME NEW U \in SUBSET T PROVE TotalShare(rows, U) = f[U]
  <2>1. Adds(rows, U, [s \in SUBSET U |-> f[s]])
    BY <1>1, AddsLess
  <2>2. TotalShare(rows, U) = [s \in SUBSET U |-> f[s]][U]
    BY <2>1, FewerCounted, ShareIsSum
  <2> QED
    BY <2>2
<1>3. T \in SUBSET T /\ \A x \in T : T \ {x} \in SUBSET T
  OBVIOUS
<1>4. TotalShare(rows, T) = f[T] /\ \A x \in T : TotalShare(rows, T \ {x}) = f[T \ {x}]
  BY <1>2, <1>3
<1> QED
  BY <1>1, <1>3, <1>4 DEF Adds

\* Fewer labels never have a larger share.
LEMMA ShareBelow ==
  ASSUME NEW rows, NEW T, Counted(rows, T), NEW U \in SUBSET T
  PROVE  TotalShare(rows, U) <= TotalShare(rows, T)
<1> DEFINE B == {S \in SUBSET T : U \subseteq S /\ ~ (TotalShare(rows, U) <= TotalShare(rows, S))}
<1>1. ASSUME B # {} PROVE FALSE
  <2>1. IsFiniteSet(T) /\ B \subseteq SUBSET T
    BY DEF Counted
  <2>2. PICK S \in B : \A x \in S : S \ {x} \notin B
    <3> HIDE DEF B
    <3> QED
      BY <1>1, <2>1, LeastSubset
  <2>3. S \in SUBSET T /\ U \subseteq S /\ ~ (TotalShare(rows, U) <= TotalShare(rows, S))
    OBVIOUS
  <2>4. TotalShare(rows, U) \in Nat
    BY FewerCounted, ShareAdds
  <2>5. PICK x \in S : x \notin U
    BY <2>3, <2>4
  <2>6. Counted(rows, S) /\ Counted(rows, S \ {x})
    BY <2>3, FewerCounted
  <2>7. /\ TotalShare(rows, S) = rows[x].pct + TotalShare(rows, S \ {x})
        /\ TotalShare(rows, S \ {x}) \in Nat
    BY <2>6, ShareAdds
  <2>8. rows[x].pct \in Nat
    BY <2>6 DEF Counted
  <2>9. S \ {x} \in SUBSET T /\ U \subseteq S \ {x}
    BY <2>3, <2>5
  <2>10. S \ {x} \in B
    BY <2>3, <2>4, <2>7, <2>8, <2>9
  <2> QED
    BY <2>2, <2>10
<1>2. T \in SUBSET T /\ U \subseteq T
  OBVIOUS
<1> QED
  BY <1>1, <1>2

\* The share depends on the percentages alone.
LEMMA ShareAgrees ==
  ASSUME NEW rows, NEW new, NEW T, Counted(rows, T), \A l \in T : new[l].pct = rows[l].pct
  PROVE  TotalShare(new, T) = TotalShare(rows, T)
<1>1. PICK f : Adds(rows, T, f)
  BY AddsExist
<1>2. Adds(new, T, f)
  <2>1. ASSUME NEW s \in SUBSET T, NEW x \in s PROVE f[s] = new[x].pct + f[s \ {x}]
    BY <1>1 DEF Adds
  <2> QED
    BY <1>1, <2>1 DEF Adds
<1>3. Counted(new, T)
  BY DEF Counted
<1> QED
  BY <1>1, <1>2, <1>3, ShareIsSum

-----------------------------------------------------------------------------
(* Who is served what. *)

\* The state of a stage's rows in which the walk of select_variant is exact.
Tidy(rows, now) ==
  /\ Counted(rows, Candidates(rows))
  /\ \A c \in Candidates(rows) : rows[c].created \in Nat /\ rows[c].created < now
  /\ \A c, d \in Candidates(rows) : rows[c].created = rows[d].created => c = d
  /\ \A c \in Champions(rows) : rows[c].created \in Nat
  /\ \A c, d \in Champions(rows) : c = d
  /\ TotalShare(rows, Candidates(rows)) <= Full

LEMMA YoungestOf ==
  ASSUME NEW rows, NEW labels, labels # {}, NEW n \in Nat,
         \A l \in labels : rows[l].created \in Nat /\ rows[l].created < n
  PROVE  \E m \in labels : \A l \in labels : rows[l].created <= rows[m].created
<1> DEFINE Ages == {n - rows[l].created : l \in labels}
<1>1. Ages \subseteq Nat /\ Ages # {}
  OBVIOUS
<1>2. PICK a \in Ages : \A b \in Ages : a <= b
  <2> HIDE DEF Ages
  <2> QED
    BY <1>1, LeastOne
<1>3. PICK m \in labels : a = n - rows[m].created
  OBVIOUS
<1>4. ASSUME NEW l \in labels PROVE rows[l].created <= rows[m].created
  <2>1. n - rows[m].created <= n - rows[l].created
    BY <1>2, <1>3
  <2>2. rows[l].created \in Nat /\ rows[m].created \in Nat
    OBVIOUS
  <2> QED
    BY <2>1, <2>2
<1> QED
  BY <1>4

LEMMA OldestOf ==
  ASSUME NEW rows, NEW labels, labels # {}, \A l \in labels : rows[l].created \in Nat
  PROVE  /\ Oldest(rows, labels) \in labels
         /\ \A m \in labels : rows[Oldest(rows, labels)].created <= rows[m].created
<1> DEFINE Ages == {rows[l].created : l \in labels}
<1>1. Ages \subseteq Nat /\ Ages # {}
  OBVIOUS
<1>2. PICK a \in Ages : \A b \in Ages : a <= b
  <2> HIDE DEF Ages
  <2> QED
    BY <1>1, LeastOne
<1>3. PICK l \in labels : a = rows[l].created
  OBVIOUS
<1>4. \A m \in labels : rows[l].created <= rows[m].created
  BY <1>2, <1>3
<1> QED
  BY <1>4 DEF Oldest

\* Candidate c's slice of the buckets.
From(rows, c) == TotalShare(rows, {l \in Candidates(rows) : rows[l].created < rows[c].created})

LEMMA SliceOf ==
  ASSUME NEW rows, NEW now, Tidy(rows, now), NEW c \in Candidates(rows)
  PROVE  /\ From(rows, c) \in Nat /\ Reach(rows, c) \in Nat
         /\ Reach(rows, c) = From(rows, c) + rows[c].pct
         /\ Reach(rows, c) <= TotalShare(rows, Candidates(rows))
         /\ \A d \in Candidates(rows) :
              rows[d].created < rows[c].created => Reach(rows, d) <= From(rows, c)
<1> DEFINE T == {l \in Candidates(rows) : rows[l].created <= rows[c].created}
           U == {l \in Candidates(rows) : rows[l].created < rows[c].created}
<1>1. T \in SUBSET Candidates(rows) /\ U \in SUBSET Candidates(rows) /\ c \in T
  BY DEF Tidy
<1>2. U = T \ {c}
  BY DEF Tidy
<1>3. Counted(rows, Candidates(rows)) /\ Counted(rows, T) /\ Counted(rows, U)
  BY <1>1, FewerCounted DEF Tidy
<1>4. TotalShare(rows, T) = rows[c].pct + TotalShare(rows, T \ {c})
  BY <1>1, <1>3, ShareAdds
<1>5. TotalShare(rows, T) \in Nat /\ TotalShare(rows, U) \in Nat /\ rows[c].pct \in Nat
  BY <1>1, <1>3, ShareAdds DEF Counted
<1>6. Reach(rows, c) = TotalShare(rows, T) /\ From(rows, c) = TotalShare(rows, U)
  BY DEF Reach, From
<1>7. TotalShare(rows, T) <= TotalShare(rows, Candidates(rows))
  BY <1>1, <1>3, ShareBelow
<1>8. ASSUME NEW d \in Candidates(rows), rows[d].created < rows[c].created
      PROVE  Reach(rows, d) <= From(rows, c)
  <2> DEFINE V == {l \in Candidates(rows) : rows[l].created <= rows[d].created}
  <2>1. V \in SUBSET U
    BY <1>8 DEF Tidy
  <2>2. Reach(rows, d) = TotalShare(rows, V)
    BY DEF Reach
  <2> HIDE DEF U, V
  <2> QED
    BY <1>3, <1>6, <2>1, <2>2, ShareBelow
<1> HIDE DEF T, U
<1> QED
  BY <1>2, <1>4, <1>5, <1>6, <1>7, <1>8

\* The candidates' slices leave no gap: what comes before one is covered.
LEMMA CoveredBefore ==
  ASSUME NEW rows, NEW now \in Nat, Tidy(rows, now), NEW c \in Candidates(rows),
         NEW b \in Nat, b < From(rows, c)
  PROVE  \E d \in Candidates(rows) : rows[d].created < rows[c].created /\ b < Reach(rows, d)
<1> DEFINE U == {l \in Candidates(rows) : rows[l].created < rows[c].created}
<1>1. U # {}
  <2>1. ASSUME U = {} PROVE FALSE
    <3>1. Counted(rows, U)
      BY <2>1, FS_EmptySet DEF Counted
    <3>2. TotalShare(rows, U) = 0 /\ From(rows, c) = TotalShare(rows, U)
      <4>1. From(rows, c) = TotalShare(rows, U)
        BY DEF From
      <4> HIDE DEF U
      <4> QED
        BY <2>1, <3>1, <4>1, ShareAdds
    <3> QED
      BY <3>2
  <2> QED
    BY <2>1
<1>2. \A l \in U : rows[l].created \in Nat /\ rows[l].created < rows[c].created
  BY DEF Tidy
<1>3. rows[c].created \in Nat
  BY DEF Tidy
<1>4. PICK d \in U : \A l \in U : rows[l].created <= rows[d].created
  <2> HIDE DEF U
  <2> QED
    BY <1>1, <1>2, <1>3, YoungestOf
<1>5. U = {l \in Candidates(rows) : rows[l].created <= rows[d].created}
  BY <1>2, <1>3, <1>4 DEF Tidy
<1>6. Reach(rows, d) = From(rows, c)
  BY <1>5 DEF Reach, From
<1> QED
  BY <1>4, <1>6

LEMMA Covered ==
  ASSUME NEW rows, NEW now \in Nat, Tidy(rows, now),
         NEW b \in Nat, b < TotalShare(rows, Candidates(rows))
  PROVE  \E d \in Candidates(rows) : b < Reach(rows, d)
<1>1. Candidates(rows) # {}
  BY ShareAdds DEF Tidy
<1>2. PICK d \in Candidates(rows) : \A l \in Candidates(rows) : rows[l].created <= rows[d].created
  BY <1>1, YoungestOf DEF Tidy
<1>3. Candidates(rows) = {l \in Candidates(rows) : rows[l].created <= rows[d].created}
  BY <1>2
<1>4. Reach(rows, d) = TotalShare(rows, Candidates(rows))
  BY <1>3 DEF Reach
<1> QED
  BY <1>4

\* A session is routed to a candidate when its bucket lies in the candidate's slice.
LEMMA CandidateServed ==
  ASSUME NEW rows, NEW now \in Nat, Tidy(rows, now), NoVariant \notin DOMAIN rows,
         NEW c \in Candidates(rows), NEW b \in Nat
  PROVE  Route(rows, b) = c <=> From(rows, c) <= b /\ b < Reach(rows, c)
<1> DEFINE hit == {d \in Candidates(rows) : b < Reach(rows, d)}
<1>1. /\ hit # {} => Route(rows, b) = Oldest(rows, hit)
      /\ hit = {} /\ Champions(rows) # {} => Route(rows, b) = Oldest(rows, Champions(rows))
      /\ hit = {} /\ Champions(rows) = {} => Route(rows, b) = NoVariant
  BY DEF Route
<1>2. \A d \in hit : d \in Candidates(rows) /\ rows[d].created \in Nat
  BY DEF Tidy
<1>3. From(rows, c) \in Nat /\ rows[c].created \in Nat
  BY SliceOf DEF Tidy
<1>4. hit # {} => /\ Oldest(rows, hit) \in hit
                  /\ \A m \in hit : rows[Oldest(rows, hit)].created <= rows[m].created
  <2> HIDE DEF hit
  <2> QED
    BY <1>2, OldestOf
<1>5. ASSUME Route(rows, b) = c PROVE From(rows, c) <= b /\ b < Reach(rows, c)
  <2>1. hit # {}
    <3>1. c # NoVariant /\ c \notin Champions(rows)
      BY DEF Candidates, Champions
    <3>2. CASE Champions(rows) # {} /\ hit = {}
      <4>1. Oldest(rows, Champions(rows)) \in Champions(rows)
        BY <3>2, OldestOf DEF Tidy
      <4> QED
        BY <1>1, <1>5, <3>1, <3>2, <4>1
    <3> QED
      BY <1>1, <1>5, <3>1, <3>2
  <2>2. c \in hit /\ \A m \in hit : rows[c].created <= rows[m].created
    BY <1>1, <1>4, <1>5, <2>1
  <2>3. ASSUME b < From(rows, c) PROVE FALSE
    <3>1. PICK d \in Candidates(rows) : rows[d].created < rows[c].created /\ b < Reach(rows, d)
      BY <2>3, CoveredBefore
    <3> QED
      BY <1>2, <1>3, <2>2, <3>1
  <2> QED
    BY <1>3, <2>2, <2>3
<1>6. ASSUME From(rows, c) <= b, b < Reach(rows, c) PROVE Route(rows, b) = c
  <2>1. c \in hit
    BY <1>6
  <2>2. ASSUME NEW m \in hit, rows[m].created < rows[c].created PROVE FALSE
    <3>1. Reach(rows, m) <= From(rows, c) /\ b < Reach(rows, m) /\ Reach(rows, m) \in Nat
      BY <2>2, SliceOf
    <3> QED
      BY <1>3, <1>6, <3>1
  <2>3. PICK o \in hit : o = Oldest(rows, hit)
    BY <1>4, <2>1
  <2>4. rows[o].created <= rows[c].created
    BY <1>4, <2>1, <2>3
  <2>5. rows[o].created = rows[c].created
    BY <1>2, <1>3, <2>2, <2>4
  <2>6. o = c
    BY <1>2, <2>5 DEF Tidy
  <2> QED
    BY <1>1, <2>1, <2>3, <2>6
<1> QED
  BY <1>5, <1>6

\* The champion is what is left.
LEMMA ChampionServed ==
  ASSUME NEW rows, NEW now \in Nat, Tidy(rows, now),
         NEW c \in Champions(rows), NEW b \in Nat
  PROVE  Route(rows, b) = c <=> TotalShare(rows, Candidates(rows)) <= b
<1> DEFINE hit == {d \in Candidates(rows) : b < Reach(rows, d)}
<1>1. /\ hit # {} => Route(rows, b) = Oldest(rows, hit)
      /\ hit = {} => Route(rows, b) = Oldest(rows, Champions(rows))
  BY DEF Route
<1>2. TotalShare(rows, Candidates(rows)) \in Nat
  BY ShareAdds DEF Tidy
<1>3. Oldest(rows, Champions(rows)) = c
  <2>1. \A d \in Champions(rows) : d = c
    BY DEF Tidy
  <2>2. \A d \in Champions(rows) : rows[d].created \in Nat
    BY DEF Tidy
  <2>3. Oldest(rows, Champions(rows)) \in Champions(rows)
    BY <2>2, OldestOf
  <2> QED
    BY <2>1, <2>3
<1>4. CASE TotalShare(rows, Candidates(rows)) <= b
  <2>1. ASSUME NEW d \in Candidates(rows), b < Reach(rows, d) PROVE FALSE
    <3>1. Reach(rows, d) <= TotalShare(rows, Candidates(rows)) /\ Reach(rows, d) \in Nat
      BY SliceOf
    <3> QED
      BY <1>2, <1>4, <2>1, <3>1
  <2>2. hit = {}
    BY <2>1
  <2> QED
    BY <1>1, <1>3, <1>4, <2>2
<1>5. CASE b < TotalShare(rows, Candidates(rows))
  <2>1. hit # {}
    BY <1>5, Covered
  <2>2. \A d \in hit : d \in Candidates(rows) /\ rows[d].created \in Nat
    BY DEF Tidy
  <2>3. Oldest(rows, hit) \in hit
    <3> HIDE DEF hit
    <3> QED
      BY <2>1, <2>2, OldestOf
  <2>4. Oldest(rows, hit) \in Candidates(rows) /\ c \notin Candidates(rows)
    BY <2>3 DEF Candidates, Champions
  <2> QED
    BY <1>1, <1>2, <1>5, <2>1, <2>4
<1> QED
  BY <1>2, <1>4, <1>5

\* So a candidate gets its percentage of the buckets and the champion the rest.
LEMMA SharesOf ==
  ASSUME NEW rows, NEW now \in Nat, Tidy(rows, now), NoVariant \notin DOMAIN rows
  PROVE  /\ \A c \in Candidates(rows) : Cardinality(Served(rows, c)) = rows[c].pct
         /\ \A c \in Champions(rows) :
              Cardinality(Served(rows, c)) = Full - TotalShare(rows, Candidates(rows))
<1>1. /\ TotalShare(rows, Candidates(rows)) \in Nat
      /\ TotalShare(rows, Candidates(rows)) <= Full /\ Full \in Nat
  BY FullAssumption, ShareAdds DEF Tidy
<1>2. ASSUME NEW c \in Candidates(rows) PROVE Cardinality(Served(rows, c)) = rows[c].pct
  <2>1. /\ From(rows, c) \in Nat /\ Reach(rows, c) \in Nat
        /\ Reach(rows, c) = From(rows, c) + rows[c].pct
        /\ Reach(rows, c) <= TotalShare(rows, Candidates(rows))
        /\ rows[c].pct \in Nat
    BY SliceOf DEF Tidy, Counted
  <2>2. \A b \in Bucket : b \in Nat
    BY DEF Bucket
  <2>3. \A b \in Bucket : b \in Served(rows, c) <=> From(rows, c) <= b /\ b < Reach(rows, c)
    BY <2>2, CandidateServed DEF Served
  <2>4. Served(rows, c) = From(rows, c)..(Reach(rows, c) - 1)
    BY <1>1, <2>1, <2>3 DEF Served, Bucket
  <2>5. PICK m, n : m = From(rows, c) /\ n = Reach(rows, c) - 1
    OBVIOUS
  <2>6. m \in Int /\ n \in Int /\ (IF m > n THEN 0 ELSE n - m + 1) = rows[c].pct
    BY <2>1, <2>5
  <2> QED
    BY <2>4, <2>5, <2>6, FS_Interval
<1>3. ASSUME NEW c \in Champions(rows)
      PROVE  Cardinality(Served(rows, c)) = Full - TotalShare(rows, Candidates(rows))
  <2>1. \A b \in Bucket : b \in Nat
    BY DEF Bucket
  <2>2. \A b \in Bucket :
          b \in Served(rows, c) <=> TotalShare(rows, Candidates(rows)) <= b
    BY <2>1, ChampionServed DEF Served
  <2>3. Served(rows, c) = TotalShare(rows, Candidates(rows))..(Full - 1)
    BY <1>1, <2>2 DEF Served, Bucket
  <2>4. PICK m, n : m = TotalShare(rows, Candidates(rows)) /\ n = Full - 1
    OBVIOUS
  <2>5. m \in Int /\ n \in Int /\ (IF m > n THEN 0 ELSE n - m + 1) = Full - m
    BY <1>1, <2>4
  <2> QED
    BY <2>3, <2>4, <2>5, FS_Interval
<1> QED
  BY <1>2, <1>3

\* One row of a stage changes, or some leave the candidates.
LEMMA TidyStays ==
  ASSUME NEW rows, NEW now \in Nat, Tidy(rows, now), NEW new, NEW then \in Nat, now <= then,
         NEW k, Candidates(new) \ {k} \subseteq Candidates(rows),
         \A c \in Candidates(new) \ {k} :
           new[c].pct = rows[c].pct /\ new[c].created = rows[c].created,
         k \in Candidates(new) =>
           /\ new[k].pct \in Nat /\ new[k].created \in Nat /\ new[k].created < then
           /\ \A c \in Candidates(rows) \ {k} : rows[c].created # new[k].created
           /\ new[k].pct + TotalShare(rows, Candidates(rows) \ {k}) <= Full,
         \A c \in Champions(new) : new[c].created \in Nat,
         \A c, d \in Champions(new) : c = d
  PROVE  Tidy(new, then)
<1> DEFINE T == Candidates(new) \ {k}
<1>1. T \in SUBSET Candidates(rows) /\ T \in SUBSET (Candidates(rows) \ {k})
  OBVIOUS
<1>2. Counted(rows, Candidates(rows)) /\ Counted(rows, T)
  BY <1>1, FewerCounted DEF Tidy
<1>3. Counted(new, T)
  BY <1>2 DEF Counted
<1>4. Counted(new, Candidates(new))
  <2>1. CASE k \in Candidates(new)
    <3>1. Candidates(new) = T \cup {k}
      BY <2>1
    <3>2. IsFiniteSet(T \cup {k})
      <4> HIDE DEF T
      <4> QED
        BY <1>3, FS_AddElement DEF Counted
    <3> QED
      BY <1>3, <2>1, <3>1, <3>2 DEF Counted
  <2>2. CASE k \notin Candidates(new)
    <3>1. Candidates(new) = T
      BY <2>2
    <3> QED
      BY <1>3, <3>1
  <2> QED
    BY <2>1, <2>2
<1>5. \A c \in Candidates(new) : new[c].created \in Nat /\ new[c].created < then
  BY DEF Tidy
<1>6. \A c, d \in Candidates(new) : new[c].created = new[d].created => c = d
  <2> SUFFICES ASSUME NEW c \in Candidates(new), NEW d \in Candidates(new),
                      new[c].created = new[d].created, c # d
               PROVE  FALSE
    OBVIOUS
  <2>1. CASE c # k /\ d # k
    BY <2>1 DEF Tidy
  <2>2. CASE c = k
    BY <2>2
  <2>3. CASE d = k
    BY <2>3
  <2> QED
    BY <2>1, <2>2, <2>3
<1>7. TotalShare(new, T) = TotalShare(rows, T) /\ TotalShare(rows, T) \in Nat
  <2>1. \A l \in T : new[l].pct = rows[l].pct
    OBVIOUS
  <2> HIDE DEF T
  <2> QED
    BY <1>2, <2>1, ShareAgrees, ShareAdds
<1>8. TotalShare(new, Candidates(new)) <= Full
  <2>1. CASE k \in Candidates(new)
    <3>1. TotalShare(new, Candidates(new)) = new[k].pct + TotalShare(new, Candidates(new) \ {k})
      BY <1>4, <2>1, ShareAdds
    <3>2. Counted(rows, Candidates(rows) \ {k})
      BY <1>2, FewerCounted
    <3>3. /\ TotalShare(rows, T) <= TotalShare(rows, Candidates(rows) \ {k})
          /\ TotalShare(rows, Candidates(rows) \ {k}) \in Nat
      <4> HIDE DEF T
      <4> QED
        BY <1>1, <3>2, ShareBelow, ShareAdds
    <3>4. PICK a, b, p : a = TotalShare(rows, T) /\ b = TotalShare(rows, Candidates(rows) \ {k})
                         /\ p = new[k].pct
      OBVIOUS
    <3>5. TotalShare(new, Candidates(new)) = p + a /\ p + b <= Full /\ a <= b
          /\ a \in Nat /\ b \in Nat /\ p \in Nat
      BY <1>7, <2>1, <3>1, <3>3, <3>4
    <3> QED
      BY <3>5, FullAssumption
  <2>2. CASE k \notin Candidates(new)
    <3>1. Candidates(new) = T
      BY <2>2
    <3>2. TotalShare(rows, T) <= TotalShare(rows, Candidates(rows))
      <4> HIDE DEF T
      <4> QED
        BY <1>1, <1>2, ShareBelow
    <3>3. TotalShare(rows, Candidates(rows)) \in Nat /\ TotalShare(rows, Candidates(rows)) <= Full
      BY <1>2, ShareAdds DEF Tidy
    <3>4. TotalShare(new, Candidates(new)) = TotalShare(rows, T)
      BY <1>7, <3>1
    <3> QED
      BY <1>7, <3>2, <3>3, <3>4, FullAssumption
  <2> QED
    BY <2>1, <2>2
<1> QED
  BY <1>4, <1>5, <1>6, <1>8 DEF Tidy

-----------------------------------------------------------------------------
(* The invariant: what the tables keep to between requests, and what the       *)
(* statement a request is about to run relies on from those before it.         *)

OneThread == \E t : Thread = {t}

Settled(s) ==
  /\ \A p, q \in CertifiedIn(s) : p = q
  /\ Tidy(variants[s], clock)

\* No candidate has the time stamp the rollout is about to give.
Fresh(stamp) ==
  /\ stamp < clock
  /\ \A s \in Stage : \A c \in Candidates(variants[s]) : variants[s][c].created # stamp

Relies(x, l) ==
  LET rows == variants[l.stage] IN
  /\ x \in {"certifyPrev", "certify"} => prompts[l.prompt].stage = l.stage
  /\ x = "certify" => CertifiedIn(l.stage) \subseteq {l.prev}
  /\ x \in {"startLabel", "startTotal", "startInsert"} => Fresh(l.stamp)
  /\ x = "startInsert" => TotalShare(rows, Candidates(rows)) + l.pct <= Full
  /\ x \in {"adjustTotal", "adjust", "promoteOld", "promote"} => l.label \in Candidates(rows)
  /\ x \in {"adjustTotal", "adjust", "retire"} => l.row = rows[l.label]
  /\ x = "adjust" => TotalShare(rows, Candidates(rows) \ {l.label}) + l.pct <= Full
  /\ x = "promote" => Champions(rows) \subseteq {l.old}

OInv ==
  /\ \A s \in Stage : Settled(s)
  /\ boot.at = "certify" => prompts[boot.record].stage = boot.stage
  /\ \A t \in Thread : Relies(pc[t], loc[t])

-----------------------------------------------------------------------------
(* Steps. *)

LEMMA TidyLater ==
  ASSUME NEW rows, NEW now \in Nat, Tidy(rows, now), NEW then \in Nat, now <= then
  PROVE  Tidy(rows, then)
BY DEF Tidy

\* A step of the thread.
LEMMA AloneStep ==
  ASSUME RInv, NEW t, Thread = {t}, NEW x, NEW l, Go(t, x, l), boot'.at # "certify",
         \A s \in Stage : Settled(s)', Relies(x, l)'
  PROVE  OInv'
<1>1. pc' = [pc EXCEPT ![t] = x] /\ loc' = [loc EXCEPT ![t] = l]
      /\ t \in DOMAIN pc /\ t \in DOMAIN loc
  BY DEF Go, RInv, TypeOK
<1>2. pc'[t] = x /\ loc'[t] = l
  BY <1>1
<1>3. \A u \in Thread : Relies(pc[u], loc[u])'
  BY <1>2 DEF Relies, Fresh, CertifiedIn
<1> QED
  BY <1>3 DEF OInv

LEMMA SettledStays ==
  ASSUME RInv, OInv, UNCHANGED tables, clock' \in Nat, clock <= clock', NEW s \in Stage
  PROVE  Settled(s)'
<1>1. clock \in Nat /\ Settled(s)
  BY DEF RInv, TypeOK, OInv
<1>2. Tidy(variants[s], clock')
  BY <1>1, TidyLater DEF Settled
<1>3. variants' = variants /\ CertifiedIn(s)' = CertifiedIn(s)
  BY DEF tables, CertifiedIn
<1> QED
  BY <1>1, <1>2, <1>3 DEF Settled

\* A step that changes no table.
LEMMA LookStep ==
  ASSUME RInv, OInv, NEW t, Thread = {t}, NEW x, NEW l, Go(t, x, l), UNCHANGED <<tables, clock>>,
         boot'.at # "certify", Relies(x, l)
  PROVE  OInv'
<1>1. clock' \in Nat /\ clock <= clock'
  BY DEF RInv, TypeOK
<1>2. \A s \in Stage : Settled(s)'
  BY <1>1, SettledStays
<1>3. Relies(x, l)'
  BY DEF Relies, Fresh, CertifiedIn, tables
<1> QED
  BY <1>2, <1>3, AloneStep

\* A commit that changes the prompts.
LEMMA PromptsStep ==
  ASSUME RInv, OInv, NEW t, Thread = {t}, End(t), UNCHANGED <<variants, clock>>,
         boot'.at # "certify",
         \A s \in Stage : \A p, q \in CertifiedIn(s)' : p = q
  PROVE  OInv'
<1>1. \A s \in Stage : Settled(s)'
  BY DEF OInv, Settled
<1>2. Relies("idle", Blank)'
  BY DEF Relies
<1> QED
  BY <1>1, <1>2, AloneStep DEF End

\* A commit that changes the rows of a stage.
LEMMA RowsStep ==
  ASSUME RInv, OInv, NEW t, Thread = {t}, NEW x \in {"idle", "invalidate"}, NEW l, Go(t, x, l),
         UNCHANGED <<prompts, clock>>, boot'.at # "certify",
         NEW s \in Stage, NEW rows, variants' = [variants EXCEPT ![s] = rows], Tidy(rows, clock)
  PROVE  OInv'
<1>1. ASSUME NEW r \in Stage PROVE Settled(r)'
  <2>1. variants'[r] = IF r = s THEN rows ELSE variants[r]
    BY DEF RInv, TypeOK
  <2>2. Tidy(variants'[r], clock)
    BY <2>1 DEF OInv, Settled
  <2>3. CertifiedIn(r)' = CertifiedIn(r)
    BY DEF CertifiedIn
  <2> QED
    BY <2>2, <2>3 DEF OInv, Settled
<1>2. Relies(x, l)'
  BY DEF Relies
<1> QED
  BY <1>1, <1>2, AloneStep
-----------------------------------------------------------------------------
(* Requests on prompts. *)

\* Certifying the target leaves it the only certified prompt of its stage.
LEMMA CertifiedAlways ==
  ASSUME prompts \in [Prompt -> PromptRow], NEW target \in Prompt, NEW s \in Stage,
         prompts[target].stage = s, NEW prev, CertifiedIn(s) \subseteq {prev},
         \A r \in Stage : \A p, q \in CertifiedIn(r) : p = q,
         prompts' = Certified(target, prev)
  PROVE  \A r \in Stage : \A p, q \in CertifiedIn(r)' : p = q
<1> DEFINE old == [p \in Prompt |-> IF p = prev THEN [prompts[p] EXCEPT !.status = "deprecated"]
                                    ELSE prompts[p]]
<1>1. prompts' = [old EXCEPT ![target].status = "certified"]
  BY DEF Certified
<1>2. old \in [Prompt -> PromptRow] /\ old[target].stage = s
  BY DEF PromptRow, PromptStatus
<1>3. \A p \in Prompt : old[p].status = "certified" => p # prev /\ old[p] = prompts[p]
  BY DEF PromptRow
<1> HIDE DEF old
<1>4. \A p \in Prompt : p # target => prompts'[p] = old[p]
  BY <1>1, <1>2
<1>5. prompts'[target].stage = s
  BY <1>1, <1>2 DEF PromptRow
<1>6. ASSUME NEW r \in Stage, NEW p \in CertifiedIn(r)', p # target
      PROVE  p \in CertifiedIn(r) /\ r # s
  <2>1. p \in Prompt /\ old[p].status = "certified" /\ old[p].stage = r
    BY <1>4, <1>6 DEF CertifiedIn
  <2>2. p # prev /\ p \in CertifiedIn(r)
    BY <1>3, <2>1 DEF CertifiedIn
  <2> QED
    BY <2>2
<1>7. \A r \in Stage : target \in CertifiedIn(r)' => r = s
  BY <1>5 DEF CertifiedIn
<1> QED
  BY <1>6, <1>7

LEMMA FirstIsAll ==
  ASSUME NEW S, \A p, q \in S : p = q, NEW none, NEW p \in FirstOf(S, none)
  PROVE  S \subseteq {p}
BY DEF FirstOf

LEMMA PromptRequestOrders ==
  ASSUME RInv, OInv, NEW t, Thread = {t}, PromptRequest(t)
  PROVE  OInv'
<1>0. /\ t \in Thread /\ prompts \in [Prompt -> PromptRow] /\ (pc[t] # "idle" => boot.at = "up")
      /\ \A s \in Stage : \A p, q \in CertifiedIn(s) : p = q
      /\ Relies(pc[t], loc[t])
  BY DEF RInv, TypeOK, Starting, OInv, Settled
<1>1. CASE CreateRead(t)
  <2>1. PICK p \in Prompt, s \in Stage :
          /\ Request(t)
          /\ Go(t, "insert", [Blank EXCEPT !.prompt = p, !.stage = s])
          /\ UNCHANGED <<tables, caches, boot, clock>>
    BY <1>1 DEF CreateRead
  <2>2. PICK l : l = [Blank EXCEPT !.prompt = p, !.stage = s]
    OBVIOUS
  <2>3. Relies("insert", l)
    BY DEF Relies
  <2>4. boot'.at # "certify"
    BY <2>1 DEF Request, Ready
  <2> QED
    BY <2>1, <2>2, <2>3, <2>4, LookStep
<1>2. CASE CreateInsert(t)
  <2>1. /\ pc[t] = "insert" /\ End(t) /\ UNCHANGED <<variants, caches, boot, clock, started>>
        /\ \/ prompts' = prompts
           \/ prompts' = [prompts EXCEPT ![loc[t].prompt] =
                            [status |-> "draft", stage |-> loc[t].stage]]
    BY <1>2 DEF CreateInsert
  <2>2. \A s \in Stage : CertifiedIn(s)' \subseteq CertifiedIn(s)
    BY <1>0, <2>1 DEF CertifiedIn
  <2> QED
    BY <1>0, <2>1, <2>2, PromptsStep
<1>3. CASE CertifyRead(t)
  <2>1. PICK p \in Prompt :
          /\ Request(t)
          /\ Go(t, "certifyPrev", [Blank EXCEPT !.prompt = p, !.stage = prompts[p].stage])
          /\ UNCHANGED <<tables, caches, boot, clock>>
    BY <1>3 DEF CertifyRead
  <2>2. PICK l : l = [Blank EXCEPT !.prompt = p, !.stage = prompts[p].stage]
    OBVIOUS
  <2>3. l.prompt = p /\ l.stage = prompts[p].stage
    BY <2>2 DEF Blank
  <2>4. Relies("certifyPrev", l)
    BY <2>3 DEF Relies
  <2>5. boot'.at # "certify"
    BY <2>1 DEF Request, Ready
  <2> QED
    BY <2>1, <2>2, <2>4, <2>5, LookStep
<1>4. CASE CertifyPrev(t)
  <2>1. PICK p \in FirstOf(CertifiedIn(loc[t].stage), NoPrompt) :
          Go(t, "certify", [loc[t] EXCEPT !.prev = p])
    BY <1>4 DEF CertifyPrev
  <2>2. /\ pc[t] = "certifyPrev" /\ UNCHANGED <<tables, caches, boot, clock, started>>
        /\ loc[t] \in Locals
    BY <1>0, <1>4, Works DEF CertifyPrev
  <2>3. PICK l : l = [loc[t] EXCEPT !.prev = p]
    OBVIOUS
  <2>4. l.prompt = loc[t].prompt /\ l.stage = loc[t].stage /\ l.prev = p /\ l.stage \in Stage
    BY <2>2, <2>3 DEF Locals
  <2>5. prompts[l.prompt].stage = l.stage
    BY <1>0, <2>2, <2>4 DEF Relies
  <2>6. CertifiedIn(l.stage) \subseteq {l.prev}
    BY <1>0, <2>1, <2>4, FirstIsAll
  <2>7. Relies("certify", l)
    BY <2>5, <2>6 DEF Relies
  <2>8. boot'.at # "certify"
    BY <1>0, <2>2
  <2> QED
    BY <2>1, <2>2, <2>3, <2>7, <2>8, LookStep
<1>5. CASE CertifyCommit(t)
  <2>1. /\ pc[t] = "certify" /\ prompts' = Certified(loc[t].prompt, loc[t].prev)
        /\ End(t) /\ UNCHANGED <<variants, caches, boot, clock, started>>
    BY <1>5 DEF CertifyCommit
  <2>2. loc[t].prompt \in Prompt /\ loc[t].stage \in Stage
    BY <1>0, <2>1, Works DEF Fits, Locals
  <2>3. prompts[loc[t].prompt].stage = loc[t].stage /\ CertifiedIn(loc[t].stage) \subseteq {loc[t].prev}
    BY <1>0, <2>1 DEF Relies
  <2>4. PICK p, q, s : p = loc[t].prompt /\ q = loc[t].prev /\ s = loc[t].stage
    OBVIOUS
  <2>5. \A r \in Stage : \A m, n \in CertifiedIn(r)' : m = n
    BY <1>0, <2>1, <2>2, <2>3, <2>4, CertifiedAlways
  <2> QED
    BY <1>0, <2>1, <2>5, PromptsStep
<1>6. CASE DeprecateRead(t)
  <2>1. PICK p \in Prompt :
          /\ Request(t)
          /\ Go(t, "deprecate", [Blank EXCEPT !.prompt = p, !.status = prompts[p].status])
          /\ UNCHANGED <<tables, caches, boot, clock>>
    BY <1>6 DEF DeprecateRead
  <2>2. PICK l : l = [Blank EXCEPT !.prompt = p, !.status = prompts[p].status]
    OBVIOUS
  <2>3. Relies("deprecate", l)
    BY DEF Relies
  <2>4. boot'.at # "certify"
    BY <2>1 DEF Request, Ready
  <2> QED
    BY <2>1, <2>2, <2>3, <2>4, LookStep
<1>7. CASE DeprecateCommit(t)
  <2>1. /\ pc[t] = "deprecate" /\ End(t) /\ UNCHANGED <<variants, caches, boot, clock, started>>
        /\ \/ prompts' = prompts
           \/ prompts' = [prompts EXCEPT ![loc[t].prompt].status = "deprecated"]
    BY <1>7 DEF DeprecateCommit
  <2>2. \A p \in Prompt : prompts'[p] = prompts[p] \/ prompts'[p].status = "deprecated"
    BY <1>0, <2>1 DEF PromptRow
  <2>3. \A s \in Stage : CertifiedIn(s)' \subseteq CertifiedIn(s)
    BY <2>2 DEF CertifiedIn
  <2> QED
    BY <1>0, <2>1, <2>3, PromptsStep
<1> QED
  BY <1>1, <1>2, <1>3, <1>4, <1>5, <1>6, <1>7 DEF PromptRequest

-----------------------------------------------------------------------------
(* Requests on variants. *)

LEMMA CandidatesOf ==
  ASSUME NEW rows \in Rows
  PROVE  \A k : k \in Candidates(rows) <=> k \in AnyLabel /\ rows[k].status = "candidate"
BY DEF Candidates, Rows

LEMMA VariantReadsOrder ==
  ASSUME RInv, OInv, NEW t, Thread = {t},
         StartRead(t) \/ AdjustRead(t) \/ PromoteRead(t) \/ RetireRead(t)
  PROVE  OInv'
<1>0. /\ t \in Thread /\ variants \in [Stage -> Rows] /\ clock \in Nat
      /\ \A s \in Stage : Tidy(variants[s], clock)
  BY DEF RInv, TypeOK, OInv, Settled
<1>1. CASE StartRead(t)
  <2>1. PICK s \in Stage, p \in Prompt, k \in Label, pct \in 1..(Full - 1) :
          /\ Request(t)
          /\ Go(t, "startLabel", [Blank EXCEPT !.stage = s, !.prompt = p, !.label = k,
                                               !.pct = pct, !.stamp = clock])
          /\ clock' = clock + 1
          /\ UNCHANGED <<tables, caches, boot>>
    BY <1>1 DEF StartRead
  <2>2. PICK l : l = [Blank EXCEPT !.stage = s, !.prompt = p, !.label = k,
                                   !.pct = pct, !.stamp = clock]
    OBVIOUS
  <2>3. l.stamp = clock
    BY <2>2 DEF Blank
  <2>4. clock' \in Nat /\ clock <= clock' /\ variants' = variants
    BY <1>0, <2>1 DEF tables
  <2>5. \A r \in Stage : Settled(r)'
    BY <2>1, <2>4, SettledStays
  <2>6. clock < clock'
    BY <1>0, <2>1
  <2>7. \A r \in Stage : \A c \in Candidates(variants[r]) : variants[r][c].created # clock
    BY <1>0 DEF Tidy
  <2>8. Fresh(l.stamp)'
    BY <2>3, <2>4, <2>6, <2>7 DEF Fresh
  <2>9. Relies("startLabel", l)'
    BY <2>8 DEF Relies
  <2>10. boot'.at # "certify"
    BY <2>1 DEF Request, Ready
  <2> QED
    BY <2>1, <2>2, <2>5, <2>9, <2>10, AloneStep
<1>2. CASE AdjustRead(t)
  <2>1. PICK s \in Stage, k \in AnyLabel, pct \in 0..(Full - 1) :
          /\ Request(t)
          /\ variants[s][k].status = "candidate"
          /\ Go(t, "adjustTotal", [Blank EXCEPT !.stage = s, !.label = k, !.pct = pct,
                                                !.row = variants[s][k]])
          /\ UNCHANGED <<tables, caches, boot, clock>>
    BY <1>2 DEF AdjustRead
  <2>2. PICK l : l = [Blank EXCEPT !.stage = s, !.label = k, !.pct = pct,
                                   !.row = variants[s][k]]
    OBVIOUS
  <2>3. l.stage = s /\ l.label = k /\ l.row = variants[s][k]
    BY <2>2 DEF Blank
  <2>4. k \in Candidates(variants[s])
    BY <1>0, <2>1, CandidatesOf
  <2>5. Relies("adjustTotal", l)
    BY <2>3, <2>4 DEF Relies
  <2>6. boot'.at # "certify"
    BY <2>1 DEF Request, Ready
  <2> QED
    BY <2>1, <2>2, <2>5, <2>6, LookStep
<1>3. CASE PromoteRead(t)
  <2>1. PICK s \in Stage, k \in AnyLabel :
          /\ Request(t)
          /\ variants[s][k].status = "candidate"
          /\ Go(t, "promoteOld", [Blank EXCEPT !.stage = s, !.label = k])
          /\ UNCHANGED <<tables, caches, boot, clock>>
    BY <1>3 DEF PromoteRead
  <2>2. PICK l : l = [Blank EXCEPT !.stage = s, !.label = k]
    OBVIOUS
  <2>3. l.stage = s /\ l.label = k
    BY <2>2 DEF Blank
  <2>4. k \in Candidates(variants[s])
    BY <1>0, <2>1, CandidatesOf
  <2>5. Relies("promoteOld", l)
    BY <2>3, <2>4 DEF Relies
  <2>6. boot'.at # "certify"
    BY <2>1 DEF Request, Ready
  <2> QED
    BY <2>1, <2>2, <2>5, <2>6, LookStep
<1>4. CASE RetireRead(t)
  <2>1. PICK s \in Stage, k \in AnyLabel :
          /\ Request(t)
          /\ Go(t, "retire", [Blank EXCEPT !.stage = s, !.label = k, !.row = variants[s][k]])
          /\ UNCHANGED <<tables, caches, boot, clock>>
    BY <1>4 DEF RetireRead
  <2>2. PICK l : l = [Blank EXCEPT !.stage = s, !.label = k, !.row = variants[s][k]]
    OBVIOUS
  <2>3. l.stage = s /\ l.label = k /\ l.row = variants[s][k]
    BY <2>2 DEF Blank
  <2>4. Relies("retire", l)
    BY <2>3 DEF Relies
  <2>5. boot'.at # "certify"
    BY <2>1 DEF Request, Ready
  <2> QED
    BY <2>1, <2>2, <2>4, <2>5, LookStep
<1> QED
  BY <1>1, <1>2, <1>3, <1>4

\* The statements between the first of a request and its commit.
LEMMA VariantChecksOrder ==
  ASSUME RInv, OInv, NEW t, Thread = {t},
         \/ StartLabel(t) \/ StartTotal(t) \/ AdjustTotal(t) \/ PromoteOld(t)
         \/ Invalidate(t)
  PROVE  OInv'
<1>0. /\ t \in Thread /\ pc[t] # "idle" /\ UNCHANGED <<tables, boot, clock>>
  BY DEF StartLabel, StartTotal, AdjustTotal, PromoteOld, Invalidate, tables, caches
<1>1. /\ boot'.at # "certify" /\ loc[t] \in Locals /\ Relies(pc[t], loc[t])
      /\ Relies("idle", Blank)
  BY <1>0, Works DEF OInv, Relies
<1>2. CASE End(t)
  BY <1>0, <1>1, <1>2, LookStep DEF End
<1>3. CASE StartLabel(t) /\ ~End(t)
  <2>1. Go(t, "startTotal", loc[t]) /\ pc[t] = "startLabel"
    BY <1>3 DEF StartLabel
  <2>2. Relies("startTotal", loc[t])
    BY <1>1, <2>1 DEF Relies
  <2> QED
    BY <1>0, <1>1, <2>1, <2>2, LookStep
<1>4. CASE StartTotal(t) /\ ~End(t)
  <2> DEFINE sum == TotalShare(variants[loc[t].stage], Candidates(variants[loc[t].stage]))
  <2>1. /\ Go(t, "startInsert", loc[t]) /\ pc[t] = "startTotal"
        /\ ~ (sum + loc[t].pct > Full)
    BY <1>4 DEF StartTotal
  <2>2. sum \in Nat
    BY <1>1, ShareAdds DEF OInv, Settled, Tidy, Locals
  <2>3. loc[t].pct \in Nat
    BY <1>1, FullAssumption DEF Locals
  <2>4. sum + loc[t].pct <= Full
    <3> HIDE DEF sum
    <3> QED
      BY <2>1, <2>2, <2>3, FullAssumption
  <2>5. Relies("startInsert", loc[t])
    BY <1>1, <2>1, <2>4 DEF Relies
  <2> QED
    BY <1>0, <1>1, <2>1, <2>5, LookStep
<1>5. CASE AdjustTotal(t) /\ ~End(t)
  <2> DEFINE rows == variants[loc[t].stage]
             sum == TotalShare(rows, Candidates(rows) \ {loc[t].label})
  <2>1. /\ Go(t, "adjust", loc[t]) /\ pc[t] = "adjustTotal"
        /\ ~ (sum + loc[t].pct > Full)
    BY <1>5 DEF AdjustTotal
  <2>2. sum \in Nat
    <3>1. Counted(rows, Candidates(rows))
      BY <1>1 DEF OInv, Settled, Tidy, Locals
    <3>2. Counted(rows, Candidates(rows) \ {loc[t].label})
      BY <3>1, FewerCounted
    <3> QED
      BY <3>2, ShareAdds
  <2>3. loc[t].pct \in Nat
    BY <1>1, FullAssumption DEF Locals
  <2>4. sum + loc[t].pct <= Full
    <3> HIDE DEF sum
    <3> QED
      BY <2>1, <2>2, <2>3, FullAssumption
  <2>5. Relies("adjust", loc[t])
    BY <1>1, <2>1, <2>4 DEF Relies
  <2> QED
    BY <1>0, <1>1, <2>1, <2>5, LookStep
<1>6. CASE PromoteOld(t) /\ ~End(t)
  <2>1. PICK o \in FirstOf(Champions(variants[loc[t].stage]), NoVariant) :
          Go(t, "promote", [loc[t] EXCEPT !.old = o])
    BY <1>6 DEF PromoteOld
  <2>2. pc[t] = "promoteOld"
    BY <1>6 DEF PromoteOld
  <2>3. PICK l : l = [loc[t] EXCEPT !.old = o]
    OBVIOUS
  <2>4. l.stage = loc[t].stage /\ l.label = loc[t].label /\ l.old = o /\ l.stage \in Stage
    BY <1>1, <2>3 DEF Locals
  <2>5. \A c, d \in Champions(variants[l.stage]) : c = d
    BY <2>4 DEF OInv, Settled, Tidy
  <2>6. Champions(variants[l.stage]) \subseteq {l.old}
    BY <2>1, <2>4, <2>5, FirstIsAll
  <2>7. l.label \in Candidates(variants[l.stage])
    BY <1>1, <2>2, <2>4 DEF Relies
  <2>8. Relies("promote", l)
    BY <2>6, <2>7 DEF Relies
  <2> QED
    BY <1>0, <1>1, <2>1, <2>3, <2>8, LookStep
<1> QED
  BY <1>2, <1>3, <1>4, <1>5, <1>6 DEF Invalidate
\* What the commits do to the candidates and champions of a stage.
LEMMA AdjustedTidy ==
  ASSUME NEW rows \in Rows, NEW now \in Nat, Tidy(rows, now), NEW k \in Candidates(rows),
         NEW pct \in 0..Full,
         TotalShare(rows, Candidates(rows) \ {k}) + pct <= Full
  PROVE  Tidy(Adjusted(rows, k, rows[k], pct), now)
<1>1. PICK new : new = Adjusted(rows, k, rows[k], pct)
  OBVIOUS
<1>2. k \in AnyLabel /\ rows[k].status # "none"
  BY CandidatesOf
<1>3. new \in Rows
  BY <1>1, <1>2, RowsFollow DEF Follows
<1>4. \A c \in AnyLabel : c # k => new[c] = rows[c]
  BY <1>1 DEF Adjusted, Rows
<1>5. new[k].status = rows[k].status /\ new[k].created = rows[k].created /\ new[k].pct = pct
  BY <1>1, <1>2 DEF Adjusted, Rows, VariantRow
<1>6. Candidates(new) = Candidates(rows) /\ Champions(new) = Champions(rows)
  <2>1. \A c \in AnyLabel : new[c].status = rows[c].status
    BY <1>4, <1>5
  <2> QED
    BY <1>3, <2>1 DEF Candidates, Champions, Rows
<1>7. pct \in Nat /\ TotalShare(rows, Candidates(rows) \ {k}) \in Nat
  <2>1. Counted(rows, Candidates(rows) \ {k})
    BY FewerCounted DEF Tidy
  <2> QED
    BY <2>1, FullAssumption, ShareAdds
<1>8. pct + TotalShare(rows, Candidates(rows) \ {k}) <= Full
  BY <1>7, FullAssumption
<1>9. \A c \in Champions(new) : new[c] = rows[c] /\ new[c].created \in Nat
  BY <1>4, <1>6, CandidatesOf, ChampionsOf DEF Tidy
<1>10. \A c \in Candidates(new) \ {k} :
          new[c].pct = rows[c].pct /\ new[c].created = rows[c].created
  BY <1>4, <1>6, CandidatesOf
<1>11. /\ new[k].created \in Nat /\ new[k].created < now
       /\ \A c \in Candidates(rows) \ {k} : rows[c].created # new[k].created
  BY <1>5 DEF Tidy
<1>12. \A c, d \in Champions(new) : c = d
  BY <1>6 DEF Tidy
<1> QED
  BY <1>1, <1>5, <1>6, <1>7, <1>8, <1>9, <1>10, <1>11, <1>12, TidyStays

LEMMA PromotedTidy ==
  ASSUME NEW rows \in Rows, NEW now \in Nat, Tidy(rows, now), NEW k \in Candidates(rows),
         NEW o, o = NoVariant \/ rows[o].status # "none", Champions(rows) \subseteq {o}
  PROVE  Tidy(Promoted(rows, k, o), now)
<1>1. PICK new : new = Promoted(rows, k, o)
  OBVIOUS
<1>2. k \in AnyLabel /\ rows[k].status # "none" /\ 0 \in 0..Full
  BY CandidatesOf, FullAssumption
<1>3. new \in Rows
  BY <1>1, <1>2, RowsFollow DEF Follows
<1> DEFINE old == [l \in AnyLabel |-> IF l = o THEN [rows[l] EXCEPT !.status = "deprecated"]
                                      ELSE rows[l]]
<1>4. /\ new = [old EXCEPT ![k] = [old[k] EXCEPT !.status = "champion", !.pct = Full]]
      /\ DOMAIN old = AnyLabel
  BY <1>1 DEF Promoted
<1>5. \A c \in AnyLabel : /\ old[c] \in VariantRow
                          /\ c # o => old[c] = rows[c]
                          /\ c = o => old[c].status = "deprecated"
  BY DEF Rows, VariantRow, VariantStatus
<1> HIDE DEF old
<1>6. \A c \in AnyLabel : c # k => new[c] = old[c]
  BY <1>4
<1>7. new[k].status = "champion"
  <2>1. new[k] = [old[k] EXCEPT !.status = "champion", !.pct = Full]
    BY <1>2, <1>4
  <2> QED
    BY <1>2, <1>5, <2>1 DEF VariantRow
<1>8. \A c \in Candidates(new) : c \in Candidates(rows) /\ c # k /\ new[c] = rows[c]
  <2> SUFFICES ASSUME NEW c \in Candidates(new)
               PROVE  c \in Candidates(rows) /\ c # k /\ new[c] = rows[c]
    OBVIOUS
  <2>1. c \in AnyLabel /\ new[c].status = "candidate"
    BY <1>3, CandidatesOf
  <2>2. c # k /\ c # o
    BY <1>5, <1>6, <1>7, <2>1
  <2> QED
    BY <1>5, <1>6, <2>1, <2>2, CandidatesOf
<1>9. Champions(new) \subseteq {k}
  <2> SUFFICES ASSUME NEW c \in Champions(new), c # k PROVE FALSE
    OBVIOUS
  <2>1. c \in AnyLabel /\ new[c].status = "champion" /\ new[c] = old[c]
    BY <1>3, <1>6, ChampionsOf
  <2>2. c # o
    BY <1>5, <2>1
  <2>3. c \in Champions(rows)
    BY <1>5, <2>1, <2>2, ChampionsOf
  <2> QED
    BY <2>2, <2>3
<1>10. \A c \in Champions(new) : new[c].created \in Nat
  BY <1>3, ChampionsOf DEF Rows, VariantRow
<1>11. \A c, d \in Champions(new) : c = d
  BY <1>9
<1>12. k \notin Candidates(new) /\ Candidates(new) \ {k} \subseteq Candidates(rows)
  BY <1>8
<1>13. \A c \in Candidates(new) \ {k} :
          new[c].pct = rows[c].pct /\ new[c].created = rows[c].created
  BY <1>8
<1>14. now <= now
  OBVIOUS
<1> QED
  BY <1>1, <1>10, <1>11, <1>12, <1>13, <1>14, TidyStays

LEMMA DeprecatedTidy ==
  ASSUME NEW rows \in Rows, NEW now \in Nat, Tidy(rows, now), NEW k \in AnyLabel,
         rows[k].status # "none"
  PROVE  Tidy(Deprecated(rows, k, rows[k]), now)
<1>1. PICK new : new = Deprecated(rows, k, rows[k])
  OBVIOUS
<1>2. 0 \in 0..Full
  BY FullAssumption
<1>3. new \in Rows
  BY <1>1, <1>2, RowsFollow DEF Follows
<1>4. \A c \in AnyLabel : c # k => new[c] = rows[c]
  BY <1>1 DEF Deprecated, Rows
<1>5. new[k].status = "deprecated"
  BY <1>1 DEF Deprecated, Rows, VariantRow
<1>6. \A c \in Candidates(new) : c \in Candidates(rows) /\ c # k /\ new[c] = rows[c]
  BY <1>3, <1>4, <1>5, CandidatesOf
<1>7. \A c \in Champions(new) : c \in Champions(rows) /\ new[c].created \in Nat
  BY <1>3, <1>4, <1>5, ChampionsOf DEF Rows, VariantRow
<1>8. \A c, d \in Champions(new) : c = d
  BY <1>7 DEF Tidy
<1>9. k \notin Candidates(new) /\ Candidates(new) \ {k} \subseteq Candidates(rows)
  BY <1>6
<1>10. \A c \in Candidates(new) \ {k} :
          new[c].pct = rows[c].pct /\ new[c].created = rows[c].created
  BY <1>6
<1>11. now <= now
  OBVIOUS
<1> QED
  BY <1>1, <1>7, <1>8, <1>9, <1>10, <1>11, TidyStays

\* A row on a free label: a candidate that fits, or the first champion.
LEMMA InsertedTidy ==
  ASSUME NEW rows \in Rows, NEW now \in Nat, Tidy(rows, now), NEW k \in AnyLabel,
         rows[k].status = "none", NEW row \in VariantRow, NEW then \in Nat, now <= then,
         \/ /\ row.status = "candidate" /\ row.created < then
            /\ \A c \in Candidates(rows) : rows[c].created # row.created
            /\ TotalShare(rows, Candidates(rows)) + row.pct <= Full
         \/ row.status = "champion" /\ Champions(rows) = {}
  PROVE  Tidy([rows EXCEPT ![k] = row], then)
<1>1. PICK new : new = [rows EXCEPT ![k] = row]
  OBVIOUS
<1>2. /\ new \in Rows /\ new[k] = row
      /\ \A c \in AnyLabel : c # k => new[c] = rows[c]
  BY <1>1 DEF Rows
<1>3. k \notin Candidates(rows) /\ k \notin Champions(rows)
  BY CandidatesOf, ChampionsOf
<1>4. \A c \in Candidates(new) \ {k} : c \in Candidates(rows) /\ new[c] = rows[c]
  BY <1>2, CandidatesOf
<1>5. \A c \in Champions(new) \ {k} : c \in Champions(rows)
  BY <1>2, ChampionsOf
<1>6. \A c \in Champions(new) : new[c].created \in Nat
  BY <1>2, ChampionsOf DEF Rows, VariantRow
<1>7. row.pct \in Nat /\ row.created \in Nat
  BY FullAssumption DEF VariantRow
<1>8. CASE row.status = "candidate" /\ ~ (row.status = "champion")
  <2>1. k \notin Champions(new)
    BY <1>2, <1>8, ChampionsOf
  <2>2. \A c, d \in Champions(new) : c = d
    BY <1>5, <2>1 DEF Tidy
  <2>3. Candidates(rows) \ {k} = Candidates(rows)
    BY <1>3
  <2>4. TotalShare(rows, Candidates(rows)) \in Nat
    BY ShareAdds DEF Tidy
  <2>5. new[k].pct + TotalShare(rows, Candidates(rows) \ {k}) <= Full
    <3>1. PICK a, b : a = TotalShare(rows, Candidates(rows)) /\ b = row.pct
      OBVIOUS
    <3>2. a + b <= Full
      BY <1>8, <3>1
    <3>3. a \in Nat /\ b \in Nat
      BY <1>7, <2>4, <3>1
    <3>4. b + a <= Full
      BY <3>2, <3>3, FullAssumption
    <3> QED
      BY <1>2, <2>3, <3>1, <3>4
  <2>6. /\ new[k].pct \in Nat /\ new[k].created \in Nat /\ new[k].created < then
        /\ \A c \in Candidates(rows) \ {k} : rows[c].created # new[k].created
    BY <1>2, <1>7, <1>8
  <2> QED
    BY <1>1, <1>4, <1>6, <2>2, <2>5, <2>6, TidyStays
<1>9. CASE row.status = "champion"
  <2>1. k \notin Candidates(new)
    BY <1>2, <1>9, CandidatesOf
  <2>2. Champions(new) \subseteq {k}
    BY <1>5, <1>9
  <2>3. \A c, d \in Champions(new) : c = d
    BY <2>2
  <2> QED
    BY <1>1, <1>4, <1>6, <2>1, <2>3, TidyStays
<1> QED
  BY <1>8, <1>9

LEMMA VariantCommitsOrder ==
  ASSUME RInv, OInv, NEW t, Thread = {t},
         StartInsert(t) \/ AdjustCommit(t) \/ PromoteCommit(t) \/ RetireCommit(t)
  PROVE  OInv'
<1>0. /\ t \in Thread /\ pc[t] # "idle" /\ UNCHANGED <<prompts, boot, clock>>
  BY DEF StartInsert, AdjustCommit, PromoteCommit, RetireCommit
<1>1. PICK l : l = loc[t]
  OBVIOUS
<1>2. /\ boot'.at # "certify" /\ l \in Locals /\ Relies(pc[t], l) /\ Fits(pc[t], l)
      /\ clock \in Nat /\ variants \in [Stage -> Rows] /\ l.stage \in Stage
  BY <1>0, <1>1, Works DEF OInv, Locals
<1>3. PICK s \in Stage, rows \in Rows : s = l.stage /\ rows = variants[s]
  BY <1>2
<1>4. Tidy(rows, clock) /\ clock <= clock
  BY <1>2, <1>3 DEF OInv, Settled
<1>5. CASE StartInsert(t)
  <2> DEFINE row == [status |-> "candidate", prompt |-> l.prompt,
                     pct |-> l.pct, created |-> l.stamp]
             new == [rows EXCEPT ![l.label] = row]
  <2>1. pc[t] = "startInsert"
    BY <1>5 DEF StartInsert
  <2>2. /\ l.label \in AnyLabel /\ Fresh(l.stamp)
        /\ TotalShare(rows, Candidates(rows)) + l.pct <= Full
    BY <1>2, <1>3, <2>1 DEF Fits, Relies
  <2>3. row \in VariantRow
    BY <1>2, <2>1 DEF VariantRow, VariantStatus, Locals, Fits, Kept
  <2>4. CASE rows[l.label].status = "none"
    <3>1. /\ variants' = [variants EXCEPT ![s] = new]
          /\ Go(t, "invalidate", l)
      BY <1>1, <1>2, <1>3, <1>5, <2>4 DEF StartInsert
    <3>2. /\ row.status = "candidate" /\ row.created < clock /\ row.pct = l.pct
          /\ \A c \in Candidates(rows) : rows[c].created # row.created
      BY <1>3, <2>2 DEF Fresh
    <3> HIDE DEF row
    <3>3. Tidy(new, clock)
      BY <1>2, <1>4, <2>2, <2>3, <2>4, <3>2, InsertedTidy
    <3> HIDE DEF new
    <3> QED
      BY <1>0, <1>2, <3>1, <3>3, RowsStep
  <2>5. CASE rows[l.label].status # "none"
    <3>1. End(t) /\ UNCHANGED variants
      BY <1>1, <1>3, <1>5, <2>5 DEF StartInsert
    <3>2. Relies("idle", Blank)
      BY DEF Relies
    <3> QED
      BY <1>0, <1>2, <3>1, <3>2, LookStep DEF End, tables
  <2> QED
    BY <2>4, <2>5
<1>6. CASE AdjustCommit(t)
  <2>1. pc[t] = "adjust"
    BY <1>6 DEF AdjustCommit
  <2>2. /\ l.label \in Candidates(rows) /\ l.row = rows[l.label] /\ l.pct \in 0..Full
        /\ TotalShare(rows, Candidates(rows) \ {l.label}) + l.pct <= Full
    BY <1>2, <1>3, <2>1 DEF Relies, Locals
  <2>3. PICK new : new = Adjusted(rows, l.label, l.row, l.pct)
    OBVIOUS
  <2>4. Tidy(new, clock)
    BY <1>2, <1>4, <2>2, <2>3, AdjustedTidy
  <2>5. /\ variants' = [variants EXCEPT ![s] = new]
        /\ Go(t, "invalidate", l)
    BY <1>1, <1>2, <1>3, <1>6, <2>3 DEF AdjustCommit
  <2> QED
    BY <1>0, <1>2, <2>4, <2>5, RowsStep
<1>7. CASE PromoteCommit(t)
  <2>1. pc[t] = "promote"
    BY <1>7 DEF PromoteCommit
  <2>2. /\ l.label \in Candidates(rows) /\ Champions(rows) \subseteq {l.old}
        /\ l.old = NoVariant \/ rows[l.old].status # "none"
    BY <1>2, <1>3, <2>1 DEF Relies, Fits, Named
  <2>3. PICK new : new = Promoted(rows, l.label, l.old)
    OBVIOUS
  <2>4. Tidy(new, clock)
    BY <1>2, <1>4, <2>2, <2>3, PromotedTidy
  <2>5. /\ variants' = [variants EXCEPT ![s] = new]
        /\ Go(t, "invalidate", l)
    BY <1>1, <1>2, <1>3, <1>7, <2>3 DEF PromoteCommit
  <2> QED
    BY <1>0, <1>2, <2>4, <2>5, RowsStep
<1>8. CASE RetireCommit(t)
  <2>1. pc[t] = "retire"
    BY <1>8 DEF RetireCommit
  <2>2. /\ l.label \in AnyLabel /\ rows[l.label].status # "none" /\ l.row = rows[l.label]
    BY <1>2, <1>3, <2>1 DEF Relies, Fits, Named
  <2>3. PICK new : new = Deprecated(rows, l.label, l.row)
    OBVIOUS
  <2>4. Tidy(new, clock)
    BY <1>2, <1>4, <2>2, <2>3, DeprecatedTidy
  <2>5. /\ variants' = [variants EXCEPT ![s] = new]
        /\ Go(t, "invalidate", l)
    BY <1>1, <1>2, <1>3, <1>8, <2>3 DEF RetireCommit
  <2> QED
    BY <1>0, <1>2, <2>4, <2>5, RowsStep
<1> QED
  BY <1>5, <1>6, <1>7, <1>8

-----------------------------------------------------------------------------
(* Serving, start-up, restart. *)

\* Serving looks at the tables and relies on nothing an operator's request does.
LEMMA ServeOrders ==
  ASSUME RInv, OInv, NEW t, Thread = {t}, Serve(t)
  PROVE  OInv'
<1>1. UNCHANGED <<tables, clock, boot>>
  BY DEF Serve, ServeLookup, ServeLoad, ServeStore, ServeContent, ServeFetch, ServeCertified,
         ServeRemember, ServeAnswer, caches
<1>2. boot'.at # "certify"
  BY <1>1 DEF Serve, ServeLookup, ServeLoad, ServeStore, ServeContent, ServeFetch,
              ServeCertified, ServeRemember, ServeAnswer, Ready, RInv, Starting
<1>3. \E x \in Serving \cup {"idle"} : \E l : Go(t, x, l)
  <2>1. ASSUME NEW l, Select(t, l) PROVE \E x \in Serving \cup {"idle"} : \E k : Go(t, x, k)
    BY <2>1 DEF Select, Serving
  <2>2. CASE ServeLookup(t)
    <3>1. \E l : Select(t, l) \/ Go(t, "load", l)
      BY <2>2 DEF ServeLookup
    <3> QED
      BY <2>1, <3>1 DEF Serving
  <2>3. CASE ServeLoad(t)
    BY <2>3 DEF ServeLoad, Serving
  <2>4. CASE ServeStore(t)
    BY <2>1, <2>4 DEF ServeStore
  <2>5. CASE ServeContent(t)
    <3>1. contents[loc[t].prompt] \in Content
      BY <2>5, Works DEF ServeContent, RInv, TypeOK, Fits, Kept
    <3>2. Go(t, "fetch", loc[t]) \/ Go(t, "certified", loc[t]) \/ Go(t, "answer", loc[t])
      BY <2>5, <3>1 DEF ServeContent, Content
    <3> QED
      BY <3>2 DEF Serving
  <2>6. CASE ServeFetch(t)
    BY <2>6 DEF ServeFetch, Serving
  <2>7. CASE ServeCertified(t)
    <3>1. \E p, l : \/ Go(t, IF p = NoPrompt THEN "answer" ELSE "remember", l)
                    \/ Go(t, "answer", l)
      BY <2>7 DEF ServeCertified
    <3> QED
      BY <3>1 DEF Serving
  <2>8. CASE ServeRemember(t)
    BY <2>8 DEF ServeRemember, Serving
  <2>9. CASE ServeAnswer(t)
    BY <2>9 DEF ServeAnswer, End
  <2> QED
    BY <2>2, <2>3, <2>4, <2>5, <2>6, <2>7, <2>8, <2>9 DEF Serve
<1>4. PICK x \in Serving \cup {"idle"} : \E l : Go(t, x, l)
  BY <1>3
<1>5. PICK l : Go(t, x, l)
  BY <1>4
<1>6. Relies(x, l)
  BY DEF Relies, Serving
<1> QED
  BY <1>1, <1>2, <1>5, <1>6, LookStep

\* The steps of the start-up: no request is under way.
LEMMA QuietSeeding ==
  ASSUME RInv, OInv, UNCHANGED <<pc, loc>>, boot.at # "up",
         boot'.at = "certify" => prompts'[boot'.record].stage = boot'.stage,
         \A s \in Stage : Settled(s)'
  PROVE  OInv'
<1>1. \A u \in Thread : pc'[u] = "idle"
  BY DEF RInv, Starting
<1>2. \A u \in Thread : Relies(pc[u], loc[u])'
  BY <1>1 DEF Relies
<1> QED
  BY <1>2 DEF OInv

LEMMA SeedingOrders ==
  ASSUME RInv, OInv, Seeding
  PROVE  OInv'
<1>0. /\ prompts \in [Prompt -> PromptRow] /\ variants \in [Stage -> Rows] /\ clock \in Nat
      /\ boot \in Boot /\ boot.stage \in Stage
      /\ \A s \in Stage : Settled(s)
  BY DEF RInv, TypeOK, OInv, Boot
<1>1. BootFrom(Stage).at = "check"
  BY StageAssumption DEF BootFrom
<1>2. \A todo \in SUBSET Stage : BootFrom(todo).at \in {"check", "up"}
  BY BootTypes
<1>3. boot.todo \ {boot.stage} \in SUBSET Stage
  BY <1>0 DEF Boot
<1>4. BootDone => boot'.at # "certify"
  BY <1>2, <1>3 DEF BootDone
<1>5. UNCHANGED tables /\ UNCHANGED clock => \A s \in Stage : Settled(s)'
  BY <1>0, SettledStays
<1>6. CASE SeedCheck
  <2> DEFINE seed == Seed[boot.stage]
  <2>1. /\ boot.at = "check" /\ UNCHANGED <<variants, pc, loc, clock>>
    BY <1>6 DEF SeedCheck
  <2>2. CASE UNCHANGED prompts /\ boot'.at # "certify"
    BY <1>5, <2>1, <2>2, QuietSeeding DEF tables
  <2>3. CASE /\ prompts' = [prompts EXCEPT ![seed] = [status |-> "draft", stage |-> boot.stage]]
             /\ boot' = [boot EXCEPT !.at = "certify", !.record = seed]
    <3>1. seed \in Prompt
      BY <1>0, SeedAssumption
    <3> HIDE DEF seed
    <3>2. \A s \in Stage : CertifiedIn(s)' \subseteq CertifiedIn(s)
      BY <1>0, <2>3, <3>1 DEF CertifiedIn
    <3>3. \A s \in Stage : Settled(s)'
      BY <1>0, <2>1, <3>2 DEF Settled
    <3>4. boot'.record = seed /\ boot'.stage = boot.stage
      BY <1>0, <2>3 DEF Boot
    <3>5. prompts'[seed].stage = boot.stage
      BY <1>0, <2>3, <3>1
    <3> QED
      BY <2>1, <3>3, <3>4, <3>5, QuietSeeding
  <2>4. \/ UNCHANGED prompts /\ boot'.at # "certify"
        \/ /\ prompts' = [prompts EXCEPT ![seed] = [status |-> "draft", stage |-> boot.stage]]
           /\ boot' = [boot EXCEPT !.at = "certify", !.record = seed]
    <3>1. CASE \E p \in CertifiedIn(boot.stage) :
                 boot' = [boot EXCEPT !.at = "champion", !.record = p] /\ UNCHANGED prompts
      BY <1>0, <3>1 DEF Boot
    <3>2. CASE SeedCreate(boot.stage)
      BY <1>4, <3>2 DEF SeedCreate
    <3> QED
      BY <1>6, <3>1, <3>2 DEF SeedCheck
  <2> QED
    BY <2>2, <2>3, <2>4
<1>7. CASE SeedCertify
  <2>1. PICK p \in FirstOf(CertifiedIn(boot.stage), NoPrompt) :
          prompts' = Certified(boot.record, p)
    BY <1>7 DEF SeedCertify
  <2>2. /\ boot.at = "certify" /\ boot' = [boot EXCEPT !.at = "champion"]
        /\ UNCHANGED <<variants, pc, loc, clock>>
    BY <1>7 DEF SeedCertify
  <2>3. boot'.at # "certify"
    BY <1>0, <2>2 DEF Boot
  <2>4. boot.record \in Prompt /\ prompts[boot.record].stage = boot.stage
    BY <1>0, <2>2, SeedAssumption DEF RInv, Starting, OInv
  <2>5. \A s \in Stage : \A a, b \in CertifiedIn(s) : a = b
    BY <1>0 DEF Settled
  <2>6. CertifiedIn(boot.stage) \subseteq {p}
    BY <1>0, <2>1, <2>5, FirstIsAll
  <2>7. PICK m, s : m = boot.record /\ s = boot.stage
    OBVIOUS
  <2>8. \A r \in Stage : \A a, b \in CertifiedIn(r)' : a = b
    BY <1>0, <2>1, <2>4, <2>5, <2>6, <2>7, CertifiedAlways
  <2>9. \A r \in Stage : Settled(r)'
    BY <1>0, <2>2, <2>8 DEF Settled
  <2> QED
    BY <2>2, <2>3, <2>9, QuietSeeding
<1>8. CASE SeedChampion
  <2>1. /\ boot.at = "champion" /\ boot'.at # "certify" /\ UNCHANGED <<prompts, pc, loc>>
    BY <1>4, <1>8 DEF SeedChampion
  <2>2. CASE UNCHANGED <<variants, clock>>
    BY <1>5, <2>1, <2>2, QuietSeeding DEF tables
  <2>3. CASE ~ UNCHANGED <<variants, clock>>
    <3>1. PICK s \in Stage, p \in Prompt : s = boot.stage /\ p = boot.record
      BY <1>0, <2>1 DEF RInv, Starting, Kept
    <3> DEFINE row == [status |-> "champion", prompt |-> p, pct |-> Full, created |-> clock]
    <3>2. /\ Champions(variants[s]) = {} /\ variants[s][p].status = "none"
          /\ variants' = [variants EXCEPT ![s] = [variants[s] EXCEPT ![p] = row]]
          /\ clock' = clock + 1
      BY <1>0, <1>8, <2>3, <3>1 DEF SeedChampion
    <3>3. row \in VariantRow /\ row.status = "champion"
      BY <1>0, FullAssumption DEF VariantRow, VariantStatus
    <3> HIDE DEF row
    <3>4. clock' \in Nat /\ clock <= clock' /\ p \in AnyLabel /\ variants[s] \in Rows
      BY <1>0, <3>2 DEF AnyLabel
    <3>5. PICK new : new = [variants[s] EXCEPT ![p] = row]
      OBVIOUS
    <3>6. Tidy(variants[s], clock)
      BY <1>0 DEF Settled
    <3>7. PICK rows : rows = variants[s]
      OBVIOUS
    <3>8. Tidy(new, clock')
      BY <1>0, <3>2, <3>3, <3>4, <3>5, <3>6, <3>7, InsertedTidy
    <3>9. ASSUME NEW r \in Stage PROVE Settled(r)'
      <4>1. CertifiedIn(r)' = CertifiedIn(r)
        BY <2>1 DEF CertifiedIn
      <4>2. variants'[r] = IF r = s THEN new ELSE variants[r]
        BY <1>0, <3>2, <3>5
      <4>3. Tidy(variants'[r], clock')
        BY <1>0, <3>4, <3>8, <4>2, TidyLater DEF Settled
      <4> QED
        BY <1>0, <4>1, <4>3 DEF Settled
    <3> QED
      BY <2>1, <3>9, QuietSeeding
  <2> QED
    BY <2>2, <2>3
<1>9. CASE SeedFails \/ SeedSkipped
  <2>1. /\ UNCHANGED <<tables, pc, loc, clock>> /\ boot.at # "up" /\ boot'.at # "certify"
    BY <1>1, <1>2, <1>4, <1>9 DEF SeedFails, SeedSkipped
  <2> QED
    BY <1>5, <2>1, QuietSeeding
<1> QED
  BY <1>6, <1>7, <1>8, <1>9 DEF Seeding

LEMMA RestartOrders ==
  ASSUME RInv, OInv, Restart
  PROVE  OInv'
<1>1. \A s \in Stage : Settled(s)'
  BY SettledStays DEF Restart, RInv, TypeOK
<1>2. boot'.at # "certify"
  BY BootTypes DEF Restart
<1>3. \A u \in Thread : pc'[u] = "idle"
  BY DEF Restart
<1>4. \A u \in Thread : Relies(pc[u], loc[u])'
  BY <1>3 DEF Relies
<1> QED
  BY <1>1, <1>2, <1>4 DEF OInv

LEMMA OInvInit == Init => OInv
<1> SUFFICES ASSUME Init PROVE OInv
  OBVIOUS
<1>1. ASSUME NEW s \in Stage PROVE Settled(s)
  <2>1. CertifiedIn(s) = {}
    BY DEF Init, CertifiedIn
  <2>2. variants[s] = NoRows /\ clock = 0
    BY DEF Init
  <2>3. Candidates(NoRows) = {} /\ Champions(NoRows) = {}
    BY DEF Candidates, Champions, NoRows, NoRow
  <2>4. Counted(NoRows, {})
    BY FS_EmptySet DEF Counted
  <2>5. TotalShare(NoRows, {}) = 0
    BY <2>4, ShareAdds
  <2>6. Tidy(NoRows, 0)
    BY <2>3, <2>4, <2>5, FullAssumption DEF Tidy
  <2> QED
    BY <2>1, <2>2, <2>6 DEF Settled
<1>2. boot.at # "certify"
  BY BootTypes DEF Init
<1>3. \A u \in Thread : Relies(pc[u], loc[u])
  BY DEF Init, Relies
<1> QED
  BY <1>1, <1>2, <1>3 DEF OInv

LEMMA OInvNext ==
  ASSUME OneThread, RInv, OInv, [Next]_vars
  PROVE  OInv'
<1>1. PICK t : Thread = {t}
  BY DEF OneThread
<1>2. CASE PromptRequest(t)
  BY <1>1, <1>2, PromptRequestOrders
<1>3. CASE VariantRequest(t)
  BY <1>1, <1>3, VariantReadsOrder, VariantChecksOrder, VariantCommitsOrder DEF VariantRequest
<1>4. CASE Serve(t)
  BY <1>1, <1>4, ServeOrders
<1>5. CASE Seeding
  BY <1>5, SeedingOrders
<1>6. CASE Restart
  BY <1>6, RestartOrders
<1>7. CASE UNCHANGED vars
  <2>1. \A s \in Stage : Settled(s)'
    BY <1>7, SettledStays DEF RInv, TypeOK, vars, tables
  <2>2. \A u \in Thread : Relies(pc[u], loc[u])'
    BY <1>7 DEF OInv, Relies, Fresh, CertifiedIn, vars
  <2> QED
    BY <1>7, <2>1, <2>2 DEF OInv, vars
<1> QED
  BY <1>1, <1>2, <1>3, <1>4, <1>5, <1>6, <1>7 DEF Next

LEMMA OInvAlways == ASSUME OneThread PROVE Spec => []OInv
<1>1. RInv /\ OInv /\ [Next]_vars => OInv'
  BY OInvNext
<1> QED
  BY <1>1, OInvInit, RInvAlways, PTL DEF Spec

-----------------------------------------------------------------------------
(* The theorems. *)

LEMMA AtMostOne ==
  ASSUME NEW S, \A p, q \in S : p = q
  PROVE  Cardinality(S) <= 1
<1>1. CASE S = {}
  BY <1>1, FS_EmptySet
<1>2. CASE S # {}
  <2>1. PICK p \in S : S = {p}
    BY <1>2
  <2>2. Cardinality({p}) = 1
    BY FS_Singleton
  <2> QED
    BY <2>1, <2>2
<1> QED
  BY <1>1, <1>2

\* While requests come one after another, a stage has at most one certified prompt
\* (prompts/registry.py:224) and one champion (models.py:79), and the percentages of its
\* candidates add up to at most all the traffic (models.py:80), whatever fails and
\* whenever the process starts again.
THEOREM OneAlwaysPerStage == ASSUME OneThread PROVE Spec => []OnePerStage
<1>1. OInv => OnePerStage
  <2> SUFFICES ASSUME OInv PROVE OnePerStage
    OBVIOUS
  <2>1. OneCertified
    BY AtMostOne DEF OInv, Settled, OneCertified
  <2>2. OneChampion
    BY AtMostOne DEF OInv, Settled, Tidy, OneChampion
  <2>3. CandidatesFit
    BY DEF OInv, Settled, Tidy, CandidatesFit
  <2> QED
    BY <2>1, <2>2, <2>3 DEF OnePerStage
<1> QED
  BY <1>1, OInvAlways, PTL

\* And of the Full buckets a session may fall in, each candidate gets exactly its
\* percentage and the champion those that are left (prompts/routing.py:13-20).
THEOREM SharesAlwaysExact == ASSUME OneThread PROVE Spec => []SharesExact
<1>1. RInv /\ OInv => SharesExact
  <2> SUFFICES ASSUME RInv, OInv, NEW s \in Stage
               PROVE  /\ \A c \in Candidates(variants[s]) :
                           Cardinality(Served(variants[s], c)) = variants[s][c].pct
                      /\ \A c \in Champions(variants[s]) :
                           Cardinality(Served(variants[s], c)) =
                             Full - TotalShare(variants[s], Candidates(variants[s]))
    BY DEF SharesExact
  <2>1. PICK rows : rows = variants[s]
    OBVIOUS
  <2>2. rows \in Rows /\ clock \in Nat /\ Tidy(rows, clock)
    BY <2>1 DEF RInv, TypeOK, OInv, Settled
  <2>3. NoVariant \notin DOMAIN rows
    BY <2>2, NameAssumption DEF Rows, AnyLabel
  <2> QED
    BY <2>1, <2>2, <2>3, SharesOf
<1> QED
  BY <1>1, RInvAlways, OInvAlways, PTL
-----------------------------------------------------------------------------
(* The caches, when no read fails.                                          *)

\* What a thread that serves has found so far, as the tables have it.
Answers(x, l) ==
  LET v == Route(variants[l.stage], l.bucket) IN
  /\ x \in {"load", "store"} => l.label = NoVariant
  /\ x = "store" => l.rows = Active(l.stage)
  /\ x \in {"content", "fetch"} => v # NoVariant
  /\ x \in {"certified", "remember"} => v = NoVariant
  /\ x \in {"content", "fetch", "answer"} =>
       l.label = v /\ (v # NoVariant => l.prompt = variants[l.stage][v].prompt)
  /\ x = "remember" => l.label = NoVariant
  /\ x \in {"remember", "answer"} =>
       (v = NoVariant => l.prompt \in FirstOf(CertifiedIn(l.stage), NoPrompt))

\* A stage's cached rows are those of the table, but for an operator's request that is
\* about to clear them; a prompt is never cached as missing.
CInv ==
  /\ (\A t \in Thread : pc[t] # "invalidate") =>
       \A s \in Stage : routing[s].known => routing[s].rows = Active(s)
  /\ \A p \in Prompt : contents[p] # "missing"
  /\ \A t \in Thread : Answers(pc[t], loc[t])

\* The rows that are kept route a session as all of the stage's rows do.
LEMMA ActiveRoutes ==
  ASSUME RInv, OInv, NEW s \in Stage, NEW b \in Nat
  PROVE  /\ Route(Active(s), b) = Route(variants[s], b)
         /\ Route(variants[s], b) # NoVariant =>
              Active(s)[Route(variants[s], b)].prompt
                = variants[s][Route(variants[s], b)].prompt
<1>1. PICK rows \in Rows : rows = variants[s]
  BY DEF RInv, TypeOK
<1>2. PICK new : new = Active(s)
  OBVIOUS
<1>3. new \in Rows /\ Tidy(rows, clock)
  BY <1>1, <1>2, ActiveTypes DEF OInv, Settled
<1>4. \A c \in AnyLabel :
        new[c] = IF rows[c].status \in {"champion", "candidate"} THEN rows[c] ELSE NoRow
  BY <1>1, <1>2 DEF Active
<1>5. \A c \in AnyLabel :
        /\ new[c].status = "candidate" <=> rows[c].status = "candidate"
        /\ new[c].status = "champion" <=> rows[c].status = "champion"
        /\ rows[c].status \in {"champion", "candidate"} => new[c] = rows[c]
  BY <1>4 DEF NoRow
<1>6. Candidates(new) = Candidates(rows) /\ Champions(new) = Champions(rows)
  BY <1>1, <1>3, <1>5 DEF Candidates, Champions, Rows
<1>7. \A c \in Candidates(rows) \cup Champions(rows) : c \in AnyLabel /\ new[c] = rows[c]
  BY <1>1, <1>5, CandidatesOf, ChampionsOf
<1>8. ASSUME NEW c \in Candidates(rows) PROVE Reach(new, c) = Reach(rows, c)
  <2> DEFINE T == {l \in Candidates(rows) : rows[l].created <= rows[c].created}
  <2>1. T = {l \in Candidates(new) : new[l].created <= new[c].created}
    BY <1>6, <1>7
  <2>2. T \in SUBSET Candidates(rows) /\ Counted(rows, T)
    BY <1>3, FewerCounted DEF Tidy
  <2>3. \A l \in T : new[l].pct = rows[l].pct
    BY <1>7
  <2>4. Reach(new, c) = TotalShare(new, T) /\ Reach(rows, c) = TotalShare(rows, T)
    BY <2>1 DEF Reach
  <2> HIDE DEF T
  <2> QED
    BY <2>2, <2>3, <2>4, ShareAgrees
<1> DEFINE hit == {c \in Candidates(rows) : b < Reach(rows, c)}
<1>9. hit = {c \in Candidates(new) : b < Reach(new, c)}
  BY <1>6, <1>8
<1>10. ASSUME NEW labels, labels # {}, labels \subseteq Candidates(rows) \cup Champions(rows),
              \A c, d \in labels : rows[c].created = rows[d].created => c = d
       PROVE  Oldest(new, labels) = Oldest(rows, labels)
  <2>1. \A c \in labels : rows[c].created \in Nat /\ new[c].created = rows[c].created
    BY <1>3, <1>7, <1>10 DEF Tidy
  <2>2. /\ Oldest(rows, labels) \in labels
        /\ \A m \in labels : rows[Oldest(rows, labels)].created <= rows[m].created
    BY <1>10, <2>1, OldestOf
  <2>3. /\ Oldest(new, labels) \in labels
        /\ \A m \in labels : new[Oldest(new, labels)].created <= new[m].created
    BY <1>10, <2>1, OldestOf
  <2>4. PICK m \in labels, n \in labels : m = Oldest(rows, labels) /\ n = Oldest(new, labels)
    BY <2>2, <2>3
  <2>5. rows[m].created <= rows[n].created /\ rows[n].created <= rows[m].created
    BY <2>1, <2>2, <2>3, <2>4
  <2>6. rows[m].created = rows[n].created
    BY <2>1, <2>5
  <2> QED
    BY <1>10, <2>4, <2>6
<1>11. hit # {} => Oldest(new, hit) = Oldest(rows, hit)
  <2>1. \A c, d \in hit : rows[c].created = rows[d].created => c = d
    BY <1>3 DEF Tidy
  <2>2. hit \subseteq Candidates(rows) \cup Champions(rows)
    OBVIOUS
  <2> HIDE DEF hit
  <2> QED
    BY <1>10, <2>1, <2>2
<1>12. Champions(rows) # {} => Oldest(new, Champions(rows)) = Oldest(rows, Champions(rows))
  BY <1>3, <1>10 DEF Tidy
<1>13. /\ hit # {} => Route(rows, b) = Oldest(rows, hit) /\ Route(new, b) = Oldest(new, hit)
       /\ hit = {} /\ Champions(rows) # {} => /\ Route(rows, b) = Oldest(rows, Champions(rows))
                                              /\ Route(new, b) = Oldest(new, Champions(rows))
       /\ hit = {} /\ Champions(rows) = {} => Route(rows, b) = NoVariant /\ Route(new, b) = NoVariant
  BY <1>6, <1>9 DEF Route
<1>14. Route(new, b) = Route(rows, b)
  BY <1>11, <1>12, <1>13
<1>15. Route(rows, b) # NoVariant => Route(rows, b) \in Candidates(rows) \cup Champions(rows)
  <2>1. \A c \in hit : c \in Candidates(rows) /\ rows[c].created \in Nat
    BY <1>3 DEF Tidy
  <2>2. hit # {} => Oldest(rows, hit) \in hit
    <3> HIDE DEF hit
    <3> QED
      BY <2>1, OldestOf
  <2>3. Champions(rows) # {} => Oldest(rows, Champions(rows)) \in Champions(rows)
    BY <1>3, OldestOf DEF Tidy
  <2> QED
    BY <1>13, <2>2, <2>3
<1>16. Route(rows, b) # NoVariant => new[Route(rows, b)].prompt = rows[Route(rows, b)].prompt
  BY <1>7, <1>15
<1> QED
  BY <1>1, <1>2, <1>14, <1>16

\* What select_variant does with rows that are those of the table.
LEMMA SelectAnswers ==
  ASSUME RInv, OInv, NEW t, Thread = {t}, NEW l \in Locals, l.rows = Active(l.stage),
         l.label = NoVariant, Select(t, l)
  PROVE  \E x \in Place, k \in Locals : Go(t, x, k) /\ Answers(x, k) /\ x # "invalidate"
<1>1. l.stage \in Stage /\ l.bucket \in Nat /\ Sound(l.rows) /\ l.rows \in Rows
  BY ActiveTypes DEF Locals, Bucket
<1> DEFINE v == Route(variants[l.stage], l.bucket)
<1>2. /\ v = Route(l.rows, l.bucket)
      /\ v # NoVariant => l.rows[v].prompt = variants[l.stage][v].prompt
  BY <1>1, ActiveRoutes
<1>3. CASE v = NoVariant
  <2>1. Go(t, "certified", l)
    BY <1>2, <1>3 DEF Select
  <2>2. Answers("certified", l) /\ "certified" \in Place
    BY <1>3 DEF Answers, Place, Serving
  <2> QED
    BY <2>1, <2>2
<1>4. CASE v # NoVariant
  <2>1. v \in AnyLabel /\ Kept(l.rows[v].prompt)
    BY <1>1, <1>2, <1>4, RouteIsNamed DEF Sound
  <2>2. PICK k : k = [l EXCEPT !.label = v, !.prompt = l.rows[v].prompt]
    OBVIOUS
  <2>3. Go(t, "content", k)
    BY <1>2, <1>4, <2>2 DEF Select
  <2> HIDE DEF v
  <2>4. /\ k \in Locals /\ k.label = v /\ k.prompt = l.rows[v].prompt
        /\ k.stage = l.stage /\ k.bucket = l.bucket
    BY <2>1, <2>2 DEF Locals, Kept
  <2>5. Answers("content", k)
    BY <1>2, <1>4, <2>4 DEF Answers, v
  <2>6. "content" \in Place
    BY DEF Place, Serving
  <2> QED
    BY <2>3, <2>4, <2>5, <2>6
<1> QED
  BY <1>3, <1>4

-----------------------------------------------------------------------------
(* Steps. *)

\* A serving step; what it caches is right.
LEMMA ServingStep ==
  ASSUME RInv, CInv, NEW t, Thread = {t}, NEW x, NEW k, Go(t, x, k), Answers(x, k),
         UNCHANGED tables,
         \A s \in Stage : routing'[s].known => routing'[s].rows = Active(s),
         \A p \in Prompt : contents'[p] # "missing"
  PROVE  CInv'
<1>1. pc'[t] = x /\ loc'[t] = k
  BY DEF Go, RInv, TypeOK
<1>2. \A u \in Thread : Answers(pc[u], loc[u])'
  BY <1>1 DEF Answers, tables, Active, CertifiedIn
<1>3. \A s \in Stage : Active(s)' = Active(s)
  BY DEF Active, tables
<1> QED
  BY <1>2, <1>3 DEF CInv

\* A step of an operator's request that is not a commit to the variants.
LEMMA AskingStep ==
  ASSUME RInv, CInv, NEW t, Thread = {t}, NEW x \in Operation \cup {"idle"}, NEW k, Go(t, x, k),
         pc[t] # "invalidate", UNCHANGED <<variants, caches>>
  PROVE  CInv'
<1>1. pc'[t] = x /\ loc'[t] = k
  BY DEF Go, RInv, TypeOK
<1>2. \A u \in Thread : Answers(pc[u], loc[u])'
  BY <1>1 DEF Answers, Operation
<1>3. \A s \in Stage : Active(s)' = Active(s)
  BY DEF Active
<1> QED
  BY <1>2, <1>3 DEF CInv, caches

\* A step of an operator's request that leaves the caches to be cleared.
LEMMA CommittingStep ==
  ASSUME RInv, CInv, NEW t, Thread = {t}, NEW k, Go(t, "invalidate", k), UNCHANGED caches
  PROVE  CInv'
<1>1. pc'[t] = "invalidate" /\ loc'[t] = k
  BY DEF Go, RInv, TypeOK
<1>2. \A u \in Thread : Answers(pc[u], loc[u])'
  BY <1>1 DEF Answers
<1> QED
  BY <1>1, <1>2 DEF CInv, caches

\* A step after which no cached rows are left and no request is under way.
LEMMA ClearingStep ==
  ASSUME CInv, \A u \in Thread : pc'[u] = "idle",
         \A s \in Stage : ~routing'[s].known, \A p \in Prompt : contents'[p] # "missing"
  PROVE  CInv'
<1>1. \A u \in Thread : Answers(pc[u], loc[u])'
  BY DEF Answers
<1> QED
  BY <1>1 DEF CInv

LEMMA RequestsLeaveCaches ==
  ASSUME RInv, CInv, NEW t, Thread = {t}, PromptRequest(t) \/ VariantRequest(t)
  PROVE  CInv'
<1>1. CASE PromptRequest(t)
  <2>1. UNCHANGED <<variants, caches>> /\ pc[t] # "invalidate"
    BY <1>1 DEF PromptRequest, CreateRead, CreateInsert, CertifyRead, CertifyPrev,
       CertifyCommit, DeprecateRead, DeprecateCommit, tables, Request, Ready
  <2>2. \E x \in Operation \cup {"idle"} : \E k : Go(t, x, k)
    <3>1. CASE CreateRead(t)
      BY <3>1 DEF CreateRead, Operation
    <3>2. CASE CertifyRead(t)
      BY <3>2 DEF CertifyRead, Operation
    <3>3. CASE CertifyPrev(t)
      BY <3>3 DEF CertifyPrev, Operation
    <3>4. CASE DeprecateRead(t)
      BY <3>4 DEF DeprecateRead, Operation
    <3>5. CASE CreateInsert(t) \/ CertifyCommit(t) \/ DeprecateCommit(t)
      BY <3>5 DEF CreateInsert, CertifyCommit, DeprecateCommit, End
    <3> QED
      BY <1>1, <3>1, <3>2, <3>3, <3>4, <3>5 DEF PromptRequest
  <2> QED
    BY <2>1, <2>2, AskingStep
<1>2. CASE \/ StartRead(t) \/ StartLabel(t) \/ StartTotal(t) \/ AdjustRead(t)
           \/ AdjustTotal(t) \/ PromoteRead(t) \/ PromoteOld(t) \/ RetireRead(t)
  <2>1. UNCHANGED <<variants, caches>> /\ pc[t] # "invalidate"
    BY <1>2 DEF StartRead, StartLabel, StartTotal, AdjustRead, AdjustTotal, PromoteRead,
       PromoteOld, RetireRead, tables, Request, Ready
  <2>2. \E x \in Operation \cup {"idle"} : \E k : Go(t, x, k)
    <3>1. CASE StartRead(t)
      BY <3>1 DEF StartRead, Operation
    <3>2. CASE StartLabel(t) \/ StartTotal(t) \/ AdjustTotal(t)
      BY <3>2 DEF StartLabel, StartTotal, AdjustTotal, End, Operation
    <3>3. CASE AdjustRead(t)
      BY <3>3 DEF AdjustRead, Operation
    <3>4. CASE PromoteRead(t)
      BY <3>4 DEF PromoteRead, Operation
    <3>5. CASE PromoteOld(t)
      BY <3>5 DEF PromoteOld, Operation
    <3>6. CASE RetireRead(t)
      BY <3>6 DEF RetireRead, Operation
    <3> QED
      BY <1>2, <3>1, <3>2, <3>3, <3>4, <3>5, <3>6
  <2> QED
    BY <2>1, <2>2, AskingStep
<1>3. CASE \/ StartInsert(t) \/ AdjustCommit(t) \/ PromoteCommit(t) \/ RetireCommit(t)
  <2>1. UNCHANGED caches /\ pc[t] # "invalidate"
    BY <1>3 DEF StartInsert, AdjustCommit, PromoteCommit, RetireCommit
  <2>2. \/ Go(t, "invalidate", loc[t])
        \/ Go(t, "idle", Blank) /\ UNCHANGED variants
    BY <1>3 DEF StartInsert, AdjustCommit, PromoteCommit, RetireCommit, End
  <2> QED
    BY <2>1, <2>2, AskingStep, CommittingStep
<1>4. CASE Invalidate(t)
  <2>1. /\ routing' = [s \in Stage |-> NotCached] /\ Go(t, "idle", Blank) /\ contents' = contents
    BY <1>4 DEF Invalidate, End
  <2>2. \A u \in Thread : pc'[u] = "idle"
    BY <2>1 DEF Go, RInv, TypeOK
  <2>3. \A s \in Stage : ~routing'[s].known
    BY <2>1 DEF NotCached
  <2> QED
    BY <2>1, <2>2, <2>3, ClearingStep DEF CInv
<1> QED
  BY <1>1, <1>2, <1>3, <1>4 DEF VariantRequest

LEMMA ServeCaches ==
  ASSUME RInv, OInv, CInv, "read" \notin Faults, NEW t, Thread = {t}, Serve(t)
  PROVE  CInv'
<1>0. /\ UNCHANGED tables /\ pc[t] # "invalidate"
      /\ t \in Thread /\ Answers(pc[t], loc[t])
      /\ \A p \in Prompt : contents[p] # "missing"
      /\ contents \in [Prompt -> Content] /\ routing \in [Stage -> RoutingEntry]
  BY DEF Serve, ServeLookup, ServeLoad, ServeStore, ServeContent, ServeFetch, ServeCertified,
         ServeRemember, ServeAnswer, Ready, CInv, RInv, TypeOK
<1>1. \A s \in Stage : routing[s].known => routing[s].rows = Active(s)
  BY <1>0 DEF CInv
<1>2. PICK l : l = loc[t]
  OBVIOUS
<1>3. pc[t] # "idle" => l \in Locals /\ l.stage \in Stage /\ Fits(pc[t], l)
  BY <1>0, <1>2, Works DEF Locals
<1>4. ASSUME NEW p \in Prompt, Fetched(p, "known") PROVE \A q \in Prompt : contents'[q] # "missing"
  BY <1>0, <1>4 DEF Fetched
<1>5. CASE ServeLookup(t)
  <2>1. PICK s \in Stage, b \in Bucket :
          /\ IF routing[s].known
             THEN Select(t, [[Blank EXCEPT !.stage = s, !.bucket = b]
                               EXCEPT !.rows = routing[s].rows])
             ELSE Go(t, "load", [Blank EXCEPT !.stage = s, !.bucket = b])
          /\ UNCHANGED caches
    BY <1>5 DEF ServeLookup
  <2>2. PICK m : m = [Blank EXCEPT !.stage = s, !.bucket = b]
    OBVIOUS
  <2>3. m \in Locals /\ m.stage = s /\ m.label = NoVariant
    BY <2>2, BlankTypes DEF Locals, Blank
  <2>4. CASE ~routing[s].known
    <3>1. Go(t, "load", m)
      BY <2>1, <2>2, <2>4
    <3>2. Answers("load", m)
      BY <2>3 DEF Answers
    <3> QED
      BY <1>0, <1>1, <2>1, <3>1, <3>2, ServingStep DEF caches
  <2>5. CASE routing[s].known
    <3>1. PICK k : k = [m EXCEPT !.rows = routing[s].rows]
      OBVIOUS
    <3>2. routing[s].rows = Active(s) /\ routing[s].rows \in Rows
      BY <1>0, <1>1, <2>5 DEF RoutingEntry
    <3>3. k \in Locals /\ k.stage = s /\ k.label = NoVariant /\ k.rows = Active(k.stage)
      BY <2>3, <3>1, <3>2 DEF Locals
    <3>4. Select(t, k)
      BY <2>1, <2>2, <2>5, <3>1
    <3>5. PICK x \in Place, n \in Locals : Go(t, x, n) /\ Answers(x, n)
      BY <3>3, <3>4, SelectAnswers
    <3> QED
      BY <1>0, <1>1, <2>1, <3>5, ServingStep DEF caches
  <2> QED
    BY <2>4, <2>5
<1>6. CASE ServeLoad(t)
  <2>1. PICK k : k = [l EXCEPT !.rows = Active(l.stage)]
    OBVIOUS
  <2>2. Go(t, "store", k) /\ pc[t] = "load" /\ UNCHANGED caches
    BY <1>2, <1>6, <2>1 DEF ServeLoad
  <2>3. k.rows = Active(l.stage) /\ k.stage = l.stage /\ k.label = NoVariant
    BY <1>0, <1>2, <1>3, <2>1, <2>2 DEF Locals, Answers
  <2>4. Answers("store", k)
    BY <2>3 DEF Answers
  <2> QED
    BY <1>0, <1>1, <2>2, <2>4, ServingStep DEF caches
<1>7. CASE ServeStore(t)
  <2>1. /\ pc[t] = "store" /\ Select(t, l) /\ contents' = contents
        /\ routing' = IF routing[l.stage].known THEN routing
                      ELSE [routing EXCEPT ![l.stage] = [known |-> TRUE, rows |-> l.rows]]
    BY <1>2, <1>7 DEF ServeStore
  <2>2. l.rows = Active(l.stage) /\ l \in Locals /\ l.stage \in Stage
    BY <1>0, <1>2, <1>3, <2>1 DEF Answers
  <2>3. \A s \in Stage : routing'[s].known => routing'[s].rows = Active(s)
    BY <1>0, <1>1, <2>1, <2>2
  <2>4. l.label = NoVariant
    BY <1>0, <1>2, <2>1 DEF Answers
  <2>5. PICK x \in Place, n \in Locals : Go(t, x, n) /\ Answers(x, n)
    BY <2>1, <2>2, <2>4, SelectAnswers
  <2> QED
    BY <1>0, <2>1, <2>3, <2>5, ServingStep
<1>8. CASE ServeContent(t)
  <2>1. pc[t] = "content" /\ UNCHANGED caches
    BY <1>8 DEF ServeContent
  <2>2. contents[l.prompt] \in {"unknown", "known"}
    BY <1>0, <1>3, <2>1 DEF Fits, Kept, Content
  <2>3. Go(t, "fetch", l) \/ Go(t, "answer", l)
    BY <1>2, <1>8, <2>2 DEF ServeContent
  <2>4. Answers("fetch", l) /\ Answers("answer", l)
    BY <1>0, <1>2, <2>1 DEF Answers
  <2> QED
    BY <1>0, <1>1, <2>1, <2>3, <2>4, ServingStep DEF caches
<1>9. CASE ServeFetch(t)
  <2>1. pc[t] = "fetch" /\ routing' = routing /\ Fetched(l.prompt, "known") /\ Go(t, "answer", l)
    BY <1>2, <1>9 DEF ServeFetch
  <2>2. l.prompt \in Prompt
    BY <1>3, <2>1 DEF Fits, Kept
  <2>3. Answers("answer", l)
    BY <1>0, <1>2, <2>1 DEF Answers
  <2> QED
    BY <1>0, <1>1, <1>4, <2>1, <2>2, <2>3, ServingStep
<1>10. CASE ServeCertified(t)
  <2>1. PICK p \in FirstOf(CertifiedIn(l.stage), NoPrompt) :
          Go(t, IF p = NoPrompt THEN "answer" ELSE "remember",
             [[l EXCEPT !.label = NoVariant] EXCEPT !.prompt = p])
    <3>1. PICK m : m = [l EXCEPT !.label = NoVariant]
      OBVIOUS
    <3>2. pc[t] = "certified"
      BY <1>10 DEF ServeCertified
    <3>3. m.stage = l.stage
      BY <1>3, <3>1, <3>2 DEF Locals
    <3>4. \E p \in FirstOf(CertifiedIn(m.stage), NoPrompt) :
            Go(t, IF p = NoPrompt THEN "answer" ELSE "remember", [m EXCEPT !.prompt = p])
      BY <1>2, <1>10, <3>1 DEF ServeCertified
    <3> QED
      BY <3>1, <3>3, <3>4
  <2>2. pc[t] = "certified" /\ UNCHANGED caches
    BY <1>10 DEF ServeCertified
  <2>3. PICK k : k = [[l EXCEPT !.label = NoVariant] EXCEPT !.prompt = p]
    OBVIOUS
  <2>4. k.label = NoVariant /\ k.prompt = p /\ k.stage = l.stage /\ k.bucket = l.bucket
    BY <1>3, <2>2, <2>3 DEF Locals
  <2>5. Route(variants[k.stage], k.bucket) = NoVariant
    BY <1>0, <1>2, <2>2, <2>4 DEF Answers
  <2>6. Answers("answer", k) /\ Answers("remember", k)
    BY <2>1, <2>4, <2>5 DEF Answers
  <2>7. Go(t, "answer", k) \/ Go(t, "remember", k)
    BY <2>1, <2>3
  <2> QED
    BY <1>0, <1>1, <2>2, <2>6, <2>7, ServingStep DEF caches
<1>11. CASE ServeRemember(t)
  <2>1. pc[t] = "remember" /\ routing' = routing /\ Fetched(l.prompt, "known") /\ Go(t, "answer", l)
    BY <1>2, <1>11 DEF ServeRemember
  <2>2. l.prompt \in Prompt
    BY <1>3, <2>1 DEF Fits, Kept
  <2>3. Answers("answer", l)
    BY <1>0, <1>2, <2>1 DEF Answers
  <2> QED
    BY <1>0, <1>1, <1>4, <2>1, <2>2, <2>3, ServingStep
<1>12. CASE ServeAnswer(t)
  <2>1. Go(t, "idle", Blank) /\ UNCHANGED caches
    BY <1>12 DEF ServeAnswer, End
  <2>2. Answers("idle", Blank)
    BY DEF Answers
  <2> QED
    BY <1>0, <1>1, <2>1, <2>2, ServingStep DEF caches
<1> QED
  BY <1>5, <1>6, <1>7, <1>8, <1>9, <1>10, <1>11, <1>12 DEF Serve

LEMMA StartUpCaches ==
  ASSUME RInv, CInv, Seeding \/ Restart
  PROVE  CInv'
<1>1. CASE Restart
  <2>2. \A p \in Prompt : contents'[p] # "missing"
    BY <1>1 DEF Restart
  <2>3. \A s \in Stage : ~routing'[s].known
    BY <1>1 DEF Restart, NotCached
  <2>4. \A u \in Thread : pc'[u] = "idle"
    BY <1>1 DEF Restart
  <2> QED
    BY <2>2, <2>3, <2>4, ClearingStep
<1>2. CASE Seeding
  <2>0. BootFrom(Stage).at # "up"
    BY StageAssumption DEF BootFrom
  <2>1. /\ boot.at # "up" /\ UNCHANGED <<pc, loc, contents>>
    <3>1. CASE SeedSkipped
      BY <2>0, <3>1 DEF SeedSkipped, caches
    <3>2. CASE SeedCheck
      BY <3>2 DEF SeedCheck, caches
    <3>3. CASE SeedCertify
      BY <3>3 DEF SeedCertify, caches
    <3>4. CASE SeedChampion
      BY <3>4 DEF SeedChampion
    <3>5. CASE SeedFails
      BY <3>5 DEF SeedFails, caches
    <3> QED
      BY <1>2, <3>1, <3>2, <3>3, <3>4, <3>5 DEF Seeding
  <2>2. \A u \in Thread : pc[u] = "idle"
    BY <2>1 DEF RInv, Starting
  <2>3. \/ UNCHANGED <<variants, routing>>
        \/ \A s \in Stage : ~routing'[s].known
    <3>1. CASE SeedSkipped
      BY <3>1 DEF SeedSkipped, tables, caches
    <3>2. CASE SeedCheck
      BY <3>2 DEF SeedCheck, caches
    <3>3. CASE SeedCertify
      BY <3>3 DEF SeedCertify, caches
    <3>4. CASE SeedChampion
      <4>1. UNCHANGED <<variants, routing>> \/ routing' = [r \in Stage |-> NotCached]
        BY <3>4 DEF SeedChampion
      <4> QED
        BY <4>1 DEF NotCached
    <3>5. CASE SeedFails
      BY <3>5 DEF SeedFails, tables, caches
    <3> QED
      BY <1>2, <3>1, <3>2, <3>3, <3>4, <3>5 DEF Seeding
  <2>4. CASE \A s \in Stage : ~routing'[s].known
    BY <2>1, <2>2, <2>4, ClearingStep DEF CInv
  <2>5. CASE UNCHANGED <<variants, routing>>
    <3>1. \A s \in Stage : Active(s)' = Active(s)
      BY <2>5 DEF Active
    <3>2. \A u \in Thread : Answers(pc[u], loc[u])'
      BY <2>1, <2>2 DEF Answers
    <3> QED
      BY <2>1, <2>2, <2>5, <3>1, <3>2 DEF CInv
  <2> QED
    BY <2>3, <2>4, <2>5
<1> QED
  BY <1>1, <1>2

LEMMA CInvInit == Init => CInv
<1> SUFFICES ASSUME Init PROVE CInv
  OBVIOUS
<1>1. \A u \in Thread : Answers(pc[u], loc[u])
  BY DEF Init, Answers
<1> QED
  BY <1>1 DEF Init, CInv, NotCached

LEMMA CInvNext ==
  ASSUME OneThread, "read" \notin Faults, RInv, OInv, CInv, [Next]_vars
  PROVE  CInv'
<1>1. PICK t : Thread = {t}
  BY DEF OneThread
<1>2. CASE PromptRequest(t) \/ VariantRequest(t)
  BY <1>1, <1>2, RequestsLeaveCaches
<1>3. CASE Serve(t)
  BY <1>1, <1>3, ServeCaches
<1>4. CASE Seeding \/ Restart
  BY <1>4, StartUpCaches
<1>5. CASE UNCHANGED vars
  <2>1. \A u \in Thread : Answers(pc[u], loc[u])'
    BY <1>5 DEF CInv, Answers, Active, CertifiedIn, vars
  <2>2. \A s \in Stage : Active(s)' = Active(s)
    BY <1>5 DEF Active, vars
  <2> QED
    BY <1>5, <2>1, <2>2 DEF CInv, vars
<1> QED
  BY <1>1, <1>2, <1>3, <1>4, <1>5 DEF Next

\* When besides no read fails, the caches never show: an answer is the variant the tables
\* select for the session at that moment, else the certified prompt, else the fallback
\* (prompts/registry.py:746-753), though the routing cache is cleared a statement after
\* each commit and the contents are never cleared (routing.py:48, registry.py:601).
THEOREM AlwaysServesCurrent ==
  ASSUME OneThread, "read" \notin Faults
  PROVE  Spec => []ServesCurrent
<1>1. CInv => ServesCurrent
  <2> SUFFICES ASSUME CInv, NEW t \in Thread, pc[t] = "answer"
               PROVE  LET l == loc[t]
                          v == Route(variants[l.stage], l.bucket)
                      IN  /\ l.label = v
                          /\ v # NoVariant => l.prompt = variants[l.stage][v].prompt
                          /\ v = NoVariant =>
                               l.prompt \in FirstOf(CertifiedIn(l.stage), NoPrompt)
    BY DEF ServesCurrent
  <2> QED
    BY DEF CInv, Answers
<1>2. RInv /\ OInv /\ CInv /\ [Next]_vars => CInv'
  BY CInvNext
<1> QED
  BY <1>1, <1>2, CInvInit, RInvAlways, OInvAlways, PTL DEF Spec
=============================================================================
