------------------------------- MODULE SpecProofs -------------------------------
(***************************************************************************)
(* Proofs about SpecRepository, for any number of threads, specs, clients'    *)
(* versions and faults; what needs one request at a time says so.            *)
(***************************************************************************)
EXTENDS SpecRepository, FiniteSetTheorems, WellFoundedInduction, TLAPS

-----------------------------------------------------------------------------
(* Versions. *)

LEMMA VersionParts ==
  ASSUME NEW v \in Version
  PROVE  v[1] \in Nat /\ v[2] \in Nat /\ v[3] \in Nat /\ v = <<v[1], v[2], v[3]>>
BY DEF Version

LEMMA NewerIsOrder ==
  ASSUME NEW u \in Version, NEW v \in Version, NEW w \in Version
  PROVE  /\ ~Newer(v, v)
         /\ Newer(u, v) /\ Newer(v, w) => Newer(u, w)
         /\ ~Newer(u, v) /\ Newer(w, v) => Newer(w, u)
BY VersionParts DEF Newer

LEMMA NewerIsAfter ==
  ASSUME NEW v \in Version, NEW w \in Version, Newer(v, w)
  PROVE  After(v, w)
<1>0. /\ v[1] \in Nat /\ v[2] \in Nat /\ v[3] \in Nat
      /\ w[1] \in Nat /\ w[2] \in Nat /\ w[3] \in Nat
  BY VersionParts
<1>1. CASE v[1] > w[1]
  <2>1. 1 \in 1..3 /\ \A j \in 1..(1 - 1) : v[j] = w[j]
    OBVIOUS
  <2> QED
    BY <1>1, <2>1 DEF After
<1>2. CASE v[1] = w[1] /\ v[2] > w[2]
  <2>1. 2 \in 1..3 /\ \A j \in 1..(2 - 1) : j = 1
    OBVIOUS
  <2> QED
    BY <1>2, <2>1 DEF After
<1>3. CASE v[1] = w[1] /\ v[2] = w[2] /\ v[3] > w[3]
  <2>1. 3 \in 1..3 /\ \A j \in 1..(3 - 1) : j = 1 \/ j = 2
    OBVIOUS
  <2> QED
    BY <1>3, <2>1 DEF After
<1> QED
  BY <1>1, <1>2, <1>3 DEF Newer

\* A bump of a version that is the highest is newer than all.
LEMMA BumpIsNewer ==
  ASSUME NEW m \in Version, NEW w \in Version, ~Newer(w, m), NEW type \in BumpType
  PROVE  /\ Bump(m, type) \in Version
         /\ Newer(Bump(m, type), w)
         /\ type = "major" => Bump(m, type)[1] > w[1]
<1>0. /\ m[1] \in Nat /\ m[2] \in Nat /\ m[3] \in Nat
      /\ w[1] \in Nat /\ w[2] \in Nat /\ w[3] \in Nat
  BY VersionParts
<1>1. CASE type = "major"
  <2>1. Bump(m, type) = <<m[1] + 1, 0, 0>>
    BY <1>1 DEF Bump
  <2>2. m[1] + 1 > w[1]
    BY <1>0 DEF Newer
  <2> QED
    BY <1>0, <2>1, <2>2 DEF Version, Newer
<1>2. CASE type = "minor"
  <2>1. Bump(m, type) = <<m[1], m[2] + 1, 0>>
    BY <1>2 DEF Bump
  <2> QED
    BY <1>0, <1>2, <2>1 DEF Version, Newer
<1>3. CASE type = "patch"
  <2>1. Bump(m, type) = <<m[1], m[2], m[3] + 1>>
    BY <1>3 DEF Bump
  <2> QED
    BY <1>0, <1>3, <2>1 DEF Version, Newer
<1> QED
  BY <1>1, <1>2, <1>3 DEF BumpType

LEMMA LeastOne ==
  ASSUME NEW S, S \subseteq Nat, S # {}
  PROVE  \E m \in S : \A n \in S : m <= n
<1> DEFINE R == OpToRel(<, Nat)
<1>1. PICK m \in S : \A n \in S : ~ (<<n, m>> \in R)
  <2>1. IsWellFoundedOn(R, Nat)
    BY NatLessThanWellFounded, Zenon
  <2> HIDE DEF R
  <2> QED
    BY <2>1, WFMin
<1>2. ASSUME NEW n \in S PROVE m <= n
  <2>1. n \in Nat /\ m \in Nat
    OBVIOUS
  <2>2. ~ (n < m)
    BY <1>1, <2>1 DEF OpToRel
  <2> QED
    BY <2>1, <2>2
<1> QED
  BY <1>2

\* Of finitely many versions one is the highest: the one with the fewest above it, for
\* another one above it would have fewer.
LEMMA MaxIsHighest ==
  ASSUME NEW S, S \subseteq Version, IsFiniteSet(S), S # {}
  PROVE  MaxVersion(S) \in S /\ \A w \in S : ~Newer(w, MaxVersion(S))
<1> DEFINE Above(v) == {w \in S : Newer(w, v)}
           Counts == {Cardinality(Above(v)) : v \in S}
<1>1. \A v \in S : IsFiniteSet(Above(v)) /\ Cardinality(Above(v)) \in Nat
  <2>1. ASSUME NEW v \in S PROVE IsFiniteSet(Above(v))
    <3>1. Above(v) \subseteq S
      OBVIOUS
    <3> QED
      BY <3>1, FS_Subset
  <2> QED
    BY <2>1, FS_CardinalityType
<1>2. PICK n \in Counts : \A k \in Counts : n <= k
  <2>1. Counts \subseteq Nat /\ Counts # {}
    BY <1>1
  <2> HIDE DEF Counts
  <2> QED
    BY <2>1, LeastOne
<1>3. PICK v \in S : Cardinality(Above(v)) = n
  BY <1>2
<1>4. \A w \in S : n <= Cardinality(Above(w))
  BY <1>2
<1>5. ASSUME NEW w \in S, Newer(w, v) PROVE FALSE
  <2>1. Above(w) \subseteq Above(v)
    BY <1>5, NewerIsOrder
  <2>2. w \in Above(v) /\ w \notin Above(w)
    BY <1>5, NewerIsOrder
  <2>3. Above(w) \subseteq Above(v) /\ Above(w) # Above(v)
    BY <2>1, <2>2
  <2>4. IsFiniteSet(Above(v)) /\ Cardinality(Above(v)) \in Nat /\ Cardinality(Above(w)) \in Nat
    BY <1>1
  <2>5. Cardinality(Above(w)) < Cardinality(Above(v))
    <3> HIDE DEF Above
    <3>1. Above(w) \in SUBSET Above(v)
      BY <2>3
    <3>2. /\ Cardinality(Above(w)) <= Cardinality(Above(v))
          /\ Cardinality(Above(v)) = Cardinality(Above(w)) => Above(v) = Above(w)
      BY <2>4, <3>1, FS_Subset
    <3> QED
      BY <2>3, <2>4, <3>2
  <2> QED
    BY <1>1, <1>3, <1>4, <2>5
<1> QED
  BY <1>5 DEF MaxVersion

-----------------------------------------------------------------------------
(* The invariant. *)

Place == {"idle", "update", "insert", "read", "scan", "archive", "flip", "commit", "install"}

\* A version that stands for a change of a spec that is stored.
Derives(p, v, c, type) ==
  /\ p \in Stored
  /\ v \in Version
  /\ After(v, p)
  /\ type \in BumpType /\ c.shape # specs[p].content.shape => v[1] > p[1]

Lineage ==
  \A v \in Stored : specs[v].parent # NoVersion =>
    Derives(specs[v].parent, v, specs[v].content, specs[v].type)

\* What the local variables of a thread are good for at its next statement.
Fits(x, l) ==
  /\ x \in {"update", "insert"} => Derives(l.target, l.version, l.content, l.type)
  /\ x \in {"read", "scan", "archive", "flip", "commit"} => l.target \in Stored
  /\ x = "install" => l.content \in Content

\* Requests wait for the start-up.
Starting ==
  /\ boot # "up" => \A t \in Thread : pc[t] = "idle"
  /\ boot = "activate" => YamlVersion \in Stored

SInv ==
  /\ TypeOK
  /\ IsFiniteSet(Stored)
  /\ Lineage
  /\ Starting
  /\ \A t \in Thread : Fits(pc[t], loc[t])

\* A step keeps what is stored, and its content.
Grows ==
  \A v \in Stored : v \in DOMAIN specs' /\ specs'[v].content = specs[v].content

LEMMA DerivesOn ==
  ASSUME Grows, NEW p, NEW v, NEW c, NEW type, Derives(p, v, c, type)
  PROVE  Derives(p, v, c, type)'
BY DEF Grows, Derives, Stored

LEMMA FitsOn ==
  ASSUME Grows, NEW x, NEW l, Fits(x, l)
  PROVE  Fits(x, l)'
<1>1. Derives(l.target, l.version, l.content, l.type) =>
        Derives(l.target, l.version, l.content, l.type)'
  BY DerivesOn
<1>2. l.target \in Stored => l.target \in Stored'
  BY DEF Grows, Stored
<1> QED
  BY <1>1, <1>2 DEF Fits

\* What a new row does to the table.
LEMMA InsertedIs ==
  ASSUME TypeOK, NEW v \in Version, NEW c \in Content, NEW p \in Version \cup {NoVersion},
         NEW type \in BumpType \cup {"none", "chosen"}
  PROVE  /\ DOMAIN Inserted(v, c, p, type) = Stored \cup {v}
         /\ \A w \in Stored \cup {v} :
              Inserted(v, c, p, type)[w] =
                IF w = v THEN [status |-> "draft", content |-> c, parent |-> p, type |-> type]
                ELSE specs[w]
         /\ Inserted(v, c, p, type) \in [Stored \cup {v} -> Row]
<1>1. [status |-> "draft", content |-> c, parent |-> p, type |-> type] \in Row
  BY DEF Row
<1>2. specs \in [Stored -> Row]
  BY DEF TypeOK, Stored
<1> QED
  BY <1>1, <1>2 DEF Inserted

\* Typing and lineage of a table that has grown by a new row.
LEMMA InsertKeeps ==
  ASSUME TypeOK, IsFiniteSet(Stored), Lineage, NEW v \in Version, v \notin Stored,
         NEW c \in Content, NEW p \in Version \cup {NoVersion},
         NEW type \in BumpType \cup {"none", "chosen"},
         specs' = Inserted(v, c, p, type), p # NoVersion => Derives(p, v, c, type)
  PROVE  /\ DOMAIN specs' \in SUBSET Version /\ specs' \in [DOMAIN specs' -> Row]
         /\ IsFiniteSet(Stored') /\ Lineage' /\ Grows /\ v \in Stored'
<1>1. /\ DOMAIN specs' = Stored \cup {v}
      /\ \A w \in Stored \cup {v} :
           specs'[w] = IF w = v
                       THEN [status |-> "draft", content |-> c, parent |-> p, type |-> type]
                       ELSE specs[w]
      /\ specs' \in [Stored \cup {v} -> Row]
  BY InsertedIs
<1>2. Grows
  BY <1>1 DEF Grows
<1>3. IsFiniteSet(Stored')
  BY <1>1, FS_AddElement DEF Stored
<1>4. ASSUME NEW w \in Stored', specs'[w].parent # NoVersion
      PROVE  Derives(specs[w].parent, w, specs[w].content, specs[w].type)'
  <2>1. CASE w = v
    <3>1. /\ specs'[w].parent = p /\ specs'[w].content = c /\ specs'[w].type = type
      BY <1>1, <2>1
    <3>2. Derives(p, v, c, type)'
      BY <1>2, <1>4, <3>1, DerivesOn
    <3> QED
      BY <2>1, <3>1, <3>2 DEF Derives
  <2>2. CASE w # v
    <3>1. w \in Stored /\ specs'[w] = specs[w]
      BY <1>1, <1>4, <2>2 DEF Stored
    <3>2. PICK q, d, k : q = specs[w].parent /\ d = specs[w].content /\ k = specs[w].type
      OBVIOUS
    <3>3. Derives(q, w, d, k)
      BY <1>4, <3>1, <3>2 DEF Lineage
    <3>4. Derives(q, w, d, k)'
      BY <1>2, <3>3, DerivesOn
    <3>5. specs'[w].parent = q /\ specs'[w].content = d /\ specs'[w].type = k
      BY <3>1, <3>2
    <3> QED
      BY <3>4, <3>5 DEF Derives
  <2> QED
    BY <2>1, <2>2
<1> QED
  BY <1>1, <1>2, <1>3, <1>4 DEF Lineage, Stored, TypeOK

\* Likewise, of a table of which only the statuses change.
LEMMA StatusKeeps ==
  ASSUME TypeOK, IsFiniteSet(Stored), Lineage,
         DOMAIN specs' = Stored,
         \A w \in Stored : /\ specs'[w] \in Row
                           /\ specs'[w].content = specs[w].content
                           /\ specs'[w].parent = specs[w].parent
                           /\ specs'[w].type = specs[w].type,
         specs' = [w \in Stored |-> specs'[w]]
  PROVE  /\ DOMAIN specs' \in SUBSET Version /\ specs' \in [DOMAIN specs' -> Row]
         /\ IsFiniteSet(Stored') /\ Lineage' /\ Grows
<1>1. Grows
  BY DEF Grows
<1>2. IsFiniteSet(Stored') /\ DOMAIN specs' \in SUBSET Version
  BY DEF Stored, TypeOK
<1>3. ASSUME NEW w \in Stored', specs'[w].parent # NoVersion
      PROVE  Derives(specs[w].parent, w, specs[w].content, specs[w].type)'
  <2>1. w \in Stored
    BY <1>3 DEF Stored
  <2>2. PICK q, d, k : q = specs[w].parent /\ d = specs[w].content /\ k = specs[w].type
    OBVIOUS
  <2>3. Derives(q, w, d, k)
    BY <1>3, <2>1, <2>2 DEF Lineage
  <2>4. Derives(q, w, d, k)'
    BY <1>1, <2>3, DerivesOn
  <2>5. specs'[w].parent = q /\ specs'[w].content = d /\ specs'[w].type = k
    BY <2>1, <2>2
  <2> QED
    BY <2>4, <2>5 DEF Derives
<1>4. specs' \in [DOMAIN specs' -> Row]
  <2>1. PICK f : f = specs'
    OBVIOUS
  <2>2. PICK S : S = Stored
    OBVIOUS
  <2>3. \A w \in S : f[w] \in Row
    BY <2>1, <2>2
  <2>4. f = [w \in S |-> f[w]]
    BY <2>1, <2>2
  <2>5. f \in [S -> Row]
    BY <2>3, <2>4
  <2> QED
    BY <2>1, <2>2, <2>5
<1> QED
  BY <1>1, <1>2, <1>3, <1>4 DEF Lineage

\* A step of a thread: the others stay fit.
LEMMA ThreadStep ==
  ASSUME SInv, NEW t \in Thread, NEW x \in Place, NEW l \in Locals,
         boot = "up", Go(t, x, l), UNCHANGED boot, Grows, Fits(x, l)',
         DOMAIN specs' \in SUBSET Version, specs' \in [DOMAIN specs' -> Row],
         IsFiniteSet(Stored'), Lineage',
         live' \in Content \cup {NotLoaded}, started' \in 0..MaxRequests
  PROVE  SInv'
<1>1. pc \in [Thread -> Place] /\ loc \in [Thread -> Locals]
  BY DEF SInv, TypeOK, Place
<1>2. pc' \in [Thread -> Place] /\ loc' \in [Thread -> Locals]
  BY <1>1 DEF Go
<1>3. TypeOK'
  BY <1>2 DEF TypeOK, Place
<1>4. ASSUME NEW u \in Thread PROVE Fits(pc[u], loc[u])'
  <2>1. CASE u = t
    <3>1. pc'[u] = x /\ loc'[u] = l
      BY <1>1, <2>1 DEF Go
    <3> QED
      BY <3>1 DEF Fits, Derives
  <2>2. CASE u # t
    <3>1. PICK y, k : y = pc[u] /\ k = loc[u]
      OBVIOUS
    <3>2. Fits(y, k)
      BY <3>1 DEF SInv
    <3>3. Fits(y, k)'
      BY <3>2, FitsOn
    <3>4. pc'[u] = y /\ loc'[u] = k
      BY <1>1, <2>2, <3>1 DEF Go
    <3> QED
      BY <3>3, <3>4 DEF Fits, Derives
  <2> QED
    BY <2>1, <2>2
<1>5. Starting'
  BY DEF Starting
<1> QED
  BY <1>3, <1>4, <1>5 DEF SInv

\* Likewise, of one that leaves the table alone.
LEMMA QuietStep ==
  ASSUME SInv, NEW t \in Thread, NEW x \in Place, NEW l \in Locals,
         boot = "up", Go(t, x, l), UNCHANGED <<specs, boot>>, Fits(x, l),
         live' \in Content \cup {NotLoaded}, started' \in 0..MaxRequests
  PROVE  SInv'
<1>1. Grows
  BY DEF Grows, Stored
<1>2. Fits(x, l)'
  BY <1>1, FitsOn
<1>3. DOMAIN specs' \in SUBSET Version /\ specs' \in [DOMAIN specs' -> Row]
  BY DEF SInv, TypeOK
<1>4. IsFiniteSet(Stored') /\ Lineage'
  BY DEF SInv, Stored, Lineage, Derives
<1> QED
  BY <1>1, <1>2, <1>3, <1>4, ThreadStep

LEMMA Works ==
  ASSUME SInv, NEW t \in Thread, pc[t] # "idle"
  PROVE  /\ boot = "up" /\ loc[t] \in Locals /\ Fits(pc[t], loc[t])
         /\ live \in Content \cup {NotLoaded} /\ started \in 0..MaxRequests
         /\ DOMAIN specs \in SUBSET Version /\ specs \in [Stored -> Row]
BY DEF SInv, TypeOK, Starting, Stored

LEMMA Begins ==
  ASSUME SInv, NEW t \in Thread, Request(t)
  PROVE  /\ boot = "up" /\ started' \in 0..MaxRequests
         /\ live \in Content \cup {NotLoaded}
         /\ Stored \in SUBSET Version /\ specs \in [Stored -> Row]
<1>1. started \in Nat /\ started < MaxRequests /\ MaxRequests \in Nat
  BY MaxRequestsAssumption DEF SInv, TypeOK, Request
<1> QED
  BY <1>1 DEF SInv, TypeOK, Request, Stored

LEMMA BlankTypes == Blank \in Locals /\ Fits("idle", Blank) /\ "idle" \in Place
BY YamlAssumption DEF Blank, Locals, Fits, Place

-----------------------------------------------------------------------------
(* Requests. *)

\* The highest stored version, and what a bump of it is to each stored one.
LEMMA HighestStored ==
  ASSUME SInv, NEW p \in Stored, NEW type \in BumpType
  PROVE  LET v == Bump(MaxVersion(Stored), type) IN
         /\ v \in Version /\ After(v, p)
         /\ type = "major" => v[1] > p[1]
<1>1. Stored \subseteq Version /\ IsFiniteSet(Stored) /\ Stored # {}
  BY DEF SInv, TypeOK, Stored
<1>2. MaxVersion(Stored) \in Version /\ ~Newer(p, MaxVersion(Stored))
  BY <1>1, MaxIsHighest
<1>3. p \in Version
  BY <1>1
<1>4. /\ Bump(MaxVersion(Stored), type) \in Version
      /\ Newer(Bump(MaxVersion(Stored), type), p)
      /\ type = "major" => Bump(MaxVersion(Stored), type)[1] > p[1]
  BY <1>2, <1>3, BumpIsNewer
<1> QED
  BY <1>3, <1>4, NewerIsAfter

LEMMA CreateKeeps ==
  ASSUME SInv, NEW t \in Thread, Create(t)
  PROVE  SInv'
<1>1. PICK v \in Chosen \cup {InitialVersion}, c \in Content :
        /\ Request(t)
        /\ v \notin Stored
        /\ specs' = Inserted(v, c, NoVersion, "none")
        /\ UNCHANGED <<live, boot, pc, loc>>
  BY DEF Create
<1>2. v \in Version
  BY ClientAssumption DEF InitialVersion, Version
<1>3. /\ TypeOK /\ IsFiniteSet(Stored) /\ Lineage
  BY DEF SInv
<1>4. /\ DOMAIN specs' \in SUBSET Version /\ specs' \in [DOMAIN specs' -> Row]
      /\ IsFiniteSet(Stored') /\ Lineage' /\ Grows
  BY <1>1, <1>2, <1>3, InsertKeeps
<1>5. boot = "up" /\ started' \in 0..MaxRequests
  BY <1>1, Begins
<1>6. TypeOK'
  BY <1>1, <1>3, <1>4, <1>5 DEF TypeOK
<1>7. ASSUME NEW u \in Thread PROVE Fits(pc[u], loc[u])'
  <2>1. PICK y, k : y = pc[u] /\ k = loc[u]
    OBVIOUS
  <2>2. Fits(y, k)'
    BY <1>4, <2>1, FitsOn DEF SInv
  <2>3. pc'[u] = y /\ loc'[u] = k
    BY <1>1, <2>1
  <2> QED
    BY <2>2, <2>3 DEF Fits, Derives
<1>8. Starting'
  BY <1>1, <1>5 DEF Starting
<1> QED
  BY <1>4, <1>6, <1>7, <1>8 DEF SInv

LEMMA BumpKeeps ==
  ASSUME SInv, NEW t \in Thread, BumpSpec(t)
  PROVE  SInv'
<1>1. PICK p \in Stored, c \in Content, chosen \in BumpType \cup {"none"} :
        LET type == IF chosen = "none" THEN DetectBump(specs[p].content, c) ELSE chosen IN
        /\ Request(t)
        /\ Go(t, "update", [Blank EXCEPT !.target = p, !.content = c,
                              !.version = Bump(MaxVersion(Stored), type),
                              !.type = IF chosen = "none" THEN type ELSE "chosen"])
        /\ UNCHANGED <<specs, live, boot>>
  BY DEF BumpSpec
<1> DEFINE type == IF chosen = "none" THEN DetectBump(specs[p].content, c) ELSE chosen
           v == Bump(MaxVersion(Stored), type)
           kind == IF chosen = "none" THEN type ELSE "chosen"
           l == [Blank EXCEPT !.target = p, !.content = c, !.version = v, !.type = kind]
<1>2. type \in BumpType
  BY DEF DetectBump, BumpType
<1>3. kind \in BumpType /\ c.shape # specs[p].content.shape => type = "major"
  BY DEF DetectBump, BumpType
<1>4. kind \in BumpType \cup {"none", "chosen"}
  BY <1>2
<1>5. Request(t) /\ Go(t, "update", l) /\ UNCHANGED <<specs, live, boot>>
  BY <1>1
<1> HIDE DEF type
<1>6. v \in Version /\ After(v, p) /\ (type = "major" => v[1] > p[1])
  BY <1>2, HighestStored
<1> HIDE DEF v, kind
<1>7. Derives(p, v, c, kind)
  BY <1>3, <1>6 DEF Derives
<1>8. p \in Version
  BY DEF SInv, TypeOK, Stored
<1>9. l \in Locals /\ l.target = p /\ l.version = v /\ l.content = c /\ l.type = kind
  BY <1>4, <1>6, <1>8, BlankTypes DEF Locals
<1> HIDE DEF l
<1>10. Fits("update", l) /\ "update" \in Place
  BY <1>7, <1>9 DEF Fits, Place
<1> QED
  BY <1>5, <1>9, <1>10, Begins, QuietStep

LEMMA PolicyKeeps ==
  ASSUME SInv, NEW t \in Thread, UpdatePolicy(t)
  PROVE  SInv'
<1>1. PICK p \in Stored, level \in Level, tools \in Tools :
        /\ Request(t)
        /\ Go(t, "update", [Blank EXCEPT !.target = p,
                              !.content = [specs[p].content EXCEPT !.level = level, !.tools = tools],
                              !.version = Bump(MaxVersion(Stored), "minor"),
                              !.type = "chosen", !.then = "read"])
        /\ UNCHANGED <<specs, live, boot>>
  BY DEF UpdatePolicy
<1> DEFINE v == Bump(MaxVersion(Stored), "minor")
           c == [specs[p].content EXCEPT !.level = level, !.tools = tools]
           l == [Blank EXCEPT !.target = p, !.content = c, !.version = v,
                              !.type = "chosen", !.then = "read"]
<1>2. Request(t) /\ Go(t, "update", l) /\ UNCHANGED <<specs, live, boot>>
  BY <1>1
<1>3. v \in Version /\ After(v, p)
  BY HighestStored DEF BumpType
<1>4. specs[p].content \in Content /\ p \in Version
  BY DEF SInv, TypeOK, Stored, Row
<1>5. c \in Content
  BY <1>4 DEF Content
<1> HIDE DEF v, c
<1>6. Derives(p, v, c, "chosen")
  BY <1>3 DEF Derives, BumpType
<1>7. l \in Locals /\ l.target = p /\ l.version = v /\ l.content = c /\ l.type = "chosen"
  BY <1>3, <1>4, <1>5, BlankTypes DEF Locals
<1> HIDE DEF l
<1>8. Fits("update", l) /\ "update" \in Place
  BY <1>6, <1>7 DEF Fits, Place
<1> QED
  BY <1>2, <1>7, <1>8, Begins, QuietStep

LEMMA ActivateKeeps ==
  ASSUME SInv, NEW t \in Thread, Activate(t)
  PROVE  SInv'
<1>1. PICK v \in Stored :
        /\ Request(t)
        /\ Go(t, "scan", [Blank EXCEPT !.target = v, !.read = specs[v].status])
        /\ UNCHANGED <<specs, live, boot>>
  BY DEF Activate
<1> DEFINE l == [Blank EXCEPT !.target = v, !.read = specs[v].status]
<1>2. v \in Version /\ specs[v].status \in {"draft", "active", "archived"}
  BY DEF SInv, TypeOK, Stored, Row
<1>3. l \in Locals /\ l.target = v
  BY <1>2, BlankTypes DEF Locals
<1> HIDE DEF l
<1>4. Fits("scan", l) /\ "scan" \in Place
  BY <1>3 DEF Fits, Place
<1> QED
  BY <1>1, <1>3, <1>4, Begins, QuietStep DEF l

LEMMA LoadKeeps ==
  ASSUME SInv, NEW t \in Thread, LoadSpec(t)
  PROVE  SInv'
<1>1. /\ boot = "up" /\ UNCHANGED <<specs, live, boot, started>>
      /\ live' \in Content \cup {NotLoaded} /\ started' \in 0..MaxRequests
  BY DEF LoadSpec, SInv, TypeOK
<1>2. "install" \in Place
  BY DEF Place
<1>3. CASE \E v \in ActiveVersions : Go(t, "install", [Blank EXCEPT !.content = specs[v].content])
  <2>1. PICK v \in ActiveVersions : Go(t, "install", [Blank EXCEPT !.content = specs[v].content])
    BY <1>3
  <2> DEFINE l == [Blank EXCEPT !.content = specs[v].content]
  <2>2. specs[v].content \in Content
    BY <2>1 DEF SInv, TypeOK, ActiveVersions, Stored, Row
  <2>3. l \in Locals /\ l.content = specs[v].content
    BY <2>2, BlankTypes DEF Locals
  <2> HIDE DEF l
  <2>4. Fits("install", l)
    BY <2>2, <2>3 DEF Fits
  <2> QED
    BY <1>1, <1>2, <2>1, <2>3, <2>4, QuietStep DEF l
<1>4. CASE Go(t, "install", Blank)
  <2>1. Fits("install", Blank)
    BY BlankTypes DEF Fits, Locals
  <2> QED
    BY <1>1, <1>2, <1>4, <2>1, BlankTypes, QuietStep
<1> QED
  BY <1>3, <1>4 DEF LoadSpec

LEMMA UpdateKeeps ==
  ASSUME SInv, NEW t \in Thread, UpdateRead(t) \/ UpdateInsert(t)
  PROVE  SInv'
<1>0. /\ boot = "up" /\ loc[t] \in Locals /\ Fits(pc[t], loc[t])
      /\ live \in Content \cup {NotLoaded} /\ started \in 0..MaxRequests
  BY Works DEF UpdateRead, UpdateInsert
<1>1. CASE UpdateRead(t)
  <2>1. pc[t] = "update" /\ UNCHANGED <<specs, live, boot, started>>
    BY <1>1 DEF UpdateRead
  <2>2. Fits("insert", loc[t]) /\ "insert" \in Place
    BY <1>0, <2>1 DEF Fits, Place
  <2>3. Go(t, "insert", loc[t]) \/ Go(t, "idle", Blank)
    BY <1>1 DEF UpdateRead, End
  <2> QED
    BY <1>0, <2>1, <2>2, <2>3, BlankTypes, QuietStep
<1>2. CASE UpdateInsert(t)
  <2>1. pc[t] = "insert" /\ UNCHANGED <<live, boot, started>>
    BY <1>2 DEF UpdateInsert
  <2>2. PICK l : l = loc[t]
    OBVIOUS
  <2>3. l \in Locals /\ Derives(l.target, l.version, l.content, l.type)
    BY <1>0, <2>1, <2>2 DEF Fits
  <2>4. CASE l.version \in Stored
    <3>1. Go(t, "idle", Blank) /\ UNCHANGED specs
      BY <1>2, <2>2, <2>4 DEF UpdateInsert, End
    <3> QED
      BY <1>0, <2>1, <3>1, BlankTypes, QuietStep
  <2>5. CASE l.version \notin Stored
    <3>1. /\ specs' = Inserted(l.version, l.content, l.target, l.type)
          /\ \/ Go(t, "idle", Blank)
             \/ Go(t, "read", [Blank EXCEPT !.target = l.version])
      BY <1>2, <2>2, <2>5 DEF UpdateInsert, End
    <3>2. /\ l.version \in Version /\ l.content \in Content
          /\ l.target \in Version \cup {NoVersion}
          /\ l.type \in BumpType \cup {"none", "chosen"}
      BY <2>3 DEF Locals, Derives
    <3>3. TypeOK /\ IsFiniteSet(Stored) /\ Lineage
      BY DEF SInv
    <3>4. /\ DOMAIN specs' \in SUBSET Version /\ specs' \in [DOMAIN specs' -> Row]
          /\ IsFiniteSet(Stored') /\ Lineage' /\ Grows /\ l.version \in Stored'
      BY <2>3, <2>5, <3>1, <3>2, <3>3, InsertKeeps
    <3>5. CASE Go(t, "idle", Blank)
      <4>1. Fits("idle", Blank)'
        BY DEF Fits
      <4> QED
        BY <1>0, <2>1, <3>4, <3>5, <4>1, BlankTypes, ThreadStep
    <3>6. CASE Go(t, "read", [Blank EXCEPT !.target = l.version])
      <4>1. PICK k : k = [Blank EXCEPT !.target = l.version]
        OBVIOUS
      <4>2. k \in Locals /\ k.target = l.version
        BY <3>2, <4>1, BlankTypes DEF Locals
      <4>3. Fits("read", k)' /\ "read" \in Place
        BY <3>4, <4>2 DEF Fits, Place
      <4>4. Go(t, "read", k)
        BY <3>6, <4>1
      <4> QED
        BY <1>0, <2>1, <3>4, <4>2, <4>3, <4>4, ThreadStep
    <3> QED
      BY <3>1, <3>5, <3>6
  <2> QED
    BY <2>4, <2>5
<1> QED
  BY <1>1, <1>2

LEMMA ActivationKeeps ==
  ASSUME SInv, NEW t \in Thread,
         \/ ActivateRead(t) \/ ActivateScan(t) \/ ActivateArchive(t) \/ ActivateFlip(t)
  PROVE  SInv'
<1>0. /\ boot = "up" /\ loc[t] \in Locals /\ Fits(pc[t], loc[t])
      /\ live \in Content \cup {NotLoaded} /\ started \in 0..MaxRequests
      /\ specs \in [Stored -> Row] /\ Stored \subseteq Version
  BY Works DEF ActivateRead, ActivateScan, ActivateArchive, ActivateFlip, Stored
<1>1. UNCHANGED <<specs, live, boot, started>>
  BY DEF ActivateRead, ActivateScan, ActivateArchive, ActivateFlip
<1>2. loc[t].target \in Stored
  BY <1>0 DEF ActivateRead, ActivateScan, ActivateArchive, ActivateFlip, Fits
<1>3. ASSUME NEW x \in {"scan", "archive", "flip", "commit"}, NEW k \in Locals,
             k.target = loc[t].target, Go(t, x, k)
      PROVE  SInv'
  <2>1. Fits(x, k) /\ x \in Place
    BY <1>2, <1>3 DEF Fits, Place
  <2> QED
    BY <1>0, <1>1, <1>3, <2>1, QuietStep
<1>4. CASE ActivateRead(t)
  <2>1. PICK k : k = [loc[t] EXCEPT !.read = specs[loc[t].target].status]
    OBVIOUS
  <2>2. specs[loc[t].target].status \in {"draft", "active", "archived"}
    BY <1>0, <1>2 DEF Row
  <2>3. k \in Locals /\ k.target = loc[t].target
    BY <1>0, <2>1, <2>2 DEF Locals
  <2> QED
    BY <1>3, <1>4, <2>1, <2>3 DEF ActivateRead
<1>5. CASE ActivateScan(t)
  <2>1. PICK k : k = [loc[t] EXCEPT !.scan = ActiveVersions \ {loc[t].target}]
    OBVIOUS
  <2>2. ActiveVersions \ {loc[t].target} \in SUBSET Version
    BY <1>0 DEF ActiveVersions
  <2>3. k \in Locals /\ k.target = loc[t].target
    BY <1>0, <2>1, <2>2 DEF Locals
  <2> QED
    BY <1>3, <1>5, <2>1, <2>3 DEF ActivateScan
<1>6. CASE ActivateArchive(t)
  <2>1. PICK k : k = [loc[t] EXCEPT !.archived = loc[t].scan \cap ActiveVersions]
    OBVIOUS
  <2>2. loc[t].scan \cap ActiveVersions \in SUBSET Version
    BY <1>0 DEF ActiveVersions
  <2>3. k \in Locals /\ k.target = loc[t].target
    BY <1>0, <2>1, <2>2 DEF Locals
  <2> QED
    BY <1>3, <1>6, <2>1, <2>3 DEF ActivateArchive
<1>7. CASE ActivateFlip(t)
  <2>1. PICK k : k = [loc[t] EXCEPT !.flip = (loc[t].read # "active")]
    OBVIOUS
  <2>2. (loc[t].read # "active") \in BOOLEAN
    OBVIOUS
  <2>3. k \in Locals /\ k.target = loc[t].target
    <3>1. PICK b \in BOOLEAN : b = (loc[t].read # "active")
      BY <2>2, Zenon
    <3>2. k = [loc[t] EXCEPT !.flip = b]
      BY <2>1, <3>1, Zenon
    <3> QED
      BY <1>0, <3>2 DEF Locals
  <2>4. Go(t, "commit", k)
    BY <1>7, <2>1, Zenon DEF ActivateFlip
  <2> QED
    BY <1>3, <2>3, <2>4
<1> QED
  BY <1>4, <1>5, <1>6, <1>7

\* What the commit of an activation makes of the statuses.
LEMMA CommitKeeps ==
  ASSUME SInv, NEW t \in Thread, ActivateCommit(t)
  PROVE  SInv'
<1>0. /\ boot = "up" /\ live \in Content \cup {NotLoaded} /\ started \in 0..MaxRequests
      /\ specs \in [Stored -> Row]
  BY Works DEF ActivateCommit
<1>1. /\ specs' = [v \in Stored |->
                    IF loc[t].flip /\ v = loc[t].target THEN [specs[v] EXCEPT !.status = "active"]
                    ELSE IF v \in loc[t].archived THEN [specs[v] EXCEPT !.status = "archived"]
                    ELSE specs[v]]
      /\ Go(t, "idle", Blank) /\ UNCHANGED <<live, boot, started>>
  BY DEF ActivateCommit, End
<1>2. DOMAIN specs' = Stored /\ specs' = [w \in Stored |-> specs'[w]]
  BY <1>1
<1>3. \A w \in Stored : /\ specs'[w] \in Row
                        /\ specs'[w].content = specs[w].content
                        /\ specs'[w].parent = specs[w].parent
                        /\ specs'[w].type = specs[w].type
  BY <1>0, <1>1 DEF Row
<1>4. TypeOK /\ IsFiniteSet(Stored) /\ Lineage
  BY DEF SInv
<1>5. /\ DOMAIN specs' \in SUBSET Version /\ specs' \in [DOMAIN specs' -> Row]
      /\ IsFiniteSet(Stored') /\ Lineage' /\ Grows
  BY <1>2, <1>3, <1>4, StatusKeeps
<1>6. Fits("idle", Blank)'
  BY DEF Fits
<1> QED
  BY <1>0, <1>1, <1>5, <1>6, BlankTypes, ThreadStep

LEMMA InstallKeeps ==
  ASSUME SInv, NEW t \in Thread, InstallSpec(t)
  PROVE  SInv'
<1>1. /\ boot = "up" /\ started \in 0..MaxRequests /\ loc[t].content \in Content
  BY Works DEF InstallSpec, Fits
<1>2. /\ live' = loc[t].content /\ Go(t, "idle", Blank)
      /\ UNCHANGED <<specs, boot, started>>
  BY DEF InstallSpec, End
<1> QED
  BY <1>1, <1>2, BlankTypes, QuietStep

-----------------------------------------------------------------------------
(* Start-up. *)

\* No request is under way before it has ended.
LEMMA BootStep ==
  ASSUME SInv, boot # "up", UNCHANGED <<live, pc, loc, started>>,
         boot' \in {"check", "activate", "up"},
         DOMAIN specs' \in SUBSET Version, specs' \in [DOMAIN specs' -> Row],
         IsFiniteSet(Stored'), Lineage',
         boot' = "activate" => YamlVersion \in Stored'
  PROVE  SInv'
<1>1. \A t \in Thread : pc'[t] = "idle"
  BY DEF SInv, Starting
<1>2. TypeOK'
  BY DEF SInv, TypeOK
<1>3. Starting'
  BY <1>1 DEF Starting
<1>4. \A t \in Thread : Fits(pc[t], loc[t])'
  BY <1>1 DEF Fits
<1> QED
  BY <1>2, <1>3, <1>4 DEF SInv

LEMMA SeedingKeeps ==
  ASSUME SInv, Seeding
  PROVE  SInv'
<1>0. /\ boot # "up" /\ UNCHANGED <<live, pc, loc, started>>
      /\ TypeOK /\ IsFiniteSet(Stored) /\ Lineage /\ specs \in [Stored -> Row]
  BY DEF Seeding, SeedCheck, SeedActivate, SeedFails, SInv, TypeOK, Stored
<1>1. ASSUME UNCHANGED specs, boot' = "up" PROVE SInv'
  <2>1. DOMAIN specs' \in SUBSET Version /\ specs' \in [DOMAIN specs' -> Row]
    BY <1>0, <1>1 DEF TypeOK
  <2>2. IsFiniteSet(Stored') /\ Lineage'
    BY <1>0, <1>1 DEF Stored, Lineage, Derives
  <2> QED
    BY <1>0, <1>1, <2>1, <2>2, BootStep
<1>2. ASSUME YamlVersion \notin Stored, boot' = "activate",
             specs' = Inserted(YamlVersion, Yaml, NoVersion, "none")
      PROVE  SInv'
  <2>1. /\ DOMAIN specs' \in SUBSET Version /\ specs' \in [DOMAIN specs' -> Row]
        /\ IsFiniteSet(Stored') /\ Lineage' /\ YamlVersion \in Stored'
    BY <1>0, <1>2, YamlAssumption, InsertKeeps
  <2> QED
    BY <1>0, <1>2, <2>1, BootStep
<1>3. CASE SeedActivate
  <2>1. /\ boot' = "up"
        /\ specs' = [v \in Stored |->
                      IF v = YamlVersion THEN [specs[v] EXCEPT !.status = "active"]
                      ELSE IF v \in ActiveVersions THEN [specs[v] EXCEPT !.status = "archived"]
                      ELSE specs[v]]
    BY <1>3 DEF SeedActivate
  <2>2. DOMAIN specs' = Stored /\ specs' = [w \in Stored |-> specs'[w]]
    BY <2>1
  <2>3. \A w \in Stored : /\ specs'[w] \in Row
                          /\ specs'[w].content = specs[w].content
                          /\ specs'[w].parent = specs[w].parent
                          /\ specs'[w].type = specs[w].type
    BY <1>0, <2>1 DEF Row
  <2>4. /\ DOMAIN specs' \in SUBSET Version /\ specs' \in [DOMAIN specs' -> Row]
        /\ IsFiniteSet(Stored') /\ Lineage'
    BY <1>0, <2>2, <2>3, StatusKeeps
  <2> QED
    BY <1>0, <2>1, <2>4, BootStep
<1>4. CASE SeedCheck
  BY <1>1, <1>2, <1>4 DEF SeedCheck
<1>5. CASE SeedFails
  BY <1>1, <1>5 DEF SeedFails
<1> QED
  BY <1>3, <1>4, <1>5 DEF Seeding

LEMMA RestartKeeps ==
  ASSUME SInv, Restart
  PROVE  SInv'
<1>1. \A t \in Thread : pc'[t] = "idle"
  BY DEF Restart
<1>2. TypeOK'
  BY BlankTypes DEF SInv, TypeOK, Restart
<1>3. IsFiniteSet(Stored') /\ Lineage'
  BY DEF SInv, Restart, Stored, Lineage, Derives
<1>4. Starting'
  BY <1>1 DEF Starting, Restart
<1>5. \A t \in Thread : Fits(pc[t], loc[t])'
  BY <1>1 DEF Fits
<1> QED
  BY <1>2, <1>3, <1>4, <1>5 DEF SInv

LEMMA SInvInit == Init => SInv
<1> SUFFICES ASSUME Init PROVE SInv
  OBVIOUS
<1>1. DOMAIN specs = {}
  BY DEF Init
<1>2. specs \in [DOMAIN specs -> Row]
  BY <1>1 DEF Init
<1>3. TypeOK
  BY <1>1, <1>2, BlankTypes, MaxRequestsAssumption DEF Init, TypeOK
<1>4. IsFiniteSet(Stored)
  BY <1>1, FS_EmptySet DEF Stored
<1>5. Lineage
  BY <1>1 DEF Lineage, Stored
<1>6. Starting /\ \A t \in Thread : Fits(pc[t], loc[t])
  BY DEF Init, Starting, Fits
<1> QED
  BY <1>3, <1>4, <1>5, <1>6 DEF SInv

LEMMA SInvNext == SInv /\ [Next]_vars => SInv'
<1> SUFFICES ASSUME SInv, [Next]_vars PROVE SInv'
  OBVIOUS
<1>1. ASSUME NEW t \in Thread, Start(t) PROVE SInv'
  BY <1>1, CreateKeeps, BumpKeeps, PolicyKeeps, ActivateKeeps, LoadKeeps DEF Start
<1>2. ASSUME NEW t \in Thread, Continue(t) PROVE SInv'
  BY <1>2, UpdateKeeps, ActivationKeeps, CommitKeeps, InstallKeeps DEF Continue
<1>3. CASE Seeding
  BY <1>3, SeedingKeeps
<1>4. CASE Restart
  BY <1>4, RestartKeeps
<1>5. CASE UNCHANGED vars
  <2>1. TypeOK' /\ IsFiniteSet(Stored') /\ Lineage' /\ Starting'
    BY <1>5 DEF SInv, TypeOK, Stored, Lineage, Derives, Starting, vars
  <2>2. \A t \in Thread : Fits(pc[t], loc[t])'
    BY <1>5 DEF SInv, Fits, Derives, Stored, vars
  <2> QED
    BY <2>1, <2>2 DEF SInv
<1> QED
  BY <1>1, <1>2, <1>3, <1>4, <1>5 DEF Next

LEMMA SInvAlways == Spec => []SInv
BY SInvInit, SInvNext, PTL DEF Spec

-----------------------------------------------------------------------------
(* The theorems, for any number of threads. *)

\* The table, the process's copy and the requests keep their types: no request ever
\* computes a version from anything but stored ones (spec/spec_repository.py:189).
THEOREM SpecTypesAlways == Spec => []TypeOK
<1>1. SInv => TypeOK
  BY DEF SInv
<1> QED
  BY <1>1, SInvAlways, PTL

\* However requests overlap, and wherever the process dies, a derived spec is newer than
\* its parent (spec/spec_repository.py:189).
THEOREM DerivedAlwaysNewer == Spec => []DerivedIsNewer
<1>1. SInv => DerivedIsNewer
  BY DEF SInv, Lineage, Derives, DerivedIsNewer
<1> QED
  BY <1>1, SInvAlways, PTL

\* A spec whose type was detected and whose structure is not its parent's has a higher
\* major version (spec/versioning.py:7), also when specs come in between.
THEOREM BreakingAlwaysMajor == Spec => []BreakingIsMajor
<1>1. SInv => BreakingIsMajor
  BY DEF SInv, Lineage, Derives, BreakingIsMajor
<1> QED
  BY <1>1, SInvAlways, PTL

-----------------------------------------------------------------------------
(* One request at a time. *)

OneOrNone == ActiveVersions = {} \/ \E v : ActiveVersions = {v}

\* What an activation has in hand is what the table holds.
Activating(x, l) ==
  /\ x \in {"scan", "archive", "flip", "commit"} => l.read = specs[l.target].status
  /\ x = "archive" => l.scan = ActiveVersions \ {l.target}
  /\ x \in {"flip", "commit"} => l.archived = ActiveVersions \ {l.target}
  /\ x = "commit" => l.flip = (l.read # "active")

\* The active spec stays, or a stored one takes its place.
Moves ==
  /\ Stored \subseteq Stored'
  /\ \/ ActiveVersions' = ActiveVersions
     \/ Stored' = Stored /\ \E v \in Stored : ActiveVersions' = {v}

LEMMA MovesKeepOne ==
  ASSUME OneOrNone, Moves
  PROVE  OneOrNone'
BY DEF OneOrNone, Moves

LEMMA InsertMoves ==
  ASSUME TypeOK, NEW v \in Version, v \notin Stored, NEW c, NEW p, NEW type,
         specs' = Inserted(v, c, p, type)
  PROVE  Moves /\ ActiveVersions' = ActiveVersions
<1>1. Stored' = Stored \cup {v}
  BY DEF Inserted, Stored
<1>2. specs'[v].status = "draft" /\ \A w \in Stored : specs'[w] = specs[w]
  BY DEF Inserted
<1>3. ActiveVersions' = ActiveVersions
  BY <1>1, <1>2 DEF ActiveVersions
<1> QED
  BY <1>1, <1>3 DEF Moves

\* A step of the thread that leaves the active spec and is not within an activation.
LEMMA PlainStep ==
  ASSUME NEW t, Thread = {t}, SInv, OneOrNone,
         pc'[t] \notin {"scan", "archive", "flip", "commit"}, Moves
  PROVE  (OneOrNone /\ \A u \in Thread : Activating(pc[u], loc[u]))'
<1>1. OneOrNone'
  BY MovesKeepOne
<1>2. \A u \in Thread : Activating(pc[u], loc[u])'
  BY DEF Activating
<1> QED
  BY <1>1, <1>2

\* A step within an activation, which leaves the table alone.
LEMMA InnerStep ==
  ASSUME NEW t, Thread = {t}, SInv, OneOrNone, NEW x \in Place, NEW l,
         Go(t, x, l), UNCHANGED specs, Activating(x, l)
  PROVE  /\ Moves
         /\ (OneOrNone /\ \A u \in Thread : Activating(pc[u], loc[u]))'
<1>1. Moves /\ ActiveVersions' = ActiveVersions
  BY DEF Moves, Stored, ActiveVersions
<1>2. OneOrNone'
  BY <1>1, MovesKeepOne
<1>3. pc \in [Thread -> Place] /\ loc \in [Thread -> Locals]
  BY DEF SInv, TypeOK, Place
<1>4. pc'[t] = x /\ loc'[t] = l
  BY <1>3 DEF Go
<1>5. Activating(x, l)'
  BY <1>1 DEF Activating
<1>6. \A u \in Thread : Activating(pc[u], loc[u])'
  BY <1>4, <1>5 DEF Activating
<1> QED
  BY <1>1, <1>2, <1>6

AInv == OneOrNone /\ \A u \in Thread : Activating(pc[u], loc[u])

LEMMA OneAtATime ==
  ASSUME NEW t, Thread = {t}, SInv, AInv, [Next]_vars
  PROVE  Moves /\ AInv'
<1>0. /\ TypeOK /\ OneOrNone /\ Activating(pc[t], loc[t]) /\ t \in Thread
      /\ pc \in [Thread -> Place] /\ loc \in [Thread -> Locals]
      /\ specs \in [Stored -> Row] /\ Stored \subseteq Version
  BY DEF SInv, AInv, TypeOK, Place, Stored
<1>1. ASSUME pc'[t] \notin {"scan", "archive", "flip", "commit"}, Moves
      PROVE  Moves /\ AInv'
  BY <1>0, <1>1, PlainStep DEF AInv
<1>2. ASSUME pc'[t] \notin {"scan", "archive", "flip", "commit"}, UNCHANGED specs
      PROVE  Moves /\ AInv'
  <2>1. Moves
    BY <1>2 DEF Moves, Stored, ActiveVersions
  <2> QED
    BY <1>1, <1>2, <2>1
<1>3. CASE Create(t)
  <2>1. PICK v \in Chosen \cup {InitialVersion}, c \in Content :
          /\ Request(t) /\ v \notin Stored /\ specs' = Inserted(v, c, NoVersion, "none")
          /\ UNCHANGED <<live, boot, pc, loc>>
    BY <1>3 DEF Create
  <2>2. v \in Version
    BY ClientAssumption DEF InitialVersion, Version
  <2>3. Moves
    BY <1>0, <2>1, <2>2, InsertMoves
  <2>4. pc'[t] = "idle"
    BY <2>1 DEF Request
  <2> QED
    BY <1>1, <2>3, <2>4
<1>4. CASE BumpSpec(t) \/ UpdatePolicy(t) \/ LoadSpec(t) \/ UpdateRead(t) \/ InstallSpec(t)
  <2>1. UNCHANGED specs
    BY <1>4 DEF BumpSpec, UpdatePolicy, LoadSpec, UpdateRead, InstallSpec
  <2>2. pc'[t] \in {"update", "install", "insert", "idle"}
    BY <1>0, <1>4 DEF BumpSpec, UpdatePolicy, LoadSpec, UpdateRead, InstallSpec, Go, End
  <2> QED
    BY <1>2, <2>1, <2>2
<1>5. CASE UpdateInsert(t)
  <2>1. pc'[t] \in {"idle", "read"}
    BY <1>0, <1>5 DEF UpdateInsert, Go, End
  <2>2. PICK l : l = loc[t]
    OBVIOUS
  <2>3. l.version \in Version
    BY <1>5, <2>2, Works DEF UpdateInsert, Fits, Derives
  <2>4. CASE UNCHANGED specs
    BY <1>2, <2>1, <2>4
  <2>5. CASE l.version \notin Stored /\ specs' = Inserted(l.version, l.content, l.target, l.type)
    <3>1. Moves
      BY <1>0, <2>3, <2>5, InsertMoves
    <3> QED
      BY <1>1, <2>1, <3>1
  <2> QED
    BY <1>5, <2>2, <2>4, <2>5 DEF UpdateInsert
<1>6. ASSUME NEW x \in Place, NEW l, Go(t, x, l), UNCHANGED specs, Activating(x, l)
      PROVE  Moves /\ AInv'
  BY <1>0, <1>6, InnerStep DEF AInv
<1>7. CASE Activate(t)
  <2>1. PICK v \in Stored :
          Go(t, "scan", [Blank EXCEPT !.target = v, !.read = specs[v].status])
    BY <1>7 DEF Activate
  <2>2. PICK l : l = [Blank EXCEPT !.target = v, !.read = specs[v].status]
    OBVIOUS
  <2>3. l.target = v /\ l.read = specs[v].status
    BY <2>2, BlankTypes DEF Blank
  <2>4. Activating("scan", l) /\ "scan" \in Place
    BY <2>3 DEF Activating, Place
  <2> QED
    BY <1>6, <1>7, <2>1, <2>2, <2>4 DEF Activate
<1>8. CASE ActivateRead(t)
  <2>1. PICK l : l = [loc[t] EXCEPT !.read = specs[loc[t].target].status]
    OBVIOUS
  <2>2. l.target = loc[t].target /\ l.read = specs[loc[t].target].status
    BY <1>0, <2>1 DEF Locals
  <2>3. Activating("scan", l) /\ "scan" \in Place
    BY <2>2 DEF Activating, Place
  <2> QED
    BY <1>6, <1>8, <2>1, <2>3 DEF ActivateRead
<1>9. CASE ActivateScan(t)
  <2>1. PICK l : l = [loc[t] EXCEPT !.scan = ActiveVersions \ {loc[t].target}]
    OBVIOUS
  <2>2. /\ l.target = loc[t].target /\ l.read = loc[t].read
        /\ l.scan = ActiveVersions \ {loc[t].target}
    BY <1>0, <2>1 DEF Locals
  <2>3. Activating("archive", l) /\ "archive" \in Place
    BY <1>0, <1>9, <2>2 DEF Activating, Place, ActivateScan
  <2> QED
    BY <1>6, <1>9, <2>1, <2>3 DEF ActivateScan
<1>10. CASE ActivateArchive(t)
  <2>1. PICK l : l = [loc[t] EXCEPT !.archived = loc[t].scan \cap ActiveVersions]
    OBVIOUS
  <2>2. /\ l.target = loc[t].target /\ l.read = loc[t].read
        /\ l.archived = loc[t].scan \cap ActiveVersions
    BY <1>0, <2>1 DEF Locals
  <2>3. loc[t].scan = ActiveVersions \ {loc[t].target} /\ loc[t].read = specs[loc[t].target].status
    BY <1>0, <1>10 DEF Activating, ActivateArchive
  <2>4. Activating("flip", l) /\ "flip" \in Place
    BY <2>2, <2>3 DEF Activating, Place
  <2> QED
    BY <1>6, <1>10, <2>1, <2>4 DEF ActivateArchive
<1>11. CASE ActivateFlip(t)
  <2>1. PICK b \in BOOLEAN : b = (loc[t].read # "active")
    BY Zenon
  <2>2. PICK l : l = [loc[t] EXCEPT !.flip = b]
    OBVIOUS
  <2>3. /\ l.target = loc[t].target /\ l.read = loc[t].read /\ l.flip = b
        /\ l.archived = loc[t].archived
    BY <1>0, <2>2 DEF Locals
  <2>4. pc[t] = "flip"
    BY <1>11 DEF ActivateFlip
  <2>5. l.flip = (l.read # "active")
    BY <2>1, <2>3, Zenon
  <2>6. /\ l.read = specs[l.target].status
        /\ l.archived = ActiveVersions \ {l.target}
    BY <1>0, <2>3, <2>4 DEF Activating
  <2>7. Activating("commit", l)
    BY <2>5, <2>6, Zenon DEF Activating
  <2>8. Go(t, "commit", l) /\ UNCHANGED specs
    BY <1>11, <2>1, <2>2, Zenon DEF ActivateFlip
  <2> QED
    BY <1>6, <2>7, <2>8 DEF Place
<1>12. CASE ActivateCommit(t)
  <2>1. PICK l : l = loc[t]
    OBVIOUS
  <2>2. pc[t] = "commit" /\ pc'[t] = "idle"
    BY <1>0, <1>12 DEF ActivateCommit, End, Go
  <2>3. l.target \in Stored /\ l \in Locals
    BY <2>1, <2>2, Works DEF Fits
  <2>4. /\ l.read = specs[l.target].status /\ l.archived = ActiveVersions \ {l.target}
    BY <1>0, <2>1, <2>2 DEF Activating
  <2>5. l.flip <=> l.read # "active"
    BY <1>0, <2>1, <2>2, Zenon DEF Activating
  <2>6. specs' = [v \in Stored |->
                    IF l.flip /\ v = l.target THEN [specs[v] EXCEPT !.status = "active"]
                    ELSE IF v \in l.archived THEN [specs[v] EXCEPT !.status = "archived"]
                    ELSE specs[v]]
    BY <1>12, <2>1 DEF ActivateCommit
  <2>7. Stored' = Stored
    BY <2>6 DEF Stored
  <2>8. specs'[l.target].status = "active"
    BY <1>0, <2>3, <2>4, <2>5, <2>6 DEF Row
  <2>9. ASSUME NEW w \in Stored, w # l.target PROVE specs'[w].status # "active"
    <3>1. CASE w \in ActiveVersions
      BY <1>0, <2>4, <2>6, <2>9, <3>1 DEF Row
    <3>2. CASE w \notin ActiveVersions
      BY <2>4, <2>6, <2>9, <3>2 DEF ActiveVersions
    <3> QED
      BY <3>1, <3>2
  <2>10. ActiveVersions' = {l.target}
    BY <2>3, <2>7, <2>8, <2>9 DEF ActiveVersions
  <2>11. Moves
    BY <2>3, <2>7, <2>10 DEF Moves
  <2> QED
    BY <1>1, <2>2, <2>11
<1>13. CASE Seeding
  <2>1. pc[t] = "idle" /\ pc'[t] = "idle"
    BY <1>0, <1>13 DEF Seeding, SeedCheck, SeedActivate, SeedFails, SInv, Starting
  <2>2. CASE UNCHANGED specs
    BY <1>2, <2>1, <2>2
  <2>3. CASE YamlVersion \notin Stored /\ specs' = Inserted(YamlVersion, Yaml, NoVersion, "none")
    <3>1. Moves
      BY <1>0, <2>3, YamlAssumption, InsertMoves
    <3> QED
      BY <1>1, <2>1, <3>1
  <2>4. CASE SeedActivate
    <3>1. /\ YamlVersion \in Stored
          /\ specs' = [v \in Stored |->
                        IF v = YamlVersion THEN [specs[v] EXCEPT !.status = "active"]
                        ELSE IF v \in ActiveVersions THEN [specs[v] EXCEPT !.status = "archived"]
                        ELSE specs[v]]
      BY <2>4 DEF SeedActivate, SInv, Starting
    <3>2. Stored' = Stored
      BY <3>1 DEF Stored
    <3>3. specs'[YamlVersion].status = "active"
      BY <1>0, <3>1 DEF Row
    <3>4. ASSUME NEW w \in Stored, w # YamlVersion PROVE specs'[w].status # "active"
      <4>1. CASE w \in ActiveVersions
        BY <1>0, <3>1, <3>4, <4>1 DEF Row
      <4>2. CASE w \notin ActiveVersions
        BY <3>1, <3>4, <4>2 DEF ActiveVersions
      <4> QED
        BY <4>1, <4>2
    <3>5. ActiveVersions' = {YamlVersion}
      BY <3>1, <3>2, <3>3, <3>4 DEF ActiveVersions
    <3>6. Moves
      BY <3>1, <3>2, <3>5 DEF Moves
    <3> QED
      BY <1>1, <2>1, <3>6
  <2> QED
    BY <1>13, <2>2, <2>3, <2>4 DEF Seeding, SeedCheck, SeedFails
<1>14. CASE Restart
  BY <1>0, <1>2, <1>14 DEF Restart
<1>15. CASE UNCHANGED vars
  <2>1. Moves
    BY <1>15 DEF Moves, Stored, ActiveVersions, vars
  <2>2. \A u \in Thread : Activating(pc[u], loc[u])'
    BY <1>0, <1>15 DEF AInv, Activating, ActiveVersions, Stored, vars
  <2> QED
    BY <1>0, <2>1, <2>2, MovesKeepOne DEF AInv
<1> QED
  BY <1>3, <1>4, <1>5, <1>7, <1>8, <1>9, <1>10, <1>11, <1>12, <1>13, <1>14, <1>15
     DEF Next, Start, Continue

LEMMA AInvInit == Init => AInv
<1> SUFFICES ASSUME Init PROVE AInv
  OBVIOUS
<1>1. DOMAIN specs = {}
  BY DEF Init
<1>2. ActiveVersions = {}
  BY <1>1 DEF ActiveVersions, Stored
<1>3. \A u \in Thread : Activating(pc[u], loc[u])
  BY DEF Init, Activating
<1> QED
  BY <1>2, <1>3 DEF AInv, OneOrNone

\* With one request at a time there is never a second active spec
\* (spec/spec_repository.py:264), wherever the process dies and whatever start-ups do.
THEOREM OneAlwaysActive ==
  ASSUME NEW t, Thread = {t}
  PROVE  Spec => []OneActive
<1>1. SInv /\ AInv /\ [Next]_vars => AInv'
  BY OneAtATime
<1>2. AInv => OneActive
  <2> SUFFICES ASSUME AInv PROVE Cardinality(ActiveVersions) <= 1
    BY DEF OneActive
  <2>1. CASE ActiveVersions = {}
    BY <2>1, FS_EmptySet
  <2>2. CASE \E v : ActiveVersions = {v}
    <3>1. PICK v : ActiveVersions = {v}
      BY <2>2
    <3>2. Cardinality({v}) = 1
      BY FS_Singleton
    <3> QED
      BY <3>1, <3>2
  <2> QED
    BY <2>1, <2>2 DEF AInv, OneOrNone
<1> QED
  BY <1>1, <1>2, AInvInit, SInvAlways, PTL DEF Spec

\* With one request at a time the repository implements the catalog its readers rely on
\* (spec/spec_repository.py:135): versions are only added, and the active one is only ever
\* replaced by a stored one.
THEOREM CatalogRefined ==
  ASSUME NEW t, Thread = {t}
  PROVE  Spec => RefinesCatalog
<1> DEFINE Current == IF ActiveVersions = {} THEN NoVersion
                      ELSE CHOOSE v \in ActiveVersions : TRUE
<1>1. Init => Catalog!Init
  <2>1. Init => DOMAIN specs = {}
    BY DEF Init
  <2> QED
    BY <2>1 DEF Catalog!Init, ActiveVersions, Stored
<1>2. SInv /\ AInv /\ [Next]_vars => [Catalog!Next]_<<Stored, Current>>
  <2> SUFFICES ASSUME SInv, AInv, [Next]_vars
               PROVE  Catalog!Next
    OBVIOUS
  <2>1. Moves /\ SInv'
    BY OneAtATime, SInvNext
  <2>2. Stored' \in SUBSET Version
    BY <2>1 DEF SInv, TypeOK, Stored
  <2>3. CASE ActiveVersions' = ActiveVersions
    <3>1. Current' = Current
      BY <2>3
    <3>2. Catalog!Publish
      BY <2>1, <2>2, <3>1 DEF Catalog!Publish, Moves
    <3> QED
      BY <3>2 DEF Catalog!Next
  <2>4. CASE Stored' = Stored /\ \E v \in Stored : ActiveVersions' = {v}
    <3>1. PICK v \in Stored : ActiveVersions' = {v}
      BY <2>4
    <3>2. Current' = v
      BY <3>1
    <3>3. Catalog!Activate
      BY <2>4, <3>2 DEF Catalog!Activate
    <3> QED
      BY <3>3 DEF Catalog!Next
  <2> QED
    BY <2>1, <2>3, <2>4 DEF Moves
<1>3. SInv /\ AInv /\ [Next]_vars => AInv'
  BY OneAtATime
<1> QED
  BY <1>1, <1>2, <1>3, AInvInit, SInvAlways, PTL DEF Spec, RefinesCatalog, Catalog!Spec
=============================================================================
