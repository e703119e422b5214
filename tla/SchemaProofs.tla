---------------------------- MODULE SchemaProofs ----------------------------
(***************************************************************************)
(* Proofs about SchemaMigrations, for any rows, domains, versions and bounds. *)
(***************************************************************************)
EXTENDS SchemaMigrations, TLAPS

-----------------------------------------------------------------------------
(* What the statements of one revision come to, one after the other. *)

\* A statement of an upgrade or of a downgrade.
Done(up, things, x) == IF up THEN Created(things, x) ELSE Dropped(things, x)

\* What the folds of Revise unfold to.
Folding(up, base, seq, f) ==
  f = [s \in SUBSET DOMAIN seq |->
         IF s = {} THEN base ELSE Done(up, f[s \ {Max(s)}], seq[Max(s)])]

LEMMA Largest ==
  ASSUME NEW n \in 1..3, NEW s \in SUBSET (1..n)
  PROVE  /\ 3 \in s => Max(s) = 3
         /\ 3 \notin s /\ 2 \in s => Max(s) = 2
         /\ 3 \notin s /\ 2 \notin s /\ 1 \in s => Max(s) = 1
         /\ 3 \notin s /\ 2 \notin s /\ 1 \notin s => s = {}
<1>1. \A x \in s : x = 1 \/ x = 2 \/ x = 3
  OBVIOUS
<1>2. ASSUME NEW m \in s, \A y \in s : m >= y PROVE Max(s) = m
  <2>1. \A x \in s : (\A y \in s : x >= y) => x = m
    BY <1>1, <1>2
  <2>2. Max(s) \in s /\ \A y \in s : Max(s) >= y
    BY <1>2 DEF Max
  <2> QED
    BY <2>1, <2>2
<1> QED
  BY <1>1, <1>2

LEMMA FoldingExists ==
  ASSUME NEW up \in BOOLEAN, NEW base, NEW seq, NEW n \in 1..3, DOMAIN seq = 1..n
  PROVE  \E f : Folding(up, base, seq, f)
<1> DEFINE A(s) == IF 1 \in s THEN Done(up, base, seq[1]) ELSE base
           B(s) == IF 2 \in s THEN Done(up, A(s), seq[2]) ELSE A(s)
           C(s) == IF 3 \in s THEN Done(up, B(s), seq[3]) ELSE B(s)
           f == [s \in SUBSET (1..n) |-> C(s)]
<1>1. ASSUME NEW s \in SUBSET (1..n)
      PROVE  C(s) = IF s = {} THEN base ELSE Done(up, f[s \ {Max(s)}], seq[Max(s)])
  <2>1. \A x : s \ {x} \in SUBSET (1..n) /\ f[s \ {x}] = C(s \ {x})
    OBVIOUS
  <2>2. CASE 3 \in s
    <3>1. Max(s) = 3 /\ s # {} /\ C(s) = Done(up, B(s), seq[3])
      BY <2>2, Largest
    <3>2. A(s \ {3}) = A(s) /\ B(s \ {3}) = B(s) /\ C(s \ {3}) = B(s)
      OBVIOUS
    <3> QED
      BY <2>1, <3>1, <3>2
  <2>3. CASE 3 \notin s /\ 2 \in s
    <3>1. Max(s) = 2 /\ s # {} /\ C(s) = Done(up, A(s), seq[2])
      BY <2>3, Largest
    <3>2. A(s \ {2}) = A(s) /\ C(s \ {2}) = A(s)
      BY <2>3
    <3> QED
      BY <2>1, <3>1, <3>2
  <2>4. CASE 3 \notin s /\ 2 \notin s /\ 1 \in s
    <3>1. Max(s) = 1 /\ s # {} /\ C(s) = Done(up, base, seq[1])
      BY <2>4, Largest
    <3>2. C(s \ {1}) = base
      BY <2>4
    <3> QED
      BY <2>1, <3>1, <3>2
  <2>5. CASE 3 \notin s /\ 2 \notin s /\ 1 \notin s
    BY <2>5, Largest
  <2> QED
    BY <2>2, <2>3, <2>4, <2>5
<1>2. PICK h : h = f
  OBVIOUS
<1>3. h = [s \in SUBSET (1..n) |-> C(s)]
  BY <1>2
<1>4. \A s \in SUBSET (1..n) :
        C(s) = IF s = {} THEN base ELSE Done(up, h[s \ {Max(s)}], seq[Max(s)])
  BY <1>1, <1>2
<1>5. h = [s \in SUBSET (1..n) |->
              IF s = {} THEN base ELSE Done(up, h[s \ {Max(s)}], seq[Max(s)])]
  <2> HIDE DEF C, f
  <2> QED
    BY ONLY <1>3, <1>4
<1> QED
  BY <1>5 DEF Folding

\* The statements of a revision, in order.
InOrder(up, base, seq, n) ==
  LET a == Done(up, base, seq[1])
      b == Done(up, a, seq[2])
      c == Done(up, b, seq[3])
  IN  IF n = 1 THEN a ELSE IF n = 2 THEN b ELSE c

LEMMA FoldingInOrder ==
  ASSUME NEW up \in BOOLEAN, NEW base, NEW seq, NEW n \in 1..3, DOMAIN seq = 1..n,
         NEW f, Folding(up, base, seq, f)
  PROVE  f[DOMAIN seq] = InOrder(up, base, seq, n)
<1>1. \A s \in SUBSET (1..n) :
        f[s] = IF s = {} THEN base ELSE Done(up, f[s \ {Max(s)}], seq[Max(s)])
  BY DEF Folding
<1>2. f[{}] = base
  BY <1>1
<1>3. f[{1}] = Done(up, base, seq[1])
  <2>1. {1} \in SUBSET (1..n) /\ {1} # {} /\ {1} \ {1} = {} /\ Max({1}) = 1
    BY Largest
  <2> QED
    BY <1>1, <1>2, <2>1
<1>4. n >= 2 => f[{1, 2}] = Done(up, f[{1}], seq[2])
  <2>1. n >= 2 => {1, 2} \in SUBSET (1..n) /\ {1, 2} # {} /\ {1, 2} \ {2} = {1} /\ Max({1, 2}) = 2
    BY Largest
  <2> QED
    BY <1>1, <2>1
<1>5. n = 3 => f[{1, 2, 3}] = Done(up, f[{1, 2}], seq[3])
  <2>1. n = 3 => {1, 2, 3} \in SUBSET (1..n) /\ {1, 2, 3} # {}
                 /\ {1, 2, 3} \ {3} = {1, 2} /\ Max({1, 2, 3}) = 3
    BY Largest
  <2> QED
    BY <1>1, <2>1
<1>6. /\ n = 1 => DOMAIN seq = {1}
      /\ n = 2 => DOMAIN seq = {1, 2}
      /\ n = 3 => DOMAIN seq = {1, 2, 3}
  OBVIOUS
<1>7. CASE n = 1
  BY <1>3, <1>6, <1>7 DEF InOrder
<1>8. CASE n = 2
  BY <1>3, <1>4, <1>6, <1>8 DEF InOrder
<1>9. CASE n = 3
  BY <1>3, <1>4, <1>5, <1>6, <1>9 DEF InOrder
<1>10. n = 1 \/ n = 2 \/ n = 3
  OBVIOUS
<1> QED
  BY <1>7, <1>8, <1>9, <1>10

LEMMA Statements ==
  ASSUME NEW base, NEW seq, NEW n \in 1..3, DOMAIN seq = 1..n
  PROVE  /\ FoldLeft(Created, base, seq) = InOrder(TRUE, base, seq, n)
         /\ FoldLeft(Dropped, base, seq) = InOrder(FALSE, base, seq, n)
<1>1. PICK f : f = CHOOSE g : g = [s \in SUBSET DOMAIN seq |->
               IF s = {} THEN base ELSE Created(g[s \ {Max(s)}], seq[Max(s)])]
  OBVIOUS
<1>2. Folding(TRUE, base, seq, f)
  <2>1. PICK h : Folding(TRUE, base, seq, h)
    BY FoldingExists
  <2>2. h = [s \in SUBSET DOMAIN seq |->
               IF s = {} THEN base ELSE Created(h[s \ {Max(s)}], seq[Max(s)])]
    BY <2>1 DEF Folding, Done
  <2>3. f = [s \in SUBSET DOMAIN seq |->
               IF s = {} THEN base ELSE Created(f[s \ {Max(s)}], seq[Max(s)])]
    BY <1>1, <2>2
  <2> QED
    BY <2>3 DEF Folding, Done
<1>3. FoldLeft(Created, base, seq) = f[DOMAIN seq]
  BY <1>1 DEF FoldLeft, MapThenFoldSet
<1>4. PICK f1 : f1 = CHOOSE g : g = [s \in SUBSET DOMAIN seq |->
               IF s = {} THEN base ELSE Dropped(g[s \ {Max(s)}], seq[Max(s)])]
  OBVIOUS
<1>5. Folding(FALSE, base, seq, f1)
  <2>1. PICK h : Folding(FALSE, base, seq, h)
    BY FoldingExists
  <2>2. h = [s \in SUBSET DOMAIN seq |->
               IF s = {} THEN base ELSE Dropped(h[s \ {Max(s)}], seq[Max(s)])]
    BY <2>1 DEF Folding, Done
  <2>3. f1 = [s \in SUBSET DOMAIN seq |->
               IF s = {} THEN base ELSE Dropped(f1[s \ {Max(s)}], seq[Max(s)])]
    BY <1>4, <2>2
  <2> QED
    BY <2>3 DEF Folding, Done
<1>6. FoldLeft(Dropped, base, seq) = f1[DOMAIN seq]
  BY <1>4 DEF FoldLeft, MapThenFoldSet
<1> QED
  BY <1>2, <1>3, <1>5, <1>6, FoldingInOrder

-----------------------------------------------------------------------------
(* The revisions. *)

LEMMA Revisions ==
  /\ Latest = 11
  /\ At(0) = {}
  /\ \A r \in 1..Latest : At(r) = At(r - 1) \cup ToSet(Creates[r])
<1>1. Latest = 11
  BY DEF Latest, Creates
<1>2. At(0) = {}
  BY DEF At
<1>3. ASSUME NEW r \in 1..Latest PROVE At(r) = At(r - 1) \cup ToSet(Creates[r])
  <2>1. 1..r = 1..(r - 1) \cup {r}
    BY <1>1
  <2> QED
    BY <2>1 DEF At
<1> QED
  BY <1>1, <1>2, <1>3

\* What each revision creates, as a set.
LEMMA Creations ==
  /\ ToSet(Creates[1]) = {"agent_sessions", "agent_runs", "knowledge_documents"}
  /\ ToSet(Creates[2]) = {"specs", "spec_versions", "agent_runs.spec"}
  /\ ToSet(Creates[3]) = {"specs.semver", "spec_versions.semver"}
  /\ ToSet(Creates[4]) = {"prompts"}
  /\ ToSet(Creates[5]) = {"agent_runs.prompts"}
  /\ ToSet(Creates[6]) = {"agent_runs.costs"}
  /\ ToSet(Creates[7]) = {"agent_sessions.state", "session_state_transitions"}
  /\ ToSet(Creates[8]) = {"prompt_variants"}
  /\ ToSet(Creates[9]) = {"agent_runs.variants"}
  /\ ToSet(Creates[10]) = {"state_proposals", "state_commits"}
  /\ ToSet(Creates[11]) = {"state_proposals.query"}
BY DEF Creates, ToSet

\* The database that each revision describes.
LEMMA Contents ==
  /\ At(0) = {}
  /\ At(1) = {"agent_sessions", "agent_runs", "knowledge_documents"}
  /\ At(2) = {"agent_sessions", "agent_runs", "knowledge_documents", "specs", 
               "spec_versions", "agent_runs.spec"}
  /\ At(3) = {"agent_sessions", "agent_runs", "knowledge_documents", "specs", 
               "spec_versions", "agent_runs.spec", "specs.semver", 
               "spec_versions.semver"}
  /\ At(4) = {"agent_sessions", "agent_runs", "knowledge_documents", "specs", 
               "spec_versions", "agent_runs.spec", "specs.semver", 
               "spec_versions.semver", "prompts"}
  /\ At(5) = {"agent_sessions", "agent_runs", "knowledge_documents", "specs", 
               "spec_versions", "agent_runs.spec", "specs.semver", 
               "spec_versions.semver", "prompts", "agent_runs.prompts"}
  /\ At(6) = {"agent_sessions", "agent_runs", "knowledge_documents", "specs", 
               "spec_versions", "agent_runs.spec", "specs.semver", 
               "spec_versions.semver", "prompts", "agent_runs.prompts", 
               "agent_runs.costs"}
  /\ At(7) = {"agent_sessions", "agent_runs", "knowledge_documents", "specs", 
               "spec_versions", "agent_runs.spec", "specs.semver", 
               "spec_versions.semver", "prompts", "agent_runs.prompts", 
               "agent_runs.costs", "agent_sessions.state", 
               "session_state_transitions"}
  /\ At(8) = {"agent_sessions", "agent_runs", "knowledge_documents", "specs", 
               "spec_versions", "agent_runs.spec", "specs.semver", 
               "spec_versions.semver", "prompts", "agent_runs.prompts", 
               "agent_runs.costs", "agent_sessions.state", 
               "session_state_transitions", "prompt_variants"}
  /\ At(9) = {"agent_sessions", "agent_runs", "knowledge_documents", "specs", 
               "spec_versions", "agent_runs.spec", "specs.semver", 
               "spec_versions.semver", "prompts", "agent_runs.prompts", 
               "agent_runs.costs", "agent_sessions.state", 
               "session_state_transitions", "prompt_variants", "agent_runs.variants"}
  /\ At(10) = {"agent_sessions", "agent_runs", "knowledge_documents", "specs", 
               "spec_versions", "agent_runs.spec", "specs.semver", 
               "spec_versions.semver", "prompts", "agent_runs.prompts", 
               "agent_runs.costs", "agent_sessions.state", 
               "session_state_transitions", "prompt_variants", "agent_runs.variants", 
               "state_proposals", "state_commits"}
  /\ At(11) = {"agent_sessions", "agent_runs", "knowledge_documents", "specs", 
               "spec_versions", "agent_runs.spec", "specs.semver", 
               "spec_versions.semver", "prompts", "agent_runs.prompts", 
               "agent_runs.costs", "agent_sessions.state", 
               "session_state_transitions", "prompt_variants", "agent_runs.variants", 
               "state_proposals", "state_commits", "state_proposals.query"}
<1>1. At(1) = At(0) \cup ToSet(Creates[1])
  BY Revisions
<1>2. At(2) = At(1) \cup ToSet(Creates[2])
  BY Revisions
<1>3. At(3) = At(2) \cup ToSet(Creates[3])
  BY Revisions
<1>4. At(4) = At(3) \cup ToSet(Creates[4])
  BY Revisions
<1>5. At(5) = At(4) \cup ToSet(Creates[5])
  BY Revisions
<1>6. At(6) = At(5) \cup ToSet(Creates[6])
  BY Revisions
<1>7. At(7) = At(6) \cup ToSet(Creates[7])
  BY Revisions
<1>8. At(8) = At(7) \cup ToSet(Creates[8])
  BY Revisions
<1>9. At(9) = At(8) \cup ToSet(Creates[9])
  BY Revisions
<1>10. At(10) = At(9) \cup ToSet(Creates[10])
  BY Revisions
<1>11. At(11) = At(10) \cup ToSet(Creates[11])
  BY Revisions
<1> QED
  BY <1>1, <1>2, <1>3, <1>4, <1>5, <1>6, <1>7, <1>8, <1>9, <1>10, <1>11, Revisions, Creations

\* What one, two and three statements come to.
LEMMA One ==
  ASSUME NEW base, NEW seq, DOMAIN seq = 1..1
  PROVE  /\ FoldLeft(Created, base, seq) = Created(base, seq[1])
         /\ FoldLeft(Dropped, base, seq) = Dropped(base, seq[1])
BY 1 \in 1..3, Statements DEF InOrder, Done

LEMMA Two ==
  ASSUME NEW base, NEW seq, DOMAIN seq = 1..2
  PROVE  /\ FoldLeft(Created, base, seq) = Created(Created(base, seq[1]), seq[2])
         /\ FoldLeft(Dropped, base, seq) = Dropped(Dropped(base, seq[1]), seq[2])
<1>1. /\ InOrder(TRUE, base, seq, 2) = Done(TRUE, Done(TRUE, base, seq[1]), seq[2])
      /\ InOrder(FALSE, base, seq, 2) = Done(FALSE, Done(FALSE, base, seq[1]), seq[2])
  BY DEF InOrder
<1>2. /\ FoldLeft(Created, base, seq) = InOrder(TRUE, base, seq, 2)
      /\ FoldLeft(Dropped, base, seq) = InOrder(FALSE, base, seq, 2)
  BY 2 \in 1..3, Statements
<1> QED
  BY <1>1, <1>2 DEF Done

LEMMA Three ==
  ASSUME NEW base, NEW seq, DOMAIN seq = 1..3
  PROVE  /\ FoldLeft(Created, base, seq) = Created(Created(Created(base, seq[1]), seq[2]), seq[3])
         /\ FoldLeft(Dropped, base, seq) = Dropped(Dropped(Dropped(base, seq[1]), seq[2]), seq[3])
<1>1. /\ InOrder(TRUE, base, seq, 3) = Done(TRUE, Done(TRUE, Done(TRUE, base, seq[1]), seq[2]), seq[3])
      /\ InOrder(FALSE, base, seq, 3) = Done(FALSE, Done(FALSE, Done(FALSE, base, seq[1]), seq[2]), seq[3])
  BY DEF InOrder
<1>2. /\ FoldLeft(Created, base, seq) = InOrder(TRUE, base, seq, 3)
      /\ FoldLeft(Dropped, base, seq) = InOrder(FALSE, base, seq, 3)
  BY 3 \in 1..3, Statements
<1> QED
  BY <1>1, <1>2 DEF Done

\* A statement that finds what it needs.
LEMMA Creation ==
  ASSUME NEW things, NEW x, "refused" \notin things, x \notin things,
         \A d \in Requires : d[1] = x => d[2] \in things
  PROVE  Created(things, x) = things \cup {x}
BY DEF Created, Refused

LEMMA Removal ==
  ASSUME NEW things, NEW x, "refused" \notin things, x \in things,
         \A d \in Requires : d[2] = x => d[1] \notin things
  PROVE  Dropped(things, x) = things \ {x}
<1>1. Owned(x) \cap things = {}
  BY DEF Owned
<1> QED
  BY <1>1 DEF Dropped, Refused

\* upgrade() of every revision works on a database before it.
LEMMA Upgrades ==
  \A r \in 1..Latest : FoldLeft(Created, At(r - 1), Creates[r]) = At(r)
<1>1. FoldLeft(Created, At(0), Creates[1]) = At(1)
  <2>1. DOMAIN Creates[1] = 1..3 /\ Creates[1][1] = "agent_sessions" /\ Creates[1][2] = "agent_runs" /\ Creates[1][3] = "knowledge_documents"
    BY DEF Creates
  <2>2. Created(At(0), "agent_sessions")
        = At(0) \cup {"agent_sessions"}
    BY Contents DEF Created, Requires, Refused
  <2>3. Created(At(0) \cup {"agent_sessions"}, "agent_runs")
        = (At(0) \cup {"agent_sessions"}) \cup {"agent_runs"}
    BY Contents DEF Created, Requires, Refused
  <2>4. Created((At(0) \cup {"agent_sessions"}) \cup {"agent_runs"}, "knowledge_documents")
        = ((At(0) \cup {"agent_sessions"}) \cup {"agent_runs"}) \cup {"knowledge_documents"}
    BY Contents DEF Created, Requires, Refused
  <2>5. ((At(0) \cup {"agent_sessions"}) \cup {"agent_runs"}) \cup {"knowledge_documents"} = At(1)
    BY Contents
  <2>6. FoldLeft(Created, At(0), Creates[1])
        = Created(Created(Created(At(0), Creates[1][1]), Creates[1][2]), Creates[1][3])
    BY <2>1, Three
  <2> QED
    BY <2>1, <2>2, <2>3, <2>4, <2>5, <2>6
<1>2. FoldLeft(Created, At(1), Creates[2]) = At(2)
  <2>1. DOMAIN Creates[2] = 1..3 /\ Creates[2][1] = "specs" /\ Creates[2][2] = "spec_versions" /\ Creates[2][3] = "agent_runs.spec"
    BY DEF Creates
  <2>2. Created(At(1), "specs")
        = At(1) \cup {"specs"}
    BY Contents DEF Created, Requires, Refused
  <2>3. Created(At(1) \cup {"specs"}, "spec_versions")
        = (At(1) \cup {"specs"}) \cup {"spec_versions"}
    BY Contents DEF Created, Requires, Refused
  <2>4. Created((At(1) \cup {"specs"}) \cup {"spec_versions"}, "agent_runs.spec")
        = ((At(1) \cup {"specs"}) \cup {"spec_versions"}) \cup {"agent_runs.spec"}
    BY Contents DEF Created, Requires, Refused
  <2>5. ((At(1) \cup {"specs"}) \cup {"spec_versions"}) \cup {"agent_runs.spec"} = At(2)
    BY Contents
  <2>6. FoldLeft(Created, At(1), Creates[2])
        = Created(Created(Created(At(1), Creates[2][1]), Creates[2][2]), Creates[2][3])
    BY <2>1, Three
  <2> QED
    BY <2>1, <2>2, <2>3, <2>4, <2>5, <2>6
<1>3. FoldLeft(Created, At(2), Creates[3]) = At(3)
  <2>1. DOMAIN Creates[3] = 1..2 /\ Creates[3][1] = "specs.semver" /\ Creates[3][2] = "spec_versions.semver"
    BY DEF Creates
  <2>2. Created(At(2), "specs.semver")
        = At(2) \cup {"specs.semver"}
    BY Contents DEF Created, Requires, Refused
  <2>3. Created(At(2) \cup {"specs.semver"}, "spec_versions.semver")
        = (At(2) \cup {"specs.semver"}) \cup {"spec_versions.semver"}
    BY Contents DEF Created, Requires, Refused
  <2>4. (At(2) \cup {"specs.semver"}) \cup {"spec_versions.semver"} = At(3)
    BY Contents
  <2>5. FoldLeft(Created, At(2), Creates[3])
        = Created(Created(At(2), Creates[3][1]), Creates[3][2])
    BY <2>1, Two
  <2> QED
    BY <2>1, <2>2, <2>3, <2>4, <2>5
<1>4. FoldLeft(Created, At(3), Creates[4]) = At(4)
  <2>1. DOMAIN Creates[4] = 1..1 /\ Creates[4][1] = "prompts"
    BY DEF Creates
  <2>2. Created(At(3), "prompts")
        = At(3) \cup {"prompts"}
    BY Contents DEF Created, Requires, Refused
  <2>3. At(3) \cup {"prompts"} = At(4)
    BY Contents
  <2>4. FoldLeft(Created, At(3), Creates[4])
        = Created(At(3), Creates[4][1])
    BY <2>1, One
  <2> QED
    BY <2>1, <2>2, <2>3, <2>4
<1>5. FoldLeft(Created, At(4), Creates[5]) = At(5)
  <2>1. DOMAIN Creates[5] = 1..1 /\ Creates[5][1] = "agent_runs.prompts"
    BY DEF Creates
  <2>2. Created(At(4), "agent_runs.prompts")
        = At(4) \cup {"agent_runs.prompts"}
    BY Contents DEF Created, Requires, Refused
  <2>3. At(4) \cup {"agent_runs.prompts"} = At(5)
    BY Contents
  <2>4. FoldLeft(Created, At(4), Creates[5])
        = Created(At(4), Creates[5][1])
    BY <2>1, One
  <2> QED
    BY <2>1, <2>2, <2>3, <2>4
<1>6. FoldLeft(Created, At(5), Creates[6]) = At(6)
  <2>1. DOMAIN Creates[6] = 1..1 /\ Creates[6][1] = "agent_runs.costs"
    BY DEF Creates
  <2>2. Created(At(5), "agent_runs.costs")
        = At(5) \cup {"agent_runs.costs"}
    BY Contents DEF Created, Requires, Refused
  <2>3. At(5) \cup {"agent_runs.costs"} = At(6)
    BY Contents
  <2>4. FoldLeft(Created, At(5), Creates[6])
        = Created(At(5), Creates[6][1])
    BY <2>1, One
  <2> QED
    BY <2>1, <2>2, <2>3, <2>4
<1>7. FoldLeft(Created, At(6), Creates[7]) = At(7)
  <2>1. DOMAIN Creates[7] = 1..2 /\ Creates[7][1] = "agent_sessions.state" /\ Creates[7][2] = "session_state_transitions"
    BY DEF Creates
  <2>2. Created(At(6), "agent_sessions.state")
        = At(6) \cup {"agent_sessions.state"}
    BY Contents DEF Created, Requires, Refused
  <2>3. Created(At(6) \cup {"agent_sessions.state"}, "session_state_transitions")
        = (At(6) \cup {"agent_sessions.state"}) \cup {"session_state_transitions"}
    BY Contents DEF Created, Requires, Refused
  <2>4. (At(6) \cup {"agent_sessions.state"}) \cup {"session_state_transitions"} = At(7)
    BY Contents
  <2>5. FoldLeft(Created, At(6), Creates[7])
        = Created(Created(At(6), Creates[7][1]), Creates[7][2])
    BY <2>1, Two
  <2> QED
    BY <2>1, <2>2, <2>3, <2>4, <2>5
<1>8. FoldLeft(Created, At(7), Creates[8]) = At(8)
  <2>1. DOMAIN Creates[8] = 1..1 /\ Creates[8][1] = "prompt_variants"
    BY DEF Creates
  <2>2. Created(At(7), "prompt_variants")
        = At(7) \cup {"prompt_variants"}
    BY Contents DEF Created, Requires, Refused
  <2>3. At(7) \cup {"prompt_variants"} = At(8)
    BY Contents
  <2>4. FoldLeft(Created, At(7), Creates[8])
        = Created(At(7), Creates[8][1])
    BY <2>1, One
  <2> QED
    BY <2>1, <2>2, <2>3, <2>4
<1>9. FoldLeft(Created, At(8), Creates[9]) = At(9)
  <2>1. DOMAIN Creates[9] = 1..1 /\ Creates[9][1] = "agent_runs.variants"
    BY DEF Creates
  <2>2. Created(At(8), "agent_runs.variants")
        = At(8) \cup {"agent_runs.variants"}
    BY Contents DEF Created, Requires, Refused
  <2>3. At(8) \cup {"agent_runs.variants"} = At(9)
    BY Contents
  <2>4. FoldLeft(Created, At(8), Creates[9])
        = Created(At(8), Creates[9][1])
    BY <2>1, One
  <2> QED
    BY <2>1, <2>2, <2>3, <2>4
<1>10. FoldLeft(Created, At(9), Creates[10]) = At(10)
  <2>1. DOMAIN Creates[10] = 1..2 /\ Creates[10][1] = "state_proposals" /\ Creates[10][2] = "state_commits"
    BY DEF Creates
  <2>2. Created(At(9), "state_proposals")
        = At(9) \cup {"state_proposals"}
    BY Contents DEF Created, Requires, Refused
  <2>3. Created(At(9) \cup {"state_proposals"}, "state_commits")
        = (At(9) \cup {"state_proposals"}) \cup {"state_commits"}
    BY Contents DEF Created, Requires, Refused
  <2>4. (At(9) \cup {"state_proposals"}) \cup {"state_commits"} = At(10)
    BY Contents
  <2>5. FoldLeft(Created, At(9), Creates[10])
        = Created(Created(At(9), Creates[10][1]), Creates[10][2])
    BY <2>1, Two
  <2> QED
    BY <2>1, <2>2, <2>3, <2>4, <2>5
<1>11. FoldLeft(Created, At(10), Creates[11]) = At(11)
  <2>1. DOMAIN Creates[11] = 1..1 /\ Creates[11][1] = "state_proposals.query"
    BY DEF Creates
  <2>2. Created(At(10), "state_proposals.query")
        = At(10) \cup {"state_proposals.query"}
    BY Contents DEF Created, Requires, Refused
  <2>3. At(10) \cup {"state_proposals.query"} = At(11)
    BY Contents
  <2>4. FoldLeft(Created, At(10), Creates[11])
        = Created(At(10), Creates[11][1])
    BY <2>1, One
  <2> QED
    BY <2>1, <2>2, <2>3, <2>4
<1> QED
  BY <1>1, <1>2, <1>3, <1>4, <1>5, <1>6, <1>7, <1>8, <1>9, <1>10, <1>11, Revisions

\* downgrade() of every revision works on a database at it.
LEMMA Downgrades ==
  \A r \in 1..Latest : FoldLeft(Dropped, At(r), Drops[r]) = At(r - 1)
<1>1. FoldLeft(Dropped, At(1), Drops[1]) = At(0)
  <2>1. DOMAIN Drops[1] = 1..3 /\ Drops[1][1] = "knowledge_documents" /\ Drops[1][2] = "agent_runs" /\ Drops[1][3] = "agent_sessions"
    BY DEF Drops
  <2>2. Dropped(At(1), "knowledge_documents")
        = At(1) \ {"knowledge_documents"}
    <3>1. "refused" \notin At(1) /\ "knowledge_documents" \in At(1)
      BY Contents
    <3>2. \A d \in Requires : d[2] = "knowledge_documents" => d[1] \notin At(1)
      BY Contents DEF Requires
    <3> QED
      BY <3>1, <3>2, Removal
  <2>3. Dropped(At(1) \ {"knowledge_documents"}, "agent_runs")
        = (At(1) \ {"knowledge_documents"}) \ {"agent_runs"}
    <3>1. "refused" \notin (At(1) \ {"knowledge_documents"}) /\ "agent_runs" \in (At(1) \ {"knowledge_documents"})
      BY Contents
    <3>2. \A d \in Requires : d[2] = "agent_runs" => d[1] \notin (At(1) \ {"knowledge_documents"})
      BY Contents DEF Requires
    <3> QED
      BY <3>1, <3>2, Removal
  <2>4. Dropped((At(1) \ {"knowledge_documents"}) \ {"agent_runs"}, "agent_sessions")
        = ((At(1) \ {"knowledge_documents"}) \ {"agent_runs"}) \ {"agent_sessions"}
    <3>1. "refused" \notin ((At(1) \ {"knowledge_documents"}) \ {"agent_runs"}) /\ "agent_sessions" \in ((At(1) \ {"knowledge_documents"}) \ {"agent_runs"})
      BY Contents
    <3>2. \A d \in Requires : d[2] = "agent_sessions" => d[1] \notin ((At(1) \ {"knowledge_documents"}) \ {"agent_runs"})
      BY Contents DEF Requires
    <3> QED
      BY <3>1, <3>2, Removal
  <2>5. ((At(1) \ {"knowledge_documents"}) \ {"agent_runs"}) \ {"agent_sessions"} = At(0)
    BY Contents
  <2>6. FoldLeft(Dropped, At(1), Drops[1])
        = Dropped(Dropped(Dropped(At(1), Drops[1][1]), Drops[1][2]), Drops[1][3])
    BY <2>1, Three
  <2> QED
    BY <2>1, <2>2, <2>3, <2>4, <2>5, <2>6
<1>2. FoldLeft(Dropped, At(2), Drops[2]) = At(1)
  <2>1. DOMAIN Drops[2] = 1..3 /\ Drops[2][1] = "agent_runs.spec" /\ Drops[2][2] = "spec_versions" /\ Drops[2][3] = "specs"
    BY DEF Drops
  <2>2. Dropped(At(2), "agent_runs.spec")
        = At(2) \ {"agent_runs.spec"}
    <3>1. "refused" \notin At(2) /\ "agent_runs.spec" \in At(2)
      BY Contents
    <3>2. \A d \in Requires : d[2] = "agent_runs.spec" => d[1] \notin At(2)
      BY Contents DEF Requires
    <3> QED
      BY <3>1, <3>2, Removal
  <2>3. Dropped(At(2) \ {"agent_runs.spec"}, "spec_versions")
        = (At(2) \ {"agent_runs.spec"}) \ {"spec_versions"}
    <3>1. "refused" \notin (At(2) \ {"agent_runs.spec"}) /\ "spec_versions" \in (At(2) \ {"agent_runs.spec"})
      BY Contents
    <3>2. \A d \in Requires : d[2] = "spec_versions" => d[1] \notin (At(2) \ {"agent_runs.spec"})
      BY Contents DEF Requires
    <3> QED
      BY <3>1, <3>2, Removal
  <2>4. Dropped((At(2) \ {"agent_runs.spec"}) \ {"spec_versions"}, "specs")
        = ((At(2) \ {"agent_runs.spec"}) \ {"spec_versions"}) \ {"specs"}
    <3>1. "refused" \notin ((At(2) \ {"agent_runs.spec"}) \ {"spec_versions"}) /\ "specs" \in ((At(2) \ {"agent_runs.spec"}) \ {"spec_versions"})
      BY Contents
    <3>2. \A d \in Requires : d[2] = "specs" => d[1] \notin ((At(2) \ {"agent_runs.spec"}) \ {"spec_versions"})
      BY Contents DEF Requires
    <3> QED
      BY <3>1, <3>2, Removal
  <2>5. ((At(2) \ {"agent_runs.spec"}) \ {"spec_versions"}) \ {"specs"} = At(1)
    BY Contents
  <2>6. FoldLeft(Dropped, At(2), Drops[2])
        = Dropped(Dropped(Dropped(At(2), Drops[2][1]), Drops[2][2]), Drops[2][3])
    BY <2>1, Three
  <2> QED
    BY <2>1, <2>2, <2>3, <2>4, <2>5, <2>6
<1>3. FoldLeft(Dropped, At(3), Drops[3]) = At(2)
  <2>1. DOMAIN Drops[3] = 1..2 /\ Drops[3][1] = "spec_versions.semver" /\ Drops[3][2] = "specs.semver"
    BY DEF Drops
  <2>2. Dropped(At(3), "spec_versions.semver")
        = At(3) \ {"spec_versions.semver"}
    <3>1. "refused" \notin At(3) /\ "spec_versions.semver" \in At(3)
      BY Contents
    <3>2. \A d \in Requires : d[2] = "spec_versions.semver" => d[1] \notin At(3)
      BY Contents DEF Requires
    <3> QED
      BY <3>1, <3>2, Removal
  <2>3. Dropped(At(3) \ {"spec_versions.semver"}, "specs.semver")
        = (At(3) \ {"spec_versions.semver"}) \ {"specs.semver"}
    <3>1. "refused" \notin (At(3) \ {"spec_versions.semver"}) /\ "specs.semver" \in (At(3) \ {"spec_versions.semver"})
      BY Contents
    <3>2. \A d \in Requires : d[2] = "specs.semver" => d[1] \notin (At(3) \ {"spec_versions.semver"})
      BY Contents DEF Requires
    <3> QED
      BY <3>1, <3>2, Removal
  <2>4. (At(3) \ {"spec_versions.semver"}) \ {"specs.semver"} = At(2)
    BY Contents
  <2>5. FoldLeft(Dropped, At(3), Drops[3])
        = Dropped(Dropped(At(3), Drops[3][1]), Drops[3][2])
    BY <2>1, Two
  <2> QED
    BY <2>1, <2>2, <2>3, <2>4, <2>5
<1>4. FoldLeft(Dropped, At(4), Drops[4]) = At(3)
  <2>1. DOMAIN Drops[4] = 1..1 /\ Drops[4][1] = "prompts"
    BY DEF Drops
  <2>2. Dropped(At(4), "prompts")
        = At(4) \ {"prompts"}
    <3>1. "refused" \notin At(4) /\ "prompts" \in At(4)
      BY Contents
    <3>2. \A d \in Requires : d[2] = "prompts" => d[1] \notin At(4)
      BY Contents DEF Requires
    <3> QED
      BY <3>1, <3>2, Removal
  <2>3. At(4) \ {"prompts"} = At(3)
    BY Contents
  <2>4. FoldLeft(Dropped, At(4), Drops[4])
        = Dropped(At(4), Drops[4][1])
    BY <2>1, One
  <2> QED
    BY <2>1, <2>2, <2>3, <2>4
<1>5. FoldLeft(Dropped, At(5), Drops[5]) = At(4)
  <2>1. DOMAIN Drops[5] = 1..1 /\ Drops[5][1] = "agent_runs.prompts"
    BY DEF Drops
  <2>2. Dropped(At(5), "agent_runs.prompts")
        = At(5) \ {"agent_runs.prompts"}
    <3>1. "refused" \notin At(5) /\ "agent_runs.prompts" \in At(5)
      BY Contents
    <3>2. \A d \in Requires : d[2] = "agent_runs.prompts" => d[1] \notin At(5)
      BY Contents DEF Requires
    <3> QED
      BY <3>1, <3>2, Removal
  <2>3. At(5) \ {"agent_runs.prompts"} = At(4)
    BY Contents
  <2>4. FoldLeft(Dropped, At(5), Drops[5])
        = Dropped(At(5), Drops[5][1])
    BY <2>1, One
  <2> QED
    BY <2>1, <2>2, <2>3, <2>4
<1>6. FoldLeft(Dropped, At(6), Drops[6]) = At(5)
  <2>1. DOMAIN Drops[6] = 1..1 /\ Drops[6][1] = "agent_runs.costs"
    BY DEF Drops
  <2>2. Dropped(At(6), "agent_runs.costs")
        = At(6) \ {"agent_runs.costs"}
    <3>1. "refused" \notin At(6) /\ "agent_runs.costs" \in At(6)
      BY Contents
    <3>2. \A d \in Requires : d[2] = "agent_runs.costs" => d[1] \notin At(6)
      BY Contents DEF Requires
    <3> QED
      BY <3>1, <3>2, Removal
  <2>3. At(6) \ {"agent_runs.costs"} = At(5)
    BY Contents
  <2>4. FoldLeft(Dropped, At(6), Drops[6])
        = Dropped(At(6), Drops[6][1])
    BY <2>1, One
  <2> QED
    BY <2>1, <2>2, <2>3, <2>4
<1>7. FoldLeft(Dropped, At(7), Drops[7]) = At(6)
  <2>1. DOMAIN Drops[7] = 1..2 /\ Drops[7][1] = "session_state_transitions" /\ Drops[7][2] = "agent_sessions.state"
    BY DEF Drops
  <2>2. Dropped(At(7), "session_state_transitions")
        = At(7) \ {"session_state_transitions"}
    <3>1. "refused" \notin At(7) /\ "session_state_transitions" \in At(7)
      BY Contents
    <3>2. \A d \in Requires : d[2] = "session_state_transitions" => d[1] \notin At(7)
      BY Contents DEF Requires
    <3> QED
      BY <3>1, <3>2, Removal
  <2>3. Dropped(At(7) \ {"session_state_transitions"}, "agent_sessions.state")
        = (At(7) \ {"session_state_transitions"}) \ {"agent_sessions.state"}
    <3>1. "refused" \notin (At(7) \ {"session_state_transitions"}) /\ "agent_sessions.state" \in (At(7) \ {"session_state_transitions"})
      BY Contents
    <3>2. \A d \in Requires : d[2] = "agent_sessions.state" => d[1] \notin (At(7) \ {"session_state_transitions"})
      BY Contents DEF Requires
    <3> QED
      BY <3>1, <3>2, Removal
  <2>4. (At(7) \ {"session_state_transitions"}) \ {"agent_sessions.state"} = At(6)
    BY Contents
  <2>5. FoldLeft(Dropped, At(7), Drops[7])
        = Dropped(Dropped(At(7), Drops[7][1]), Drops[7][2])
    BY <2>1, Two
  <2> QED
    BY <2>1, <2>2, <2>3, <2>4, <2>5
<1>8. FoldLeft(Dropped, At(8), Drops[8]) = At(7)
  <2>1. DOMAIN Drops[8] = 1..1 /\ Drops[8][1] = "prompt_variants"
    BY DEF Drops
  <2>2. Dropped(At(8), "prompt_variants")
        = At(8) \ {"prompt_variants"}
    <3>1. "refused" \notin At(8) /\ "prompt_variants" \in At(8)
      BY Contents
    <3>2. \A d \in Requires : d[2] = "prompt_variants" => d[1] \notin At(8)
      BY Contents DEF Requires
    <3> QED
      BY <3>1, <3>2, Removal
  <2>3. At(8) \ {"prompt_variants"} = At(7)
    BY Contents
  <2>4. FoldLeft(Dropped, At(8), Drops[8])
        = Dropped(At(8), Drops[8][1])
    BY <2>1, One
  <2> QED
    BY <2>1, <2>2, <2>3, <2>4
<1>9. FoldLeft(Dropped, At(9), Drops[9]) = At(8)
  <2>1. DOMAIN Drops[9] = 1..1 /\ Drops[9][1] = "agent_runs.variants"
    BY DEF Drops
  <2>2. Dropped(At(9), "agent_runs.variants")
        = At(9) \ {"agent_runs.variants"}
    <3>1. "refused" \notin At(9) /\ "agent_runs.variants" \in At(9)
      BY Contents
    <3>2. \A d \in Requires : d[2] = "agent_runs.variants" => d[1] \notin At(9)
      BY Contents DEF Requires
    <3> QED
      BY <3>1, <3>2, Removal
  <2>3. At(9) \ {"agent_runs.variants"} = At(8)
    BY Contents
  <2>4. FoldLeft(Dropped, At(9), Drops[9])
        = Dropped(At(9), Drops[9][1])
    BY <2>1, One
  <2> QED
    BY <2>1, <2>2, <2>3, <2>4
<1>10. FoldLeft(Dropped, At(10), Drops[10]) = At(9)
  <2>1. DOMAIN Drops[10] = 1..2 /\ Drops[10][1] = "state_commits" /\ Drops[10][2] = "state_proposals"
    BY DEF Drops
  <2>2. Dropped(At(10), "state_commits")
        = At(10) \ {"state_commits"}
    <3>1. "refused" \notin At(10) /\ "state_commits" \in At(10)
      BY Contents
    <3>2. \A d \in Requires : d[2] = "state_commits" => d[1] \notin At(10)
      BY Contents DEF Requires
    <3> QED
      BY <3>1, <3>2, Removal
  <2>3. Dropped(At(10) \ {"state_commits"}, "state_proposals")
        = (At(10) \ {"state_commits"}) \ {"state_proposals"}
    <3>1. "refused" \notin (At(10) \ {"state_commits"}) /\ "state_proposals" \in (At(10) \ {"state_commits"})
      BY Contents
    <3>2. \A d \in Requires : d[2] = "state_proposals" => d[1] \notin (At(10) \ {"state_commits"})
      BY Contents DEF Requires
    <3> QED
      BY <3>1, <3>2, Removal
  <2>4. (At(10) \ {"state_commits"}) \ {"state_proposals"} = At(9)
    BY Contents
  <2>5. FoldLeft(Dropped, At(10), Drops[10])
        = Dropped(Dropped(At(10), Drops[10][1]), Drops[10][2])
    BY <2>1, Two
  <2> QED
    BY <2>1, <2>2, <2>3, <2>4, <2>5
<1>11. FoldLeft(Dropped, At(11), Drops[11]) = At(10)
  <2>1. DOMAIN Drops[11] = 1..1 /\ Drops[11][1] = "state_proposals.query"
    BY DEF Drops
  <2>2. Dropped(At(11), "state_proposals.query")
        = At(11) \ {"state_proposals.query"}
    <3>1. "refused" \notin At(11) /\ "state_proposals.query" \in At(11)
      BY Contents
    <3>2. \A d \in Requires : d[2] = "state_proposals.query" => d[1] \notin At(11)
      BY Contents DEF Requires
    <3> QED
      BY <3>1, <3>2, Removal
  <2>3. At(11) \ {"state_proposals.query"} = At(10)
    BY Contents
  <2>4. FoldLeft(Dropped, At(11), Drops[11])
        = Dropped(At(11), Drops[11][1])
    BY <2>1, One
  <2> QED
    BY <2>1, <2>2, <2>3, <2>4
<1> QED
  BY <1>1, <1>2, <1>3, <1>4, <1>5, <1>6, <1>7, <1>8, <1>9, <1>10, <1>11, Revisions

\* What of it the rows depend on.
LEMMA Parts ==
  \A r \in 0..Latest :
    /\ "specs" \in At(r) <=> r >= 2
    /\ At(r) = At(Latest) => r = Latest
    /\ At(r) \subseteq At(Latest)
    /\ At(r) # Refused
<1>1. \A r \in 0..11 : "specs" \in At(r) <=> r >= 2
  BY Contents
<1>2. \A r \in 0..11 : "state_proposals.query" \in At(r) <=> r = 11
  BY Contents
<1>3. \A r \in 0..11 : At(r) \subseteq At(11)
  BY Contents
<1>4. "refused" \notin At(11)
  BY Contents
<1> QED
  BY <1>1, <1>2, <1>3, <1>4, Revisions DEF Refused

-----------------------------------------------------------------------------
(* The invariant. *)

Tables ==
  /\ rev \in 0..Latest /\ schema = At(rev)
  /\ specs \in [Id -> Row \cup {NoRow}] /\ Distinct(specs)
  /\ rev < 2 => \A i \in Id : specs[i] = NoRow
  /\ rev >= 3 => \A i \in Id : specs[i] # NoRow =>
       specs[i].version \in Semver /\ specs[i].noted \in Semver
  /\ \A i \in Id : specs[i] # NoRow =>
       (specs[i].version \in Semver <=> specs[i].noted \in Semver)

Counters ==
  /\ failed = None \/ (failed \in [at : 1..Latest, alone : BOOLEAN] /\ failed.at = 3)
  /\ runs \in 0..MaxRuns /\ writes \in 0..MaxWrites /\ faults \in 0..MaxFaults

\* Where an upgrade has come to: every revision from the stored one on.
Upgrading ==
  run.up => /\ rev < run.at
            /\ run.things = At(run.at - 1) \/ (run.at = Latest /\ run.things = At(Latest))
Downgrading == ~run.up => run.at = rev /\ run.things \in {At(run.at), At(run.at - 1)}
Rewriting == run.next > 1 => run.up /\ run.at = 3

\* A run writes no row with a proper version, and its own rows are the program's too.
Touched == \A i \in DOMAIN run.own : specs[i] # NoRow /\ specs[i].version \notin Semver

\* What the two constraints of 003 found stays so, for nobody else can write.
Checked ==
  run.up => /\ run.at > 3 \/ run.next > 4 =>
                 \A i \in Id : Seen[i] # NoRow => Seen[i].version \in Semver
            /\ run.at > 3 \/ run.next > 5 =>
                 \A i \in Id : Seen[i] # NoRow => Seen[i].noted \in Semver

Going ==
  run # None =>
    /\ run \in Run
    /\ Upgrading /\ Downgrading /\ Rewriting
    /\ Touched /\ Distinct(Seen) /\ Checked

SInv == Tables /\ Counters /\ Going

LEMMA SInvHolds == SInv => RevisionHolds
<1> SUFFICES ASSUME SInv PROVE RevisionHolds
  OBVIOUS
<1>1. schema \in SUBSET At(Latest)
  BY Parts DEF SInv, Tables
<1> QED
  BY <1>1 DEF SInv, Tables, Counters, Going, RevisionHolds, TypeOK

\* What a run may find and what it may have written.
Databases == {At(q) : q \in 0..Latest}
Rows == UNION {[S -> Row \cup {NoRow}] : S \in SUBSET Id}

\* The records of Run, and the changes a step makes to one.
LEMMA RunRecord ==
  ASSUME NEW up \in BOOLEAN, NEW at \in 1..Latest, NEW next \in 1..6,
         NEW things \in Databases,
         NEW own \in Rows,
         NEW alone \in BOOLEAN
  PROVE  [up |-> up, at |-> at, next |-> next, things |-> things, own |-> own,
          alone |-> alone] \in Run
BY DEF Run, Databases, Rows

LEMMA RunFields ==
  Run = [up : BOOLEAN, at : 1..Latest, next : 1..6, things : Databases, own : Rows,
         alone : BOOLEAN]
BY DEF Run, Databases, Rows

LEMMA RunType ==
  ASSUME NEW r \in Run
  PROVE  /\ r.up \in BOOLEAN /\ r.at \in 1..Latest /\ r.next \in 1..6
         /\ r.things \in Databases /\ r.own \in Rows /\ r.alone \in BOOLEAN
         /\ DOMAIN r.own \in SUBSET Id
         /\ r.own \in [DOMAIN r.own -> Row \cup {NoRow}]
BY DEF Run, Databases, Rows

LEMMA SeenType ==
  ASSUME Tables, run \in Run
  PROVE  /\ Seen \in [Id -> Row \cup {NoRow}]
         /\ \A i \in Id : Seen[i] = IF i \in DOMAIN run.own THEN run.own[i] ELSE specs[i]
BY RunType DEF Seen, Tables

LEMMA InitSInv == Init => SInv
<1> SUFFICES ASSUME Init PROVE SInv
  OBVIOUS
<1>1. rev \in 0..Latest /\ (rev = 0 \/ rev = 2)
  BY Revisions DEF Init
<1>2. specs \in [Id -> Row \cup {NoRow}]
  BY DEF Init
<1>3. \A i \in Id : specs[i] # NoRow => specs[i].noted = specs[i].version
  BY DEF Init
<1>4. 0 \in 0..MaxRuns /\ 0 \in 0..MaxWrites /\ 0 \in 0..MaxFaults
  BY BoundAssumption
<1> QED
  BY <1>1, <1>2, <1>3, <1>4 DEF Init, SInv, Tables, Counters, Going

\* alembic starts.
LEMMA BeginKeeps == ASSUME SInv, NEW up \in BOOLEAN, Begin(up) PROVE SInv'
<1>1. Tables'
  BY DEF SInv, Begin, Tables, Distinct
<1>2. Counters'
  BY BoundAssumption DEF SInv, Begin, Counters
<1>3. rev \in 0..Latest /\ Latest = 11 /\ schema = At(rev)
  BY Revisions DEF SInv, Tables
<1>4. run' = [up |-> up, at |-> IF up THEN rev + 1 ELSE rev, next |-> 1, things |-> schema,
              own |-> <<>>, alone |-> TRUE]
  BY DEF Begin
<1>5. DOMAIN run'.own = {} /\ run'.own \in [{} -> Row \cup {NoRow}] /\ {} \in SUBSET Id
  BY <1>4
<1>6. run' \in Run
  <2>1. <<>> \in Rows
    BY <1>4, <1>5 DEF Rows
  <2>2. (IF up THEN rev + 1 ELSE rev) \in 1..Latest
    BY <1>3 DEF Begin
  <2>3. schema \in Databases
    BY <1>3 DEF Databases
  <2> QED
    BY <1>4, <2>1, <2>2, <2>3, 1 \in 1..6, RunRecord
<1>7. \A i \in Id : Seen'[i] = specs[i]
  BY <1>5 DEF Seen, Begin
<1>8. Distinct(Seen)'
  BY <1>7 DEF Distinct, SInv, Tables
<1>9. Checked'
  <2>1. run'.up /\ (run'.at > 3 \/ run'.next > 4) => rev >= 3
    BY <1>3, <1>4
  <2> QED
    BY <1>4, <1>7, <2>1, <1>3 DEF Checked, SInv, Tables
<1>10. Upgrading' /\ Downgrading' /\ Rewriting' /\ Touched'
  BY <1>3, <1>4, <1>5 DEF Upgrading, Downgrading, Rewriting, Touched, Begin
<1> QED
  BY <1>1, <1>2, <1>6, <1>8, <1>9, <1>10 DEF SInv, Going

\* The transaction is rolled back, or nothing is under way.
LEMMA FailureKeeps == ASSUME SInv, run \in Run, run.at = 3, Failure PROVE SInv'
<1>1. failed' \in [at : 1..Latest, alone : BOOLEAN] /\ failed'.at = 3
  BY RunType DEF Failure
<1> QED
  BY <1>1 DEF SInv, Failure, Tables, Counters, Going, Distinct

LEMMA LoseKeeps == ASSUME SInv, Lose PROVE SInv'
<1>1. Counters'
  BY BoundAssumption DEF SInv, Lose, Counters
<1> QED
  BY <1>1 DEF SInv, Lose, Tables, Going, Distinct

\* The next revision.
LEMMA PassKeeps ==
  ASSUME SInv, run # None, Pass(At(run.at)) \/ Pass(At(run.at - 1)),
         IF run.up THEN /\ run.things = At(run.at - 1) /\ Pass(At(run.at))
                        /\ run.at = 3 => run.next = 6
                   ELSE Pass(At(run.at - 1))
  PROVE  SInv'
<1> DEFINE to == IF run.up THEN At(run.at) ELSE At(run.at - 1)
           next == IF run.up /\ run.at < Latest THEN run.at + 1 ELSE run.at
<1>1. run \in Run /\ Latest = 11 /\ rev \in 0..Latest
  BY Revisions DEF SInv, Going, Tables
<1>2. run.at \in 1..Latest /\ run.up \in BOOLEAN
  BY <1>1, RunType
<1>3. to \in Databases
  <2>1. run.at \in 0..Latest /\ run.at - 1 \in 0..Latest
    BY <1>1, <1>2
  <2> QED
    BY <2>1 DEF Databases
<1>4. to # Refused
  BY <1>3, Parts DEF Databases
<1>5. /\ run' = [run EXCEPT !.things = to, !.next = 1, !.at = next]
      /\ UNCHANGED <<rev, schema, specs, failed, runs, writes, faults>>
  BY <1>4 DEF Pass
<1>6. next \in 1..Latest
  BY <1>1, <1>2
<1> HIDE DEF to, next
<1>7. /\ run' \in Run /\ run'.up = run.up /\ run'.things = to /\ run'.next = 1
      /\ run'.at = next /\ run'.own = run.own
  <2>1. run' \in Run
    <3>1. PICK r, s, t, q, n : r = run /\ s = run' /\ t = to /\ q = next /\ n = 1
      OBVIOUS
    <3>2. r \in Run /\ t \in Databases /\ q \in 1..Latest /\ n \in 1..6
      BY <1>1, <1>3, <1>6, <3>1
    <3>3. s = [r EXCEPT !.things = t, !.next = n, !.at = q]
      BY <1>5, <3>1
    <3>4. s \in Run
      BY ONLY <3>2, <3>3, RunFields
    <3> QED
      BY <3>1, <3>4
  <2>2. run'.up = run.up /\ run'.things = to /\ run'.next = 1
    BY <1>1, <1>5, RunFields
  <2>3. run'.at = next /\ run'.own = run.own
    BY <1>1, <1>5, RunFields
  <2> QED
    BY <2>1, <2>2, <2>3
<1> USE DEF to, next
<1>8. Tables' /\ Counters'
  BY <1>5 DEF SInv, Tables, Counters, Distinct
<1>9. Seen' = Seen
  BY <1>5, <1>7 DEF Seen
<1>10. Upgrading'
  BY <1>1, <1>2, <1>5, <1>7 DEF SInv, Going, Upgrading
<1>11. Downgrading' /\ Rewriting'
  BY <1>1, <1>2, <1>5, <1>7 DEF SInv, Going, Downgrading, Rewriting
<1>12. Touched' /\ Distinct(Seen)'
  BY <1>5, <1>7, <1>9 DEF SInv, Going, Touched, Distinct
<1>13. Checked'
  <2>1. run.up /\ next > 3 => run.at > 3 \/ run.next = 6
    BY <1>1, <1>2
  <2> QED
    BY <1>1, <1>7, <1>9, <2>1 DEF SInv, Going, Checked
<1> QED
  BY <1>7, <1>8, <1>10, <1>11, <1>12, <1>13 DEF SInv, Going

LEMMA ReviseKeeps == ASSUME SInv, Revise PROVE SInv'
<1>1. run # None /\ run \in Run /\ ~Complete /\ ~(run.up /\ run.at = 3)
  BY DEF Revise, SInv, Going
<1>2. run.at \in 1..Latest
  BY <1>1, RunType
<1>3. CASE run.up
  <2>1. run.things = At(run.at - 1)
    BY <1>1, <1>3 DEF SInv, Going, Upgrading, Complete
  <2>2. FoldLeft(Created, run.things, Creates[run.at]) = At(run.at)
    BY <1>2, <2>1, Upgrades
  <2>3. Pass(At(run.at))
    BY <1>3, <2>2 DEF Revise
  <2> QED
    BY <1>1, <1>3, <2>1, <2>3, PassKeeps
<1>4. CASE ~run.up
  <2>1. run.things = At(run.at)
    BY <1>1, <1>4 DEF SInv, Going, Downgrading, Complete
  <2>2. FoldLeft(Dropped, run.things, Drops[run.at]) = At(run.at - 1)
    BY <1>2, <2>1, Downgrades
  <2>3. Pass(At(run.at - 1))
    BY <1>4, <2>2 DEF Revise
  <2> QED
    BY <1>1, <1>4, <2>3, PassKeeps
<1> QED
  BY <1>3, <1>4

-----------------------------------------------------------------------------
(* upgrade() of revision 003. *)

\* A statement that writes no row with a proper version; the constraints write none.
LEMMA WriteKeeps ==
  ASSUME SInv, run # None, run.up, run.at = 3, run.next \in 1..5,
         NEW rows, DOMAIN rows \in SUBSET Id, rows \in [DOMAIN rows -> Row \cup {NoRow}],
         \A i \in DOMAIN rows : specs[i] # NoRow /\ specs[i].version \notin Semver,
         run.next >= 4 => /\ DOMAIN rows = {}
                          /\ \A i \in Id : Seen[i] # NoRow => Seen[i].version \in Semver,
         run.next = 5 => \A i \in Id : Seen[i] # NoRow => Seen[i].noted \in Semver,
         Write(rows)
  PROVE  SInv'
<1> DEFINE all == DOMAIN run.own \cup DOMAIN rows
           own == [i \in all |-> IF i \in DOMAIN rows THEN rows[i] ELSE run.own[i]]
           after == [i \in Id |-> IF i \in DOMAIN rows THEN rows[i] ELSE Seen[i]]
<1>1. run \in Run
  BY DEF SInv, Going
<1>2. CASE ~Distinct(after)
  BY <1>1, <1>2, FailureKeeps DEF Write
<1>3. CASE Distinct(after)
  <2>1. /\ run' = [run EXCEPT !.next = run.next + 1, !.own = own]
        /\ UNCHANGED <<rev, schema, specs, failed, runs, writes, faults>>
    BY <1>3 DEF Write
  <2>2. all \in SUBSET Id /\ own \in [all -> Row \cup {NoRow}] /\ DOMAIN own = all
    BY <1>1, RunType
  <2>3. own \in Rows
    BY <2>2 DEF Rows
  <2> HIDE DEF own
  <2>4. run.next + 1 \in 1..6
    OBVIOUS
  <2>5. /\ run' \in Run /\ run'.up = run.up /\ run'.things = run.things
        /\ run'.next = run.next + 1 /\ run'.at = run.at /\ run'.own = own
    <3>1. run' \in Run
      BY <1>1, <2>1, <2>3, <2>4, RunFields
    <3>2. run'.up = run.up /\ run'.things = run.things
      BY <1>1, <2>1, RunFields
    <3>3. run'.next = run.next + 1 /\ run'.at = run.at /\ run'.own = own
      BY <1>1, <2>1, RunFields
    <3> QED
      BY <3>1, <3>2, <3>3
  <2> USE DEF own
  <2>6. Tables' /\ Counters'
    BY <2>1 DEF SInv, Tables, Counters, Distinct
  <2>7. Seen' = after
    BY <2>1, <2>5, <2>2 DEF Seen
  <2>8. Upgrading' /\ Downgrading' /\ Rewriting'
    BY <2>1, <2>5 DEF SInv, Going, Upgrading, Downgrading, Rewriting
  <2>9. Touched'
    BY <2>1, <2>2, <2>5 DEF SInv, Going, Touched
  <2>10. Distinct(Seen)'
    BY <1>3, <2>7 DEF Distinct
  <2>11. Checked'
    <3>1. run.next >= 4 => \A i \in Id : Seen'[i] = Seen[i]
      BY <2>7
    <3> QED
      BY <2>5, <3>1 DEF Checked
  <2> QED
    BY <2>5, <2>6, <2>8, <2>9, <2>10, <2>11 DEF SInv, Going
<1> QED
  BY <1>2, <1>3

\* ADD CONSTRAINT.
LEMMA CheckKeeps ==
  ASSUME SInv, run # None, run.up, run.at = 3,
         \/ run.next = 4 /\ AddCheck({Seen[i].version : i \in Present})
         \/ run.next = 5 /\ AddCheck({Seen[i].noted : i \in Present})
  PROVE  SInv'
<1>1. run \in Run
  BY DEF SInv, Going
<1>2. CASE Failure
  BY <1>1, <1>2, FailureKeeps
<1>3. PICK none : none = <<>>
  OBVIOUS
<1>4. DOMAIN none \in SUBSET Id /\ DOMAIN none = {} /\ none \in [{} -> Row \cup {NoRow}]
  BY <1>3
<1>5. CASE /\ run.next = 4 /\ {Seen[i].version : i \in Present} \subseteq Semver
           /\ Write(<<>>)
  <2>1. \A i \in Id : Seen[i] # NoRow => Seen[i].version \in Semver
    BY <1>5 DEF Present
  <2>2. Write(none) /\ run.next # 5 /\ run.next \in 1..5
    BY <1>3, <1>5
  <2> QED
    BY <1>4, <2>1, <2>2, WriteKeeps
<1>6. CASE /\ run.next = 5 /\ {Seen[i].noted : i \in Present} \subseteq Semver
           /\ Write(<<>>)
  <2>1. \A i \in Id : Seen[i] # NoRow => Seen[i].noted \in Semver
    BY <1>6 DEF Present
  <2>2. \A i \in Id : Seen[i] # NoRow => Seen[i].version \in Semver
    BY <1>6 DEF SInv, Going, Checked
  <2>3. Write(none) /\ run.next \in 1..5
    BY <1>3, <1>6
  <2> QED
    BY <1>4, <2>1, <2>2, <2>3, WriteKeeps
<1> QED
  BY <1>2, <1>5, <1>6 DEF AddCheck

LEMMA NormaliseKeeps == ASSUME SInv, Normalise PROVE SInv'
<1>1. run # None /\ run \in Run /\ run.up /\ run.at = 3
  BY DEF Normalise, SInv, Going
<1>2. /\ Seen \in [Id -> Row \cup {NoRow}]
      /\ \A i \in Id : Seen[i] = IF i \in DOMAIN run.own THEN run.own[i] ELSE specs[i]
  BY <1>1, SeenType DEF SInv
<1>3. \A i \in Id : Seen[i] # NoRow => Seen[i] \in Row
  BY <1>2
<1>4. \A i \in Id : /\ Seen[i] # NoRow
                    /\ Seen[i].version \notin Semver \/ Seen[i].noted \notin Semver
        => specs[i] # NoRow /\ specs[i].version \notin Semver
  BY <1>1, <1>2 DEF SInv, Tables, Going, Touched
<1>5. \A row \in Row : /\ [row EXCEPT !.noted = First] \in Row
                       /\ [row EXCEPT !.version = First] \in Row
  BY VersionAssumption DEF Row
<1>6. CASE run.next = 1 /\ Write(Renoted)
  <2>1. DOMAIN Renoted \in SUBSET Id /\ Renoted \in [DOMAIN Renoted -> Row \cup {NoRow}]
    BY <1>3, <1>5 DEF Renoted, Present
  <2>2. \A i \in DOMAIN Renoted : specs[i] # NoRow /\ specs[i].version \notin Semver
    BY <1>4 DEF Renoted, Present
  <2> QED
    BY <1>1, <1>6, <2>1, <2>2, WriteKeeps
<1>7. CASE run.next = 2 /\ Write(Deleted)
  <2>1. DOMAIN Deleted \in SUBSET Id /\ Deleted \in [DOMAIN Deleted -> Row \cup {NoRow}]
    BY DEF Deleted, Present
  <2>2. \A i \in DOMAIN Deleted : specs[i] # NoRow /\ specs[i].version \notin Semver
    BY <1>4 DEF Deleted, Present
  <2> QED
    BY <1>1, <1>7, <2>1, <2>2, WriteKeeps
<1>8. CASE run.next = 3 /\ Write(Renamed)
  <2>1. DOMAIN Renamed \in SUBSET Id /\ Renamed \in [DOMAIN Renamed -> Row \cup {NoRow}]
    BY <1>3, <1>5 DEF Renamed, Present
  <2>2. \A i \in DOMAIN Renamed : specs[i] # NoRow /\ specs[i].version \notin Semver
    BY <1>4 DEF Renamed, Present
  <2> QED
    BY <1>1, <1>8, <2>1, <2>2, WriteKeeps
<1>9. CASE run.next = 6 /\ Pass(FoldLeft(Created, run.things, Creates[3]))
  <2>1. run.things = At(run.at - 1)
    BY <1>1, Revisions DEF SInv, Going, Upgrading
  <2>2. FoldLeft(Created, run.things, Creates[3]) = At(run.at)
    BY <1>1, <2>1, Upgrades, Revisions
  <2>3. Pass(At(run.at))
    BY <1>9, <2>2
  <2> QED
    BY <1>1, <1>9, <2>1, <2>3, PassKeeps
<1> QED
  BY <1>1, <1>6, <1>7, <1>8, <1>9, CheckKeeps DEF Normalise

-----------------------------------------------------------------------------

\* What a complete run commits.
LEMMA Completed ==
  ASSUME SInv, run # None, Complete
  PROVE  /\ run \in Run /\ run.at \in 1..Latest
         /\ run.up => run.at = Latest
         /\ run.up => \A i \in Id : Seen[i] # NoRow =>
                        Seen[i].version \in Semver /\ Seen[i].noted \in Semver
         /\ run.things = At(IF run.up THEN Latest ELSE run.at - 1)
<1>1. run \in Run
  BY DEF SInv, Going
<1>2. run.at \in 1..Latest /\ Latest = 11
  BY <1>1, RunType, Revisions
<1>3. ASSUME run.up PROVE run.at = Latest
  <2>1. CASE run.things = At(run.at - 1)
    <3>1. run.at - 1 \in 0..Latest /\ At(run.at - 1) = At(Latest)
      BY <1>2, <1>3, <2>1 DEF Complete
    <3>2. run.at - 1 = Latest
      BY <3>1, Parts
    <3> QED
      BY <1>2, <3>2
  <2> QED
    BY <1>3, <2>1 DEF SInv, Going, Upgrading
<1>4. run.up => \A i \in Id : Seen[i] # NoRow =>
                  Seen[i].version \in Semver /\ Seen[i].noted \in Semver
  BY <1>2, <1>3 DEF SInv, Going, Checked
<1> QED
  BY <1>1, <1>2, <1>3, <1>4 DEF Complete

LEMMA CommitKeeps == ASSUME SInv, Commit PROVE SInv'
<1> DEFINE to == IF run.up THEN Latest ELSE run.at - 1
<1>0. run # None /\ Complete
  BY DEF Commit
<1>1. /\ run \in Run /\ run.at \in 1..Latest /\ Latest = 11
      /\ run.up => \A i \in Id : Seen[i] # NoRow =>
                     Seen[i].version \in Semver /\ Seen[i].noted \in Semver
      /\ run.things = At(to)
  BY <1>0, Completed, Revisions
<1>2. to \in 0..Latest
  BY <1>1
<1>3. /\ rev' = to /\ schema' = At(to) /\ run' = None
      /\ specs' = IF "specs" \in At(to) THEN Seen ELSE [i \in Id |-> NoRow]
      /\ UNCHANGED <<failed, runs, writes, faults>>
  BY <1>1 DEF Commit
<1>4. "specs" \in At(to) <=> to >= 2
  BY <1>2, Parts
<1>5. /\ Seen \in [Id -> Row \cup {NoRow}]
      /\ \A i \in Id : Seen[i] = IF i \in DOMAIN run.own THEN run.own[i] ELSE specs[i]
  BY <1>1, SeenType DEF SInv
<1>6. Going' /\ Counters'
  BY <1>3 DEF SInv, Going, Counters
<1>7. ASSUME to < 2 PROVE Tables'
  <2>1. specs' = [i \in Id |-> NoRow] /\ rev' = to /\ ~(rev' >= 3)
    BY <1>1, <1>2, <1>3, <1>4, <1>7
  <2>2. \A i \in Id : specs'[i] = NoRow
    BY <2>1
  <2>3. specs' \in [Id -> Row \cup {NoRow}]
    BY <2>1
  <2>4. Distinct(specs)'
    BY <2>2 DEF Distinct
  <2> QED
    <3>1. rev' \in 0..Latest /\ schema' = At(rev')
      BY <1>2, <1>3
    <3> QED
      BY <2>1, <2>2, <2>3, <2>4, <3>1 DEF Tables, Distinct
<1>8. ASSUME to >= 2 PROVE Tables'
  <2>1. specs' = Seen
    BY <1>3, <1>4, <1>8
  <2>2. Distinct(specs)'
    BY <1>0, <2>1 DEF SInv, Going, Distinct
  <2>3. \A i \in Id : Seen[i] # NoRow =>
          Seen[i].version \in Semver /\ Seen[i].noted \in Semver
    <3>1. CASE run.up
      BY <1>1, <3>1
    <3>2. CASE ~run.up
      <4>1. rev >= 3
        BY <1>0, <1>1, <1>8, <3>2 DEF SInv, Going, Downgrading
      <4>2. \A i \in Id : specs[i] # NoRow =>
              specs[i].version \in Semver /\ specs[i].noted \in Semver
        BY <4>1 DEF SInv, Tables
      <4>3. \A i \in Id : i \notin DOMAIN run.own
        BY <1>0, <4>2 DEF SInv, Going, Touched
      <4> QED
        BY <1>5, <4>2, <4>3
    <3> QED
      BY <3>1, <3>2
  <2>4. rev' = to /\ schema' = At(rev') /\ specs' \in [Id -> Row \cup {NoRow}] /\ ~(rev' < 2)
    BY <1>1, <1>2, <1>3, <1>5, <1>8, <2>1
  <2>5. \A i \in Id : specs'[i] # NoRow =>
          specs'[i].version \in Semver /\ specs'[i].noted \in Semver
    BY <2>1, <2>3
  <2> QED
    <3>1. rev' \in 0..Latest
      BY <1>2, <1>3
    <3> QED
      BY <2>2, <2>4, <2>5, <3>1 DEF Tables, Distinct
<1> QED
  BY <1>2, <1>6, <1>7, <1>8 DEF SInv

-----------------------------------------------------------------------------
(* The program's own writes. *)

\* A run only learns that somebody wrote.
LEMMA WroteRun ==
  ASSUME NEW rows, Wrote(rows), SInv, run # None
  PROVE  /\ run' \in Run /\ run'.up = run.up /\ run'.at = run.at /\ run'.next = run.next
         /\ run'.things = run.things /\ run'.own = run.own
<1>1. run \in Run /\ run' = [run EXCEPT !.alone = FALSE]
  BY DEF Wrote, SInv, Going
<1>2. run' \in Run
  BY <1>1, RunFields
<1>3. /\ run'.up = run.up /\ run'.at = run.at /\ run'.next = run.next
      /\ run'.things = run.things /\ run'.own = run.own
  BY <1>1, RunFields
<1> QED
  BY <1>2, <1>3

\* It does not show in what it has done, if the program stays off its rows, and writes
\* no row that it would have had to change.
LEMMA WroteKeeps ==
  ASSUME SInv, NEW rows \in [Id -> Row \cup {NoRow}], Wrote(rows), writes < MaxWrites,
         rev >= 2, Distinct(rows),
         \A i \in Id : rows[i] # NoRow => \/ rows[i].version \in Semver /\ rows[i].noted \in Semver
                                          \/ /\ specs[i] # NoRow
                                             /\ rows[i].version = specs[i].version
                                             /\ rows[i].noted = specs[i].noted,
         run # None => /\ \A i \in DOMAIN run.own : rows[i] = specs[i]
                       /\ \A i, j \in Id :
                            /\ i \in DOMAIN run.own /\ run.own[i] # NoRow
                            /\ j \notin DOMAIN run.own /\ rows[j] # NoRow
                            => <<run.own[i].domain, run.own[i].version>> #
                               <<rows[j].domain, rows[j].version>>
  PROVE  SInv'
<1>1. /\ specs' = rows /\ writes' = writes + 1
      /\ UNCHANGED <<rev, schema, failed, runs, faults>>
  BY DEF Wrote
<1>2. Counters'
  BY <1>1, BoundAssumption DEF SInv, Counters
<1>3. rev' \in 0..Latest /\ schema' = At(rev') /\ ~(rev' < 2)
  BY <1>1 DEF SInv, Tables
<1>4. \A i \in Id : rows[i] # NoRow =>
         (rows[i].version \in Semver <=> rows[i].noted \in Semver)
  BY DEF SInv, Tables
<1>5. rev >= 3 => \A i \in Id : rows[i] # NoRow =>
         rows[i].version \in Semver /\ rows[i].noted \in Semver
  BY DEF SInv, Tables
<1>6. Tables'
  BY <1>1, <1>3, <1>4, <1>5 DEF Tables, Distinct
<1>7. CASE run = None
  <2>1. run' = None
    BY <1>7 DEF Wrote
  <2> QED
    BY <1>2, <1>6, <2>1 DEF SInv, Going
<1>8. CASE run # None
  <2>1. /\ run' \in Run /\ run'.up = run.up /\ run'.at = run.at /\ run'.next = run.next
        /\ run'.things = run.things /\ run'.own = run.own
    BY <1>8, WroteRun
  <2>2. /\ run \in Run /\ Upgrading /\ Downgrading /\ Rewriting /\ Touched
        /\ Distinct(Seen) /\ Checked
    BY <1>8 DEF SInv, Going
  <2>3. \A i \in Id : /\ Seen[i] = IF i \in DOMAIN run.own THEN run.own[i] ELSE specs[i]
                      /\ Seen'[i] = IF i \in DOMAIN run.own THEN run.own[i] ELSE rows[i]
    BY <1>1, <2>1 DEF Seen
  <2>4. Upgrading' /\ Downgrading' /\ Rewriting'
    BY <1>1, <2>1, <2>2 DEF Upgrading, Downgrading, Rewriting
  <2>5. Touched'
    <3>1. DOMAIN run.own \in SUBSET Id
      BY <2>2, RunType
    <3> QED
      BY <1>1, <1>8, <2>1, <2>2, <3>1 DEF Touched
  <2>6. Distinct(Seen)'
    <3>1. \A i, j \in Id : i # j /\ NoRow \notin {Seen'[i], Seen'[j]} =>
            <<Seen'[i].domain, Seen'[i].version>> # <<Seen'[j].domain, Seen'[j].version>>
      <4> SUFFICES ASSUME NEW i \in Id, NEW j \in Id, i # j,
                          Seen'[i] # NoRow, Seen'[j] # NoRow
                   PROVE  <<Seen'[i].domain, Seen'[i].version>> #
                          <<Seen'[j].domain, Seen'[j].version>>
        OBVIOUS
      <4>1. CASE i \in DOMAIN run.own /\ j \in DOMAIN run.own
        BY <2>2, <2>3, <4>1 DEF Distinct
      <4>2. CASE i \notin DOMAIN run.own /\ j \notin DOMAIN run.own
        BY <2>3, <4>2 DEF Distinct
      <4>3. CASE i \in DOMAIN run.own /\ j \notin DOMAIN run.own
        BY <1>8, <2>3, <4>3
      <4>4. CASE i \notin DOMAIN run.own /\ j \in DOMAIN run.own
        BY <1>8, <2>3, <4>4
      <4> QED
        BY <4>1, <4>2, <4>3, <4>4
    <3> QED
      BY <3>1 DEF Distinct
  <2>7. Checked'
    BY <2>1, <2>2, <2>3 DEF Checked
  <2> QED
    BY <1>2, <1>6, <2>1, <2>4, <2>5, <2>6, <2>7 DEF SInv, Going
<1> QED
  BY <1>7, <1>8

LEMMA OpenAt == ASSUME SInv, Open PROVE rev >= 2 /\ writes < MaxWrites
BY Parts DEF SInv, Tables, Open

LEMMA CreateKeeps ==
  ASSUME SInv, NEW i \in Id, NEW d \in Domain, NEW v \in Semver, CreateSpec(i, d, v)
  PROVE  SInv'
<1> DEFINE row == [domain |-> d, version |-> v, active |-> FALSE, noted |-> v]
           rows == [specs EXCEPT ![i] = row]
<1>1. /\ Open /\ specs[i] = NoRow /\ Distinct(rows) /\ Wrote(rows)
      /\ run # None => /\ i \notin DOMAIN run.own
                       /\ \A j \in DOMAIN run.own : run.own[j] # NoRow =>
                            <<run.own[j].domain, run.own[j].version>> # <<d, v>>
  BY DEF CreateSpec
<1>2. specs \in [Id -> Row \cup {NoRow}]
  BY DEF SInv, Tables
<1>3. row \in Row
  BY DEF Row
<1>4. row.domain = d /\ row.version = v /\ row.noted = v
  OBVIOUS
<1> HIDE DEF row
<1>5. /\ rows \in [Id -> Row \cup {NoRow}]
      /\ \A j \in Id : rows[j] = IF j = i THEN row ELSE specs[j]
  BY <1>2, <1>3
<1>6. run # None => DOMAIN run.own \in SUBSET Id
  BY RunType DEF SInv, Going
<1>7. \A j \in Id : rows[j] # NoRow =>
        \/ rows[j].version \in Semver /\ rows[j].noted \in Semver
        \/ specs[j] # NoRow /\ rows[j].version = specs[j].version /\ rows[j].noted = specs[j].noted
  BY <1>4, <1>5
<1>8. run # None => \A j \in DOMAIN run.own : rows[j] = specs[j]
  BY <1>1, <1>5, <1>6
<1>9. ASSUME run # None, NEW j \in Id, NEW k \in Id,
             j \in DOMAIN run.own, run.own[j] # NoRow, k \notin DOMAIN run.own, rows[k] # NoRow
      PROVE  <<run.own[j].domain, run.own[j].version>> # <<rows[k].domain, rows[k].version>>
  <2>1. CASE k = i
    BY <1>1, <1>4, <1>5, <1>9, <2>1
  <2>2. CASE k # i
    <3>1. Seen[j] = run.own[j] /\ Seen[k] = specs[k] /\ rows[k] = specs[k] /\ j # k
      BY <1>5, <1>9, <2>2 DEF Seen
    <3>2. Distinct(Seen)
      BY <1>9 DEF SInv, Going
    <3> QED
      BY <1>9, <3>1, <3>2 DEF Distinct
  <2> QED
    BY <2>1, <2>2
<1> HIDE DEF rows
<1> QED
  BY <1>1, <1>5, <1>7, <1>8, <1>9, OpenAt, WroteKeeps

LEMMA ActivateKeeps ==
  ASSUME SInv, NEW i \in Id, ActivateSpec(i)
  PROVE  SInv'
<1> DEFINE was == {j \in Id \ {i} : /\ specs[j] # NoRow /\ specs[j].active
                                    /\ specs[j].domain = specs[i].domain}
           rows == [j \in Id |-> IF j = i THEN [specs[j] EXCEPT !.active = TRUE]
                                ELSE IF j \in was THEN [specs[j] EXCEPT !.active = FALSE]
                                ELSE specs[j]]
<1>1. /\ Open /\ specs[i] # NoRow /\ Wrote(rows)
      /\ run # None => DOMAIN run.own \cap (was \cup {i}) = {}
  BY DEF ActivateSpec
<1>2. specs \in [Id -> Row \cup {NoRow}]
  BY DEF SInv, Tables
<1>3. \A row \in Row : \A a \in BOOLEAN :
        /\ [row EXCEPT !.active = a] \in Row
        /\ [row EXCEPT !.active = a].domain = row.domain
        /\ [row EXCEPT !.active = a].version = row.version
        /\ [row EXCEPT !.active = a].noted = row.noted
  BY DEF Row
<1>4. \A j \in was : j \in Id /\ specs[j] # NoRow /\ specs[j] \in Row
  BY <1>2
<1> HIDE DEF was
<1>5. /\ rows \in [Id -> Row \cup {NoRow}]
      /\ \A j \in Id : /\ j = i \/ j \in was =>
                            /\ rows[j] \in Row /\ specs[j] # NoRow
                            /\ rows[j].domain = specs[j].domain
                            /\ rows[j].version = specs[j].version
                            /\ rows[j].noted = specs[j].noted
                       /\ j # i /\ j \notin was => rows[j] = specs[j]
  BY <1>1, <1>2, <1>3, <1>4
<1> HIDE DEF rows
<1>6. run # None => DOMAIN run.own \in SUBSET Id
  BY RunType DEF SInv, Going
<1>7. \A j \in Id : rows[j] # NoRow =>
        /\ specs[j] # NoRow /\ rows[j].domain = specs[j].domain
        /\ rows[j].version = specs[j].version /\ rows[j].noted = specs[j].noted
  BY <1>5
<1>8. run # None => \A j \in DOMAIN run.own : rows[j] = specs[j]
  BY <1>1, <1>5, <1>6
<1>9. Distinct(rows)
  BY <1>7 DEF Distinct, SInv, Tables
<1>10. ASSUME run # None, NEW j \in Id, NEW k \in Id,
             j \in DOMAIN run.own, run.own[j] # NoRow, k \notin DOMAIN run.own, rows[k] # NoRow
      PROVE  <<run.own[j].domain, run.own[j].version>> # <<rows[k].domain, rows[k].version>>
  <2>1. Seen[j] = run.own[j] /\ Seen[k] = specs[k] /\ j # k
    BY <1>10 DEF Seen
  <2>2. Distinct(Seen)
    BY <1>10 DEF SInv, Going
  <2>3. <<Seen[j].domain, Seen[j].version>> # <<Seen[k].domain, Seen[k].version>>
    BY <1>7, <1>10, <2>1, <2>2 DEF Distinct
  <2> QED
    BY <1>7, <1>10, <2>1, <2>3
<1> QED
  BY <1>1, <1>5, <1>7, <1>8, <1>9, <1>10, OpenAt, WroteKeeps

LEMMA SchemaInvariant == Spec => []SInv
<1>1. SInv /\ [Next]_vars => SInv'
  <2> SUFFICES ASSUME SInv, [Next]_vars PROVE SInv'
    OBVIOUS
  <2>1. CASE UNCHANGED vars
    <3>1. SInv' = SInv
      BY <2>1 DEF vars, SInv, Tables, Counters, Going, Upgrading, Downgrading, Rewriting,
                  Touched, Checked, Seen, Distinct
    <3> QED
      BY <3>1
  <2> QED
    BY <2>1, BeginKeeps, ReviseKeeps, NormaliseKeeps, CommitKeeps, LoseKeeps,
       CreateKeeps, ActivateKeeps DEF Next
<1> QED
  BY <1>1, InitSInv, PTL DEF Spec

\* Whatever runs of alembic, in either direction, start, fail, lose their connection or
\* die, and whatever the program writes meanwhile: the tables are those of the stored
\* revision, every version that 003 guarantees is one, and only 003 refuses to run
\* (db/migrations/env.py:65, db/migrations/versions/003_spec_version_constraint.py:51).
THEOREM RevisionAlwaysHolds == Spec => []RevisionHolds
BY SchemaInvariant, SInvHolds, PTL

\* No upgrade touches a spec with a proper version, also one that appears while 003
\* rewrites the others (003_spec_version_constraint.py:34).
THEOREM ValidAlwaysSurvive == Spec => ValidSurvive
<1> DEFINE Kept == run # None /\ run.up /\ run' = None => \A i \in Id :
                     specs[i] # NoRow /\ specs[i].version \in Semver => specs'[i] = specs[i]
<1>1. SInv /\ [Next]_vars => [Kept]_vars
  <2> SUFFICES ASSUME SInv, Next, run # None, run.up, run' = None,
                      NEW i \in Id, specs[i] # NoRow, specs[i].version \in Semver
               PROVE  specs'[i] = specs[i]
    OBVIOUS
  <2>1. ASSUME NEW up \in BOOLEAN, Begin(up) PROVE FALSE
    BY <2>1 DEF Begin
  <2>2. ASSUME NEW rows, Wrote(rows) PROVE FALSE
    BY <2>2, WroteRun, NullAssumption
  <2>3. CASE Revise \/ Normalise \/ Lose
    BY <2>3 DEF Revise, Normalise, Lose, Pass, Write, AddCheck, Failure
  <2>4. CASE Commit
    <3>1. run \in Run /\ run.things = At(Latest)
      BY <2>4, Completed DEF Commit
    <3>2. "specs" \in At(Latest)
      BY Parts, Revisions
    <3>3. specs' = Seen
      BY <2>4, <3>1, <3>2 DEF Commit
    <3>4. i \notin DOMAIN run.own
      BY DEF SInv, Going, Touched
    <3> QED
      BY <3>3, <3>4 DEF Seen
  <2> QED
    BY <2>1, <2>2, <2>3, <2>4 DEF Next, CreateSpec, ActivateSpec
<1> QED
  BY <1>1, SchemaInvariant, PTL DEF Spec, ValidSurvive
=============================================================================
