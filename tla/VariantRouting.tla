----------------------------- MODULE VariantRouting -----------------------------
(***************************************************************************)
(* Which prompt variant a session is served: select_variant of              *)
(* prompts/routing.py.  `rows' is what _load_active_variants returned for a  *)
(* stage, as a function from variant labels; a session is the bucket that    *)
(* _bucket_for hashes it to.                                                *)
(***************************************************************************)
EXTENDS Integers, FiniteSets, FiniteSetsExt

CONSTANTS
  Full,       \* all the traffic: 100 in the code, so the number of buckets
  NoVariant   \* select_variant returns None

ASSUME FullAssumption == Full \in Nat \ {0}

Bucket == 0..(Full - 1)

Candidates(rows) == {l \in DOMAIN rows : rows[l].status = "candidate"}
Champions(rows) == {l \in DOMAIN rows : rows[l].status = "champion"}

TotalShare(rows, labels) == MapThenSumSet(LAMBDA l : rows[l].pct, labels)

\* Mutant: the candidate's own slice is added after the comparison.
ReachBefore(rows, c) ==
  TotalShare(rows, {l \in Candidates(rows) : rows[l].created < rows[c].created})

\* `cumulative' of the walk once it has added candidate c, oldest first.
Reach(rows, c) ==
  TotalShare(rows, {l \in Candidates(rows) : rows[l].created <= rows[c].created})

Oldest(rows, labels) ==
  CHOOSE l \in labels : \A m \in labels : rows[l].created <= rows[m].created

\* The first candidate whose slice ends after the bucket, or else the champion.
Route(rows, bucket) ==
  LET hit == {c \in Candidates(rows) : bucket < Reach(rows, c)}
  IN  IF hit # {} THEN Oldest(rows, hit)
      ELSE IF Champions(rows) # {} THEN Oldest(rows, Champions(rows))
      ELSE NoVariant

\* The sessions that are served variant l.
Served(rows, l) == {b \in Bucket : Route(rows, b) = l}
=============================================================================
