--------------------------------- MODULE SemVer ---------------------------------
(***************************************************************************)
(* spec/versioning.py: semantic versions and the bump a change of a spec     *)
(* calls for.                                                               *)
(***************************************************************************)
EXTENDS Integers

Version == Nat \X Nat \X Nat
ZeroVersion == <<0, 0, 0>>
InitialVersion == <<1, 0, 0>>

BumpType == {"major", "minor", "patch"}

\* Mutant: the minor version is compared first.
NewerByMinor(v, w) ==
  \/ v[2] > w[2]
  \/ v[2] = w[2] /\ v[1] > w[1]
  \/ v[2] = w[2] /\ v[1] = w[1] /\ v[3] > w[3]

\* __gt__: tuples are compared from the left.
Newer(v, w) ==
  \/ v[1] > w[1]
  \/ v[1] = w[1] /\ v[2] > w[2]
  \/ v[1] = w[1] /\ v[2] = w[2] /\ v[3] > w[3]

Bump(v, type) ==
  CASE type = "major" -> <<v[1] + 1, 0, 0>>
    [] type = "minor" -> <<v[1], v[2] + 1, 0>>
    [] type = "patch" -> <<v[1], v[2], v[3] + 1>>

\* The highest of a finite set of versions, 0.0.0 if there is none.
MaxVersion(versions) ==
  IF versions = {} THEN ZeroVersion
  ELSE CHOOSE v \in versions : \A w \in versions : ~Newer(w, v)

\* Mutant: a change of the variables or of the causal graph counts as a new bound.
DetectMinor(old, new) ==
  IF old.shape # new.shape \/ old.bounds # new.bounds THEN "minor" ELSE "patch"

\* detect_bump_type: names and causal edges, then bounds; nothing else is looked
\* at, the autonomy policy included.
DetectBump(old, new) ==
  IF old.shape # new.shape THEN "major"
  ELSE IF old.bounds # new.bounds THEN "minor" ELSE "patch"
=============================================================================
