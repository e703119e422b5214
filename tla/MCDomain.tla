-------------------------------- MODULE MCDomain --------------------------------
(* Small instances of KnowledgeIndex and of CausalModel. *)
EXTENDS KnowledgeIndex

CONSTANTS u1, u2, ui, a1, api, y, a, b

Rel(froms, to) == [from_vars |-> froms, to_var |-> to]

\* Every choice of these relationships, in this order and in the other.
Arrows == <<Rel(<<"profit">>, "demand"), Rel(<<"cost">>, "profit"),
            Rel(<<"revenue">>, "profit"), Rel(<<"demand">>, "cost"),
            Rel(<<"price", "demand">>, "revenue"), Rel(<<"price">>, "demand"),
            Rel(<<"marketing_spend">>, "demand"), Rel(<<"competitor_price">>, "price")>>
Some == {SelectSeq(Arrows, LAMBDA r : r \in chosen) : chosen \in SUBSET ToSet(Arrows)}
MCDrawn == Some \cup {Reverse(g) : g \in Some}

\* A tab and the API, or two tabs.
MCHome == u1 :> ui @@ a1 :> api
MCTabs == u1 :> ui @@ u2 :> ui
\* A new version's text keeps the version of its parent's.
MCVersion == y :> 1 @@ a :> 1 @@ b :> 1
=============================================================================
