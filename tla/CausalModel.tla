------------------------------ MODULE CausalModel ------------------------------
(***************************************************************************)
(* The causal graph of a spec and its evaluation: system/system_graph.py and  *)
(* system/system_model.py.  A graph is the list of the spec's                 *)
(* causal_relationships after parsing, each [from_vars, to_var].              *)
(*                                                                         *)
(* networkx (external) keeps nodes and edges in the order they are added and  *)
(* sorts topologically by generations.  The order of nodes that no edge        *)
(* orders matters here: evaluate() asks for a value whether or not an edge     *)
(* says that it comes first.                                                *)
(***************************************************************************)
EXTENDS Integers, SequencesExt, Functions

\* A spec's causal_relationships.
Graph == Seq([from_vars : Seq(STRING), to_var : STRING])

\* The members of S in s, each where it first comes.
Firsts(s, S) ==
  FoldLeft(LAMBDA acc, x : IF x \in S /\ ~Contains(acc, x) THEN Append(acc, x) ELSE acc,
           <<>>, s)

\* add_edge for every cause of every relationship, in order, each edge once.
EdgeSeq(graph) ==
  LET added == FlattenSeq([k \in DOMAIN graph |->
                 [j \in DOMAIN graph[k].from_vars |->
                    <<graph[k].from_vars[j], graph[k].to_var>>]])
  IN Firsts(added, ToSet(added))

\* Nodes come with the first edge that has them, its cause before its effect.
NodeSeq(graph) ==
  LET ends == FlattenSeq(EdgeSeq(graph)) IN Firsts(ends, ToSet(ends))

Causes(graph, v) == {e[1] : e \in {d \in ToSet(EdgeSeq(graph)) : d[2] = v}}

Effects(graph, v) ==
  LET out == Firsts(EdgeSeq(graph), {e \in ToSet(EdgeSeq(graph)) : e[1] = v})
  IN [k \in DOMAIN out |-> out[k][2]]

\* Mutant: a node is placed with its first cause, not its last.
AfterEarly(graph, placed, latest) ==
  LET next == FlattenSeq([k \in DOMAIN latest |-> Effects(graph, latest[k])])
  IN Firsts(next, ToSet(next) \ ToSet(placed))

\* A generation: the effects whose last cause has just been placed, in that order.
After(graph, placed, latest) ==
  LET before == Len(placed) - Len(latest)
  IN FlattenSeq([k \in DOMAIN latest |->
       Firsts(Effects(graph, latest[k]),
              {v \in ToSet(NodeSeq(graph)) :
                 Causes(graph, v) \subseteq ToSet(SubSeq(placed, 1, before + k))})])

\* topological_sort: a node on a cycle, or after one, is never placed.
EvalOrder(graph) ==
  LET roots == Firsts(NodeSeq(graph), {v \in ToSet(NodeSeq(graph)) : Causes(graph, v) = {}})
      generations[n \in 0..Len(NodeSeq(graph))] ==
        IF n = 0 THEN [placed |-> roots, latest |-> roots]
        ELSE LET was == generations[n - 1]
                 next == After(graph, was.placed, was.latest)
             IN [placed |-> was.placed \o next, latest |-> next]
  IN generations[Len(NodeSeq(graph))].placed

\* assert_dag_acyclic.
IsAcyclic(graph) == Len(EvalOrder(graph)) = Len(NodeSeq(graph))

-----------------------------------------------------------------------------
(* evaluate(). *)

\* _NODE_FORMULAS, and the values each of them looks up.
Needs == [revenue |-> {"price", "demand"}, cost |-> {"demand", "_unit_cost"},
          profit |-> {"revenue", "cost"}]

Formula(v, values) ==
  CASE v = "revenue" -> values["price"] * values["demand"]
    [] v = "cost"    -> values["demand"] * values["_unit_cost"]
    [] v = "profit"  -> values["revenue"] - values["cost"]

KeyError == [error |-> "KeyError"]

\* values[v] = x.
Put(values, v, x) == [w \in DOMAIN values \cup {v} |-> IF w = v THEN x ELSE values[w]]

\* The values of all nodes, or the error of a formula that comes before what it needs.
\* predicted is the demand at the given price and marketing; a node that is neither
\* given, predicted nor a formula's is skipped.  The caller does not get _unit_cost.
Evaluate(graph, price, marketing, unitCost, predicted) ==
  FoldLeft(LAMBDA values, v :
      IF values = KeyError THEN KeyError
      ELSE IF v \in DOMAIN values THEN values
      ELSE IF v = "demand" THEN Put(values, v, predicted)
      ELSE IF v \notin DOMAIN Needs THEN values
      ELSE IF Needs[v] \subseteq DOMAIN values THEN Put(values, v, Formula(v, values))
      ELSE KeyError,
    [price |-> price, marketing |-> marketing, _unit_cost |-> unitCost],
    EvalOrder(graph))

\* monte_carlo takes the demand from the graph and computes the profit itself, with a
\* demand that noise never makes negative.
Earned(price, unitCost, noisy) == price * noisy - noisy * unitCost

\* The noise is a draw around 0 with a tenth of the demand as its spread; numpy draws none
\* for a spread below 0.
ValueError == [error |-> "ValueError"]

Simulated(graph, price, marketing, unitCost, predicted, noise) ==
  LET demand == Evaluate(graph, price, marketing, unitCost, predicted)["demand"]
  IN IF demand < 0 THEN ValueError ELSE Earned(price, unitCost, Max({0, demand + noise}))

\* optimize_price: the first of the prices with the greatest expected profit.
BestPrice(prices, expected) ==
  prices[CHOOSE k \in DOMAIN prices :
    /\ \A j \in DOMAIN prices : expected[prices[j]] <= expected[prices[k]]
    /\ \A j \in 1..(k - 1) : expected[prices[j]] < expected[prices[k]]]

-----------------------------------------------------------------------------
(* References: a cycle is a node that reaches itself; a value follows from its *)
(* formula.                                                                *)

Reaches(graph, v, w) ==
  LET within[n \in 0..Len(NodeSeq(graph))] ==
        IF n = 0 THEN ToSet(Effects(graph, v))
        ELSE LET was == within[n - 1] IN was \cup UNION {ToSet(Effects(graph, u)) : u \in was}
  IN w \in within[Len(NodeSeq(graph))]

HasCycle(graph) == \E v \in ToSet(NodeSeq(graph)) : Reaches(graph, v, v)

\* Every formula of the graph has what it needs among its causes.
Covered(graph) ==
  \A v \in ToSet(NodeSeq(graph)) \cap DOMAIN Needs :
    Needs[v] \ {"_unit_cost"} \subseteq Causes(graph, v)

Meaning(price, marketing, unitCost, predicted) ==
  [price |-> price, marketing |-> marketing, _unit_cost |-> unitCost,
   demand |-> predicted, revenue |-> price * predicted, cost |-> predicted * unitCost,
   profit |-> predicted * (price - unitCost)]
=============================================================================
