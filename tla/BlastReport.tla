---------------------------- MODULE BlastReport ----------------------------
(***************************************************************************)
(* The blast radius a risk assessment uses: what the searches of           *)
(* BlastRadius find, as an operator, and the figures the analyzer          *)
(* (blast_radius/analyzer.py) rolls up from it.  Upstream dependencies are *)
(* reported and not scored, and are left out.                              *)
(*                                                                         *)
(* Confidence is in ten-thousandths.                                       *)
(***************************************************************************)
EXTENDS DependencyGraph

CONSTANT MaxHops  \* the analyzer's max_hops

(***************************************************************************)
(* The search of BlastRadius, run to its end.  What it has found, and what *)
(* it has yet to expand, is a record [visited, frontier].                  *)
(***************************************************************************)

\* An edge from the node `at` is followed.
Follow(at, s, e) ==
  LET found == [id |-> e.source, via |-> Append(at.via, e)]
  IN IF found.id \in DOMAIN s.visited /\ Len(s.visited[found.id].via) <= Len(found.via)
     THEN s
     ELSE [visited |-> [i \in DOMAIN s.visited \cup {found.id} |->
                          IF i = found.id THEN found ELSE s.visited[i]],
           frontier |-> Append(s.frontier, found)]

\* The search after each of the graph's edges, of which it follows those at
\* that node.
FollowEach(g, at, s) ==
  LET after[i \in 0..Len(g.edges)] ==
        IF i = 0 THEN s
        ELSE IF g.edges[i].target = at.id THEN Follow(at, after[i - 1], g.edges[i])
             ELSE after[i - 1]
  IN after

\* frontier.pop(0), and the expansion of the node, unless it is at MaxHops.
Popped(s) == [visited |-> s.visited, frontier |-> Tail(s.frontier)]

Expand(g, s) ==
  IF s.frontier = <<>> THEN s
  ELSE LET at == Head(s.frontier)
       IN IF Len(at.via) >= MaxHops THEN Popped(s)
          ELSE FollowEach(g, at, Popped(s))[Len(g.edges)]

\* Every node enters the frontier once, and the changed object twice at most.
MostExpansions(g) == Cardinality(DOMAIN g.node) + 1

Expansions(g, id) ==
  LET run[n \in 0..MostExpansions(g)] ==
        IF n = 0 THEN [visited |-> <<>>, frontier |-> <<[id |-> id, via |-> <<>>]>>]
        ELSE Expand(g, run[n - 1])
  IN run

\* The nodes downstream of id, with the path to each.
Downstream(g, id) == Expansions(g, id)[MostExpansions(g)].visited

\* downstream_impact of several objects: the first to reach a node stays.
Joined(all, found, id) ==
  [i \in DOMAIN all \cup (DOMAIN found \ {id}) |-> IF i \in DOMAIN all THEN all[i] ELSE found[i]]

Impacts(g, direct) ==
  LET all[k \in 0..Len(direct)] ==
        IF k = 0 THEN <<>> ELSE Joined(all[k - 1], Downstream(g, direct[k]), direct[k])
  IN all

Impact(g, direct) == Impacts(g, direct)[Len(direct)]

\* The elements of a sequence that are in a set, in their order.
Kept(s, S) ==
  LET kept[n \in 0..Len(s)] ==
        IF n = 0 THEN <<>>
        ELSE IF s[n] \in S THEN Append(kept[n - 1], s[n]) ELSE kept[n - 1]
  IN kept

Among(s, S) == Kept(s, S)[Len(s)]

Rounded(n, d) == (2 * n + d) \div (2 * d)

Products(path) ==
  LET product[n \in 0..Len(path)] ==
        IF n = 0 THEN 1 ELSE product[n - 1] * path[n].confidence
  IN product

\* _path_confidence: the product of the confidences of the edges, rounded
\* to four places.  A path has at most four edges.
PathConfidence(path) ==
  LET product == Products(path)[Len(path)]
  IN CASE Len(path) = 0 -> 10000
       [] Len(path) = 1 -> product * 100
       [] Len(path) = 2 -> product
       [] Len(path) = 3 -> Rounded(product, 100)
       [] OTHER -> Rounded(product, 10000)

\* The sum of a function's values, one after the other.
TakeOne(f, sofar) ==
  LET x == CHOOSE x \in sofar.left : TRUE
  IN [left |-> sofar.left \ {x}, sum |-> sofar.sum + f[x]]

Totals(f) ==
  LET total[n \in 0..Cardinality(DOMAIN f)] ==
        IF n = 0 THEN [left |-> DOMAIN f, sum |-> 0] ELSE TakeOne(f, total[n - 1])
  IN total

Total(f) == Totals(f)[Cardinality(DOMAIN f)].sum

\* _estimate_confidence: their average, or 1 when nothing was found.
EstimateConfidence(impact) ==
  IF DOMAIN impact = {} THEN 10000
  ELSE LET confidence == [id \in DOMAIN impact |-> PathConfidence(impact[id].via)]
       IN Rounded(Total(confidence), Cardinality(DOMAIN impact))

\* _estimate_scope.
EstimateScope(count, hasCritical) ==
  CASE count <= 1 -> IF hasCritical THEN "moderate" ELSE "narrow"
    [] count > 1 /\ count <= 4 -> "moderate"
    [] count > 4 /\ count <= 9 -> "wide"
    [] OTHER -> "extensive"

\* is_replication_path: the edge that reached the resource is one.
IsReplicationPath(found) ==
  found.via # <<>> /\ found.via[Len(found.via)].relationship = "replication"

\* analyze: the figures the risk factors read, and not the affected services,
\* APIs, tables and databases, which are only reported.  An object named twice
\* is analyzed, and counted, twice.
Analyze(g, ids) ==
  LET direct == Among(ids, DOMAIN g.node)
      impact == Impact(g, direct)
      below == DOMAIN impact
      critical == {g.node[id].name : id \in {id \in below : g.node[id].criticality = "critical"}}
  IN [affected |-> Len(direct) + Cardinality(below),
      critical |-> Cardinality(critical),
      production |-> \E id \in below : g.node[id].production,
      replicas |-> Cardinality({id \in below : IsReplicationPath(impact[id])}),
      pipelines |-> Cardinality({g.node[id].name :
                       id \in {id \in below : g.node[id].type = "data_pipeline"}}),
      scope |-> EstimateScope(Cardinality(below), critical # {}),
      confidence |-> EstimateConfidence(impact)]

=============================================================================
