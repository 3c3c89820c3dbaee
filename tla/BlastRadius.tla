---------------------------- MODULE BlastRadius ----------------------------
(***************************************************************************)
(* BlastRadiusAnalyzer.analyze (blast_radius/analyzer.py) and the breadth- *)
(* first search under it (DependencyGraph._traverse in                     *)
(* domain/dependency.py), one edge at a time.                              *)
(*                                                                         *)
(* For every changed object that is in the graph the analyzer searches     *)
(* downstream, then upstream, and adds what the search found to the lists  *)
(* it returns, unless an earlier object put it there.  The order within    *)
(* those lists is left out: they are functions from node ids to the way    *)
(* the node was reached.                                                   *)
(***************************************************************************)
EXTENDS BlastReport

CONSTANTS
  Graphs,    \* the graphs a change is analyzed in
  Changes    \* the sequences of changed objects

ASSUME MaxHopsAssumption == MaxHops \in Nat \ {0}

ASSUME GraphAssumption ==
  \A g \in Graphs :
    /\ IsFiniteSet(DOMAIN g.node)
    /\ g.edges \in Seq(Range(g.edges))
    /\ \A e \in Range(g.edges) : e.source \in DOMAIN g.node /\ e.target \in DOMAIN g.node

ASSUME ChangesAssumption == \A c \in Changes : c \in Seq(Range(c))

VARIABLES
  graph,       \* the graph
  todo,        \* the changed objects that are still to be analyzed
  search,      \* the search under way: "none", "down" or "up"
  frontier,    \* the nodes the search has yet to expand, in order
  expanding,   \* the node it is expanding
  followed,    \* the position of the last edge it has followed from there
  visited,     \* the nodes it has found, and the path to each
  direct,      \* direct_impact: the changed objects
  downstream,  \* downstream_impact, with hops and via
  upstream     \* upstream_dependencies, with hops and via

vars == <<graph, todo, search, frontier, expanding, followed, visited,
          direct, downstream, upstream>>

results == <<direct, downstream, upstream>>
traversal == <<frontier, expanding, followed, visited>>

Start(id) == [id |-> id, via |-> <<>>]

Hops(found) == Len(found.via)

Init ==
  /\ graph \in Graphs
  /\ todo \in Changes
  /\ search = "none"
  /\ frontier = <<>>
  /\ expanding = <<>>
  /\ followed = 0
  /\ visited = <<>>
  /\ direct = <<>>
  /\ downstream = <<>>
  /\ upstream = <<>>

\* The object under analysis.
Changed == Head(todo)

\* A changed object the graph does not know is passed over.
SkipUnknown ==
  /\ search = "none" /\ todo # <<>>
  /\ Changed \notin DOMAIN graph.node
  /\ todo' = Tail(todo)
  /\ UNCHANGED <<graph, search, traversal, results>>

BeginSearch(direction) ==
  /\ search' = direction
  /\ frontier' = <<Start(Changed)>>
  /\ expanding' = Start(Changed)
  /\ followed' = Len(graph.edges)
  /\ visited' = <<>>

Begin ==
  /\ search = "none" /\ todo # <<>>
  /\ Changed \in DOMAIN graph.node
  /\ direct' = Append(direct, Changed)
  /\ BeginSearch("down")
  /\ UNCHANGED <<graph, todo, downstream, upstream>>

\* The edges of the node that are still to be followed, by position: an
\* adjacency list is in the order in which the edges were added.
Remaining ==
  {i \in DOMAIN graph.edges : i > followed /\ Near(search, graph.edges[i]) = expanding.id}

NextPosition == CHOOSE i \in Remaining : \A j \in Remaining : i <= j

NextEdge == graph.edges[NextPosition]

Searching == search # "none"

\* Mutant: a node is expanded however far away it is.
PopAnyDistance ==
  /\ Searching /\ Remaining = {} /\ frontier # <<>>
  /\ frontier' = Tail(frontier)
  /\ expanding' = Head(frontier)
  /\ followed' = 0
  /\ UNCHANGED <<graph, todo, search, visited, results>>

\* frontier.pop(0): a node at max_hops is not expanded.
Pop ==
  /\ Searching /\ Remaining = {} /\ frontier # <<>>
  /\ frontier' = Tail(frontier)
  /\ expanding' = Head(frontier)
  /\ followed' = IF Hops(Head(frontier)) >= MaxHops THEN Len(graph.edges) ELSE 0
  /\ UNCHANGED <<graph, todo, search, visited, results>>

Visit(found) ==
  /\ visited' = [id \in DOMAIN visited \cup {found.id} |->
                   IF id = found.id THEN found ELSE visited[id]]
  /\ frontier' = Append(frontier, found)

\* Mutant: the path holds the last edge only.
FoundByLastEdge == [id |-> Far(search, NextEdge), via |-> <<NextEdge>>]

NextFound == [id |-> Far(search, NextEdge), via |-> Append(expanding.via, NextEdge)]

\* Mutant: a node that was found already is searched again.
FollowAgain ==
  /\ Searching /\ Remaining # {}
  /\ followed' = NextPosition
  /\ Visit(NextFound)
  /\ UNCHANGED <<graph, todo, search, expanding, results>>

\* A node found before, at no greater distance, is left as it is.
FollowEdge ==
  /\ Searching /\ Remaining # {}
  /\ followed' = NextPosition
  /\ IF NextFound.id \in DOMAIN visited /\ Hops(visited[NextFound.id]) <= Hops(NextFound)
     THEN UNCHANGED <<visited, frontier>>
     ELSE Visit(NextFound)
  /\ UNCHANGED <<graph, todo, search, expanding, results>>

\* Mutant: what an earlier search found is lost.
ForgetfulMerge(into, found) ==
  [id \in DOMAIN found \ {Changed} |-> found[id]]

\* What an earlier object reached keeps the path from that object.
Merge(into, found) ==
  [id \in DOMAIN into \cup (DOMAIN found \ {Changed}) |->
     IF id \in DOMAIN into THEN into[id] ELSE found[id]]

Exhausted(direction) == search = direction /\ Remaining = {} /\ frontier = <<>>

CollectDownstream ==
  /\ Exhausted("down")
  /\ downstream' = Merge(downstream, visited)
  /\ BeginSearch("up")
  /\ UNCHANGED <<graph, todo, direct, upstream>>

CollectUpstream ==
  /\ Exhausted("up")
  /\ upstream' = Merge(upstream, visited)
  /\ search' = "none"
  /\ todo' = Tail(todo)
  /\ UNCHANGED <<graph, traversal, direct, downstream>>

Done == search = "none" /\ todo = <<>>

Next ==
  \/ SkipUnknown
  \/ Begin
  \/ Pop
  \/ FollowEdge
  \/ CollectDownstream
  \/ CollectUpstream

Spec == Init /\ [][Next]_vars

-----------------------------------------------------------------------------
\* What a search may find: a node of the graph, and edges that lead to it.
Found == [id : DOMAIN graph.node, via : Seq(Range(graph.edges))]

\* Every node and every path is of the graph the analysis began with.
TypeOK ==
  /\ graph \in Graphs
  /\ todo \in Seq(UNION {Range(c) : c \in Changes})
  /\ search \in {"none", "down", "up"}
  /\ direct \in Seq(DOMAIN graph.node)
  /\ Searching =>
       /\ todo # <<>> /\ Changed \in Range(direct)
       /\ frontier \in Seq(Found)
       /\ expanding \in Found
       /\ followed \in 0..Len(graph.edges)
       /\ visited \in [DOMAIN visited -> Found]

\* The way a resource was reached is a path in the graph of at most MaxHops
\* edges that starts at the given object.
Reached(direction, found, id, from) ==
  /\ found.id = id
  /\ IsPath(graph, direction, found.via, from, id)
  /\ Hops(found) <= MaxHops

\* The evidence an assessment cites holds: every resource of the blast
\* radius comes with a chain of dependencies that starts at an object the
\* change names and ends at the resource, however the searches of several
\* objects and the two directions overwrite one another's state.
EvidenceIsAPath ==
  /\ Searching =>
       \A id \in DOMAIN visited : Reached(search, visited[id], id, Changed)
  /\ \A id \in DOMAIN downstream :
       \E from \in Range(direct) : Reached("down", downstream[id], id, from)
  /\ \A id \in DOMAIN upstream :
       \E from \in Range(direct) : Reached("up", upstream[id], id, from)

\* A search that has ended found exactly the nodes within MaxHops edges,
\* and reached each by a shortest path: no shorter way is hidden by the one
\* that was found first, and a cycle neither hides a node nor adds one.
SearchIsExact ==
  Searching /\ Remaining = {} /\ frontier = <<>> =>
    /\ DOMAIN visited = Within(graph, search, Changed, MaxHops)
    /\ \A id \in DOMAIN visited :
         Hops(visited[id]) = Distance(graph, search, Changed, id, MaxHops)

\* The analyzed objects: those a change names and the graph knows.
Analyzed == Range(direct)

\* What the analysis of the given objects has to find.
Affected(direction, ids) == UNION {Within(graph, direction, id, MaxHops) \ {id} : id \in ids}

\* When the analysis is done nothing that depends on a changed object within
\* MaxHops edges is missing, unless it is that object itself, and nothing
\* else is there; likewise upstream.
ImpactIsComplete ==
  Done => /\ DOMAIN downstream = Affected("down", Analyzed)
          /\ DOMAIN upstream = Affected("up", Analyzed)

\* And the operator by which ChangeRisk analyzes a change finds the same
\* resources, by the same paths.
NothingIsMissed ==
  /\ ImpactIsComplete
  /\ Done => downstream = Impact(graph, direct)

\* A node once found keeps the path it was found by until the search ends,
\* so the search does not come back to what it has expanded.
FirstPathStays ==
  [][search' = search =>
       \A id \in DOMAIN visited : id \in DOMAIN visited' /\ visited'[id] = visited[id]]_vars

-----------------------------------------------------------------------------
(***************************************************************************)
(* The inductive invariant behind EvidenceIsAPath and FirstPathStays, and  *)
(* what it says of completeness.                                           *)
(***************************************************************************)

\* What is expanded is the changed object or a node found before.
Legitimate(found) ==
  found = Start(Changed) \/ Reached(search, found, found.id, Changed)

FrontierIsFound ==
  Searching =>
    /\ Legitimate(expanding)
    /\ \A i \in DOMAIN frontier : Legitimate(frontier[i])
    /\ Remaining # {} => Hops(expanding) < MaxHops

\* Breadth first: the frontier is sorted by distance, and it and what was
\* found lie at most one edge beyond the node that is expanded.
FrontierIsSorted ==
  Searching =>
    /\ \A i, j \in DOMAIN frontier : i <= j => Hops(frontier[i]) <= Hops(frontier[j])
    /\ \A i \in DOMAIN frontier :
         Hops(expanding) <= Hops(frontier[i]) /\ Hops(frontier[i]) <= Hops(expanding) + 1
    /\ \A id \in DOMAIN visited : Hops(visited[id]) <= Hops(expanding) + 1

\* The edge's far end was found, from a node at n hops or a nearer one.
FollowedFrom(e, n) ==
  Far(search, e) \in DOMAIN visited /\ Hops(visited[Far(search, e)]) <= n + 1

Covered(found) ==
  \A e \in Range(graph.edges) : Near(search, e) = found.id => FollowedFrom(e, Hops(found))

\* The edges of the node under expansion up to the last one it followed.
PartlyCovered ==
  \A i \in DOMAIN graph.edges :
    i <= followed /\ Near(search, graph.edges[i]) = expanding.id =>
      FollowedFrom(graph.edges[i], Hops(expanding))

FoundSoFar == {Start(Changed)} \cup Range(visited)

NothingIsDropped ==
  Searching =>
    \A found \in FoundSoFar :
      \/ Hops(found) >= MaxHops
      \/ found \in Range(frontier)
      \/ found = expanding /\ PartlyCovered
      \/ Covered(found)

BlastInv ==
  /\ TypeOK
  /\ EvidenceIsAPath
  /\ FrontierIsFound
  /\ FrontierIsSorted
  /\ NothingIsDropped

\* A search that has ended has followed every edge of the changed object and
\* of every node it found nearer than MaxHops, and to the nearest of them:
\* no resource is left out because of where it stood in the frontier.
SearchIsClosed ==
  Searching /\ Remaining = {} /\ frontier = <<>> =>
    \A found \in FoundSoFar : Hops(found) < MaxHops => Covered(found)

-----------------------------------------------------------------------------
(***************************************************************************)
(* The inductive invariant behind ImpactIsComplete.                        *)
(***************************************************************************)

\* The objects whose search in that direction has ended.
Finished(direction) ==
  IF search = "down" \/ search = direction THEN Range(Front(direct)) ELSE Analyzed

\* What the searches that have ended found is what they had to find.
ListsAreComplete ==
  /\ Searching => direct # <<>> /\ Last(direct) = Changed
  /\ DOMAIN downstream = Affected("down", Finished("down"))
  /\ DOMAIN upstream = Affected("up", Finished("up"))

-----------------------------------------------------------------------------
(***************************************************************************)
(* The inductive invariant behind the second half of NothingIsMissed: the  *)
(* downstream search is that of the report, expansion by expansion.        *)
(***************************************************************************)
Traversed == [visited |-> visited, frontier |-> frontier]

\* The n-th expansion is under way, or has just ended.
Expanding(n) ==
  LET run == Expansions(graph, Changed)
      before == run[n - 1]
  IN IF n = 0 THEN Traversed = run[0] /\ Remaining = {}
     ELSE /\ before.frontier # <<>> /\ expanding = Head(before.frontier)
          /\ Traversed =
               IF Hops(expanding) >= MaxHops THEN Popped(before)
               ELSE FollowEach(graph, expanding, Popped(before))[followed]

\* Every node found was put on the frontier once, as was the changed object.
SearchIsReported ==
  search = "down" =>
    \E n \in 0..MostExpansions(graph) :
      Expanding(n) /\ n + Len(frontier) = Cardinality(DOMAIN visited) + 1

ListIsReported ==
  downstream = Impact(graph, IF search = "down" THEN Front(direct) ELSE direct)

=============================================================================
