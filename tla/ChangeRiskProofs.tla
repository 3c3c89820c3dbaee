------------------------- MODULE ChangeRiskProofs -------------------------
(***************************************************************************)
(* Theorems about the Change Risk Engine: about its search for what a      *)
(* change affects (BlastRadius), for every graph, change and limit, and    *)
(* about the assessment made of it (ChangeRisk), for every world and       *)
(* every migration.                                                        *)
(***************************************************************************)
EXTENDS BlastRadius, ChangeRisk, SequenceTheorems, FiniteSetTheorems, WellFoundedInduction, TLAPS

-----------------------------------------------------------------------------
(***************************************************************************)
(* Sequences, edges and paths.                                             *)
(***************************************************************************)

\* The edges of a graph are a sequence, and both their ends are nodes.
LEMMA EdgesOfGraph ==
  ASSUME graph \in Graphs
  PROVE  /\ graph.edges \in Seq(Range(graph.edges))
         /\ DOMAIN graph.edges = 1..Len(graph.edges)
         /\ Len(graph.edges) \in Nat
         /\ \A i \in DOMAIN graph.edges : graph.edges[i] \in Range(graph.edges)
         /\ \A e \in Range(graph.edges), d \in {"down", "up"} : Far(d, e) \in DOMAIN graph.node
<1>1. graph.edges \in Seq(Range(graph.edges))
  BY GraphAssumption
<1>2. \A e \in Range(graph.edges), d \in {"down", "up"} : Far(d, e) \in DOMAIN graph.node
  BY GraphAssumption DEF Far
<1>3. \A i \in DOMAIN graph.edges : graph.edges[i] \in Range(graph.edges)
  BY DEF Range
<1> QED BY <1>1, <1>2, <1>3, LenProperties

\* Where an edge continues a path, the longer sequence is a path.
LEMMA PathExtends ==
  ASSUME NEW g, NEW d, NEW p, NEW from, NEW to,
         IsPath(g, d, p, from, to),
         NEW e \in Range(g.edges), Near(d, e) = to
  PROVE  IsPath(g, d, Append(p, e), from, Far(d, e))
<1> DEFINE q == Append(p, e)
<1>1. /\ p \in Seq(Range(g.edges)) /\ Len(p) \in Nat /\ Len(p) > 0
      /\ q \in Seq(Range(g.edges)) /\ q # <<>>
      /\ Len(q) = Len(p) + 1 /\ q[Len(q)] = e
      /\ \A i \in 1..Len(p) : q[i] = p[i]
  BY EmptySeq, LenProperties DEF IsPath
<1>2. Near(d, q[1]) = from /\ Far(d, q[Len(q)]) = Far(d, e)
  BY <1>1 DEF IsPath
<1>3. \A i \in 1..(Len(q) - 1) : Near(d, q[i + 1]) = Far(d, q[i])
  <2>1. SUFFICES ASSUME NEW i \in 1..Len(p)
                 PROVE  Near(d, q[i + 1]) = Far(d, q[i])
    BY <1>1
  <2>2. CASE i = Len(p)
    BY <1>1, <2>2 DEF IsPath
  <2>3. CASE i # Len(p)
    <3>1. i \in 1..(Len(p) - 1) /\ i + 1 \in 1..Len(p)
      BY <1>1, <2>3
    <3> QED BY <1>1, <3>1 DEF IsPath
  <2> QED BY <2>2, <2>3
<1> QED BY <1>1, <1>2, <1>3 DEF IsPath

\* A single edge is a path.
LEMMA EdgeIsPath ==
  ASSUME NEW g, NEW d, NEW e \in Range(g.edges)
  PROVE  /\ Append(<<>>, e) \in Seq(Range(g.edges))
         /\ Len(Append(<<>>, e)) = 1
         /\ IsPath(g, d, Append(<<>>, e), Near(d, e), Far(d, e))
<1> DEFINE q == Append(<<>>, e)
<1>1. q \in Seq(Range(g.edges)) /\ Len(q) = 1 /\ q[1] = e /\ q # <<>>
  BY EmptySeq
<1> QED BY <1>1 DEF IsPath

\* A frontier that is not empty: its head and what is left.
LEMMA PoppedFrom ==
  ASSUME NEW S, NEW s \in Seq(S), s # <<>>
  PROVE  /\ Head(s) \in S /\ Head(s) = s[1] /\ 1 \in DOMAIN s
         /\ Tail(s) \in Seq(S)
         /\ \A i \in DOMAIN Tail(s) : i + 1 \in DOMAIN s /\ Tail(s)[i] = s[i + 1]
         /\ Range(s) = {Head(s)} \cup Range(Tail(s))
<1>1. /\ Len(s) \in Nat \ {0} /\ DOMAIN s = 1..Len(s) /\ Head(s) = s[1]
      /\ Head(s) \in S /\ Tail(s) \in Seq(S) /\ Len(Tail(s)) = Len(s) - 1
      /\ \A i \in 1..Len(Tail(s)) : Tail(s)[i] = s[i + 1]
  BY EmptySeq, LenProperties, HeadTailProperties
<1>2. DOMAIN Tail(s) = 1..(Len(s) - 1)
  BY <1>1, LenProperties
<1>3. Range(s) \subseteq {Head(s)} \cup Range(Tail(s))
  <2>1. SUFFICES ASSUME NEW j \in 1..Len(s), j # 1
                 PROVE  s[j] \in Range(Tail(s))
    BY <1>1 DEF Range
  <2>2. j - 1 \in DOMAIN Tail(s) /\ Tail(s)[j - 1] = s[j]
    BY <1>1, <1>2, <2>1
  <2> QED BY <2>2 DEF Range
<1>4. {Head(s)} \cup Range(Tail(s)) \subseteq Range(s)
  BY <1>1, <1>2 DEF Range
<1> QED BY <1>1, <1>2, <1>3, <1>4

\* A sequence with a member more.
LEMMA Appended ==
  ASSUME NEW S, NEW s \in Seq(S), NEW x \in S
  PROVE  /\ Append(s, x) \in Seq(S)
         /\ DOMAIN s = 1..Len(s) /\ Len(s) \in Nat
         /\ DOMAIN Append(s, x) = 1..(Len(s) + 1)
         /\ \A i \in DOMAIN s : Append(s, x)[i] = s[i]
         /\ Append(s, x)[Len(s) + 1] = x
         /\ Range(Append(s, x)) = Range(s) \cup {x}
<1>1. /\ Append(s, x) \in Seq(S)
      /\ DOMAIN s = 1..Len(s) /\ Len(s) \in Nat
      /\ DOMAIN Append(s, x) = 1..(Len(s) + 1)
      /\ \A i \in DOMAIN s : Append(s, x)[i] = s[i]
      /\ Append(s, x)[Len(s) + 1] = x
  BY LenProperties
<1>2. Range(Append(s, x)) = Range(s) \cup {x}
  BY <1>1 DEF Range
<1> QED BY <1>1, <1>2


\* A set of naturals that is not empty has a least member.
LEMMA LeastMember ==
  ASSUME NEW S, S \subseteq Nat, S # {}
  PROVE  \E n \in S : \A k \in S : n <= k
<1>1. PICK n \in S : \A k \in S : <<k, n>> \notin OpToRel(<, Nat)
  BY NatLessThanWellFounded, WFMin, Zenon
<1>2. \A k \in S : k \in Nat /\ n \in Nat => ~ (k < n)
  BY <1>1, Zenon DEF OpToRel
<1> QED BY <1>2

-----------------------------------------------------------------------------
(***************************************************************************)
(* The state of a search.                                                  *)
(***************************************************************************)

\* What the type invariant says while a search is under way.
LEMMA SearchState ==
  ASSUME TypeOK, Searching
  PROVE  /\ search \in {"down", "up"}
         /\ Changed \in DOMAIN graph.node
         /\ expanding.id \in DOMAIN graph.node /\ expanding.via \in Seq(Range(graph.edges))
         /\ Hops(expanding) \in Nat
         /\ \A i \in DOMAIN frontier : frontier[i] \in Found /\ Hops(frontier[i]) \in Nat
         /\ \A id \in DOMAIN visited : visited[id] \in Found /\ Hops(visited[id]) \in Nat
<1>1. \A x \in Found : Hops(x) \in Nat
  BY LenProperties DEF Found, Hops
<1>2. \A i \in DOMAIN frontier : frontier[i] \in Found
  BY LenProperties DEF TypeOK
<1>3. \A id \in DOMAIN visited : visited[id] \in Found
  BY DEF TypeOK
<1>4. Changed \in DOMAIN graph.node
  BY LenProperties DEF TypeOK, Range
<1>5. expanding \in Found /\ search \in {"down", "up"}
  BY DEF TypeOK, Searching
<1>6. expanding.id \in DOMAIN graph.node /\ expanding.via \in Seq(Range(graph.edges))
  BY <1>5 DEF Found
<1> QED BY <1>1, <1>2, <1>3, <1>4, <1>5, <1>6

\* The edge followed next is the first of those that remain.
LEMMA NextIsFirst ==
  ASSUME TypeOK, Remaining # {}
  PROVE  /\ NextPosition \in Remaining
         /\ \A i \in Remaining : NextPosition <= i
<1>1. Remaining \subseteq Nat
  BY EdgesOfGraph DEF TypeOK, Remaining
<1>2. \E n \in Remaining : \A k \in Remaining : n <= k
  BY <1>1, LeastMember
<1> QED BY <1>2 DEF NextPosition

\* What following the next edge finds: a node one edge further on than the
\* node expanded, by a path from the changed object.
LEMMA NextIsReached ==
  ASSUME TypeOK, Searching, FrontierIsFound, Remaining # {}
  PROVE  /\ NextPosition \in Remaining /\ NextEdge \in Range(graph.edges)
         /\ NextFound \in Found
         /\ NextFound.id = Far(search, NextEdge)
         /\ Hops(NextFound) = Hops(expanding) + 1
         /\ Reached(search, NextFound, NextFound.id, Changed)
<1>1. /\ NextPosition \in DOMAIN graph.edges
      /\ NextEdge \in Range(graph.edges) /\ Near(search, NextEdge) = expanding.id
  BY NextIsFirst, EdgesOfGraph DEF TypeOK, Remaining, NextEdge
<1>2. Far(search, NextEdge) \in DOMAIN graph.node
  BY <1>1, SearchState, EdgesOfGraph DEF TypeOK
<1>3. /\ expanding.via \in Seq(Range(graph.edges)) /\ Hops(expanding) \in Nat
      /\ NextFound.via = Append(expanding.via, NextEdge)
      /\ NextFound.id = Far(search, NextEdge)
  BY SearchState DEF NextFound
<1>4. /\ NextFound.via \in Seq(Range(graph.edges))
      /\ Len(NextFound.via) = Len(expanding.via) + 1
  BY <1>1, <1>3
<1>5. NextFound \in Found
  BY <1>2, <1>3, <1>4 DEF NextFound, Found
<1>6. Hops(NextFound) = Hops(expanding) + 1 /\ Hops(NextFound) <= MaxHops
  BY <1>3, <1>4, MaxHopsAssumption DEF FrontierIsFound, Hops
<1>7. IsPath(graph, search, NextFound.via, Changed, NextFound.id)
  <2>1. CASE expanding = Start(Changed)
    <3>1. expanding.id = Changed /\ expanding.via = <<>>
      BY <2>1 DEF Start
    <3> QED BY <3>1, <1>1, <1>3, EdgeIsPath
  <2>2. CASE Reached(search, expanding, expanding.id, Changed)
    <3>1. IsPath(graph, search, expanding.via, Changed, expanding.id)
      BY <2>2 DEF Reached
    <3> QED BY <3>1, <1>1, <1>3, PathExtends
  <2> QED BY <2>1, <2>2 DEF FrontierIsFound, Legitimate
<1> QED BY <1>1, <1>3, <1>5, <1>6, <1>7, NextIsFirst DEF Reached

\* Breadth first: where the code puts a node into visited it was not there.
LEMMA FoundOnce ==
  ASSUME BlastInv, FollowEdge
  PROVE  \/ /\ NextFound.id \in DOMAIN visited
            /\ Hops(visited[NextFound.id]) <= Hops(NextFound)
            /\ UNCHANGED <<visited, frontier>>
         \/ NextFound.id \notin DOMAIN visited /\ Visit(NextFound)
<1>1. Hops(NextFound) = Hops(expanding) + 1
  BY NextIsReached DEF BlastInv, FollowEdge
<1>2. NextFound.id \in DOMAIN visited => Hops(visited[NextFound.id]) <= Hops(NextFound)
  BY <1>1 DEF BlastInv, FollowEdge, FrontierIsSorted
<1> QED BY <1>2 DEF FollowEdge

-----------------------------------------------------------------------------
(***************************************************************************)
(* The invariant is inductive: the initial state, then one lemma for each  *)
(* action, with a step for each conjunct the action can disturb.           *)
(***************************************************************************)

\* The analysis begins with the invariant.
LEMMA InitBlast == Init => BlastInv
<1> SUFFICES ASSUME Init PROVE BlastInv
  OBVIOUS
<1>1. search = "none" /\ ~ Searching /\ direct = <<>>
  BY DEF Init, Searching
<1>2. TypeOK
  <2>1. todo \in Seq(Range(todo)) /\ Range(todo) \subseteq UNION {Range(c) : c \in Changes}
    BY ChangesAssumption DEF Init
  <2>2. todo \in Seq(UNION {Range(c) : c \in Changes})
    BY <2>1, SeqMonotonic
  <2>3. direct \in Seq(DOMAIN graph.node)
    BY <1>1, EmptySeq
  <2> QED BY <1>1, <2>2, <2>3 DEF TypeOK, Init
<1>3. EvidenceIsAPath
  BY <1>1, EmptySeq DEF EvidenceIsAPath, Init
<1> QED
  BY <1>1, <1>2, <1>3 DEF BlastInv, FrontierIsFound, FrontierIsSorted, NothingIsDropped

\* A search begins at the changed object, with nothing found.
LEMMA BeginsSearch ==
  ASSUME TypeOK, todo # <<>>, Changed \in DOMAIN graph.node,
         UNCHANGED <<graph, todo>>,
         direct' \in Seq(DOMAIN graph.node), Changed \in Range(direct'),
         NEW d \in {"down", "up"}, BeginSearch(d)
  PROVE  /\ TypeOK' /\ FrontierIsFound' /\ FrontierIsSorted' /\ NothingIsDropped'
         /\ DOMAIN visited' = {}
<1>1. /\ search' = d /\ visited' = <<>> /\ DOMAIN visited' = {}
      /\ expanding' = Start(Changed)
      /\ frontier' = <<Start(Changed)>> /\ DOMAIN frontier' = {1}
      /\ frontier'[1] = Start(Changed)
      /\ followed' = Len(graph.edges)
      /\ Changed' = Changed
  BY DEF BeginSearch, Changed
<1>2. Start(Changed) \in Found /\ Hops(Start(Changed)) = 0
  BY EmptySeq DEF Start, Found, Hops
<1>3. TypeOK'
  <2>1. frontier' \in Seq(Found')
    BY <1>1, <1>2 DEF Found
  <2>2. visited' \in [DOMAIN visited' -> Found']
    BY <1>1
  <2>3. expanding' \in Found' /\ followed' \in 0..Len(graph'.edges)
    BY <1>1, <1>2, EdgesOfGraph DEF TypeOK, Found
  <2> QED BY <1>1, <2>1, <2>2, <2>3 DEF TypeOK, Searching
<1>4. Remaining' = {}
  BY <1>1, EdgesOfGraph DEF Remaining, TypeOK
<1>5. FrontierIsFound'
  BY <1>1, <1>4 DEF FrontierIsFound, Legitimate, Start
<1>6. FrontierIsSorted'
  <2>1. \A i \in DOMAIN frontier' : frontier'[i] = expanding'
    BY <1>1
  <2>2. Hops(expanding)' = 0
    BY <1>1, <1>2 DEF Hops
  <2>3. \A i \in DOMAIN frontier' : Hops(frontier'[i]) = 0
    BY <1>1, <1>2
  <2> QED BY <1>1, <2>2, <2>3 DEF FrontierIsSorted, Hops
<1>7. NothingIsDropped'
  <2>1. FoundSoFar' = {Start(Changed)}
    BY <1>1 DEF FoundSoFar, Range, Start
  <2>2. Start(Changed) \in Range(frontier')
    BY <1>1 DEF Range
  <2> QED BY <2>1, <2>2 DEF NothingIsDropped
<1> QED BY <1>1, <1>3, <1>5, <1>6, <1>7

\* The first search of an object.
LEMMA BeginStep == BlastInv /\ Begin => BlastInv'
<1> SUFFICES ASSUME BlastInv, Begin PROVE BlastInv'
  OBVIOUS
<1>1. /\ direct' \in Seq(DOMAIN graph.node)
      /\ Range(direct') = Range(direct) \cup {Changed}
  BY Appended DEF BlastInv, TypeOK, Begin
<1>2. /\ TypeOK' /\ FrontierIsFound' /\ FrontierIsSorted' /\ NothingIsDropped'
      /\ DOMAIN visited' = {}
  BY <1>1, BeginsSearch DEF BlastInv, Begin
<1>3. EvidenceIsAPath'
  BY <1>1, <1>2 DEF BlastInv, EvidenceIsAPath, Begin, Reached
<1> QED BY <1>2, <1>3 DEF BlastInv

\* An object the graph does not know is passed over.
LEMMA SkipStep == BlastInv /\ SkipUnknown => BlastInv'
<1> SUFFICES ASSUME BlastInv, SkipUnknown PROVE BlastInv'
  OBVIOUS
<1>1. ~ Searching' /\ UNCHANGED <<graph, results>>
  BY DEF SkipUnknown, Searching
<1>2. TypeOK'
  <2>1. todo' \in Seq(UNION {Range(c) : c \in Changes})
    BY PoppedFrom DEF BlastInv, TypeOK, SkipUnknown
  <2> QED BY <1>1, <2>1 DEF BlastInv, TypeOK, SkipUnknown, results
<1>3. EvidenceIsAPath'
  BY <1>1 DEF BlastInv, EvidenceIsAPath, Reached, results
<1> QED
  BY <1>1, <1>2, <1>3 DEF BlastInv, FrontierIsFound, FrontierIsSorted, NothingIsDropped

\* Nothing happens.
LEMMA StutterStep == BlastInv /\ UNCHANGED vars => BlastInv'
BY DEF BlastInv, vars, results, TypeOK, Searching, Changed, Found, EvidenceIsAPath, Reached, Hops,
       FrontierIsFound, Legitimate, Start, Remaining, FrontierIsSorted, NothingIsDropped,
       FoundSoFar, PartlyCovered, Covered, FollowedFrom

\* A node whose edges have all been followed is covered.
LEMMA ExpandedIsCovered ==
  ASSUME TypeOK, Searching, Remaining = {}, PartlyCovered
  PROVE  Covered(expanding)
<1> SUFFICES ASSUME NEW e \in Range(graph.edges), Near(search, e) = expanding.id
             PROVE  FollowedFrom(e, Hops(expanding))
  BY DEF Covered
<1>1. PICK i \in DOMAIN graph.edges : graph.edges[i] = e
  BY DEF Range
<1>2. i <= followed
  BY <1>1, EdgesOfGraph DEF Remaining, TypeOK
<1> QED BY <1>1, <1>2 DEF PartlyCovered

\* The next node of the frontier: the one before it has been dealt with.
LEMMA PopStep == BlastInv /\ Pop => BlastInv'
<1> SUFFICES ASSUME BlastInv, Pop PROVE BlastInv'
  OBVIOUS
<1>1. /\ Searching /\ Searching' /\ Remaining = {} /\ TypeOK
      /\ UNCHANGED <<graph, todo, search, visited, results>>
      /\ frontier \in Seq(Found) /\ frontier # <<>>
      /\ expanding' = Head(frontier) /\ frontier' = Tail(frontier)
      /\ followed' = IF Hops(Head(frontier)) >= MaxHops THEN Len(graph.edges) ELSE 0
  BY DEF Pop, BlastInv, TypeOK, Searching
<1>2. /\ expanding' \in Found /\ expanding' = frontier[1] /\ 1 \in DOMAIN frontier
      /\ frontier' \in Seq(Found)
      /\ \A i \in DOMAIN frontier' : i + 1 \in DOMAIN frontier /\ frontier'[i] = frontier[i + 1]
      /\ Range(frontier) = {expanding'} \cup Range(frontier')
  BY <1>1, PoppedFrom
<1>3. DOMAIN frontier \subseteq Nat /\ DOMAIN frontier' \subseteq Nat
  BY <1>1, <1>2, LenProperties
<1>4. TypeOK'
  <2>1. followed' \in 0..Len(graph.edges)
    BY <1>1, EdgesOfGraph DEF TypeOK
  <2>2. Found' = Found /\ Changed' = Changed
    BY <1>1 DEF Found, Changed
  <2> QED BY <1>1, <1>2, <2>1, <2>2 DEF TypeOK, results
<1>5. EvidenceIsAPath'
  BY <1>1 DEF BlastInv, EvidenceIsAPath, Reached, Changed, results
<1>6. FrontierIsFound'
  <2>1. \A found : Legitimate(found) => Legitimate(found)'
    BY <1>1 DEF Legitimate, Reached, Changed, Start
  <2>2. Remaining' # {} => Hops(expanding') < MaxHops
    BY <1>1, <1>2, EdgesOfGraph, LenProperties, MaxHopsAssumption
    DEF Remaining, TypeOK, Hops, Found
  <2>3. \A i \in DOMAIN frontier' : Legitimate(frontier[i + 1]) /\ frontier'[i] = frontier[i + 1]
    BY <1>1, <1>2 DEF BlastInv, FrontierIsFound
  <2>4. Legitimate(frontier[1])
    BY <1>1, <1>2 DEF BlastInv, FrontierIsFound
  <2> QED BY <1>2, <2>1, <2>2, <2>3, <2>4 DEF FrontierIsFound, Legitimate, Hops
<1>7. FrontierIsSorted'
  <2>1. /\ Hops(expanding) <= Hops(frontier[1])
        /\ \A i \in DOMAIN frontier :
             /\ Hops(frontier[1]) <= Hops(frontier[i])
             /\ Hops(frontier[i]) <= Hops(expanding) + 1
    <3>1. \A i \in DOMAIN frontier : 1 <= i
      BY <1>1, LenProperties
    <3> QED BY <1>1, <1>2, <3>1 DEF BlastInv, FrontierIsSorted
  <2>2. /\ Hops(expanding) \in Nat
        /\ \A i \in DOMAIN frontier : Hops(frontier[i]) \in Nat
        /\ \A id \in DOMAIN visited : Hops(visited[id]) \in Nat
    BY <1>1, SearchState
  <2>3. \A i, j \in DOMAIN frontier : i <= j => Hops(frontier[i]) <= Hops(frontier[j])
    BY <1>1 DEF BlastInv, FrontierIsSorted
  <2>4. \A i, j \in DOMAIN frontier' : i <= j => Hops(frontier'[i]) <= Hops(frontier'[j])
    BY <1>2, <1>3, <2>3
  <2>5. \A i \in DOMAIN frontier' :
          Hops(frontier[1]) <= Hops(frontier'[i]) /\ Hops(frontier'[i]) <= Hops(frontier[1]) + 1
    BY <1>2, <2>1, <2>2
  <2>6. \A id \in DOMAIN visited : Hops(visited[id]) <= Hops(frontier[1]) + 1
    BY <1>1, <1>2, <2>1, <2>2 DEF BlastInv, FrontierIsSorted
  <2> QED BY <1>1, <1>2, <2>4, <2>5, <2>6 DEF FrontierIsSorted, Hops
<1>8. NothingIsDropped'
  <2>1. FoundSoFar' = FoundSoFar
    BY <1>1 DEF FoundSoFar, Changed, Start
  <2>2. ASSUME NEW found \in FoundSoFar, Covered(found) PROVE Covered(found)'
    BY <1>1, <2>2 DEF Covered, FollowedFrom, Hops
  <2>3. PartlyCovered => Covered(expanding)
    BY <1>1, ExpandedIsCovered
  <2>4. Hops(expanding') >= MaxHops \/ PartlyCovered'
    BY <1>1, <1>2, EdgesOfGraph DEF PartlyCovered, TypeOK, Hops
  <2>5. SUFFICES ASSUME NEW found \in FoundSoFar
                 PROVE  \/ Hops(found) >= MaxHops
                        \/ found \in Range(frontier')
                        \/ found = expanding' /\ PartlyCovered'
                        \/ Covered(found)'
    BY <2>1 DEF NothingIsDropped, Hops
  <2>6. CASE found = expanding'
    BY <2>4, <2>6
  <2>7. CASE found \in Range(frontier')
    BY <2>7
  <2>8. CASE found \notin Range(frontier)
    <3>1. Hops(found) >= MaxHops \/ Covered(found)
      BY <1>1, <2>3, <2>8 DEF BlastInv, NothingIsDropped
    <3> QED BY <2>2, <3>1
  <2> QED BY <1>2, <2>6, <2>7, <2>8
<1> QED BY <1>4, <1>5, <1>6, <1>7, <1>8 DEF BlastInv

\* Following an edge only adds to what was found.
LEMMA FollowAdds ==
  ASSUME BlastInv, FollowEdge
  PROVE  /\ DOMAIN visited' = DOMAIN visited \cup {NextFound.id}
         /\ \A id \in DOMAIN visited : visited'[id] = visited[id]
         /\ Hops(visited'[NextFound.id]) <= Hops(NextFound)
         /\ \/ UNCHANGED <<visited, frontier>>
            \/ visited'[NextFound.id] = NextFound /\ frontier' = Append(frontier, NextFound)
<1>1. Hops(NextFound) \in Nat
  BY NextIsReached, SearchState DEF BlastInv, FollowEdge
<1>2. CASE NextFound.id \in DOMAIN visited /\ UNCHANGED <<visited, frontier>>
  BY <1>2, FoundOnce
<1>3. CASE NextFound.id \notin DOMAIN visited /\ Visit(NextFound)
  BY <1>1, <1>3 DEF Visit
<1> QED BY <1>2, <1>3, FoundOnce

\* An edge of the node under expansion.
LEMMA FollowStep == BlastInv /\ FollowEdge => BlastInv'
<1> SUFFICES ASSUME BlastInv, FollowEdge PROVE BlastInv'
  OBVIOUS
<1>1. /\ Searching /\ Searching' /\ Remaining # {} /\ TypeOK
      /\ UNCHANGED <<graph, todo, search, expanding, results>>
      /\ frontier \in Seq(Found)
      /\ followed' = NextPosition
  BY DEF FollowEdge, BlastInv, TypeOK, Searching
<1>2. /\ NextFound \in Found /\ NextFound.id = Far(search, NextEdge)
      /\ Hops(NextFound) = Hops(expanding) + 1 /\ Hops(expanding) \in Nat
      /\ Reached(search, NextFound, NextFound.id, Changed)
      /\ NextPosition \in Remaining /\ NextEdge \in Range(graph.edges)
  BY <1>1, NextIsReached, SearchState DEF BlastInv
<1>3. /\ DOMAIN visited' = DOMAIN visited \cup {NextFound.id}
      /\ \A id \in DOMAIN visited : visited'[id] = visited[id]
      /\ Hops(visited'[NextFound.id]) <= Hops(NextFound)
      /\ \/ UNCHANGED <<visited, frontier>>
         \/ visited'[NextFound.id] = NextFound /\ frontier' = Append(frontier, NextFound)
  BY FollowAdds
<1>4. \A id \in DOMAIN visited' :
        (id \in DOMAIN visited /\ visited'[id] = visited[id])
          \/ (id = NextFound.id /\ visited'[id] = NextFound)
  BY <1>3
<1>5. Changed' = Changed /\ Found' = Found
  BY <1>1 DEF Changed, Found
<1>6. TypeOK'
  <2>1. visited' \in [DOMAIN visited' -> Found]
    <3>1. visited \in [DOMAIN visited -> Found]
      BY <1>1 DEF TypeOK
    <3>2. \A id \in DOMAIN visited' : visited'[id] \in Found
      BY <1>2, <1>4, <3>1
    <3>3. visited' = [id \in DOMAIN visited' |-> visited'[id]]
      <4>1. visited = [id \in DOMAIN visited |-> visited[id]]
        BY <3>1
      <4> QED BY <4>1, FoundOnce DEF Visit
    <3> QED BY <3>2, <3>3
  <2>2. frontier' \in Seq(Found)
    BY <1>1, <1>2, <1>3, Appended
  <2>3. followed' \in 0..Len(graph.edges)
    BY <1>1, <1>2, EdgesOfGraph DEF Remaining, TypeOK
  <2> QED BY <1>1, <1>5, <2>1, <2>2, <2>3 DEF TypeOK, results
<1>7. EvidenceIsAPath'
  <2>1. \A id \in DOMAIN visited : Reached(search, visited[id], id, Changed)
    BY <1>1 DEF BlastInv, EvidenceIsAPath
  <2>2. \A id \in DOMAIN visited' : Reached(search, visited'[id], id, Changed)
    BY <1>2, <1>4, <2>1
  <2> QED
    BY <1>1, <1>5, <2>2 DEF BlastInv, EvidenceIsAPath, Reached, results
<1>8. FrontierIsFound'
  <2>1. \A found : Legitimate(found) => Legitimate(found)'
    BY <1>1, <1>5 DEF Legitimate, Reached, Start
  <2>2. \A i \in DOMAIN frontier' :
          (i \in DOMAIN frontier /\ frontier'[i] = frontier[i]) \/ frontier'[i] = NextFound
    BY <1>1, <1>2, <1>3, Appended
  <2>3. \A i \in DOMAIN frontier' : Legitimate(frontier'[i])
    BY <1>1, <1>2, <2>2 DEF BlastInv, FrontierIsFound, Legitimate
  <2>4. Hops(expanding) < MaxHops /\ Legitimate(expanding)
    BY <1>1 DEF BlastInv, FrontierIsFound
  <2> QED BY <1>1, <2>1, <2>3, <2>4 DEF FrontierIsFound, Legitimate, Hops
<1>9. FrontierIsSorted'
  <2>1. /\ \A i, j \in DOMAIN frontier : i <= j => Hops(frontier[i]) <= Hops(frontier[j])
        /\ \A i \in DOMAIN frontier :
             Hops(expanding) <= Hops(frontier[i]) /\ Hops(frontier[i]) <= Hops(NextFound)
        /\ \A id \in DOMAIN visited : Hops(visited[id]) <= Hops(NextFound)
    BY <1>1, <1>2 DEF BlastInv, FrontierIsSorted
  <2>2. \A id \in DOMAIN visited' : Hops(visited'[id]) <= Hops(NextFound)
    BY <1>2, <1>4, <2>1
  <2>3. CASE UNCHANGED frontier
    BY <1>1, <1>2, <2>1, <2>2, <2>3 DEF FrontierIsSorted, Hops
  <2>4. CASE frontier' = Append(frontier, NextFound)
    <3>1. /\ DOMAIN frontier = 1..Len(frontier) /\ Len(frontier) \in Nat
          /\ DOMAIN frontier' = 1..(Len(frontier) + 1)
          /\ \A i \in DOMAIN frontier : frontier'[i] = frontier[i]
          /\ frontier'[Len(frontier) + 1] = NextFound
      BY <1>1, <1>2, <2>4, Appended
    <3>2. \A i, j \in DOMAIN frontier' : i <= j => Hops(frontier'[i]) <= Hops(frontier'[j])
      BY <1>2, <2>1, <3>1
    <3>3. \A i \in DOMAIN frontier' :
            Hops(expanding) <= Hops(frontier'[i]) /\ Hops(frontier'[i]) <= Hops(NextFound)
      BY <1>2, <2>1, <3>1
    <3> QED BY <1>1, <1>2, <2>2, <3>2, <3>3 DEF FrontierIsSorted, Hops
  <2> QED BY <1>3, <2>3, <2>4
<1>10. NothingIsDropped'
  <2>1. \A e, n : FollowedFrom(e, n) => FollowedFrom(e, n)'
    BY <1>1, <1>3 DEF FollowedFrom, Hops
  <2>2. \A found : Covered(found) => Covered(found)'
    BY <1>1, <2>1 DEF Covered, Hops
  <2>3. PartlyCovered => PartlyCovered'
    <3> SUFFICES ASSUME PartlyCovered, NEW i \in DOMAIN graph.edges,
                        i <= NextPosition, Near(search, graph.edges[i]) = expanding.id
                 PROVE  FollowedFrom(graph.edges[i], Hops(expanding))'
      BY <1>1 DEF PartlyCovered
    <3>1. CASE i <= followed
      BY <1>1, <2>1, <3>1 DEF PartlyCovered, FollowedFrom, Hops
    <3>2. CASE i > followed
      <4>1. i \in Remaining
        BY <3>2 DEF Remaining
      <4>2. NextPosition <= i /\ NextPosition \in DOMAIN graph.edges
        BY <1>1, <1>2, <4>1, NextIsFirst DEF Remaining
      <4>3. i = NextPosition
        BY <1>1, <4>2, EdgesOfGraph DEF TypeOK
      <4>4. Far(search, NextEdge) \in DOMAIN visited'
            /\ Hops(visited'[Far(search, NextEdge)]) <= Hops(expanding) + 1
        BY <1>2, <1>3
      <4> QED BY <1>1, <4>3, <4>4 DEF FollowedFrom, NextEdge, Hops
    <3> QED BY <1>1, <3>1, <3>2, EdgesOfGraph DEF TypeOK
  <2>4. Range(frontier) \subseteq Range(frontier')
    <3>1. CASE UNCHANGED frontier
      BY <3>1 DEF Range
    <3>2. CASE frontier' = Append(frontier, NextFound)
      <4>1. Range(Append(frontier, NextFound)) = Range(frontier) \cup {NextFound}
        BY <1>1, <1>2, Appended
      <4> QED BY <3>2, <4>1 DEF Range
    <3> QED BY <1>3, <3>1, <3>2
  <2>5. \A found \in FoundSoFar' : found \in FoundSoFar \/ found \in Range(frontier')
    <3>1. Range(visited') \subseteq Range(visited) \cup Range(frontier')
      <4>1. CASE UNCHANGED <<visited, frontier>>
        BY <4>1
      <4>2. CASE frontier' = Append(frontier, NextFound)
        BY <1>1, <1>2, <1>4, <4>2, Appended DEF Range
      <4> QED BY <1>3, <4>1, <4>2
    <3> QED BY <1>5, <3>1 DEF FoundSoFar, Start
  <2> QED BY <1>1, <2>2, <2>3, <2>4, <2>5 DEF BlastInv, NothingIsDropped, Hops
<1> QED BY <1>6, <1>7, <1>8, <1>9, <1>10 DEF BlastInv

\* The downstream search ends and the upstream search begins.
LEMMA CollectDownStep == BlastInv /\ CollectDownstream => BlastInv'
<1> SUFFICES ASSUME BlastInv, CollectDownstream PROVE BlastInv'
  OBVIOUS
<1>1. /\ Searching /\ search = "down" /\ TypeOK
      /\ UNCHANGED <<graph, todo, direct, upstream>>
      /\ downstream' = Merge(downstream, visited)
      /\ todo # <<>> /\ Changed \in Range(direct) /\ direct \in Seq(DOMAIN graph.node)
  BY DEF CollectDownstream, Exhausted, BlastInv, TypeOK, Searching
<1>2. /\ TypeOK' /\ FrontierIsFound' /\ FrontierIsSorted' /\ NothingIsDropped'
      /\ DOMAIN visited' = {}
  BY <1>1, SearchState, BeginsSearch DEF CollectDownstream
<1>3. \A id \in DOMAIN downstream' :
        \E from \in Range(direct) : Reached("down", downstream'[id], id, from)
  BY <1>1 DEF Merge, BlastInv, EvidenceIsAPath
<1>4. EvidenceIsAPath'
  BY <1>1, <1>2, <1>3 DEF BlastInv, EvidenceIsAPath, Reached
<1> QED BY <1>2, <1>4 DEF BlastInv

\* The upstream search ends, and with it the analysis of the object.
LEMMA CollectUpStep == BlastInv /\ CollectUpstream => BlastInv'
<1> SUFFICES ASSUME BlastInv, CollectUpstream PROVE BlastInv'
  OBVIOUS
<1>1. /\ Searching /\ search = "up" /\ search' = "none" /\ ~ Searching' /\ TypeOK
      /\ UNCHANGED <<graph, direct, downstream>>
      /\ upstream' = Merge(upstream, visited)
      /\ todo # <<>> /\ Changed \in Range(direct) /\ todo' = Tail(todo)
  BY DEF CollectUpstream, Exhausted, BlastInv, TypeOK, Searching
<1>2. TypeOK'
  <2>1. todo' \in Seq(UNION {Range(c) : c \in Changes})
    BY <1>1, PoppedFrom DEF TypeOK
  <2> QED BY <1>1, <2>1 DEF TypeOK
<1>3. \A id \in DOMAIN upstream' :
        \E from \in Range(direct) : Reached("up", upstream'[id], id, from)
  BY <1>1 DEF Merge, BlastInv, EvidenceIsAPath
<1>4. EvidenceIsAPath'
  BY <1>1, <1>3 DEF BlastInv, EvidenceIsAPath, Reached
<1> QED BY <1>1, <1>2, <1>4
        DEF BlastInv, FrontierIsFound, FrontierIsSorted, NothingIsDropped

-----------------------------------------------------------------------------
(***************************************************************************)
(* The theorems.                                                           *)
(***************************************************************************)

\* The invariant of the search holds in every state, whatever the graph, the
\* change and the limit.
THEOREM BlastInvariant == Spec => []BlastInv
<1>1. BlastInv /\ [Next]_vars => BlastInv'
  BY SkipStep, BeginStep, PopStep, FollowStep, CollectDownStep, CollectUpStep, StutterStep
  DEF Next
<1> QED BY <1>1, InitBlast, PTL DEF Spec

\* The state of BlastRadiusAnalyzer.analyze is well typed: every node and
\* path it holds is of the graph it was given.
THEOREM BlastTypeCorrect == Spec => []TypeOK
<1>1. BlastInv => TypeOK
  BY DEF BlastInv
<1> QED BY <1>1, BlastInvariant, PTL

\* Every resource analyze reports is at the end of a chain of dependencies,
\* of at most max_hops, that begins at an object the change names.
THEOREM EvidenceIsAPathHolds == Spec => []EvidenceIsAPath
<1>1. BlastInv => EvidenceIsAPath
  BY DEF BlastInv
<1> QED BY <1>1, BlastInvariant, PTL

\* _traverse never replaces the path to a node it has found: the branch of
\* its guard that would do so is not reached in a breadth-first search.
THEOREM FirstPathStaysHolds == Spec => FirstPathStays
<1> DEFINE Stays == search' = search =>
                      \A id \in DOMAIN visited :
                        id \in DOMAIN visited' /\ visited'[id] = visited[id]
<1>1. BlastInv /\ [Next]_vars => Stays
  <2> SUFFICES ASSUME BlastInv, [Next]_vars PROVE Stays
    OBVIOUS
  <2>1. CASE UNCHANGED visited
    BY <2>1
  <2>2. CASE search' # search
    BY <2>2
  <2>3. CASE FollowEdge
    BY <2>3, FollowAdds
  <2> QED
    BY <2>1, <2>2, <2>3
    DEF Next, SkipUnknown, Begin, Pop, CollectDownstream, CollectUpstream, Exhausted,
        BeginSearch, traversal, vars
<1>2. BlastInv /\ [Next]_vars => [Stays]_vars
  BY <1>1
<1> QED BY <1>1, BlastInvariant, PTL DEF Spec, FirstPathStays

LEMMA ClosedByInv ==
  ASSUME BlastInv
  PROVE  SearchIsClosed
<1> SUFFICES ASSUME Searching, Remaining = {}, frontier = <<>>,
                    NEW found \in FoundSoFar, Hops(found) < MaxHops
             PROVE  Covered(found)
  BY DEF SearchIsClosed
<1>1. found \notin Range(frontier)
  BY EmptySeq DEF Range
<1>2. Hops(found) \in Nat
  BY SearchState, EmptySeq DEF BlastInv, FoundSoFar, Start, Hops, Range
<1>3. PartlyCovered => Covered(expanding)
  BY ExpandedIsCovered DEF BlastInv
<1> QED BY <1>1, <1>2, <1>3, MaxHopsAssumption DEF BlastInv, NothingIsDropped

\* When _traverse returns it has followed every edge of the changed object
\* and of every node it found nearer than max_hops.
THEOREM SearchIsClosedHolds == Spec => []SearchIsClosed
<1>1. BlastInv => SearchIsClosed
  BY ClosedByInv
<1> QED BY <1>1, BlastInvariant, PTL


-----------------------------------------------------------------------------
(***************************************************************************)
(* The search and the graph: what was found is what is within reach.       *)
(***************************************************************************)

\* Reach is what its recursive definition says.
LEMMA ReachIsDefined ==
  ASSUME NEW g, NEW d, NEW id, NEW n \in Nat
  PROVE  /\ Reach(g, d, id, n)[0] = {id}
         /\ \A k \in 1..n : Reach(g, d, id, n)[k] = Onward(g, d, Reach(g, d, id, n)[k - 1])
<1> DEFINE IsReach(f, m) ==
             f = [k \in 0..m |-> IF k = 0 THEN {id} ELSE Onward(g, d, f[k - 1])]
           Without == {m \in Nat : ~ \E f : IsReach(f, m)}
<1>1. Without = {}
  <2> SUFFICES ASSUME Without # {} PROVE FALSE
    OBVIOUS
  <2>1. PICK m \in Without : \A k \in Without : m <= k
    <3>1. Without \subseteq Nat
      OBVIOUS
    <3> HIDE DEF Without
    <3> QED BY <3>1, LeastMember
  <2>2. m # 0
    <3>1. IsReach([k \in 0..0 |-> {id}], 0)
      OBVIOUS
    <3> QED BY <3>1
  <2>3. m \in Nat /\ m - 1 \in Nat /\ m - 1 \notin Without
    <3>1. m \in Nat
      OBVIOUS
    <3> HIDE DEF Without
    <3> QED BY <2>1, <2>2, <3>1
  <2>4. PICK f : IsReach(f, m - 1)
    BY <2>3
  <2> DEFINE h == [k \in 0..m |-> IF k = m THEN Onward(g, d, f[m - 1]) ELSE f[k]]
  <2>5. /\ \A k \in 0..(m - 1) : f[k] = IF k = 0 THEN {id} ELSE Onward(g, d, f[k - 1])
        /\ \A k \in 0..(m - 1) : h[k] = f[k]
        /\ h[m] = Onward(g, d, f[m - 1])
    <3>1. \A k \in 0..(m - 1) : f[k] = IF k = 0 THEN {id} ELSE Onward(g, d, f[k - 1])
      BY <2>4
    <3>2. m \in 0..m /\ \A k \in 0..(m - 1) : k \in 0..m /\ k # m
      BY <2>3
    <3> QED BY <3>1, <3>2
  <2>6. \A k \in 0..m : h[k] = IF k = 0 THEN {id} ELSE Onward(g, d, h[k - 1])
    <3> SUFFICES ASSUME NEW k \in 0..m
                 PROVE  h[k] = IF k = 0 THEN {id} ELSE Onward(g, d, h[k - 1])
      OBVIOUS
    <3> HIDE DEF h
    <3>1. CASE k = m
      <4>1. m - 1 \in 0..(m - 1)
        BY <2>3
      <4> QED BY <2>2, <2>5, <3>1, <4>1
    <3>2. CASE k # m
      <4>1. k \in 0..(m - 1) /\ (k # 0 => k - 1 \in 0..(m - 1))
        BY <2>3, <3>2
      <4> QED BY <2>5, <4>1
    <3> QED BY <3>1, <3>2
  <2>7. IsReach(h, m)
    <3>1. h = [k \in 0..m |-> h[k]]
      OBVIOUS
    <3> HIDE DEF h
    <3> QED BY <2>6, <3>1
  <2> QED BY <2>1, <2>7
<1>2. IsReach(Reach(g, d, id, n), n)
  <2>1. \E f : IsReach(f, n)
    BY <1>1
  <2>2. Reach(g, d, id, n) = CHOOSE f : IsReach(f, n)
    BY DEF Reach
  <2> HIDE DEF IsReach
  <2> QED BY <2>1, <2>2
<1> DEFINE r == Reach(g, d, id, n)
<1>3. \A k \in 0..n : r[k] = IF k = 0 THEN {id} ELSE Onward(g, d, r[k - 1])
  BY <1>2
<1> HIDE DEF r
<1>4. r[0] = {id} /\ \A k \in 1..n : r[k] = Onward(g, d, r[k - 1])
  BY <1>3
<1> QED BY <1>4 DEF r

SearchEnded == Searching /\ Remaining = {} /\ frontier = <<>>

\* The nodes the search has found at the end of at most n edges.
Ball(n) == {id \in DOMAIN visited : Hops(visited[id]) <= n}

\* When it has ended, an edge leads from the changed object, or from a node
\* found, to a node found one edge further on at most.
LEMMA EdgesStayInside ==
  ASSUME BlastInv, SearchEnded, NEW k \in 1..MaxHops, NEW e \in Range(graph.edges),
         Near(search, e) \in {Changed} \cup Ball(k - 1)
  PROVE  Far(search, e) \in Ball(k)
<1>1. \A found \in FoundSoFar : Hops(found) < MaxHops => Covered(found)
  BY ClosedByInv DEF SearchIsClosed, SearchEnded
<1>2. CASE Near(search, e) = Changed
  <2>1. Start(Changed) \in FoundSoFar /\ Start(Changed).id = Changed /\ Hops(Start(Changed)) = 0
    BY EmptySeq DEF FoundSoFar, Start, Hops
  <2>2. FollowedFrom(e, 0)
    BY <1>1, <1>2, <2>1, MaxHopsAssumption DEF Covered
  <2>3. Far(search, e) \in DOMAIN visited /\ Hops(visited[Far(search, e)]) \in Nat
        /\ Hops(visited[Far(search, e)]) <= 1
    BY <2>2, SearchState DEF FollowedFrom, BlastInv, SearchEnded
  <2> QED BY <2>3, MaxHopsAssumption DEF Ball
<1>3. CASE Near(search, e) \in Ball(k - 1)
  <2> DEFINE near == Near(search, e)
             far == Far(search, e)
  <2>1. near \in DOMAIN visited /\ Hops(visited[near]) <= k - 1 /\ Hops(visited[near]) \in Nat
    BY <1>3, SearchState DEF Ball, BlastInv, SearchEnded
  <2>2. visited[near] \in FoundSoFar /\ visited[near].id = near
    BY <2>1 DEF FoundSoFar, Range, BlastInv, EvidenceIsAPath, Reached, SearchEnded
  <2>3. FollowedFrom(e, Hops(visited[near]))
    BY <1>1, <2>1, <2>2, MaxHopsAssumption DEF Covered
  <2>4. far \in DOMAIN visited /\ Hops(visited[far]) \in Nat
        /\ Hops(visited[far]) <= Hops(visited[near]) + 1
    BY <2>3, SearchState DEF FollowedFrom, BlastInv, SearchEnded
  <2> HIDE DEF near, far
  <2>5. Hops(visited[far]) <= k
    BY <2>1, <2>4, MaxHopsAssumption
  <2> QED BY <2>4, <2>5 DEF Ball, far
<1> QED BY <1>2, <1>3

\* A path that is not too long leaves nothing the search has not found: the
\* first edge that did would start at a node found.
LEMMA PathsStayInside ==
  ASSUME BlastInv, SearchEnded, NEW p, NEW to, IsPath(graph, search, p, Changed, to),
         Len(p) <= MaxHops
  PROVE  \A i \in 1..Len(p) : Far(search, p[i]) \in Ball(i)
<1> DEFINE Outside == {i \in 1..Len(p) : Far(search, p[i]) \notin Ball(i)}
<1> SUFFICES ASSUME Outside # {} PROVE FALSE
  OBVIOUS
<1>1. Len(p) \in Nat /\ \A i \in 1..Len(p) : p[i] \in Range(graph.edges)
  BY LenProperties DEF IsPath
<1>2. PICK i \in Outside : \A j \in Outside : i <= j
  <2>1. Outside \subseteq Nat
    BY <1>1
  <2> HIDE DEF Outside
  <2> QED BY <2>1, LeastMember
<1>3. i \in 1..Len(p) /\ i \in 1..MaxHops /\ p[i] \in Range(graph.edges)
      /\ Far(search, p[i]) \notin Ball(i)
  BY <1>1, <1>2, MaxHopsAssumption
<1>4. Near(search, p[i]) \in {Changed} \cup Ball(i - 1)
  <2>1. CASE i = 1
    BY <2>1 DEF IsPath
  <2>2. CASE i # 1
    <3>1. i - 1 \in 1..(Len(p) - 1) /\ i - 1 \in 1..Len(p) /\ (i - 1) + 1 = i /\ ~ (i <= i - 1)
      BY <1>1, <1>3, <2>2
    <3>2. Near(search, p[i]) = Far(search, p[i - 1])
      BY <3>1 DEF IsPath
    <3>3. i - 1 \notin Outside
      BY <1>2, <3>1
    <3>4. Far(search, p[i - 1]) \in Ball(i - 1)
      BY <3>1, <3>3
    <3> QED BY <3>2, <3>4
  <2> QED BY <2>1, <2>2
<1> QED BY <1>3, <1>4, EdgesStayInside

\* The last edge by which a node was found starts at one found before it.
LEMMA LastEdge ==
  ASSUME BlastInv, SearchEnded, NEW id \in DOMAIN visited
  PROVE  /\ Hops(visited[id]) \in 1..MaxHops
         /\ \E e \in Range(graph.edges) :
              /\ Far(search, e) = id
              /\ Near(search, e) \in {Changed} \cup Ball(Hops(visited[id]) - 1)
<1> DEFINE p == visited[id].via
<1>1. IsPath(graph, search, p, Changed, id) /\ Len(p) <= MaxHops /\ Hops(visited[id]) = Len(p)
  BY DEF BlastInv, EvidenceIsAPath, Reached, SearchEnded, Hops
<1> HIDE DEF p
<1>2. Len(p) \in 1..MaxHops /\ p[Len(p)] \in Range(graph.edges) /\ Far(search, p[Len(p)]) = id
  BY <1>1, EmptySeq, LenProperties, MaxHopsAssumption DEF IsPath
<1>3. Near(search, p[Len(p)]) \in {Changed} \cup Ball(Len(p) - 1)
  <2>1. CASE Len(p) = 1
    BY <1>1, <2>1 DEF IsPath
  <2>2. CASE Len(p) # 1
    <3>1. Len(p) - 1 \in 1..Len(p) /\ Len(p) - 1 \in 1..(Len(p) - 1) /\ (Len(p) - 1) + 1 = Len(p)
      <4>1. \A m \in 1..MaxHops : m # 1 => m - 1 \in 1..m /\ m - 1 \in 1..(m - 1) /\ (m - 1) + 1 = m
        BY MaxHopsAssumption
      <4> QED BY <1>2, <2>2, <4>1
    <3>2. Near(search, p[Len(p)]) = Far(search, p[Len(p) - 1])
      BY <1>1, <3>1 DEF IsPath
    <3>3. Far(search, p[Len(p) - 1]) \in Ball(Len(p) - 1)
      BY <1>1, <3>1, PathsStayInside
    <3> QED BY <3>2, <3>3
  <2> QED BY <2>1, <2>2
<1> QED BY <1>1, <1>2, <1>3

\* Edge by edge, the nodes in reach are the changed object and those found.
LEMMA ReachIsFound ==
  ASSUME BlastInv, SearchEnded, NEW n \in 1..MaxHops, NEW k \in 0..n
  PROVE  Reach(graph, search, Changed, n)[k] = {Changed} \cup Ball(k)
<1> DEFINE r == Reach(graph, search, Changed, n)
           Other == {i \in 0..n : r[i] # {Changed} \cup Ball(i)}
<1>1. n \in Nat /\ n <= MaxHops /\ MaxHops \in Nat
  BY MaxHopsAssumption
<1>2. r[0] = {Changed} /\ \A i \in 1..n : r[i] = Onward(graph, search, r[i - 1])
  BY <1>1, ReachIsDefined
<1> HIDE DEF r
<1>3. \A id \in DOMAIN visited : Hops(visited[id]) \in 1..MaxHops
  BY LastEdge
<1> SUFFICES ASSUME Other # {} PROVE FALSE
  BY DEF r
<1>4. PICK i \in Other : \A j \in Other : i <= j
  <2>1. Other \subseteq Nat
    BY <1>1
  <2> HIDE DEF Other
  <2> QED BY <2>1, LeastMember
<1>5. i # 0
  <2>1. Ball(0) = {}
    BY <1>3 DEF Ball
  <2> QED BY <1>2, <1>4, <2>1
<1>6. i \in 1..n /\ i \in 1..MaxHops /\ i - 1 \in 0..n /\ ~ (i <= i - 1)
  BY <1>1, <1>4, <1>5
<1>7. r[i - 1] = {Changed} \cup Ball(i - 1) /\ r[i] # {Changed} \cup Ball(i)
  <2>1. i - 1 \notin Other
    BY <1>4, <1>6
  <2> QED BY <1>4, <1>6, <2>1
<1>8. r[i] \subseteq {Changed} \cup Ball(i)
  <2> SUFFICES ASSUME NEW id \in r[i] PROVE id \in {Changed} \cup Ball(i)
    OBVIOUS
  <2>1. CASE id \in r[i - 1]
    <3>1. Ball(i - 1) \subseteq Ball(i)
      BY <1>1, <1>3, <1>6 DEF Ball
    <3> QED BY <1>7, <2>1, <3>1
  <2>2. CASE id \notin r[i - 1]
    <3>1. PICK e \in Range(graph.edges) : Near(search, e) \in r[i - 1] /\ id = Far(search, e)
      BY <1>2, <1>6, <2>2 DEF Onward
    <3> QED BY <1>6, <1>7, <3>1, EdgesStayInside
  <2> QED BY <2>1, <2>2
<1>9. {Changed} \cup Ball(i) \subseteq r[i]
  <2> SUFFICES ASSUME NEW id \in {Changed} \cup Ball(i), id \notin r[i - 1] PROVE id \in r[i]
    BY <1>2, <1>6 DEF Onward
  <2>1. id \in DOMAIN visited /\ Hops(visited[id]) = i
    BY <1>1, <1>3, <1>6, <1>7 DEF Ball
  <2>2. PICK e \in Range(graph.edges) : Far(search, e) = id /\ Near(search, e) \in r[i - 1]
    BY <1>7, <2>1, LastEdge
  <2> QED BY <1>2, <1>6, <2>2 DEF Onward
<1> QED BY <1>7, <1>8, <1>9

\* The changed object is found where a cycle leads back to it.
LEMMA WithinIsFound ==
  ASSUME BlastInv, SearchEnded, NEW n \in 1..MaxHops
  PROVE  Within(graph, search, Changed, n) = Ball(n)
<1>1. n \in Nat /\ n > 0 /\ n - 1 \in 0..n /\ n \in 0..n
  BY MaxHopsAssumption
<1>2. /\ Reach(graph, search, Changed, n)[n] = {Changed} \cup Ball(n)
      /\ Reach(graph, search, Changed, n)[n - 1] = {Changed} \cup Ball(n - 1)
  BY <1>1, ReachIsFound
<1> DEFINE cycle == \E e \in Range(graph.edges) :
                      /\ Far(search, e) = Changed
                      /\ Near(search, e) \in {Changed} \cup Ball(n - 1)
<1>3. cycle => Changed \in Ball(n)
  BY EdgesStayInside
<1>4. Changed \in Ball(n) => cycle
  <2> SUFFICES ASSUME Changed \in Ball(n) PROVE cycle
    OBVIOUS
  <2>1. Changed \in DOMAIN visited /\ Hops(visited[Changed]) <= n
    BY DEF Ball
  <2>2. /\ Hops(visited[Changed]) \in 1..MaxHops
        /\ \E e \in Range(graph.edges) :
             /\ Far(search, e) = Changed
             /\ Near(search, e) \in {Changed} \cup Ball(Hops(visited[Changed]) - 1)
    BY <2>1, LastEdge
  <2>3. Ball(Hops(visited[Changed]) - 1) \subseteq Ball(n - 1)
    <3>1. \A id \in DOMAIN visited : Hops(visited[id]) \in Nat
      BY SearchState DEF BlastInv, SearchEnded
    <3> QED BY <1>1, <2>1, <2>2, <3>1 DEF Ball
  <2> QED BY <2>2, <2>3
<1>5. Within(graph, search, Changed, n) =
        IF cycle THEN {Changed} \cup Ball(n) ELSE ({Changed} \cup Ball(n)) \ {Changed}
  BY <1>1, <1>2 DEF Within
<1> HIDE DEF cycle
<1> QED BY <1>3, <1>4, <1>5

LEMMA ExactByInv ==
  ASSUME BlastInv
  PROVE  SearchIsExact
<1> SUFFICES ASSUME SearchEnded
             PROVE  /\ DOMAIN visited = Within(graph, search, Changed, MaxHops)
                    /\ \A id \in DOMAIN visited :
                         Hops(visited[id]) = Distance(graph, search, Changed, id, MaxHops)
  BY DEF SearchIsExact, SearchEnded
<1>1. MaxHops \in Nat /\ MaxHops \in 1..MaxHops
  BY MaxHopsAssumption
<1>2. \A id \in DOMAIN visited : Hops(visited[id]) \in 1..MaxHops
  BY LastEdge
<1>3. DOMAIN visited = Ball(MaxHops)
  BY <1>1, <1>2 DEF Ball
<1>4. ASSUME NEW id \in DOMAIN visited
      PROVE  Hops(visited[id]) = Distance(graph, search, Changed, id, MaxHops)
  <2> DEFINE h == Hops(visited[id])
             FirstWithin(k) == /\ id \in Within(graph, search, Changed, k)
                               /\ k = 1 \/ id \notin Within(graph, search, Changed, k - 1)
  <2>1. h \in 1..MaxHops
    BY <1>2
  <2>2. \A k \in 1..MaxHops : id \in Within(graph, search, Changed, k) <=> h <= k
    BY <1>1, WithinIsFound DEF Ball
  <2>3. ASSUME NEW k \in 1..MaxHops PROVE FirstWithin(k) <=> k = h
    <3>1. CASE k = 1
      BY <2>1, <2>2, <3>1
    <3>2. CASE k # 1
      <4>1. k - 1 \in 1..MaxHops
        BY <1>1, <3>2
      <4> HIDE DEF h
      <4>2. id \in Within(graph, search, Changed, k - 1) <=> h <= k - 1
        BY <2>2, <4>1
      <4> QED BY <1>1, <2>1, <2>2, <3>2, <4>2
    <3> QED BY <3>1, <3>2
  <2>4. Distance(graph, search, Changed, id, MaxHops) = CHOOSE k \in 1..MaxHops : FirstWithin(k)
    BY DEF Distance
  <2> HIDE DEF h, FirstWithin
  <2>5. h = CHOOSE k \in 1..MaxHops : FirstWithin(k)
    BY <2>1, <2>3
  <2> QED BY <2>4, <2>5 DEF h
<1> QED BY <1>1, <1>3, <1>4, WithinIsFound

\* For every graph and every limit: _traverse returns the nodes at the end of
\* a path of at most max_hops edges and no other, each with a shortest path.
THEOREM SearchIsExactHolds == Spec => []SearchIsExact
<1>1. BlastInv => SearchIsExact
  BY ExactByInv
<1> QED BY <1>1, BlastInvariant, PTL

-----------------------------------------------------------------------------
(***************************************************************************)
(* The analysis of several objects.                                        *)
(***************************************************************************)

\* Front takes the last member off.
LEMMA FrontOf ==
  ASSUME NEW S, NEW t \in Seq(S), t # <<>>
  PROVE  /\ Front(t) \in Seq(S) /\ Len(Front(t)) = Len(t) - 1
         /\ DOMAIN Front(t) = 1..(Len(t) - 1)
         /\ \A i \in 1..(Len(t) - 1) : Front(t)[i] = t[i]
<1> DEFINE n == Len(t) - 1
<1>1. n \in Nat /\ 1 \in Int /\ \A i \in 1..n : t[i] \in S
  BY EmptySeq, LenProperties
<1> HIDE DEF n
<1>2. n - 1 + 1 = n /\ (~ (1 <= n) => n = 0) /\ \A i \in 1..n : 1 + i - 1 = i
  BY <1>1
<1>3. /\ SubSeq(t, 1, n) \in Seq(S) /\ Len(SubSeq(t, 1, n)) = IF 1 <= n THEN n - 1 + 1 ELSE 0
      /\ \A i \in 1..(n - 1 + 1) : SubSeq(t, 1, n)[i] = t[1 + i - 1]
  BY <1>1, SubSeqProperties
<1>4. SubSeq(t, 1, n) \in Seq(S) /\ Len(SubSeq(t, 1, n)) = n
      /\ \A i \in 1..n : SubSeq(t, 1, n)[i] = t[i]
  BY <1>2, <1>3
<1>5. Front(t) = SubSeq(t, 1, n)
  BY DEF Front, n
<1>6. DOMAIN SubSeq(t, 1, n) = 1..n
  BY <1>4, LenProperties
<1> QED BY <1>4, <1>5, <1>6 DEF n

\* A sequence is what is before its last member, and that.
LEMMA FrontAndLast ==
  ASSUME NEW S, NEW s \in Seq(S)
  PROVE  /\ s # <<>> => Range(s) = Range(Front(s)) \cup {Last(s)}
         /\ \A x \in S : Range(Front(Append(s, x))) = Range(s) /\ Last(Append(s, x)) = x
<1>1. DOMAIN s = 1..Len(s) /\ Len(s) \in Nat /\ \A i \in 1..Len(s) : s[i] \in S
  BY LenProperties
<1>2. \A t \in Seq(S) : t # <<>> =>
        /\ DOMAIN Front(t) = 1..(Len(t) - 1)
        /\ \A i \in 1..(Len(t) - 1) : Front(t)[i] = t[i]
  BY FrontOf
<1>3. ASSUME s # <<>> PROVE Range(s) = Range(Front(s)) \cup {Last(s)}
  <2>1. Len(s) > 0
    BY <1>1, <1>3, EmptySeq
  <2>2. 1..Len(s) = (1..(Len(s) - 1)) \cup {Len(s)}
    BY <1>1, <2>1
  <2> QED BY <1>1, <1>2, <1>3, <2>2 DEF Range, Last
<1>4. ASSUME NEW x \in S PROVE Range(Front(Append(s, x))) = Range(s) /\ Last(Append(s, x)) = x
  <2> DEFINE t == Append(s, x)
  <2>1. /\ t \in Seq(S) /\ Len(t) = Len(s) + 1 /\ t # <<>>
        /\ t[Len(s) + 1] = x /\ \A i \in 1..Len(s) : t[i] = s[i]
    BY <1>1, EmptySeq, LenProperties
  <2> HIDE DEF t
  <2>2. DOMAIN Front(t) = 1..Len(s) /\ \A i \in 1..Len(s) : Front(t)[i] = s[i]
    BY <1>1, <1>2, <2>1
  <2>3. Range(Front(t)) = Range(s) /\ Last(t) = x
    BY <1>1, <2>1, <2>2 DEF Range, Last
  <2> QED BY <2>3 DEF t
<1> QED BY <1>3, <1>4

ListsInv == BlastInv /\ ListsAreComplete

\* What a search adds to a list is what its object has to add.
LEMMA MergedIsAffected ==
  ASSUME BlastInv, SearchEnded, direct # <<>>, Last(direct) = Changed, NEW list,
         DOMAIN list = Affected(search, Range(Front(direct)))
  PROVE  DOMAIN Merge(list, visited) = Affected(search, Analyzed)
<1>1. DOMAIN visited = Within(graph, search, Changed, MaxHops)
  BY ExactByInv DEF SearchIsExact, SearchEnded
<1>2. Analyzed = Range(Front(direct)) \cup {Changed}
  BY FrontAndLast DEF BlastInv, TypeOK, Analyzed
<1>3. DOMAIN Merge(list, visited) = DOMAIN list \cup (DOMAIN visited \ {Changed})
  BY DEF Merge
<1> QED BY <1>1, <1>2, <1>3 DEF Affected

LEMMA ListsStep == ListsInv /\ [Next]_vars => ListsInv'
<1> SUFFICES ASSUME ListsInv, [Next]_vars PROVE ListsAreComplete'
  BY SkipStep, BeginStep, PopStep, FollowStep, CollectDownStep, CollectUpStep, StutterStep
  DEF Next, ListsInv
<1>1. /\ BlastInv /\ direct \in Seq(DOMAIN graph.node)
      /\ Searching => direct # <<>> /\ Last(direct) = Changed
      /\ DOMAIN downstream = Affected("down", Finished("down"))
      /\ DOMAIN upstream = Affected("up", Finished("up"))
  BY DEF ListsInv, ListsAreComplete, BlastInv, TypeOK
<1>2. CASE SkipUnknown
  BY <1>1, <1>2 DEF SkipUnknown, ListsAreComplete, Searching, Affected, Finished, Analyzed, results
<1>3. CASE Begin
  <2>1. /\ search = "none" /\ search' = "down" /\ direct' = Append(direct, Changed)
        /\ Changed \in DOMAIN graph.node
        /\ UNCHANGED graph /\ UNCHANGED todo /\ UNCHANGED downstream /\ UNCHANGED upstream
    BY <1>3 DEF Begin, BeginSearch
  <2>2. Range(Front(direct')) = Range(direct) /\ Last(direct') = Changed /\ direct' # <<>>
    BY <1>1, <2>1, FrontAndLast
  <2>3. Changed' = Changed /\ \A d, ids : Affected(d, ids)' = Affected(d, ids)
    BY <2>1 DEF Changed, Affected
  <2>4. \A d \in {"down", "up"} : Finished(d)' = Finished(d)
    BY <2>1, <2>2 DEF Finished, Analyzed
  <2>5. Affected("down", Finished("down"))' = Affected("down", Finished("down"))
        /\ Affected("up", Finished("up"))' = Affected("up", Finished("up"))
    BY <2>1, <2>4 DEF Affected
  <2> QED BY <1>1, <2>1, <2>2, <2>3, <2>5 DEF ListsAreComplete
<1>4. CASE Pop \/ FollowEdge \/ UNCHANGED vars
  <2>1. UNCHANGED <<graph, todo, search, direct, downstream, upstream>>
    BY <1>4 DEF Pop, FollowEdge, vars, results
  <2> QED BY <1>1, <2>1 DEF ListsAreComplete, Searching, Affected, Finished, Analyzed, Changed
<1>5. CASE CollectDownstream
  <2>1. /\ SearchEnded /\ search = "down" /\ search' = "up"
        /\ downstream' = Merge(downstream, visited)
        /\ UNCHANGED graph /\ UNCHANGED todo /\ UNCHANGED direct /\ UNCHANGED upstream
    BY <1>5 DEF CollectDownstream, Exhausted, BeginSearch, SearchEnded, Searching
  <2>2. Finished("down") = Range(Front(direct)) /\ Finished("up") = Range(Front(direct))
        /\ Finished("down")' = Analyzed /\ Finished("up")' = Range(Front(direct))
    BY <2>1 DEF Finished, Analyzed
  <2>3. DOMAIN downstream' = Affected("down", Analyzed)
    BY <1>1, <2>1, <2>2, MergedIsAffected DEF SearchEnded
  <2>4. Affected("down", Finished("down"))' = Affected("down", Analyzed)
        /\ Affected("up", Finished("up"))' = Affected("up", Finished("up"))
    BY <2>1, <2>2 DEF Affected
  <2> QED BY <1>1, <2>1, <2>3, <2>4 DEF ListsAreComplete, Changed, SearchEnded
<1>6. CASE CollectUpstream
  <2>1. /\ SearchEnded /\ search = "up" /\ search' = "none"
        /\ upstream' = Merge(upstream, visited)
        /\ UNCHANGED graph /\ UNCHANGED direct /\ UNCHANGED downstream
    BY <1>6 DEF CollectUpstream, Exhausted, SearchEnded, Searching
  <2>2. Finished("down") = Analyzed /\ Finished("up") = Range(Front(direct))
        /\ Finished("down")' = Analyzed /\ Finished("up")' = Analyzed
    BY <2>1 DEF Finished, Analyzed
  <2>3. DOMAIN upstream' = Affected("up", Analyzed)
    BY <1>1, <2>1, <2>2, MergedIsAffected DEF SearchEnded
  <2>4. Affected("down", Finished("down"))' = Affected("down", Finished("down"))
        /\ Affected("up", Finished("up"))' = Affected("up", Analyzed)
    BY <2>1, <2>2 DEF Affected
  <2> QED BY <1>1, <2>1, <2>3, <2>4 DEF ListsAreComplete, Searching
<1> QED BY <1>2, <1>3, <1>4, <1>5, <1>6 DEF Next

LEMMA InitLists == Init => ListsInv
<1> SUFFICES ASSUME Init PROVE ListsAreComplete
  BY InitBlast DEF ListsInv
<1>1. search = "none" /\ direct = <<>> /\ DOMAIN downstream = {} /\ DOMAIN upstream = {}
  BY DEF Init
<1>2. Analyzed = {}
  BY <1>1, EmptySeq DEF Analyzed, Range
<1>3. \A d \in {"down", "up"} : Finished(d) = {} /\ Affected(d, {}) = {}
  BY <1>1, <1>2 DEF Finished, Affected
<1> QED BY <1>1, <1>3 DEF ListsAreComplete, Searching

LEMMA CompleteByLists == ListsInv => ImpactIsComplete
BY DEF ListsInv, ListsAreComplete, ImpactIsComplete, Finished, Done

\* For every change, graph and limit: analyze returns the resources within
\* max_hops of the changed objects it knows, downstream and upstream, however
\* many they are and in whatever order they come; and none besides.
THEOREM ImpactIsCompleteHolds == Spec => []ImpactIsComplete
BY InitLists, CompleteByLists, ListsStep, PTL DEF Spec

-----------------------------------------------------------------------------
(***************************************************************************)
(* The operators that go through a sequence are functions on the first     *)
(* naturals, each value computed from the one before.  That such functions *)
(* exist is proved once for all of them, which Turn tells apart.           *)
(***************************************************************************)
Turn(kind, g, x, k, before) ==
  CASE kind = "follow" ->
         IF g.edges[k].target = x.id THEN Follow(x, before, g.edges[k]) ELSE before
    [] kind = "expand" -> Expand(g, before)
    [] kind = "join" -> Joined(before, Downstream(g, x[k]), x[k])
    [] kind = "parse" -> before \o ParseStatement(x[k])
    [] kind = "keep" -> IF x[k] \in g THEN Append(before, x[k]) ELSE before
    [] kind = "count" -> before + IncidentsOf(x[k], g)
    [] kind = "resolve" -> {d[x[k]] : d \in {e \in before : x[k] \in DOMAIN e}}
    [] kind = "product" -> before * x[k].confidence
    [] kind = "total" -> TakeOne(g, before)

IsRun(f, kind, g, x, first, n) ==
  f = [k \in 0..n |-> IF k = 0 THEN first ELSE Turn(kind, g, x, k, f[k - 1])]

LEMMA RunExists ==
  ASSUME NEW kind, NEW g, NEW x, NEW first, NEW n \in Nat
  PROVE  \E f : IsRun(f, kind, g, x, first, n)
<1> DEFINE Turned(k, before) == Turn(kind, g, x, k, before)
           Run(f, m) == f = [k \in 0..m |-> IF k = 0 THEN first ELSE Turned(k, f[k - 1])]
           Without == {m \in Nat : ~ \E f : Run(f, m)}
<1>1. Without = {}
  <2> HIDE DEF Turned
  <2> SUFFICES ASSUME Without # {} PROVE FALSE
    OBVIOUS
  <2>1. PICK m \in Without : \A k \in Without : m <= k
    <3>1. Without \subseteq Nat
      OBVIOUS
    <3> HIDE DEF Without
    <3> QED BY <3>1, LeastMember
  <2>2. m # 0
    <3>1. Run([k \in 0..0 |-> first], 0)
      OBVIOUS
    <3> QED BY <3>1
  <2>3. m \in Nat /\ m - 1 \in Nat /\ m - 1 \notin Without
    <3>1. m \in Nat
      OBVIOUS
    <3> HIDE DEF Without
    <3> QED BY <2>1, <2>2, <3>1
  <2>4. PICK f : Run(f, m - 1)
    BY <2>3
  <2> DEFINE h == [k \in 0..m |-> IF k = m THEN Turned(m, f[m - 1]) ELSE f[k]]
  <2>5. /\ \A k \in 0..(m - 1) : f[k] = IF k = 0 THEN first ELSE Turned(k, f[k - 1])
        /\ \A k \in 0..(m - 1) : h[k] = f[k]
        /\ h[m] = Turned(m, f[m - 1])
    <3>1. \A k \in 0..(m - 1) : f[k] = IF k = 0 THEN first ELSE Turned(k, f[k - 1])
      BY <2>4
    <3>2. m \in 0..m /\ \A k \in 0..(m - 1) : k \in 0..m /\ k # m
      BY <2>3
    <3> QED BY <3>1, <3>2
  <2>6. \A k \in 0..m : h[k] = IF k = 0 THEN first ELSE Turned(k, h[k - 1])
    <3> SUFFICES ASSUME NEW k \in 0..m
                 PROVE  h[k] = IF k = 0 THEN first ELSE Turned(k, h[k - 1])
      OBVIOUS
    <3> HIDE DEF h
    <3>1. CASE k = m
      <4>1. m - 1 \in 0..(m - 1)
        BY <2>3
      <4> QED BY <2>2, <2>5, <3>1, <4>1
    <3>2. CASE k # m
      <4>1. k \in 0..(m - 1) /\ (k # 0 => k - 1 \in 0..(m - 1))
        BY <2>3, <3>2
      <4> QED BY <2>5, <4>1
    <3> QED BY <3>1, <3>2
  <2>7. Run(h, m)
    <3>1. h = [k \in 0..m |-> h[k]]
      OBVIOUS
    <3> HIDE DEF h
    <3> QED BY <2>6, <3>1
  <2> QED BY <2>1, <2>7
<1> QED BY <1>1 DEF IsRun

\* The values of a run.
LEMMA RunValues ==
  ASSUME NEW kind, NEW g, NEW x, NEW first, NEW n \in Nat, NEW f, IsRun(f, kind, g, x, first, n)
  PROVE  f[0] = first /\ \A k \in 1..n : f[k] = Turn(kind, g, x, k, f[k - 1])
<1> DEFINE Turned(k, before) == Turn(kind, g, x, k, before)
<1>1. f = [k \in 0..n |-> IF k = 0 THEN first ELSE Turned(k, f[k - 1])]
  BY DEF IsRun
<1> HIDE DEF Turned
<1>2. \A k \in 0..n : f[k] = IF k = 0 THEN first ELSE Turned(k, f[k - 1])
  BY <1>1
<1>3. 0 \in 0..n /\ \A k \in 1..n : k \in 0..n /\ k # 0
  OBVIOUS
<1>4. f[0] = first /\ \A k \in 1..n : f[k] = Turned(k, f[k - 1])
  BY <1>2, <1>3
<1> QED BY <1>4 DEF Turned

LEMMA ExpansionsDefined ==
  ASSUME NEW g, NEW id, MostExpansions(g) \in Nat
  PROVE  /\ Expansions(g, id)[0] =
              [visited |-> <<>>, frontier |-> <<[id |-> id, via |-> <<>>]>>]
         /\ \A k \in 1..MostExpansions(g) :
              Expansions(g, id)[k] = Expand(g, Expansions(g, id)[k - 1])
<1> DEFINE n == MostExpansions(g)
           first == [visited |-> <<>>, frontier |-> <<[id |-> id, via |-> <<>>]>>]
           Defines(f) == f = [k \in 0..n |-> IF k = 0 THEN first ELSE Expand(g, f[k - 1])]
           run == Expansions(g, id)
<1>1. \A f : Defines(f) <=> IsRun(f, "expand", g, id, first, n)
  <2> HIDE DEF n, first
  <2> QED BY DEF IsRun, Turn
<1>2. run = CHOOSE f : Defines(f)
  BY DEF Expansions
<1> HIDE DEF Defines, n, first
<1>3. \E f : Defines(f)
  BY <1>1, RunExists DEF n
<1> HIDE DEF run
<1>4. IsRun(run, "expand", g, id, first, n) /\ n \in Nat
  BY <1>1, <1>2, <1>3 DEF n
<1>5. run[0] = first /\ \A k \in 1..n : run[k] = Turn("expand", g, id, k, run[k - 1])
  BY <1>4, RunValues
<1>6. \A k, before : Turn("expand", g, id, k, before) = Expand(g, before)
  BY DEF Turn
<1> QED BY <1>5, <1>6 DEF run, first, n

LEMMA FollowEachDefined ==
  ASSUME NEW g, NEW at, NEW s, Len(g.edges) \in Nat
  PROVE  /\ FollowEach(g, at, s)[0] = s
         /\ \A k \in 1..Len(g.edges) :
              FollowEach(g, at, s)[k] =
                IF g.edges[k].target = at.id
                THEN Follow(at, FollowEach(g, at, s)[k - 1], g.edges[k])
                ELSE FollowEach(g, at, s)[k - 1]
<1> DEFINE n == Len(g.edges)
           Defines(f) == f = [k \in 0..n |->
                                IF k = 0 THEN s
                                ELSE IF g.edges[k].target = at.id
                                     THEN Follow(at, f[k - 1], g.edges[k])
                                     ELSE f[k - 1]]
           after == FollowEach(g, at, s)
<1>1. \A f : Defines(f) <=> IsRun(f, "follow", g, at, s, n)
  <2> HIDE DEF n
  <2> QED BY DEF IsRun, Turn
<1>2. after = CHOOSE f : Defines(f)
  BY DEF FollowEach
<1> HIDE DEF Defines, n
<1>3. \E f : Defines(f)
  BY <1>1, RunExists DEF n
<1> HIDE DEF after
<1>4. IsRun(after, "follow", g, at, s, n)
  BY <1>1, <1>2, <1>3
<1>5. n \in Nat
  BY DEF n
<1>6. after[0] = s /\ \A k \in 1..n : after[k] = Turn("follow", g, at, k, after[k - 1])
  BY <1>4, <1>5, RunValues DEF IsRun
<1>7. \A k, before :
        Turn("follow", g, at, k, before) =
          IF g.edges[k].target = at.id THEN Follow(at, before, g.edges[k]) ELSE before
  BY DEF Turn
<1> QED BY <1>6, <1>7 DEF after, n

LEMMA ImpactsDefined ==
  ASSUME NEW g, NEW ids, Len(ids) \in Nat
  PROVE  /\ Impacts(g, ids)[0] = <<>>
         /\ \A k \in 1..Len(ids) :
              Impacts(g, ids)[k] =
                Joined(Impacts(g, ids)[k - 1], Downstream(g, ids[k]), ids[k])
<1> DEFINE n == Len(ids)
           Defines(f) == f = [k \in 0..n |->
                                IF k = 0 THEN <<>>
                                ELSE Joined(f[k - 1], Downstream(g, ids[k]), ids[k])]
           all == Impacts(g, ids)
<1>1. \A f : Defines(f) <=> IsRun(f, "join", g, ids, <<>>, n)
  <2> HIDE DEF n
  <2> QED BY DEF IsRun, Turn
<1>2. all = CHOOSE f : Defines(f)
  BY DEF Impacts
<1> HIDE DEF Defines, n
<1>3. \E f : Defines(f)
  BY <1>1, RunExists DEF n
<1> HIDE DEF all
<1>4. IsRun(all, "join", g, ids, <<>>, n)
  BY <1>1, <1>2, <1>3
<1>5. n \in Nat
  BY DEF n
<1>6. all[0] = <<>> /\ \A k \in 1..n : all[k] = Turn("join", g, ids, k, all[k - 1])
  BY <1>4, <1>5, RunValues DEF IsRun
<1>7. \A k, before :
        Turn("join", g, ids, k, before) =
          Joined(before, Downstream(g, ids[k]), ids[k])
  BY DEF Turn
<1> QED BY <1>6, <1>7 DEF all, n

-----------------------------------------------------------------------------
(***************************************************************************)
(* Runs of the report that change nothing any more, or have not yet.       *)
(***************************************************************************)

\* Edges of other nodes are passed over.
LEMMA OthersArePassedOver ==
  ASSUME NEW g, NEW at, NEW s, Len(g.edges) \in Nat,
         NEW from \in 0..Len(g.edges), NEW to \in from..Len(g.edges),
         \A i \in (from + 1)..to : g.edges[i].target # at.id
  PROVE  FollowEach(g, at, s)[to] = FollowEach(g, at, s)[from]
<1> DEFINE after == FollowEach(g, at, s)
           Moved == {i \in from..to : after[i] # after[from]}
<1>1. \A k \in 1..Len(g.edges) : g.edges[k].target # at.id => after[k] = after[k - 1]
  BY FollowEachDefined
<1> HIDE DEF after
<1> SUFFICES ASSUME Moved # {} PROVE FALSE
  BY DEF after
<1>2. PICK i \in Moved : \A j \in Moved : i <= j
  <2>1. Moved \subseteq Nat
    OBVIOUS
  <2> HIDE DEF Moved
  <2> QED BY <2>1, LeastMember
<1>3. i \in (from + 1)..to /\ i \in 1..Len(g.edges) /\ i - 1 \in from..to /\ ~ (i <= i - 1)
  BY <1>2
<1>4. after[i - 1] = after[from]
  BY <1>2, <1>3
<1> QED BY <1>1, <1>2, <1>3, <1>4

\* A search with nothing left to expand stays as it is.
LEMMA EndedSearchStays ==
  ASSUME NEW g, NEW id, MostExpansions(g) \in Nat, NEW n \in 0..MostExpansions(g),
         Expansions(g, id)[n].frontier = <<>>
  PROVE  Downstream(g, id) = Expansions(g, id)[n].visited
<1> DEFINE run == Expansions(g, id)
           most == MostExpansions(g)
           Moved == {i \in n..most : run[i] # run[n]}
<1>1. \A k \in 1..most : run[k] = Expand(g, run[k - 1])
  BY ExpansionsDefined
<1>2. Downstream(g, id) = run[most].visited
  BY DEF Downstream
<1> most \in Nat /\ n \in 0..most
  OBVIOUS
<1>3. run[n].frontier = <<>>
  OBVIOUS
<1> HIDE DEF run, most
<1> SUFFICES ASSUME Moved # {} PROVE FALSE
  BY <1>2 DEF run
<1>4. PICK i \in Moved : \A j \in Moved : i <= j
  <2>1. Moved \subseteq Nat
    OBVIOUS
  <2> HIDE DEF Moved
  <2> QED BY <2>1, LeastMember
<1>5. i \in 1..most /\ i - 1 \in n..most /\ ~ (i <= i - 1)
  BY <1>4
<1>6. run[i - 1] = run[n]
  BY <1>4, <1>5
<1>7. run[i] = run[n]
  BY <1>1, <1>3, <1>5, <1>6 DEF Expand
<1> QED BY <1>4, <1>7

\* What the first objects have is not changed by one that comes after them.
LEMMA ImpactOfOneMore ==
  ASSUME NEW g, NEW S, NEW ids \in Seq(S), NEW id \in S
  PROVE  Impact(g, Append(ids, id)) =
           Joined(Impact(g, ids), Downstream(g, id), id)
<1> DEFINE more == Append(ids, id)
           n == Len(ids)
           all == Impacts(g, ids)
           longer == Impacts(g, more)
           Down(x) == Downstream(g, x)
           Join(before, x) == Joined(before, Down(x), x)
           Other == {k \in 0..n : longer[k] # all[k]}
<1>1. n \in Nat /\ Len(more) = n + 1 /\ more[n + 1] = id /\ \A k \in 1..n : more[k] = ids[k]
  BY LenProperties
<1>2. all[0] = <<>> /\ \A k \in 1..n : all[k] = Join(all[k - 1], ids[k])
  BY <1>1, ImpactsDefined
<1>3. longer[0] = <<>> /\ \A k \in 1..(n + 1) : longer[k] = Join(longer[k - 1], more[k])
  <2> HIDE DEF more, n
  <2>1. Len(more) \in Nat
    BY <1>1
  <2> QED BY <1>1, <2>1, ImpactsDefined
<1>4. Impact(g, ids) = all[n] /\ Impact(g, more) = longer[n + 1]
  BY <1>1 DEF Impact
<1> HIDE DEF more, n, all, longer, Join
<1>5. Other = {}
  <2> SUFFICES ASSUME Other # {} PROVE FALSE
    OBVIOUS
  <2>1. PICK i \in Other : \A j \in Other : i <= j
    <3>1. Other \subseteq Nat
      BY <1>1
    <3> HIDE DEF Other
    <3> QED BY <3>1, LeastMember
  <2>2. i # 0
    BY <1>2, <1>3, <2>1
  <2>3. i \in 1..n /\ i \in 1..(n + 1) /\ i - 1 \in 0..n /\ ~ (i <= i - 1)
    BY <1>1, <2>1, <2>2
  <2>4. longer[i - 1] = all[i - 1]
    BY <2>1, <2>3
  <2>5. longer[i] = all[i]
    BY <1>1, <1>2, <1>3, <2>3, <2>4
  <2> QED BY <2>1, <2>5
<1>6. longer[n] = all[n]
  BY <1>1, <1>5
<1>7. longer[n + 1] = Join(longer[n], id)
  <2>1. n + 1 \in 1..(n + 1) /\ (n + 1) - 1 = n
    BY <1>1
  <2> QED BY <1>1, <1>3, <2>1
<1> QED BY <1>4, <1>6, <1>7 DEF Join, more

\* A sequence without the member that was appended, and the other way round.
LEMMA FrontOfAppended ==
  ASSUME NEW S, NEW s \in Seq(S)
  PROVE  /\ \A x \in S : Front(Append(s, x)) = s
         /\ s # <<>> => Front(s) \in Seq(S) /\ Last(s) \in S /\ s = Append(Front(s), Last(s))
<1>1. Len(s) \in Nat /\ \A i \in 1..Len(s) : s[i] \in S
  BY LenProperties
<1>2. ASSUME NEW x \in S PROVE Front(Append(s, x)) = s
  <2> DEFINE t == Append(s, x)
  <2>1. t \in Seq(S) /\ t # <<>> /\ Len(t) = Len(s) + 1 /\ \A i \in 1..Len(s) : t[i] = s[i]
    BY <1>1, EmptySeq
  <2> HIDE DEF t
  <2>2. Front(t) \in Seq(S) /\ Len(Front(t)) = Len(t) - 1 /\ \A i \in 1..(Len(t) - 1) : Front(t)[i] = t[i]
    BY <2>1, FrontOf
  <2>3. Len(Front(t)) = Len(s) /\ \A i \in 1..Len(s) : Front(t)[i] = s[i]
    BY <1>1, <2>1, <2>2
  <2>4. Front(t) = s
    BY <2>2, <2>3, SeqEqual
  <2> QED BY <2>4 DEF t
<1>3. ASSUME s # <<>> PROVE Front(s) \in Seq(S) /\ Last(s) \in S /\ s = Append(Front(s), Last(s))
  <2> DEFINE f == Front(s)
             x == Last(s)
  <2>1. Len(s) > 0 /\ x = s[Len(s)] /\ x \in S
    BY <1>1, <1>3, EmptySeq DEF Last
  <2>2. f \in Seq(S) /\ Len(f) = Len(s) - 1 /\ \A i \in 1..(Len(s) - 1) : f[i] = s[i]
    BY <1>3, FrontOf
  <2> HIDE DEF f, x
  <2>3. /\ Append(f, x) \in Seq(S) /\ Len(Append(f, x)) = Len(s)
        /\ \A i \in 1..(Len(s) - 1) : Append(f, x)[i] = s[i]
        /\ Append(f, x)[Len(s)] = s[Len(s)]
    BY <1>1, <2>1, <2>2
  <2>4. \A i \in 1..Len(s) : Append(f, x)[i] = s[i]
    BY <1>1, <2>3
  <2>5. s = Append(f, x)
    BY <2>3, <2>4, SeqEqual
  <2> QED BY <2>1, <2>2, <2>5 DEF f, x
<1> QED BY <1>2, <1>3

-----------------------------------------------------------------------------
(***************************************************************************)
(* The downstream search is the report's, step by step.                    *)
(***************************************************************************)
ReportInv == ListsInv /\ SearchIsReported /\ ListIsReported

\* What was found is a finite set of nodes of the graph.
LEMMA FoundAreNodes ==
  ASSUME BlastInv, Searching
  PROVE  /\ MostExpansions(graph) = Cardinality(DOMAIN graph.node) + 1
         /\ MostExpansions(graph) \in Nat
         /\ IsFiniteSet(DOMAIN visited) /\ Cardinality(DOMAIN visited) \in Nat
         /\ Cardinality(DOMAIN visited) + 1 <= MostExpansions(graph)
<1>1. IsFiniteSet(DOMAIN graph.node) /\ Cardinality(DOMAIN graph.node) \in Nat
  BY GraphAssumption, FS_CardinalityType DEF BlastInv, TypeOK
<1>2. DOMAIN visited \subseteq DOMAIN graph.node
  <2> SUFFICES ASSUME NEW id \in DOMAIN visited PROVE id \in DOMAIN graph.node
    OBVIOUS
  <2>1. visited[id] \in Found /\ visited[id].id = id
    BY SearchState DEF BlastInv, EvidenceIsAPath, Reached
  <2> QED BY <2>1 DEF Found
<1>3. /\ IsFiniteSet(DOMAIN visited) /\ Cardinality(DOMAIN visited) \in Nat
      /\ Cardinality(DOMAIN visited) <= Cardinality(DOMAIN graph.node)
  BY <1>1, <1>2, FS_Subset, FS_CardinalityType
<1> QED BY <1>1, <1>3 DEF MostExpansions

\* When the node expanded has no edges left, the expansion has ended.
LEMMA ExpansionEnds ==
  ASSUME BlastInv, search = "down", Remaining = {},
         NEW n \in 0..MostExpansions(graph), Expanding(n)
  PROVE  Traversed = Expansions(graph, Changed)[n]
<1> DEFINE run == Expansions(graph, Changed)
           before == run[n - 1]
           rest == Popped(before)
<1>1. CASE n = 0
  BY <1>1 DEF Expanding
<1>2. CASE n # 0
  <2>1. n \in 1..MostExpansions(graph) /\ MostExpansions(graph) \in Nat
    BY <1>2, FoundAreNodes DEF Searching
  <2>2. run[n] = Expand(graph, before)
    BY <2>1, ExpansionsDefined
  <2>3. /\ before.frontier # <<>> /\ expanding = Head(before.frontier)
        /\ Traversed = IF Hops(expanding) >= MaxHops THEN rest
                       ELSE FollowEach(graph, expanding, rest)[followed]
    BY <1>2 DEF Expanding
  <2>4. FollowEach(graph, expanding, rest)[Len(graph.edges)] =
          FollowEach(graph, expanding, rest)[followed]
    <3>1. followed \in 0..Len(graph.edges) /\ Len(graph.edges) \in Nat
          /\ DOMAIN graph.edges = 1..Len(graph.edges)
      BY EdgesOfGraph DEF BlastInv, TypeOK, Searching
    <3>2. \A i \in (followed + 1)..Len(graph.edges) : graph.edges[i].target # expanding.id
      <4> TAKE i \in (followed + 1)..Len(graph.edges)
      <4>1. i \in DOMAIN graph.edges /\ i > followed /\ i \notin Remaining
        BY <3>1
      <4> QED BY <4>1 DEF Remaining, Near
    <3> DEFINE r == rest
               q == Len(graph.edges)
    <3>3. q \in followed..Len(graph.edges)
      BY <3>1
    <3>4. \A i \in (followed + 1)..q : graph.edges[i].target # expanding.id
      BY <3>2
    <3> HIDE DEF r, q
    <3>5. FollowEach(graph, expanding, r)[q] =
            FollowEach(graph, expanding, r)[followed]
      BY <3>1, <3>3, <3>4, OthersArePassedOver
    <3> QED BY <3>5 DEF r, q
  <2> HIDE DEF before
  <2>5. Expand(graph, before) =
          IF Hops(expanding) >= MaxHops THEN rest
          ELSE FollowEach(graph, expanding, rest)[Len(graph.edges)]
    BY <2>3 DEF Expand, Hops
  <2> QED BY <2>2, <2>3, <2>4, <2>5
<1> QED BY <1>1, <1>2

\* The next node of the frontier is expanded: the report's next expansion.
LEMMA PopIsReported ==
  ASSUME ReportInv, Pop, search = "down"
  PROVE  SearchIsReported'
<1> DEFINE run == Expansions(graph, Changed)
           most == MostExpansions(graph)
<1>1. PICK n \in 0..most : Expanding(n) /\ n + Len(frontier) = Cardinality(DOMAIN visited) + 1
  BY DEF ReportInv, SearchIsReported
<1>2. /\ Remaining = {} /\ frontier # <<>>
      /\ frontier' = Tail(frontier) /\ expanding' = Head(frontier)
      /\ followed' = IF Hops(Head(frontier)) >= MaxHops THEN Len(graph.edges) ELSE 0
      /\ UNCHANGED <<graph, todo, search, visited, direct, downstream, upstream>>
  BY DEF Pop, results
<1>3. BlastInv /\ Searching
  BY DEF ReportInv, ListsInv, Searching
<1>4. Traversed = run[n]
  BY <1>1, <1>2, <1>3, ExpansionEnds
<1>5. /\ Len(frontier) \in Nat \ {0} /\ Len(frontier') = Len(frontier) - 1
      /\ Head(frontier) \in Found
  BY <1>2, <1>3, EmptySeq, LenProperties, HeadTailProperties DEF BlastInv, TypeOK
<1>6. /\ most \in Nat /\ Cardinality(DOMAIN visited) \in Nat
      /\ Cardinality(DOMAIN visited) + 1 <= most
  BY <1>3, FoundAreNodes
<1>7. n + 1 \in 0..most /\ n + 1 # 0 /\ (n + 1) - 1 = n
      /\ (n + 1) + Len(frontier') = Cardinality(DOMAIN visited) + 1
  <2> HIDE DEF most
  <2> QED BY <1>1, <1>5, <1>6
<1>8. run[n].frontier = frontier /\ run[n].visited = visited
  BY <1>4 DEF Traversed
<1>9. Traversed' = Popped(run[n])
  BY <1>2, <1>8 DEF Traversed, Popped
<1>10. FollowEach(graph, expanding', Popped(run[n]))[0] = Popped(run[n])
  <2>1. Len(graph.edges) \in Nat
    BY <1>3, EdgesOfGraph DEF BlastInv, TypeOK
  <2> DEFINE r == Popped(run[n])
  <2> HIDE DEF r
  <2>2. FollowEach(graph, expanding', r)[0] = r
    BY <2>1, FollowEachDefined
  <2> QED BY <2>2 DEF r
<1>11. Expanding(n + 1)'
  <2>1. Changed' = Changed
    BY <1>2 DEF Changed
  <2>2. /\ run[n].frontier # <<>> /\ expanding' = Head(run[n].frontier)
        /\ Traversed' = IF Hops(expanding') >= MaxHops THEN Popped(run[n])
                        ELSE FollowEach(graph, expanding', Popped(run[n]))[followed']
    BY <1>2, <1>8, <1>9, <1>10
  <2> QED BY <1>2, <1>7, <2>1, <2>2 DEF Expanding, Hops
<1> QED BY <1>1, <1>2, <1>7, <1>11 DEF SearchIsReported

\* An edge is followed: those before it were of other nodes, or followed.
LEMMA FollowIsReported ==
  ASSUME ReportInv, FollowEdge, search = "down"
  PROVE  SearchIsReported'
<1> DEFINE run == Expansions(graph, Changed)
           most == MostExpansions(graph)
           edges == graph.edges
           p == NextPosition
<1>1. PICK n \in 0..most : Expanding(n) /\ n + Len(frontier) = Cardinality(DOMAIN visited) + 1
  BY DEF ReportInv, SearchIsReported
<1>2. /\ Remaining # {} /\ followed' = p
      /\ UNCHANGED <<graph, todo, search, expanding, direct, downstream, upstream>>
  BY DEF FollowEdge, results
<1>3. BlastInv /\ Searching /\ n # 0 /\ TypeOK /\ FrontierIsFound
  BY <1>1, <1>2 DEF ReportInv, ListsInv, Searching, Expanding, BlastInv
<1>4. Hops(expanding) < MaxHops /\ Hops(expanding) \in Nat /\ MaxHops \in Nat
  BY <1>2, <1>3, SearchState, MaxHopsAssumption DEF FrontierIsFound
<1> DEFINE before == run[n - 1]
           rest == Popped(before)
           After(i) == FollowEach(graph, expanding, rest)[i]
<1>5. /\ before.frontier # <<>> /\ expanding = Head(before.frontier)
      /\ Traversed = After(followed)
  BY <1>1, <1>3, <1>4 DEF Expanding
<1>6. /\ p \in 1..Len(edges) /\ Len(edges) \in Nat /\ DOMAIN edges = 1..Len(edges)
      /\ p > followed /\ followed \in 0..Len(edges)
      /\ edges[p].target = expanding.id /\ NextEdge = edges[p]
      /\ \A i \in Remaining : p <= i
  BY <1>2, <1>3, NextIsFirst, EdgesOfGraph DEF TypeOK, Remaining, Near, NextEdge, Searching
<1>7. After(p - 1) = After(followed)
  <2>1. \A i \in (followed + 1)..(p - 1) : edges[i].target # expanding.id
    <3> TAKE i \in (followed + 1)..(p - 1)
    <3>1. i \in 1..Len(edges) /\ i > followed /\ ~ (p <= i)
      BY <1>6
    <3>2. i \notin Remaining
      BY <1>6, <3>1
    <3> QED BY <1>6, <3>1, <3>2 DEF Remaining, Near
  <2>2. p - 1 \in followed..Len(edges)
    BY <1>6
  <2> DEFINE r == rest
             q == p - 1
  <2> HIDE DEF r, q
  <2>3. FollowEach(graph, expanding, r)[q] = FollowEach(graph, expanding, r)[followed]
    BY <1>6, <2>1, <2>2, OthersArePassedOver DEF q
  <2> QED BY <2>3 DEF r, q
<1>8. After(p) = Follow(expanding, After(p - 1), NextEdge)
  <2> DEFINE r == rest
  <2> HIDE DEF r, p
  <2>1. FollowEach(graph, expanding, r)[p] =
          Follow(expanding, FollowEach(graph, expanding, r)[p - 1], edges[p])
    BY <1>6, FollowEachDefined
  <2> QED BY <1>6, <2>1 DEF r
<1>9. After(p) = Follow(expanding, Traversed, NextEdge)
  BY <1>5, <1>7, <1>8
<1>10. NextFound = [id |-> NextEdge.source, via |-> Append(expanding.via, NextEdge)]
  BY DEF NextFound, Far
<1>11. Traversed' = Follow(expanding, Traversed, NextEdge)
  <2>1. Traversed.visited = visited /\ Traversed.frontier = frontier
    BY DEF Traversed
  <2>2. CASE NextFound.id \in DOMAIN visited /\ Hops(visited[NextFound.id]) <= Hops(NextFound)
    <3>1. Traversed' = Traversed
      BY <2>2 DEF FollowEdge, Traversed
    <3> QED BY <1>10, <2>1, <2>2, <3>1 DEF Follow, Hops
  <2>3. CASE ~ (NextFound.id \in DOMAIN visited /\ Hops(visited[NextFound.id]) <= Hops(NextFound))
    <3>1. Traversed' = [visited |-> [i \in DOMAIN visited \cup {NextFound.id} |->
                                       IF i = NextFound.id THEN NextFound ELSE visited[i]],
                        frontier |-> Append(frontier, NextFound)]
      BY <2>3 DEF FollowEdge, Visit, Traversed
    <3> QED BY <1>10, <2>1, <2>3, <3>1 DEF Follow, Hops
  <2> QED BY <2>2, <2>3
<1>12. n + Len(frontier') = Cardinality(DOMAIN visited') + 1
  <2>1. frontier \in Seq(Found) /\ Len(frontier) \in Nat
    BY <1>3, LenProperties DEF TypeOK
  <2>2. CASE UNCHANGED <<visited, frontier>>
    BY <1>1, <2>2
  <2>3. CASE NextFound.id \notin DOMAIN visited /\ Visit(NextFound)
    <3>1. DOMAIN visited' = DOMAIN visited \cup {NextFound.id} /\ frontier' = Append(frontier, NextFound)
      BY <2>3 DEF Visit
    <3>2. NextFound \in Found
      BY <1>2, <1>3, NextIsReached
    <3>3. Len(frontier') = Len(frontier) + 1
      BY <2>1, <3>1, <3>2
    <3>4. IsFiniteSet(DOMAIN visited) /\ Cardinality(DOMAIN visited) \in Nat
      BY <1>3, FoundAreNodes
    <3>5. Cardinality(DOMAIN visited') = Cardinality(DOMAIN visited) + 1
      BY <2>3, <3>1, <3>4, FS_AddElement
    <3> QED BY <1>1, <2>1, <3>3, <3>4, <3>5
  <2> QED BY <1>3, <2>2, <2>3, FoundOnce
<1>13. Expanding(n)'
  <2>1. Changed' = Changed
    BY <1>2 DEF Changed
  <2>2. /\ before.frontier # <<>> /\ expanding' = Head(before.frontier)
        /\ Traversed' = FollowEach(graph, expanding', rest)[followed']
        /\ ~ (Hops(expanding') >= MaxHops)
    BY <1>2, <1>4, <1>5, <1>9, <1>11 DEF Hops
  <2> HIDE DEF rest
  <2> QED BY <1>2, <1>3, <2>1, <2>2 DEF Expanding, Hops, rest
<1> QED BY <1>1, <1>2, <1>12, <1>13 DEF SearchIsReported

\* A search begins where the report's does.
LEMMA BeginIsReported ==
  ASSUME ReportInv, Begin, BlastInv'
  PROVE  SearchIsReported' /\ ListIsReported'
<1>1. /\ search = "none" /\ search' = "down"
      /\ frontier' = <<Start(Changed)>> /\ visited' = <<>> /\ followed' = Len(graph.edges)
      /\ direct' = Append(direct, Changed)
      /\ UNCHANGED graph /\ UNCHANGED todo /\ UNCHANGED downstream
  BY DEF Begin, BeginSearch
<1>2. BlastInv /\ TypeOK /\ direct \in Seq(DOMAIN graph.node) /\ Changed \in DOMAIN graph.node
  BY DEF ReportInv, ListsInv, BlastInv, TypeOK, Begin
<1>3. Changed' = Changed
  BY <1>1 DEF Changed
<1>4. MostExpansions(graph) \in Nat
  <2>1. IsFiniteSet(DOMAIN graph.node) /\ Cardinality(DOMAIN graph.node) \in Nat
    BY <1>2, GraphAssumption, FS_CardinalityType DEF TypeOK
  <2> QED BY <2>1 DEF MostExpansions
<1>5. Expanding(0)'
  <2>1. Remaining' = {}
    BY <1>1, <1>2, EdgesOfGraph DEF Remaining, TypeOK
  <2>2. Traversed' = Expansions(graph, Changed)[0]
    BY <1>1, <1>4, ExpansionsDefined DEF Traversed, Start
  <2> QED BY <1>1, <1>3, <2>1, <2>2 DEF Expanding
<1>6. 0 + Len(frontier') = Cardinality(DOMAIN visited') + 1
  <2>1. DOMAIN visited' = {} /\ Len(frontier') = 1
    BY <1>1, EmptySeq
  <2> QED BY <2>1, FS_EmptySet
<1>7. SearchIsReported'
  BY <1>1, <1>4, <1>5, <1>6 DEF SearchIsReported
<1>8. Front(direct') = direct
  BY <1>1, <1>2, FrontOfAppended
<1> QED BY <1>1, <1>7, <1>8 DEF ReportInv, ListIsReported

\* Steps at which the downstream search is not under way, or stands still.
LEMMA OthersAreReported ==
  ASSUME ReportInv, UNCHANGED <<graph, direct, downstream>>,
         search' # "down", search # "down"
  PROVE  SearchIsReported' /\ ListIsReported'
BY DEF ReportInv, SearchIsReported, ListIsReported

\* The search has ended where the report's has, and adds the same to the list.
LEMMA CollectIsReported ==
  ASSUME ReportInv, CollectDownstream
  PROVE  SearchIsReported' /\ ListIsReported'
<1> DEFINE most == MostExpansions(graph)
           prior == Front(direct)
<1>1. /\ search = "down" /\ Remaining = {} /\ frontier = <<>> /\ Searching
      /\ search' = "up" /\ downstream' = Merge(downstream, visited)
      /\ UNCHANGED graph /\ UNCHANGED direct
  BY DEF CollectDownstream, Exhausted, BeginSearch, Searching
<1>2. /\ BlastInv /\ direct # <<>> /\ Last(direct) = Changed /\ direct \in Seq(DOMAIN graph.node)
      /\ downstream = Impact(graph, prior)
  BY <1>1 DEF ReportInv, ListsInv, ListsAreComplete, ListIsReported, BlastInv, TypeOK
<1>3. PICK n \in 0..most : Expanding(n)
  BY <1>1 DEF ReportInv, SearchIsReported
<1>4. visited = Downstream(graph, Changed)
  <2>1. Traversed = Expansions(graph, Changed)[n]
    BY <1>1, <1>2, <1>3, ExpansionEnds
  <2>2. Traversed.frontier = <<>> /\ Traversed.visited = visited
    BY <1>1 DEF Traversed
  <2>3. most \in Nat
    BY <1>1, <1>2, FoundAreNodes
  <2> QED BY <2>1, <2>2, <2>3, EndedSearchStays
<1>5. prior \in Seq(DOMAIN graph.node) /\ Changed \in DOMAIN graph.node
      /\ direct = Append(prior, Changed)
  BY <1>2, FrontOfAppended
<1>6. Merge(downstream, visited) = Joined(downstream, visited, Changed)
  BY DEF Merge, Joined
<1> HIDE DEF prior
<1>7. Impact(graph, direct) =
        Joined(Impact(graph, prior), Downstream(graph, Changed), Changed)
  BY <1>5, ImpactOfOneMore
<1> QED BY <1>1, <1>2, <1>4, <1>6, <1>7 DEF SearchIsReported, ListIsReported

LEMMA ReportStep == ReportInv /\ [Next]_vars => ReportInv'
<1> SUFFICES ASSUME ReportInv, [Next]_vars PROVE SearchIsReported' /\ ListIsReported'
  BY ListsStep DEF ReportInv
<1>1. BlastInv'
  BY ListsStep DEF ReportInv, ListsInv
<1>2. CASE SkipUnknown
  <2>1. search' # "down" /\ search # "down" /\ UNCHANGED <<graph, direct, downstream>>
    BY <1>2 DEF SkipUnknown, results
  <2> QED BY <2>1, OthersAreReported
<1>3. CASE Begin
  BY <1>1, <1>3, BeginIsReported
<1>4. CASE Pop
  <2>1. UNCHANGED <<graph, search, direct, downstream>>
    BY <1>4 DEF Pop, results
  <2>2. ListIsReported'
    BY <2>1 DEF ReportInv, ListIsReported
  <2>3. SearchIsReported'
    BY <1>4, <2>1, PopIsReported DEF SearchIsReported
  <2> QED BY <2>2, <2>3
<1>5. CASE FollowEdge
  <2>1. UNCHANGED <<graph, search, direct, downstream>>
    BY <1>5 DEF FollowEdge, results
  <2>2. ListIsReported'
    BY <2>1 DEF ReportInv, ListIsReported
  <2>3. SearchIsReported'
    BY <1>5, <2>1, FollowIsReported DEF SearchIsReported
  <2> QED BY <2>2, <2>3
<1>6. CASE CollectDownstream
  BY <1>6, CollectIsReported
<1>7. CASE CollectUpstream
  <2>1. search' # "down" /\ search # "down" /\ UNCHANGED <<graph, direct, downstream>>
    BY <1>7 DEF CollectUpstream, Exhausted
  <2> QED BY <2>1, OthersAreReported
<1>8. CASE UNCHANGED vars
  <2>1. UNCHANGED <<graph, todo, search, frontier, expanding, followed, visited, direct, downstream>>
    BY <1>8 DEF vars
  <2>2. Changed' = Changed /\ Remaining' = Remaining /\ Traversed' = Traversed
    BY <2>1 DEF Changed, Remaining, Traversed
  <2>3. \A n : Expanding(n)' <=> Expanding(n)
    BY <2>1, <2>2 DEF Expanding, Hops
  <2> QED BY <2>1, <2>3 DEF ReportInv, SearchIsReported, ListIsReported
<1> QED BY <1>2, <1>3, <1>4, <1>5, <1>6, <1>7, <1>8 DEF Next

\* For every change, graph and limit: analyze misses nothing within max_hops,
\* and what the pipeline's assessment is computed from is what the search of
\* the analyzer finds, node by node and path by path.
THEOREM NothingIsMissedHolds == Spec => []NothingIsMissed
<1>1. Init => ReportInv
  <2> SUFFICES ASSUME Init PROVE ReportInv
    OBVIOUS
  <2>1. search = "none" /\ direct = <<>> /\ downstream = <<>>
    BY DEF Init
  <2>2. Impact(graph, <<>>) = <<>>
    <3>1. Len(<<>>) = 0 /\ Impact(graph, <<>>) = Impacts(graph, <<>>)[Len(<<>>)]
      BY EmptySeq DEF Impact
    <3> QED BY <3>1, ImpactsDefined
  <2> QED BY <2>1, <2>2, InitLists DEF ReportInv, SearchIsReported, ListIsReported
<1>2. ReportInv => NothingIsMissed
  <2> SUFFICES ASSUME ReportInv PROVE NothingIsMissed
    OBVIOUS
  <2>1. ImpactIsComplete
    BY CompleteByLists DEF ReportInv
  <2> QED BY <2>1 DEF ReportInv, ListIsReported, NothingIsMissed, Done
<1> QED BY <1>1, <1>2, ReportStep, PTL DEF Spec


LEMMA ParsedDefined ==
  ASSUME NEW ss, Len(ss) \in Nat
  PROVE  /\ Parsed(ss)[0] = <<>>
         /\ \A k \in 1..Len(ss) :
              Parsed(ss)[k] = Parsed(ss)[k - 1] \o ParseStatement(ss[k])
<1> DEFINE n == Len(ss)
           Defines(f) == f = [k \in 0..n |-> IF k = 0 THEN <<>> ELSE f[k - 1] \o ParseStatement(ss[k])]
           run == Parsed(ss)
<1>1. \A f : Defines(f) <=> IsRun(f, "parse", 0, ss, <<>>, n)
  <2> HIDE DEF n
  <2> QED BY DEF IsRun, Turn
<1>2. run = CHOOSE f : Defines(f)
  BY DEF Parsed
<1> HIDE DEF Defines, n
<1>3. \E f : Defines(f)
  BY <1>1, RunExists DEF n
<1> HIDE DEF run
<1>4. IsRun(run, "parse", 0, ss, <<>>, n)
  BY <1>1, <1>2, <1>3
<1>5. n \in Nat
  BY DEF n
<1>6. run[0] = <<>> /\ \A k \in 1..n : run[k] = Turn("parse", 0, ss, k, run[k - 1])
  BY <1>4, <1>5, RunValues DEF IsRun
<1> QED BY <1>6 DEF run, n, Turn

LEMMA KeptDefined ==
  ASSUME NEW s, NEW S, Len(s) \in Nat
  PROVE  /\ Kept(s, S)[0] = <<>>
         /\ \A k \in 1..Len(s) :
              Kept(s, S)[k] = IF s[k] \in S THEN Append(Kept(s, S)[k - 1], s[k]) ELSE Kept(s, S)[k - 1]
<1> DEFINE n == Len(s)
           Defines(f) == f = [k \in 0..n |-> IF k = 0 THEN <<>>
                                          ELSE IF s[k] \in S THEN Append(f[k - 1], s[k]) ELSE f[k - 1]]
           run == Kept(s, S)
<1>1. \A f : Defines(f) <=> IsRun(f, "keep", S, s, <<>>, n)
  <2> HIDE DEF n
  <2> QED BY DEF IsRun, Turn
<1>2. run = CHOOSE f : Defines(f)
  BY DEF Kept
<1> HIDE DEF Defines, n
<1>3. \E f : Defines(f)
  BY <1>1, RunExists DEF n
<1> HIDE DEF run
<1>4. IsRun(run, "keep", S, s, <<>>, n)
  BY <1>1, <1>2, <1>3
<1>5. n \in Nat
  BY DEF n
<1>6. run[0] = <<>> /\ \A k \in 1..n : run[k] = Turn("keep", S, s, k, run[k - 1])
  BY <1>4, <1>5, RunValues DEF IsRun
<1> QED BY <1>6 DEF run, n, Turn

LEMMA CountsDefined ==
  ASSUME NEW o, NEW incidents, Len(o) \in Nat
  PROVE  /\ IncidentCounts(o, incidents)[0] = 0
         /\ \A k \in 1..Len(o) :
              IncidentCounts(o, incidents)[k] =
                IncidentCounts(o, incidents)[k - 1] + IncidentsOf(o[k], incidents)
<1> DEFINE n == Len(o)
           Defines(f) == f = [k \in 0..n |-> IF k = 0 THEN 0 ELSE f[k - 1] + IncidentsOf(o[k], incidents)]
           run == IncidentCounts(o, incidents)
<1>1. \A f : Defines(f) <=> IsRun(f, "count", incidents, o, 0, n)
  <2> HIDE DEF n
  <2> QED BY DEF IsRun, Turn
<1>2. run = CHOOSE f : Defines(f)
  BY DEF IncidentCounts
<1> HIDE DEF Defines, n
<1>3. \E f : Defines(f)
  BY <1>1, RunExists DEF n
<1> HIDE DEF run
<1>4. IsRun(run, "count", incidents, o, 0, n)
  BY <1>1, <1>2, <1>3
<1>5. n \in Nat
  BY DEF n
<1>6. run[0] = 0 /\ \A k \in 1..n : run[k] = Turn("count", incidents, o, k, run[k - 1])
  BY <1>4, <1>5, RunValues DEF IsRun
<1> QED BY <1>6 DEF run, n, Turn

LEMMA ProductsDefined ==
  ASSUME NEW path, Len(path) \in Nat
  PROVE  /\ Products(path)[0] = 1
         /\ \A k \in 1..Len(path) :
              Products(path)[k] = Products(path)[k - 1] * path[k].confidence
<1> DEFINE n == Len(path)
           Defines(f) == f = [k \in 0..n |-> IF k = 0 THEN 1 ELSE f[k - 1] * path[k].confidence]
           run == Products(path)
<1>1. \A f : Defines(f) <=> IsRun(f, "product", 0, path, 1, n)
  <2> HIDE DEF n
  <2> QED BY DEF IsRun, Turn
<1>2. run = CHOOSE f : Defines(f)
  BY DEF Products
<1> HIDE DEF Defines, n
<1>3. \E f : Defines(f)
  BY <1>1, RunExists DEF n
<1> HIDE DEF run
<1>4. IsRun(run, "product", 0, path, 1, n)
  BY <1>1, <1>2, <1>3
<1>5. n \in Nat
  BY DEF n
<1>6. run[0] = 1 /\ \A k \in 1..n : run[k] = Turn("product", 0, path, k, run[k - 1])
  BY <1>4, <1>5, RunValues DEF IsRun
<1> QED BY <1>6 DEF run, n, Turn

-----------------------------------------------------------------------------
(***************************************************************************)
(* The policy's rules: what each of them asks, and what it does.           *)
(***************************************************************************)
\* What is under a key, where there is such a key.
Selected(found, key) == {d[key] : d \in {e \in found : key \in DOMAIN e}}

Follows(at, document, path) ==
  /\ Resolve(document, path) = at[Len(path)]
  /\ at[0] = {document}
  /\ \A k \in 1..Len(path) : at[k] = Selected(at[k - 1], path[k])

LEMMA ResolvedDefined ==
  ASSUME NEW document, NEW path, Len(path) \in Nat
  PROVE  \E at : Follows(at, document, path)
<1> DEFINE n == Len(path)
           first == {document}
           Defines(f) == f = [k \in 0..n |->
                                IF k = 0 THEN first
                                ELSE {d[path[k]] : d \in {e \in f[k - 1] : path[k] \in DOMAIN e}}]
           run == CHOOSE f : Defines(f)
<1>1. \A f : Defines(f) <=> IsRun(f, "resolve", 0, path, first, n)
  <2> HIDE DEF n, first
  <2> QED BY DEF IsRun, Turn
<1>2. Resolve(document, path) = run[n]
  BY DEF Resolve
<1> HIDE DEF Defines, n, first
<1>3. \E f : Defines(f)
  BY <1>1, RunExists DEF n
<1>4. Defines(run)
  BY <1>3
<1> HIDE DEF run
<1>5. IsRun(run, "resolve", 0, path, first, n)
  BY <1>1, <1>4
<1>6. n \in Nat
  BY DEF n
<1> HIDE DEF n
<1>7. /\ run[0] = first
      /\ \A k \in 1..n : run[k] = Turn("resolve", 0, path, k, run[k - 1])
  BY <1>5, <1>6, RunValues DEF IsRun
<1> QED BY <1>2, <1>7 DEF n, first, Turn, Selected, Follows

\* A field of the document, and one that is nested.
LEMMA ResolvedField ==
  ASSUME NEW document, NEW a \in DOMAIN document
  PROVE  Resolve(document, <<a>>) = {document[a]}
<1> DEFINE path == <<a>>
<1>1. Len(path) = 1 /\ Len(path) \in Nat /\ path[1] = a
  OBVIOUS
<1> HIDE DEF path
<1>2. PICK at : Follows(at, document, path)
  BY <1>1, ResolvedDefined
<1>3. at[1] = Selected(at[0], a)
  BY <1>1, <1>2 DEF Follows
<1>4. {e \in at[0] : a \in DOMAIN e} = {document}
  BY <1>2 DEF Follows
<1> QED BY <1>1, <1>2, <1>3, <1>4 DEF path, Selected, Follows

LEMMA ResolvedNested ==
  ASSUME NEW document, NEW a \in DOMAIN document, NEW b \in DOMAIN document[a],
         NEW c \in DOMAIN document[a][b]
  PROVE  Resolve(document, <<a, b, c>>) = {document[a][b][c]}
<1> DEFINE path == <<a, b, c>>
<1>1. Len(path) = 3 /\ Len(path) \in Nat /\ path[1] = a /\ path[2] = b /\ path[3] = c
  OBVIOUS
<1> HIDE DEF path
<1>2. PICK at : Follows(at, document, path)
  BY <1>1, ResolvedDefined
<1>3. /\ at[1] = Selected(at[0], a)
      /\ at[2] = Selected(at[1], b)
      /\ at[3] = Selected(at[2], c)
  BY <1>1, <1>2 DEF Follows
<1>4. at[1] = {document[a]}
  <2>1. {e \in at[0] : a \in DOMAIN e} = {document}
    BY <1>2 DEF Follows
  <2> QED BY <1>3, <2>1 DEF Selected
<1>5. at[2] = {document[a][b]}
  <2>1. {e \in at[1] : b \in DOMAIN e} = {document[a]}
    BY <1>4
  <2> QED BY <1>3, <2>1 DEF Selected
<1>6. at[3] = {document[a][b][c]}
  <2>1. {e \in at[2] : c \in DOMAIN e} = {document[a][b]}
    BY <1>5
  <2> QED BY <1>3, <2>1 DEF Selected
<1> QED BY <1>1, <1>2, <1>6 DEF path, Follows

\* Nothing is at the end of a path that breaks off.
LEMMA ResolvedMissing ==
  ASSUME NEW document, NEW a \in DOMAIN document, NEW b, b \notin DOMAIN document[a], NEW c
  PROVE  Resolve(document, <<a, b, c>>) = {}
<1> DEFINE path == <<a, b, c>>
<1>1. Len(path) = 3 /\ Len(path) \in Nat /\ path[1] = a /\ path[2] = b /\ path[3] = c
  OBVIOUS
<1> HIDE DEF path
<1>2. PICK at : Follows(at, document, path)
  BY <1>1, ResolvedDefined
<1>3. /\ at[1] = Selected(at[0], a)
      /\ at[2] = Selected(at[1], b)
      /\ at[3] = Selected(at[2], c)
  BY <1>1, <1>2 DEF Follows
<1>4. at[1] = {document[a]}
  <2>1. {e \in at[0] : a \in DOMAIN e} = {document}
    BY <1>2 DEF Follows
  <2> QED BY <1>3, <2>1 DEF Selected
<1>5. at[2] = {}
  BY <1>3, <1>4 DEF Selected
<1>6. at[3] = {}
  BY <1>3, <1>5 DEF Selected
<1> QED BY <1>1, <1>2, <1>6 DEF path, Follows

\* What the conditions ask of the document.  A factor that is left out does
\* not reach any limit.
LEMMA ConditionsAsk ==
  ASSUME NEW found, NEW operations, world.prod \in BOOLEAN
  PROVE  LET document == Document(found, operations) IN
         /\ Holds(Production, document) <=> world.prod
         /\ Holds(Condition(<<"risk_level">>, "in", {"high", "critical"}), document)
              <=> found.level \in {"high", "critical"}
         /\ Holds(Condition(<<"confidence">>, "lt", 6000), document) <=> found.confidence < 6000
         /\ \A f : \A n : Holds(FactorAtLeast(f, n), document)
                            <=> f \in Counted /\ found.scores[f] >= n
<1> DEFINE document == Document(found, operations)
<1>1. /\ "is_production" \in DOMAIN document /\ document.is_production = world.prod
      /\ "risk_level" \in DOMAIN document /\ document.risk_level = found.level
      /\ "confidence" \in DOMAIN document /\ document.confidence = found.confidence
      /\ "factors" \in DOMAIN document
      /\ document["factors"] = [f \in Counted |-> [score |-> found.scores[f]]]
  BY DEF Document
<1> HIDE DEF document
<1>2. Holds(Production, document) <=> world.prod
  <2>1. Resolve(document, <<"is_production">>) = {world.prod}
    BY <1>1, ResolvedField
  <2>2. Holds(Production, document) <=> TRUE \in Resolve(document, <<"is_production">>)
    BY DEF Holds, EvaluateOperator, Condition, Production
  <2>3. TRUE \in {world.prod} <=> world.prod
    OBVIOUS
  <2> QED BY <2>1, <2>2, <2>3
<1>3. Holds(Condition(<<"risk_level">>, "in", {"high", "critical"}), document)
        <=> found.level \in {"high", "critical"}
  <2>1. Resolve(document, <<"risk_level">>) = {found.level}
    BY <1>1, ResolvedField
  <2>2. Holds(Condition(<<"risk_level">>, "in", {"high", "critical"}), document)
          <=> \E a \in Resolve(document, <<"risk_level">>) : a \in {"high", "critical"}
    BY DEF Holds, EvaluateOperator, Condition
  <2> QED BY <2>1, <2>2
<1>4. Holds(Condition(<<"confidence">>, "lt", 6000), document) <=> found.confidence < 6000
  <2>1. Resolve(document, <<"confidence">>) = {found.confidence}
    BY <1>1, ResolvedField
  <2>2. Holds(Condition(<<"confidence">>, "lt", 6000), document)
          <=> \E a \in Resolve(document, <<"confidence">>) : a < 6000
    BY DEF Holds, EvaluateOperator, Condition
  <2> QED BY <2>1, <2>2
<1>5. ASSUME NEW f, NEW n
      PROVE  Holds(FactorAtLeast(f, n), document) <=> f \in Counted /\ found.scores[f] >= n
  <2>1. Holds(FactorAtLeast(f, n), document)
          <=> \E a \in Resolve(document, <<"factors", f, "score">>) : a >= n
    BY DEF Holds, EvaluateOperator, Condition, FactorAtLeast
  <2>2. CASE f \in Counted
    <3>1. f \in DOMAIN document["factors"] /\ "score" \in DOMAIN document["factors"][f]
          /\ document["factors"][f]["score"] = found.scores[f]
      BY <1>1, <2>2
    <3>2. Resolve(document, <<"factors", f, "score">>) = {found.scores[f]}
      BY <1>1, <3>1, ResolvedNested
    <3> QED BY <2>1, <2>2, <3>2
  <2>3. CASE f \notin Counted
    <3>1. Resolve(document, <<"factors", f, "score">>) = {}
      BY <1>1, <2>3, ResolvedMissing
    <3> QED BY <2>1, <2>3, <3>1
  <2> QED BY <2>2, <2>3
<1> QED BY <1>2, <1>3, <1>4, <1>5 DEF document

\* When the rules apply.
LEMMA RulesAsk ==
  ASSUME NEW found, NEW operations, world.prod \in BOOLEAN
  PROVE  LET document == Document(found, operations) IN
         /\ Triggered(RequireApprovalHighRiskProduction, document)
              <=> world.prod /\ found.level \in {"high", "critical"}
         /\ Triggered(EscalateLargeTableBreakingChange, document)
              <=> /\ world.prod
                  /\ "table_size" \in Counted /\ found.scores.table_size >= 75
                  /\ "backward_compatibility" \in Counted
                  /\ found.scores.backward_compatibility >= 55
         /\ Triggered(RequireApprovalDependencyCount, document)
              <=> "dependency_count" \in Counted /\ found.scores.dependency_count >= 85
         /\ Triggered(LowConfidenceManualReview, document) <=> found.confidence < 6000
<1> DEFINE document == Document(found, operations)
<1>1. /\ RequireApprovalHighRiskProduction.conditions =
           <<Production, Condition(<<"risk_level">>, "in", {"high", "critical"})>>
      /\ EscalateLargeTableBreakingChange.conditions =
           <<Production, FactorAtLeast("table_size", 75),
             FactorAtLeast("backward_compatibility", 55)>>
      /\ RequireApprovalDependencyCount.conditions = <<FactorAtLeast("dependency_count", 85)>>
      /\ LowConfidenceManualReview.conditions = <<Condition(<<"confidence">>, "lt", 6000)>>
  BY DEF Rule, RequireApprovalHighRiskProduction, EscalateLargeTableBreakingChange,
         RequireApprovalDependencyCount, LowConfidenceManualReview
<1>2. Triggered(RequireApprovalHighRiskProduction, document) <=>
        /\ Holds(Production, document)
        /\ Holds(Condition(<<"risk_level">>, "in", {"high", "critical"}), document)
  BY <1>1 DEF Triggered
<1>3. Triggered(EscalateLargeTableBreakingChange, document) <=>
        /\ Holds(Production, document)
        /\ Holds(FactorAtLeast("table_size", 75), document)
        /\ Holds(FactorAtLeast("backward_compatibility", 55), document)
  BY <1>1 DEF Triggered
<1>4. Triggered(RequireApprovalDependencyCount, document)
        <=> Holds(FactorAtLeast("dependency_count", 85), document)
  BY <1>1 DEF Triggered
<1>5. Triggered(LowConfidenceManualReview, document)
        <=> Holds(Condition(<<"confidence">>, "lt", 6000), document)
  BY <1>1 DEF Triggered
<1> QED BY <1>2, <1>3, <1>4, <1>5, ConditionsAsk

ManualReview == Recommend("manual review", FALSE)

\* What the rules do.
LEMMA RulesDo ==
  /\ Range(DefaultRules) =
       {RequireApprovalHighRiskProduction, EscalateLargeTableBreakingChange,
        RecommendOnlineIndex, RequireApprovalDependencyCount, LowConfidenceManualReview}
  /\ RequireApprovalHighRiskProduction.level = None
  /\ RequireApprovalHighRiskProduction.approve = TRUE
  /\ EscalateLargeTableBreakingChange.level = "critical"
  /\ EscalateLargeTableBreakingChange.approve = TRUE
  /\ RecommendOnlineIndex.level = None
  /\ RecommendOnlineIndex.approve = FALSE
  /\ RequireApprovalDependencyCount.level = None
  /\ RequireApprovalDependencyCount.approve = TRUE
  /\ LowConfidenceManualReview.level = None
  /\ LowConfidenceManualReview.approve = FALSE
  /\ LowConfidenceManualReview.recommend = {ManualReview}
<1>2. /\ RequireApprovalHighRiskProduction.level = None
      /\ RequireApprovalHighRiskProduction.approve = TRUE
  BY DEF Rule, RequireApprovalHighRiskProduction
<1>3. /\ EscalateLargeTableBreakingChange.level = "critical"
      /\ EscalateLargeTableBreakingChange.approve = TRUE
  BY DEF Rule, EscalateLargeTableBreakingChange
<1>4. RecommendOnlineIndex.level = None /\ RecommendOnlineIndex.approve = FALSE
  BY DEF Rule, RecommendOnlineIndex
<1>5. RequireApprovalDependencyCount.level = None /\ RequireApprovalDependencyCount.approve = TRUE
  BY DEF Rule, RequireApprovalDependencyCount
<1>6. /\ LowConfidenceManualReview.level = None /\ LowConfidenceManualReview.approve = FALSE
      /\ LowConfidenceManualReview.recommend = {ManualReview}
  BY DEF Rule, LowConfidenceManualReview, ManualReview, Recommend
<1>7. /\ DOMAIN DefaultRules = 1..5
      /\ DefaultRules[1] = RequireApprovalHighRiskProduction
      /\ DefaultRules[2] = EscalateLargeTableBreakingChange
      /\ DefaultRules[3] = RecommendOnlineIndex
      /\ DefaultRules[4] = RequireApprovalDependencyCount
      /\ DefaultRules[5] = LowConfidenceManualReview
  BY DEF DefaultRules
<1>8. 1..5 = {1, 2, 3, 4, 5}
  OBVIOUS
<1>9. Range(DefaultRules) = {DefaultRules[i] : i \in {1, 2, 3, 4, 5}}
  BY <1>7, <1>8 DEF Range
<1>10. Range(DefaultRules) =
         {RequireApprovalHighRiskProduction, EscalateLargeTableBreakingChange,
          RecommendOnlineIndex, RequireApprovalDependencyCount, LowConfidenceManualReview}
  BY <1>7, <1>9
<1> QED BY <1>2, <1>3, <1>4, <1>5, <1>6, <1>10, Zenon

\* Whatever order they stand in: a rule gives the highest level or none, and
\* says whether it asks for approval.
LEMMA RulesOfWorld ==
  ASSUME world \in Worlds
  PROVE  /\ Len(world.rules) \in Nat
         /\ {world.rules[i] : i \in 1..Len(world.rules)} = Range(DefaultRules)
         /\ \A i \in 1..Len(world.rules) :
              world.rules[i].level \in {None, "critical"} /\ world.rules[i].approve \in BOOLEAN
<1>1. world.rules \in Seq(Range(world.rules)) /\ Range(world.rules) = Range(DefaultRules)
  BY WorldAssumption
<1>2. /\ DOMAIN world.rules = 1..Len(world.rules) /\ Len(world.rules) \in Nat
      /\ \A i \in 1..Len(world.rules) : world.rules[i] \in Range(DefaultRules)
  BY <1>1, LenProperties
<1>3. {world.rules[i] : i \in 1..Len(world.rules)} = Range(DefaultRules)
  BY <1>1, <1>2 DEF Range
<1>4. \A r \in Range(DefaultRules) : r.level \in {None, "critical"} /\ r.approve \in BOOLEAN
  <2> SUFFICES ASSUME NEW r \in Range(DefaultRules)
               PROVE  r.level \in {None, "critical"} /\ r.approve \in BOOLEAN
    OBVIOUS
  <2>1. CASE r = RequireApprovalHighRiskProduction
    BY <2>1, RulesDo
  <2>2. CASE r = EscalateLargeTableBreakingChange
    BY <2>2, RulesDo
  <2>3. CASE r = RecommendOnlineIndex
    BY <2>3, RulesDo
  <2>4. CASE r = RequireApprovalDependencyCount
    BY <2>4, RulesDo
  <2>5. CASE r = LowConfidenceManualReview
    BY <2>5, RulesDo
  <2> QED BY <2>1, <2>2, <2>3, <2>4, <2>5, RulesDo
<1> QED BY <1>2, <1>3, <1>4

-----------------------------------------------------------------------------
(***************************************************************************)
(* The stages: what the pipeline has computed, and what it had.            *)
(***************************************************************************)
AssessmentInv == Computed /\ PreviousComputed

\* Each score has a level.
LEMMA LevelsAreGiven ==
  ASSUME NEW score
  PROVE  RiskLevelFor(score) \in Levels
BY DEF RiskLevelFor, Levels

\* The decision after all rules, which does not depend on their order: one
\* escalates, three ask for approval, and one for a review.
LEMMA DecidedBy ==
  ASSUME world \in Worlds, NEW decision, NEW found, NEW operations,
         Decided(decision, Len(world.rules), found, operations)
  PROVE  LET fired(r) == Triggered(r, Document(found, operations)) IN
         /\ decision.level = IF fired(EscalateLargeTableBreakingChange)
                             THEN "critical" ELSE found.level
         /\ decision.approval <=> \/ fired(RequireApprovalHighRiskProduction)
                                  \/ fired(EscalateLargeTableBreakingChange)
                                  \/ fired(RequireApprovalDependencyCount)
         /\ fired(LowConfidenceManualReview) => ManualReview \in decision.extra
<1> DEFINE fired(r) == Triggered(r, Document(found, operations))
           triggered == {r \in Range(DefaultRules) : fired(r)}
<1>1. /\ decision.level = IF \E r \in triggered : r.level = "critical" THEN "critical" ELSE found.level
      /\ decision.approval <=> \E r \in triggered : r.approve
      /\ decision.extra = UNION {r.recommend : r \in triggered}
  BY RulesOfWorld DEF Decided, Heeds
<1> HIDE DEF fired
<1>2. None # "critical"
  BY NoneAssumption DEF Levels
<1>3. \A r \in triggered : /\ fired(r)
                           /\ \/ r = RequireApprovalHighRiskProduction
                              \/ r = EscalateLargeTableBreakingChange
                              \/ r = RecommendOnlineIndex
                              \/ r = RequireApprovalDependencyCount
                              \/ r = LowConfidenceManualReview
  BY RulesDo
<1>4. /\ fired(RequireApprovalHighRiskProduction) => RequireApprovalHighRiskProduction \in triggered
      /\ fired(EscalateLargeTableBreakingChange) => EscalateLargeTableBreakingChange \in triggered
      /\ fired(RequireApprovalDependencyCount) => RequireApprovalDependencyCount \in triggered
      /\ fired(LowConfidenceManualReview) => LowConfidenceManualReview \in triggered
  BY RulesDo
<1> HIDE DEF triggered
<1>5. (\E r \in triggered : r.level = "critical") <=> fired(EscalateLargeTableBreakingChange)
  BY <1>2, <1>3, <1>4, RulesDo, Zenon
<1>6. (\E r \in triggered : r.approve) <=> \/ fired(RequireApprovalHighRiskProduction)
                                           \/ fired(EscalateLargeTableBreakingChange)
                                           \/ fired(RequireApprovalDependencyCount)
  <2>1. ASSUME NEW r \in triggered, r.approve
        PROVE  \/ fired(RequireApprovalHighRiskProduction)
               \/ fired(EscalateLargeTableBreakingChange)
               \/ fired(RequireApprovalDependencyCount)
    <3>1. r # RecommendOnlineIndex /\ r # LowConfidenceManualReview
      BY <2>1, RulesDo, Zenon
    <3> QED BY <1>3, <3>1, Zenon
  <2>2. /\ RequireApprovalHighRiskProduction.approve
        /\ EscalateLargeTableBreakingChange.approve
        /\ RequireApprovalDependencyCount.approve
    BY RulesDo, Zenon
  <2> QED BY <1>4, <2>1, <2>2, Zenon
<1>7. fired(LowConfidenceManualReview) => ManualReview \in decision.extra
  BY <1>1, <1>4, RulesDo
<1> QED BY <1>1, <1>5, <1>6, <1>7, Zenon DEF fired

\* Applying the next rule.
LEMMA RuleDecides ==
  ASSUME AssessmentInv, ApplyRule
  PROVE  /\ rule \in 1..Len(world.rules)
         /\ Decided(verdict', rule, assessment, ops)
<1> DEFINE asked(r) == Triggered(r, Document(assessment, ops))
           before == {r \in {world.rules[i] : i \in 1..(rule - 1)} : asked(r)}
           after == {r \in {world.rules[i] : i \in 1..rule} : asked(r)}
           next == world.rules[rule]
<1>1. /\ Len(world.rules) \in Nat /\ rule \in 1..Len(world.rules)
      /\ next.level \in {None, "critical"} /\ next.approve \in BOOLEAN
  <2>1. world \in Worlds /\ rule \in 1..(Len(world.rules) + 1) /\ rule <= Len(world.rules)
    BY DEF AssessmentInv, Computed, ApplyRule
  <2> QED BY <2>1, RulesOfWorld
<1>2. assessment = AssessmentOf(ops) /\ Decided(verdict, rule - 1, assessment, ops)
  BY DEF AssessmentInv, Computed, ApplyRule
<1>3. /\ verdict.level = IF \E r \in before : r.level = "critical" THEN "critical" ELSE assessment.level
      /\ verdict.approval \in BOOLEAN
      /\ verdict.approval <=> \E r \in before : r.approve
      /\ verdict.extra = UNION {r.recommend : r \in before}
  BY <1>2 DEF Decided, Heeds
<1>4. verdict.level \in Levels
  <2>1. assessment.level \in Levels
    BY <1>2, LevelsAreGiven DEF AssessmentOf, Assessment
  <2>2. "critical" \in Levels
    BY DEF Levels
  <2> HIDE DEF before
  <2> QED BY <1>3, <2>1, <2>2
<1>5. verdict' = IF asked(next) THEN Apply(next) ELSE verdict
  BY DEF ApplyRule
<1>6. after = IF asked(next) THEN before \cup {next} ELSE before
  <2>1. 1..rule = 1..(rule - 1) \cup {rule}
    BY <1>1
  <2> HIDE DEF asked
  <2> QED BY <2>1
<1>7. /\ Apply(next).level = Escalated(verdict.level, next.level)
      /\ Apply(next).approval = (verdict.approval \/ next.approve)
      /\ Apply(next).extra = verdict.extra \cup next.recommend
  BY DEF Apply
<1>8. /\ \A l \in Levels : Escalated(l, None) = l /\ Escalated(l, "critical") = "critical"
      /\ None # "critical"
  BY NoneAssumption DEF Levels, Rank, Escalated
<1> HIDE DEF asked, before, after, next
<1>9. verdict'.level = IF \E r \in after : r.level = "critical" THEN "critical" ELSE assessment.level
  BY <1>1, <1>3, <1>4, <1>5, <1>6, <1>7, <1>8
<1>10. verdict'.approval \in BOOLEAN /\ (verdict'.approval <=> \E r \in after : r.approve)
  <2>1. CASE asked(next)
    <3>1. verdict'.approval = (verdict.approval \/ next.approve) /\ after = before \cup {next}
      BY <1>5, <1>6, <1>7, <2>1
    <3>2. verdict'.approval \in BOOLEAN /\ (verdict'.approval <=> verdict.approval \/ next.approve)
      BY <1>1, <1>3, <3>1, Zenon
    <3>3. (\E r \in after : r.approve) <=> (\E r \in before : r.approve) \/ next.approve
      BY <3>1, Zenon
    <3> QED BY <1>3, <3>2, <3>3, Zenon
  <2>2. CASE ~ asked(next)
    <3>1. verdict' = verdict /\ after = before
      BY <1>5, <1>6, <2>2
    <3> QED BY <1>3, <3>1, Zenon
  <2> QED BY <2>1, <2>2
<1>11. verdict'.extra = UNION {r.recommend : r \in after}
  BY <1>3, <1>5, <1>6, <1>7
<1> QED BY <1>1, <1>9, <1>10, <1>11, Zenon DEF Decided, Heeds, after, asked

\* A migration is made of statements that somebody wrote.
LEMMA EditsAreWritten ==
  ASSUME NEW ss \in Seq(Written)
  PROVE  /\ \A s \in Statements : s \in Written /\ Append(ss, s) \in Seq(Written)
         /\ Swapped(ss) \in Seq(Written)
         /\ Len(Swapped(ss)) = Len(ss)
<1>1. Len(ss) \in Nat /\ DOMAIN ss = 1..Len(ss) /\ \A i \in 1..Len(ss) : ss[i] \in Written
  BY LenProperties
<1>2. \A s \in Statements : s \in Written
  BY DEF Written
<1>3. \A s \in Statements : Append(ss, s) \in Seq(Written)
  BY <1>2
<1>4. Swapped(ss) \in Seq(Written) /\ Len(Swapped(ss)) = Len(ss)
  <2> DEFINE n == Len(ss)
             t == [ss EXCEPT ![n] = ss[n - 1], ![n - 1] = ss[n]]
  <2>1. CASE n >= 2
    <3>1. n \in 1..n /\ n - 1 \in 1..n
      BY <1>1, <2>1
    <3>2. /\ t = [i \in 1..n |-> t[i]]
          /\ \A i \in 1..n : t[i] \in Written
      BY <1>1, <3>1
    <3> HIDE DEF t
    <3>3. t \in Seq(Written) /\ Len(t) = n
      BY <1>1, <3>2, IsASeq
    <3>4. Swapped(ss) = t
      BY <2>1 DEF Swapped, t
    <3> QED BY <3>3, <3>4
  <2>2. CASE ~ (n >= 2)
    <3>1. Swapped(ss) = ss
      BY <2>2 DEF Swapped
    <3> QED BY <3>1
  <2> QED BY <2>1, <2>2
<1> QED BY <1>2, <1>3, <1>4

\* A session begins.
LEMMA InitAssessment == RiskInit => AssessmentInv
<1> SUFFICES ASSUME RiskInit PROVE AssessmentInv
  OBVIOUS
<1>1. statements \in Seq(Written)
  <2>1. statements \in Seq(Range(statements)) /\ Range(statements) \subseteq Written
    BY StatementsAssumption DEF RiskInit, Written
  <2> QED BY <2>1, SeqMonotonic
<1>2. Computed
  BY <1>1 DEF Computed, RiskInit
<1>3. PreviousComputed
  BY DEF PreviousComputed, RiskInit
<1> QED BY <1>2, <1>3 DEF AssessmentInv

\* What was known of the previous assessment stays known.
LEMMA SessionStays ==
  ASSUME AssessmentInv, UNCHANGED session
  PROVE  /\ PreviousComputed'
         /\ world' \in Worlds /\ statements' \in Seq(Written)
<1>1. world' = world /\ statements' = statements /\ previous' = previous
  BY DEF session
<1>2. PreviousComputed'
  <2>1. AssessmentOf(previous.ops)' = AssessmentOf(previous.ops)
    BY <1>1 DEF AssessmentOf, Context, RadiusOf, ChangedIds
  <2>2. Decided(previous.verdict, Len(world.rules), previous.assessment, previous.ops)'
          = Decided(previous.verdict, Len(world.rules), previous.assessment, previous.ops)
    <3>1. Document(previous.assessment, previous.ops)' = Document(previous.assessment, previous.ops)
      BY <1>1 DEF Document
    <3>2. {world.rules[i] : i \in 1..Len(world.rules)}' = {world.rules[i] : i \in 1..Len(world.rules)}
      BY <1>1
    <3> QED BY <1>1, <3>1, <3>2 DEF Decided
  <2> QED BY <1>1, <2>1, <2>2 DEF AssessmentInv, PreviousComputed
<1> QED BY <1>1, <1>2 DEF AssessmentInv, Computed

LEMMA StagesStep ==
  ASSUME AssessmentInv, Reject \/ Parse \/ Trace \/ Assess \/ ApplyRule \/ Finish
  PROVE  AssessmentInv'
<1>1. UNCHANGED session
  BY DEF Reject, Parse, Trace, Assess, ApplyRule, Finish
<1>2. world' = world /\ statements' = statements
  BY <1>1 DEF session
<1>3. PreviousComputed' /\ world' \in Worlds /\ statements' \in Seq(Written)
  BY <1>1, SessionStays
<1>4. CASE Reject
  BY <1>3, <1>4 DEF Computed, AssessmentInv, Reject
<1>5. CASE Parse
  <2>1. ops' = ParseSql(statements') /\ phase' = "parsed"
    BY <1>2, <1>5 DEF Parse
  <2> QED BY <1>3, <2>1 DEF Computed, AssessmentInv
<1>6. CASE Trace
  <2>1. ops' = ops /\ ops = ParseSql(statements) /\ phase' = "traced"
    BY <1>6 DEF Trace, AssessmentInv, Computed
  <2>2. radius' = RadiusOf(ops)'
    BY <1>2, <1>6, <2>1 DEF Trace, RadiusOf, ChangedIds
  <2> QED BY <1>2, <1>3, <2>1, <2>2 DEF Computed, AssessmentInv
<1>7. CASE Assess
  <2>1. ops' = ops /\ ops = ParseSql(statements) /\ phase' = "assessed"
        /\ radius' = radius /\ radius = RadiusOf(ops) /\ rule' = 1
    BY <1>7 DEF Assess, AssessmentInv, Computed
  <2>2. radius' = RadiusOf(ops)'
    BY <1>2, <2>1 DEF RadiusOf, ChangedIds
  <2>3. assessment' = AssessmentOf(ops)'
    BY <1>2, <1>7, <2>1, <2>2 DEF Assess, AssessmentOf, Context
  <2>4. verdict'.level = assessment'.level /\ verdict'.approval = FALSE /\ verdict'.extra = {}
    BY <1>7 DEF Assess
  <2>5. Decided(verdict, rule - 1, assessment, ops)'
    <3>1. rule' - 1 = 0 /\ 1..0 = {}
      BY <2>1
    <3>2. verdict'.approval \in BOOLEAN /\ ~ verdict'.approval
      BY <2>4, Zenon
    <3>3. UNION {r.recommend : r \in {}} = {}
      OBVIOUS
    <3>4. {world.rules[i] : i \in 1..(rule - 1)}' = {}
      BY <3>1
    <3>5. \A document : Heeds(verdict', {}, assessment'.level, document)
      <4>1. \A document : {r \in {} : Triggered(r, document)} = {}
        OBVIOUS
      <4>2. ~ \E r \in {} : r.approve
        OBVIOUS
      <4>3. ~ \E r \in {} : r.level = "critical"
        OBVIOUS
      <4> QED BY <2>4, <3>2, <3>3, <4>1, <4>2, <4>3, Zenon DEF Heeds
    <3> QED BY <3>4, <3>5 DEF Decided
  <2>6. rule' \in 1..(Len(world'.rules) + 1)
    <3>1. Len(world.rules) \in Nat
      BY RulesOfWorld DEF AssessmentInv, Computed
    <3> QED BY <1>2, <2>1, <3>1
  <2> QED BY <1>2, <1>3, <2>1, <2>2, <2>3, <2>5, <2>6 DEF Computed, AssessmentInv
<1>8. CASE ApplyRule
  <2>1. ops' = ops /\ ops = ParseSql(statements) /\ phase' = phase /\ phase = "assessed"
        /\ radius' = radius /\ radius = RadiusOf(ops) /\ rule' = rule + 1
        /\ assessment' = assessment /\ assessment = AssessmentOf(ops)
    BY <1>8 DEF ApplyRule, AssessmentInv, Computed
  <2>2. radius' = RadiusOf(ops)'
    BY <1>2, <2>1 DEF RadiusOf, ChangedIds
  <2>3. assessment' = AssessmentOf(ops)'
    BY <1>2, <2>1, <2>2 DEF AssessmentOf, Context
  <2>4. rule \in 1..Len(world.rules) /\ Decided(verdict', rule, assessment, ops)
    BY <1>8, RuleDecides
  <2>5. Decided(verdict, rule - 1, assessment, ops)'
    <3>1. rule' - 1 = rule
      BY <2>1, <2>4
    <3>2. Document(assessment, ops)' = Document(assessment, ops)
      BY <1>2, <2>1 DEF Document
    <3>3. {world.rules[i] : i \in 1..(rule - 1)}' = {world.rules[i] : i \in 1..rule}
      BY <1>2, <3>1
    <3> QED BY <2>1, <2>4, <3>2, <3>3 DEF Decided
  <2>6. rule' \in 1..(Len(world'.rules) + 1)
    <3>1. Len(world.rules) \in Nat
      BY RulesOfWorld DEF AssessmentInv, Computed
    <3> QED BY <1>2, <2>1, <2>4, <3>1
  <2> QED BY <1>2, <1>3, <2>1, <2>2, <2>3, <2>5, <2>6 DEF Computed, AssessmentInv
<1>9. CASE Finish
  <2>1. ops' = ops /\ ops = ParseSql(statements) /\ phase' = "done"
        /\ radius' = radius /\ radius = RadiusOf(ops) /\ rule' = rule /\ verdict' = verdict
        /\ assessment' = assessment /\ assessment = AssessmentOf(ops)
        /\ Decided(verdict, rule - 1, assessment, ops)
        /\ rule \in 1..(Len(world.rules) + 1) /\ rule > Len(world.rules)
        /\ world \in Worlds
    BY <1>9 DEF Finish, AssessmentInv, Computed
  <2>2. radius' = RadiusOf(ops)'
    BY <1>2, <2>1 DEF RadiusOf, ChangedIds
  <2>3. assessment' = AssessmentOf(ops)'
    BY <1>2, <2>1, <2>2 DEF AssessmentOf, Context
  <2>4. Decided(verdict, rule - 1, assessment, ops)'
    <3>1. Document(assessment, ops)' = Document(assessment, ops)
      BY <1>2, <2>1 DEF Document
    <3>2. {world.rules[i] : i \in 1..(rule - 1)}' = {world.rules[i] : i \in 1..(rule - 1)}
      BY <1>2, <2>1
    <3> QED BY <2>1, <3>1, <3>2 DEF Decided
  <2>5. rule' = Len(world'.rules) + 1 /\ rule' \in 1..(Len(world'.rules) + 1)
    BY <1>2, <2>1, RulesOfWorld
  <2> QED BY <1>2, <1>3, <2>1, <2>2, <2>3, <2>4, <2>5 DEF Computed, AssessmentInv
<1> QED BY <1>4, <1>5, <1>6, <1>7, <1>8, <1>9

LEMMA EditStep ==
  ASSUME AssessmentInv, AppendStatement \/ SwapStatements
  PROVE  AssessmentInv'
<1>1. PICK edited : /\ Resubmit(edited)
                    /\ \/ \E s \in Statements : edited = Append(statements, s)
                       \/ edited = Swapped(statements)
  BY DEF AppendStatement, SwapStatements, Swapped
<1>2. /\ phase = "done" /\ phase' = "submitted" /\ world' = world /\ statements' = edited
      /\ previous' = [statements |-> statements, ops |-> ops,
                      assessment |-> assessment, verdict |-> verdict]
  BY <1>1 DEF Resubmit
<1>3. /\ world \in Worlds /\ statements \in Seq(Written)
      /\ ops = ParseSql(statements) /\ assessment = AssessmentOf(ops)
      /\ Decided(verdict, Len(world.rules), assessment, ops)
  <2>1. rule = Len(world.rules) + 1 /\ rule - 1 = Len(world.rules)
    BY <1>2, RulesOfWorld DEF AssessmentInv, Computed
  <2> QED BY <1>2, <2>1 DEF AssessmentInv, Computed
<1>4. statements' \in Seq(Written)
  BY <1>1, <1>2, <1>3, EditsAreWritten
<1>5. Computed'
  BY <1>2, <1>3, <1>4 DEF Computed
<1>6. PreviousComputed'
  <2>1. /\ previous'.statements = statements /\ previous'.ops = ops
        /\ previous'.assessment = assessment /\ previous'.verdict = verdict
    BY <1>2
  <2>2. AssessmentOf(previous.ops)' = AssessmentOf(ops)
    BY <1>2, <2>1 DEF AssessmentOf, Context, RadiusOf, ChangedIds
  <2>3. Decided(previous.verdict, Len(world.rules), previous.assessment, previous.ops)'
    <3>1. Document(previous.assessment, previous.ops)' = Document(assessment, ops)
      BY <1>2, <2>1 DEF Document
    <3>2. {world.rules[i] : i \in 1..Len(world.rules)}' = {world.rules[i] : i \in 1..Len(world.rules)}
      BY <1>2
    <3> QED BY <1>3, <2>1, <3>1, <3>2 DEF Decided
  <2>4. \/ \E s \in Written : statements' = Append(previous'.statements, s)
        \/ statements' = Swapped(previous'.statements)
    BY <1>1, <1>2, <1>3, <2>1, EditsAreWritten
  <2> QED BY <1>3, <2>1, <2>2, <2>3, <2>4 DEF PreviousComputed
<1> QED BY <1>5, <1>6 DEF AssessmentInv

LEMMA AssessmentStep == AssessmentInv /\ [RiskNext]_riskVars => AssessmentInv'
<1> SUFFICES ASSUME AssessmentInv, [RiskNext]_riskVars PROVE AssessmentInv'
  OBVIOUS
<1>1. CASE UNCHANGED riskVars
  <2>1. UNCHANGED session
    BY <1>1 DEF riskVars, session
  <2>2. Computed'
    <3>1. AssessmentOf(ops)' = AssessmentOf(ops) /\ RadiusOf(ops)' = RadiusOf(ops)
      BY <1>1 DEF riskVars, AssessmentOf, Context, RadiusOf, ChangedIds
    <3>2. Decided(verdict, rule - 1, assessment, ops)' = Decided(verdict, rule - 1, assessment, ops)
      <4>1. Document(assessment, ops)' = Document(assessment, ops)
        BY <1>1 DEF riskVars, Document
      <4>2. {world.rules[i] : i \in 1..(rule - 1)}' = {world.rules[i] : i \in 1..(rule - 1)}
        BY <1>1 DEF riskVars
      <4> QED BY <1>1, <4>1, <4>2 DEF riskVars, Decided
    <3> QED BY <1>1, <3>1, <3>2 DEF riskVars, AssessmentInv, Computed
  <2> QED BY <2>1, <2>2, SessionStays DEF AssessmentInv
<1>2. CASE Reject \/ Parse \/ Trace \/ Assess \/ ApplyRule \/ Finish
  BY <1>2, StagesStep
<1>3. CASE AppendStatement \/ SwapStatements
  BY <1>3, EditStep
<1> QED BY <1>1, <1>2, <1>3 DEF RiskNext

\* Every result is the function of the statements, the world and the rules
\* that the pipeline's stages compute, and the assessment before an edit is
\* that of the statements before it: pipeline.py keeps nothing between two
\* changes.
THEOREM AssessmentIsComputed == RiskSpec => [](Computed /\ PreviousComputed)
<1>1. RiskSpec => []AssessmentInv
  BY InitAssessment, AssessmentStep, PTL DEF RiskSpec
<1> QED BY <1>1 DEF AssessmentInv

\* RiskyProductionNeedsApproval of the shipped rules, in any order: whether
\* the score or the escalation put it there, a production change that is
\* assessed as HIGH or CRITICAL needs approval.
THEOREM RiskyProductionNeedsApprovalHolds == RiskSpec => []RiskyProductionNeedsApproval
<1>1. AssessmentInv => RiskyProductionNeedsApproval
  <2> SUFFICES ASSUME AssessmentInv, Returned, world.prod, verdict.level \in {"high", "critical"}
               PROVE  verdict.approval
    BY DEF RiskyProductionNeedsApproval
  <2> DEFINE fired(r) == Triggered(r, Document(assessment, ops))
  <2>1. /\ world \in Worlds /\ world.prod \in BOOLEAN
        /\ Decided(verdict, Len(world.rules), assessment, ops)
    <3>1. world \in Worlds /\ rule = Len(world.rules) + 1 /\ Decided(verdict, rule - 1, assessment, ops)
      BY DEF AssessmentInv, Computed, Returned
    <3>2. rule - 1 = Len(world.rules)
      BY <3>1, RulesOfWorld
    <3> QED BY <3>1, <3>2, WorldAssumption
  <2>2. /\ verdict.level = IF fired(EscalateLargeTableBreakingChange)
                           THEN "critical" ELSE assessment.level
        /\ verdict.approval <=> \/ fired(RequireApprovalHighRiskProduction)
                                \/ fired(EscalateLargeTableBreakingChange)
                                \/ fired(RequireApprovalDependencyCount)
    BY <2>1, DecidedBy
  <2>3. fired(RequireApprovalHighRiskProduction)
          <=> world.prod /\ assessment.level \in {"high", "critical"}
    BY <2>1, RulesAsk
  <2> HIDE DEF fired
  <2> QED BY <2>2, <2>3
<1>2. RiskSpec => []AssessmentInv
  BY InitAssessment, AssessmentStep, PTL DEF RiskSpec
<1> QED BY <1>1, <1>2, PTL

-----------------------------------------------------------------------------
(***************************************************************************)
(* What the parser makes of the statements.                                *)
(***************************************************************************)

\* Induction up to a number, over a set of the numbers it holds for.
LEMMA UpTo ==
  ASSUME NEW n \in Nat, NEW S, 0 \in S, \A k \in 1..n : k - 1 \in S => k \in S
  PROVE  n \in S
<1> DEFINE Without == {k \in 0..n : k \notin S}
<1> SUFFICES ASSUME Without # {} PROVE FALSE
  OBVIOUS
<1>1. PICK k \in Without : \A j \in Without : k <= j
  <2>1. Without \subseteq Nat
    OBVIOUS
  <2> HIDE DEF Without
  <2> QED BY <2>1, LeastMember
<1>2. k \in 1..n /\ k - 1 \in 0..n /\ ~ (k <= k - 1)
  BY <1>1
<1> QED BY <1>1, <1>2

\* Two sequences after each other.
LEMMA Joining ==
  ASSUME NEW S, NEW s \in Seq(S), NEW t \in Seq(S)
  PROVE  /\ s \o t \in Seq(S)
         /\ Len(s \o t) = Len(s) + Len(t)
         /\ Range(s \o t) = Range(s) \cup Range(t)
<1>1. /\ DOMAIN s = 1..Len(s) /\ Len(s) \in Nat
      /\ DOMAIN t = 1..Len(t) /\ Len(t) \in Nat
      /\ s \o t \in Seq(S) /\ Len(s \o t) = Len(s) + Len(t)
      /\ DOMAIN (s \o t) = 1..(Len(s) + Len(t))
      /\ \A i \in 1..Len(s) : (s \o t)[i] = s[i]
      /\ \A i \in 1..Len(t) : (s \o t)[Len(s) + i] = t[i]
  BY LenProperties
<1>2. \A i \in 1..(Len(s) + Len(t)) : i \in 1..Len(s) \/ \E j \in 1..Len(t) : i = Len(s) + j
  <2> SUFFICES ASSUME NEW i \in 1..(Len(s) + Len(t)), i \notin 1..Len(s)
               PROVE  \E j \in 1..Len(t) : i = Len(s) + j
    OBVIOUS
  <2>1. i - Len(s) \in 1..Len(t) /\ i = Len(s) + (i - Len(s))
    BY <1>1
  <2> QED BY <2>1
<1>3. Range(s \o t) \subseteq Range(s) \cup Range(t)
  <2> SUFFICES ASSUME NEW i \in 1..(Len(s) + Len(t))
               PROVE  (s \o t)[i] \in Range(s) \cup Range(t)
    BY <1>1 DEF Range
  <2>1. CASE i \in 1..Len(s)
    BY <2>1, <1>1 DEF Range
  <2>2. CASE \E j \in 1..Len(t) : i = Len(s) + j
    BY <2>2, <1>1 DEF Range
  <2> QED BY <1>2, <2>1, <2>2
<1>4. Range(s) \cup Range(t) \subseteq Range(s \o t)
  <2>1. \A i \in 1..Len(s) : i \in 1..(Len(s) + Len(t))
    BY <1>1
  <2>2. \A i \in 1..Len(t) : Len(s) + i \in 1..(Len(s) + Len(t))
    BY <1>1
  <2> QED BY <1>1, <2>1, <2>2 DEF Range
<1> QED BY <1>1, <1>3, <1>4

\* The operations of a statement are a sequence.
LEMMA StatementParses ==
  ASSUME NEW s, IsStatement(s)
  PROVE  ParseStatement(s) \in Seq(Range(ParseStatement(s)))
<1>1. /\ DOMAIN s.tables = 1..Len(s.tables) /\ Len(s.tables) \in Nat
      /\ DOMAIN s.clauses = 1..Len(s.clauses) /\ Len(s.clauses) \in Nat
  BY LenProperties DEF IsStatement
<1>2. CASE s.shape = "drop_table"
  <2> DEFINE p == [i \in DOMAIN s.tables |-> Operation("drop_table", s.tables[i])]
  <2>1. ParseStatement(s) = p
    BY <1>2 DEF ParseStatement, OneObjectShapes
  <2>2. p = [i \in 1..Len(s.tables) |-> p[i]] /\ \A i \in 1..Len(s.tables) : p[i] \in Range(p)
    BY <1>1 DEF Range
  <2> HIDE DEF p
  <2>3. p \in Seq(Range(p))
    BY <1>1, <2>2, IsASeq
  <2> QED BY <2>1, <2>3
<1>3. CASE s.shape = "alter_table"
  <2> DEFINE p == [i \in DOMAIN s.clauses |-> Operation(ParseClause(s.clauses[i]), s.tables[1])]
  <2>1. ParseStatement(s) = p
    BY <1>3 DEF ParseStatement, OneObjectShapes
  <2>2. p = [i \in 1..Len(s.clauses) |-> p[i]] /\ \A i \in 1..Len(s.clauses) : p[i] \in Range(p)
    BY <1>1 DEF Range
  <2> HIDE DEF p
  <2>3. p \in Seq(Range(p))
    BY <1>1, <2>2, IsASeq
  <2> QED BY <2>1, <2>3
<1>4. CASE ~ s.shape \in {"drop_table", "alter_table"}
  <2>1. ParseStatement(s) = <<>> \/ \E o : ParseStatement(s) = <<o>>
    <3>1. CASE s.shape = "drop_index"
      <4>1. ParseStatement(s) = <<Operation("drop_index", None)>>
        BY <3>1 DEF ParseStatement, OneObjectShapes
      <4> QED BY <4>1
    <3>2. CASE s.shape \in OneObjectShapes
      <4>1. ParseStatement(s) = <<Operation(s.shape, s.tables[1])>>
        BY <3>2 DEF ParseStatement, OneObjectShapes
      <4> QED BY <4>1
    <3>3. CASE ~ (s.shape = "drop_index" \/ s.shape \in OneObjectShapes)
      <4>1. ParseStatement(s) = <<>>
        BY <1>4, <3>3 DEF ParseStatement
      <4> QED BY <4>1
    <3> QED BY <3>1, <3>2, <3>3
  <2>2. \A o : <<o>> \in Seq({o}) /\ Range(<<o>>) = {o}
    BY DEF Range
  <2>3. <<>> \in Seq(Range(<<>>))
    BY EmptySeq
  <2> QED BY <2>1, <2>2, <2>3
<1> QED BY <1>2, <1>3, <1>4

\* Where a sequence of statements got the operations it parses to from.
Parts(ss) == UNION {Range(ParseStatement(ss[i])) : i \in DOMAIN ss}

LEMMA SqlParses ==
  ASSUME NEW ss \in Seq(Written)
  PROVE  /\ ParseSql(ss) \in Seq(Parts(ss))
         /\ Range(ParseSql(ss)) = Parts(ss)
<1> DEFINE n == Len(ss)
           All == Parts(ss)
           P(i) == ParseStatement(ss[i])
           run == Parsed(ss)
           Good == {k \in 0..n : /\ run[k] \in Seq(All)
                                 /\ Range(run[k]) = UNION {Range(P(i)) : i \in 1..k}}
<1>1. n \in Nat /\ DOMAIN ss = 1..n /\ \A i \in 1..n : ss[i] \in Written
  BY LenProperties
<1>2. \A i \in 1..n : P(i) \in Seq(All)
  <2> SUFFICES ASSUME NEW i \in 1..n PROVE P(i) \in Seq(All)
    OBVIOUS
  <2>1. IsStatement(ss[i])
    BY <1>1, StatementsAssumption
  <2>2. P(i) \in Seq(Range(P(i)))
    BY <2>1, StatementParses
  <2>3. Range(P(i)) \subseteq All
    BY <1>1 DEF Parts
  <2> HIDE DEF P, All
  <2> QED BY <2>2, <2>3, SeqMonotonic
<1>3. run[0] = <<>> /\ \A k \in 1..n : run[k] = run[k - 1] \o P(k)
  BY <1>1, ParsedDefined
<1>4. ParseSql(ss) = run[n]
  BY DEF ParseSql
<1>5. All = UNION {Range(P(i)) : i \in 1..n}
  BY <1>1 DEF Parts
<1> HIDE DEF P, run, All, n
<1>6. 0 \in Good
  <2>1. run[0] \in Seq(All) /\ Range(run[0]) = {}
    BY <1>3, EmptySeq DEF Range
  <2>2. UNION {Range(P(i)) : i \in 1..0} = {}
    OBVIOUS
  <2> QED BY <1>1, <2>1, <2>2
<1>7. ASSUME NEW k \in 1..n, k - 1 \in Good PROVE k \in Good
  <2>1. /\ run[k - 1] \in Seq(All) /\ run[k] = run[k - 1] \o P(k)
        /\ Range(run[k - 1]) = UNION {Range(P(i)) : i \in 1..(k - 1)}
    BY <1>3, <1>7
  <2>2. run[k] \in Seq(All) /\ Range(run[k]) = Range(run[k - 1]) \cup Range(P(k))
    BY <1>2, <2>1, Joining
  <2>3. 1..k = 1..(k - 1) \cup {k}
    BY <1>1
  <2>4. Range(run[k]) = UNION {Range(P(i)) : i \in 1..k}
    BY <2>1, <2>2, <2>3
  <2> QED BY <1>1, <2>2, <2>4
<1> HIDE DEF Good
<1>8. n \in Good
  BY <1>1, <1>6, <1>7, UpTo
<1> QED BY <1>4, <1>5, <1>8 DEF Good, All

-----------------------------------------------------------------------------
(***************************************************************************)
(* The factors that the operations decide.                                 *)
(***************************************************************************)
LEMMA LargestOf ==
  ASSUME NEW b \in Nat, NEW S, S \subseteq 0..b, S # {}
  PROVE  Largest(S) \in S /\ \A m \in S : m <= Largest(S)
<1> DEFINE Below == {b - m : m \in S}
<1>1. Below \subseteq Nat /\ Below # {}
  <2>1. \A m \in S : b - m \in Nat
    OBVIOUS
  <2> QED BY <2>1
<1> HIDE DEF Below
<1>2. PICK k \in Below : \A j \in Below : k <= j
  BY <1>1, LeastMember
<1>3. PICK n \in S : k = b - n
  BY DEF Below
<1>4. \A m \in S : m <= n
  <2> SUFFICES ASSUME NEW m \in S PROVE m <= n
    OBVIOUS
  <2>1. k <= b - m
    BY <1>2 DEF Below
  <2> QED BY <1>3, <2>1
<1> QED BY <1>4 DEF Largest

LEMMA LockRiskBounds ==
  /\ \A kind : LockRiskOf(kind) \in 0..85
  /\ \A kind \in {"add_foreign_key", "add_primary_key", "add_constraint"} : LockRiskOf(kind) >= 60
<1>1. \A kind \in DOMAIN LockRiskBase : LockRiskBase[kind] \in 0..85
  BY DEF LockRiskBase
<1>2. LockRiskBase.unknown \in 0..85
  BY DEF LockRiskBase
<1>3. \A kind \in {"add_foreign_key", "add_primary_key", "add_constraint"} :
        kind \in DOMAIN LockRiskBase /\ LockRiskBase[kind] >= 60
  BY DEF LockRiskBase
<1> QED BY <1>1, <1>2, <1>3 DEF LockRiskOf

\* The worst operation decides.
LEMMA LockRiskIsWorst ==
  ASSUME NEW c, c.ops # <<>>, NEW S, c.ops \in Seq(S)
  PROVE  /\ LockRisk(c) \in 0..85
         /\ \A i \in DOMAIN c.ops : LockRiskOf(c.ops[i].operation) <= LockRisk(c)
         /\ \E i \in DOMAIN c.ops : LockRisk(c) = LockRiskOf(c.ops[i].operation)
<1> DEFINE risks == {LockRiskOf(k) : k \in Kinds(c)}
<1>1. DOMAIN c.ops # {}
  <2>1. Len(c.ops) \in Nat \ {0} /\ DOMAIN c.ops = 1..Len(c.ops)
    BY EmptySeq, LenProperties
  <2> QED BY <2>1
<1>2. \A i \in DOMAIN c.ops : c.ops[i].operation \in Kinds(c)
  BY DEF Kinds
<1>3. risks \subseteq 0..85 /\ risks # {}
  BY <1>1, <1>2, LockRiskBounds
<1>4. LockRisk(c) = Largest(risks)
  BY <1>1 DEF LockRisk
<1>5. \A i \in DOMAIN c.ops : LockRiskOf(c.ops[i].operation) \in risks
  BY <1>2
<1>6. \A r \in risks : \E i \in DOMAIN c.ops : r = LockRiskOf(c.ops[i].operation)
  BY DEF Kinds
<1> HIDE DEF risks
<1>7. Largest(risks) \in risks /\ \A m \in risks : m <= Largest(risks)
  <2>1. 85 \in Nat
    OBVIOUS
  <2> QED BY <1>3, <2>1, LargestOf
<1> QED BY <1>3, <1>4, <1>5, <1>6, <1>7

\* A named constraint is one of the first three patterns.
LEMMA ConstraintsParse ==
  ASSUME NEW clause \in NamedConstraints
  PROVE  ParseClause(clause) \in {"add_foreign_key", "add_primary_key", "add_constraint"}
<1> DEFINE hits == {i \in DOMAIN PatternOrder : clause \in Matched[PatternOrder[i]]}
<1>1. /\ DOMAIN PatternOrder = 1..15
      /\ PatternOrder[1] = "add_foreign_key" /\ PatternOrder[2] = "add_primary_key"
      /\ PatternOrder[3] = "add_constraint"
  BY DEF PatternOrder
<1>2. Matched["add_constraint"] = NamedConstraints
  BY DEF Matched
<1>3. 3 \in hits /\ hits \subseteq Nat
  BY <1>1, <1>2
<1>4. ParseClause(clause) = IF hits = {} THEN "unknown" ELSE PatternOrder[Min(hits)]
  BY DEF ParseClause
<1>5. hits \subseteq 1..15
  BY <1>1
<1> HIDE DEF hits
<1>6. \E n \in hits : \A k \in hits : n <= k
  BY <1>3, LeastMember
<1>7. Min(hits) \in hits /\ \A k \in hits : Min(hits) <= k
  BY <1>6 DEF Min
<1>8. Min(hits) \in {1, 2, 3}
  <2>1. Min(hits) \in 1..15 /\ Min(hits) <= 3
    BY <1>3, <1>5, <1>7
  <2> QED BY <2>1
<1> QED BY <1>1, <1>3, <1>4, <1>8

\* What is known of an assessment that is returned.
LEMMA ReturnedAssessment ==
  ASSUME AssessmentInv, Returned
  PROVE  /\ world \in Worlds /\ statements \in Seq(Written)
         /\ ops = ParseSql(statements) /\ radius = RadiusOf(ops)
         /\ assessment.scores = Scores(Context(ops, radius))
         /\ assessment.score = Weighted(Calculated(Context(ops, radius)))
         /\ assessment.level = RiskLevelFor(assessment.score)
         /\ assessment.confidence = Confidence(Context(ops, radius))
         /\ assessment.recommendations = Recommendations(Context(ops, radius))
         /\ Decided(verdict, Len(world.rules), assessment, ops)
<1>1. /\ world \in Worlds /\ statements \in Seq(Written)
      /\ ops = ParseSql(statements) /\ radius = RadiusOf(ops)
      /\ assessment = AssessmentOf(ops)
      /\ rule = Len(world.rules) + 1 /\ Decided(verdict, rule - 1, assessment, ops)
  BY DEF AssessmentInv, Computed, Returned
<1>2. rule - 1 = Len(world.rules)
  BY <1>1, RulesOfWorld
<1> QED BY <1>1, <1>2 DEF AssessmentOf, Assessment

\* ConstraintsLock of _parse_alter_table_action, which tries the patterns
\* for constraints first, in whatever statement of a migration of any length
\* the constraint is.
THEOREM ConstraintsLockHolds == RiskSpec => []ConstraintsLock
<1>1. AssessmentInv => ConstraintsLock
  <2> SUFFICES ASSUME AssessmentInv, Returned, "lock_risk" \in Counted,
                      NEW i \in DOMAIN statements, statements[i].shape = "alter_table",
                      NEW k \in DOMAIN statements[i].clauses,
                      statements[i].clauses[k] \in NamedConstraints
               PROVE  assessment.scores.lock_risk >= 60
    BY DEF ConstraintsLock
  <2> DEFINE c == Context(ops, radius)
             s == statements[i]
             kind == ParseClause(s.clauses[k])
  <2>1. statements \in Seq(Written) /\ ops = ParseSql(statements) /\ s.shape = "alter_table"
        /\ assessment.scores = Scores(c) /\ c.ops = ops
    BY ReturnedAssessment DEF Context
  <2>2. kind \in {"add_foreign_key", "add_primary_key", "add_constraint"}
    BY ConstraintsParse
  <2>3. Operation(kind, s.tables[1]) \in Range(ParseStatement(s))
    <3>1. ParseStatement(s) = [j \in DOMAIN s.clauses |-> Operation(ParseClause(s.clauses[j]), s.tables[1])]
      BY <2>1 DEF ParseStatement, OneObjectShapes
    <3>2. k \in DOMAIN s.clauses
      OBVIOUS
    <3> HIDE DEF s
    <3> QED BY <3>1, <3>2 DEF Range
  <2>4. Operation(kind, s.tables[1]) \in Range(ops)
    BY <2>1, <2>3, SqlParses DEF Parts
  <2> HIDE DEF s, kind, c
  <2>5. PICK j \in DOMAIN c.ops : c.ops[j].operation = kind
    BY <2>1, <2>4 DEF Range, Operation
  <2>6. c.ops \in Seq(Parts(statements))
    BY <2>1, SqlParses
  <2>7. c.ops # <<>>
    BY <2>5, <2>6, LenProperties
  <2>8. LockRisk(c) \in 0..85 /\ LockRiskOf(kind) <= LockRisk(c)
    BY <2>5, <2>6, <2>7, LockRiskIsWorst
  <2>9. LockRiskOf(kind) >= 60 /\ LockRiskOf(kind) \in 0..85
    BY <2>2, LockRiskBounds
  <2>10. assessment.scores.lock_risk = LockRisk(c)
    BY <2>1 DEF Scores, Calculated
  <2> QED BY <2>8, <2>9, <2>10
<1>2. RiskSpec => []AssessmentInv
  BY InitAssessment, AssessmentStep, PTL DEF RiskSpec
<1> QED BY <1>1, <1>2, PTL

-----------------------------------------------------------------------------
(***************************************************************************)
(* A change that consists of two: what is kept, counted and reached of the *)
(* first and the second, one after the other.                              *)
(***************************************************************************)
LEMMA JoinedAt ==
  ASSUME NEW S, NEW s \in Seq(S), NEW t \in Seq(S)
  PROVE  /\ s \o t \in Seq(S) /\ Len(s) \in Nat /\ Len(t) \in Nat
         /\ DOMAIN s = 1..Len(s) /\ DOMAIN t = 1..Len(t)
         /\ Len(s \o t) = Len(s) + Len(t) /\ DOMAIN (s \o t) = 1..(Len(s) + Len(t))
         /\ \A i \in 1..Len(s) : (s \o t)[i] = s[i]
         /\ \A i \in 1..Len(t) : (s \o t)[Len(s) + i] = t[i]
BY LenProperties

IsSequence(s) == \E S : s \in Seq(S)

LEMMA AppendJoined ==
  ASSUME NEW s, NEW t, NEW x, IsSequence(s), IsSequence(t)
  PROVE  Append(s \o t, x) = s \o Append(t, x)
<1>0. PICK S : s \in Seq(S) /\ t \in Seq(S) /\ x \in S
  <2>1. PICK P, Q : s \in Seq(P) /\ t \in Seq(Q)
    BY DEF IsSequence
  <2> DEFINE U == P \cup Q \cup {x}
  <2>2. P \subseteq U /\ Q \subseteq U /\ x \in U
    OBVIOUS
  <2> HIDE DEF U
  <2>3. s \in Seq(U) /\ t \in Seq(U)
    BY <2>1, <2>2, SeqMonotonic
  <2> QED BY <2>2, <2>3
<1> DEFINE a == Append(s \o t, x)
           b == s \o Append(t, x)
<1>1. s \o t \in Seq(S) /\ Append(t, x) \in Seq(S) /\ Len(Append(t, x)) = Len(t) + 1
  BY <1>0, Joining
<1>2. a \in Seq(S) /\ b \in Seq(S)
  BY <1>0, <1>1, Joining
<1>3. Len(a) = Len(s) + Len(t) + 1 /\ Len(b) = Len(s) + (Len(t) + 1)
  BY <1>0, <1>1, Joining
<1>4. Len(s) \in Nat /\ Len(t) \in Nat
  BY <1>0, LenProperties
<1>5. \A i \in 1..Len(a) : a[i] = b[i]
  <2> SUFFICES ASSUME NEW i \in 1..(Len(s) + Len(t) + 1) PROVE a[i] = b[i]
    BY <1>3
  <2>1. CASE i \in 1..Len(s)
    BY <1>0, <1>1, <1>4, <2>1
  <2>2. CASE i \in (Len(s) + 1)..(Len(s) + Len(t))
    BY <1>0, <1>1, <1>4, <2>2
  <2>3. CASE i = Len(s) + Len(t) + 1
    BY <1>0, <1>1, <1>4, <2>3
  <2> QED BY <1>4, <2>1, <2>2, <2>3
<1> HIDE DEF a, b
<1>6. a = b
  BY <1>2, <1>3, <1>4, <1>5, SeqEqual
<1> QED BY <1>6 DEF a, b

LEMMA AmongElements ==
  ASSUME NEW T, NEW s \in Seq(T), NEW S
  PROVE  Among(s, S) \in Seq(S) /\ Range(Among(s, S)) = Range(s) \cap S
<1> DEFINE n == Len(s)
           run == Kept(s, S)
           Good == {k \in 0..n : run[k] \in Seq(S) /\ Range(run[k]) = {s[i] : i \in 1..k} \cap S}
<1>1. n \in Nat /\ DOMAIN s = 1..n
  BY LenProperties
<1>2. run[0] = <<>> /\ \A k \in 1..n : run[k] = IF s[k] \in S THEN Append(run[k - 1], s[k]) ELSE run[k - 1]
  BY <1>1, KeptDefined
<1>3. Among(s, S) = run[n]
  BY DEF Among
<1>4. Range(s) = {s[i] : i \in 1..n}
  BY <1>1 DEF Range
<1> HIDE DEF run, n
<1>5. 0 \in Good
  <2>1. run[0] \in Seq(S) /\ Range(run[0]) = {}
    BY <1>2, EmptySeq DEF Range
  <2> QED BY <1>1, <2>1
<1>6. ASSUME NEW k \in 1..n, k - 1 \in Good PROVE k \in Good
  <2>1. /\ run[k - 1] \in Seq(S)
        /\ Range(run[k - 1]) = {s[i] : i \in 1..(k - 1)} \cap S
    BY <1>6
  <2>2. 1..k = 1..(k - 1) \cup {k} /\ k \in 0..n
    BY <1>1
  <2>3. CASE s[k] \in S
    <3>1. run[k] = Append(run[k - 1], s[k])
      BY <1>2, <2>3
    <3>2. run[k] \in Seq(S) /\ Range(run[k]) = Range(run[k - 1]) \cup {s[k]}
      BY <2>1, <2>3, <3>1, Appended
    <3> QED BY <2>1, <2>2, <2>3, <3>2
  <2>4. CASE s[k] \notin S
    <3>1. run[k] = run[k - 1]
      BY <1>2, <2>4
    <3> QED BY <2>1, <2>2, <2>4, <3>1
  <2> QED BY <2>3, <2>4
<1> HIDE DEF Good
<1>7. n \in Good
  BY <1>1, <1>5, <1>6, UpTo
<1> QED BY <1>3, <1>4, <1>7 DEF Good

LEMMA AmongJoined ==
  ASSUME NEW T, NEW s \in Seq(T), NEW t \in Seq(T), NEW S
  PROVE  Among(s \o t, S) = Among(s, S) \o Among(t, S)
<1> DEFINE n == Len(s)
           m == Len(t)
           u == s \o t
           all == Kept(u, S)
           first == Kept(s, S)
           second == Kept(t, S)
           Same == {k \in 0..n : all[k] = first[k] /\ first[k] \in Seq(S)}
           Later == {k \in 0..m : all[n + k] = first[n] \o second[k] /\ second[k] \in Seq(S)}
<1>0. n \in Nat /\ m \in Nat
  BY JoinedAt
<1>1. /\ n \in Nat /\ m \in Nat /\ Len(u) = n + m /\ Len(u) \in Nat
      /\ \A i \in 1..n : u[i] = s[i]
      /\ \A i \in 1..m : u[n + i] = t[i]
  BY JoinedAt
<1>2. /\ first[0] = <<>>
      /\ \A k \in 1..n : first[k] = IF s[k] \in S THEN Append(first[k - 1], s[k]) ELSE first[k - 1]
  BY <1>1, KeptDefined
<1>3. /\ second[0] = <<>>
      /\ \A k \in 1..m :
           second[k] = IF t[k] \in S THEN Append(second[k - 1], t[k]) ELSE second[k - 1]
  BY <1>1, KeptDefined
<1>4. /\ all[0] = <<>>
      /\ \A k \in 1..(n + m) :
           all[k] = IF u[k] \in S THEN Append(all[k - 1], u[k]) ELSE all[k - 1]
  <2> HIDE DEF u
  <2>1. /\ all[0] = <<>>
        /\ \A k \in 1..Len(u) : all[k] = IF u[k] \in S THEN Append(all[k - 1], u[k]) ELSE all[k - 1]
    BY <1>1, KeptDefined
  <2> QED BY <1>1, <2>1
<1>5. Among(u, S) = all[n + m] /\ Among(s, S) = first[n] /\ Among(t, S) = second[m]
  BY <1>1 DEF Among
<1>6. \A i \in 1..m : u[n + i] = t[i]
  BY JoinedAt
<1> HIDE DEF n, m, u, all, first, second
<1>7. 0 \in Same
  <2>1. first[0] \in Seq(S) /\ all[0] = first[0]
    BY <1>2, <1>4, EmptySeq
  <2> QED BY <1>0, <2>1
<1>8. ASSUME NEW k \in 1..n, k - 1 \in Same PROVE k \in Same
  <2>1. k \in 1..(n + m) /\ k \in 0..n /\ u[k] = s[k] /\ all[k - 1] = first[k - 1] /\ first[k - 1] \in Seq(S)
    BY <1>1, <1>8
  <2>2. CASE s[k] \in S
    <3>1. first[k] = Append(first[k - 1], s[k]) /\ all[k] = Append(first[k - 1], s[k])
      BY <1>2, <1>4, <2>1, <2>2
    <3>2. first[k] \in Seq(S)
      BY <2>1, <2>2, <3>1, Appended
    <3> QED BY <2>1, <3>1, <3>2
  <2>3. CASE s[k] \notin S
    BY <1>2, <1>4, <2>1, <2>3
  <2> QED BY <2>2, <2>3
<1>9. n \in Same
  <2> HIDE DEF Same
  <2>1. \A k \in 1..n : k - 1 \in Same => k \in Same
    BY <1>8
  <2> QED BY <1>0, <1>7, <2>1, UpTo, Zenon
<1>10. all[n] = first[n] /\ first[n] \in Seq(S)
  BY <1>9
<1> HIDE DEF Same
<1>11. 0 \in Later
  <2>1. first[n] \o <<>> = first[n]
    BY <1>10, ConcatEmptySeq
  <2>2. second[0] = <<>> /\ second[0] \in Seq(S) /\ n + 0 = n /\ 0 \in 0..m
    BY <1>0, <1>3, EmptySeq
  <2>3. all[n + 0] = first[n] \o second[0]
    BY <1>10, <2>1, <2>2
  <2> QED BY <2>2, <2>3, Zenon
<1>12. ASSUME NEW k \in 1..m, k - 1 \in Later PROVE k \in Later
  <2>1. /\ n + k \in 1..(n + m) /\ k \in 0..m /\ u[n + k] = t[k]
        /\ all[n + (k - 1)] = first[n] \o second[k - 1] /\ second[k - 1] \in Seq(S)
        /\ (n + k) - 1 = n + (k - 1)
    <3>1. n + k \in 1..(n + m) /\ k \in 0..m /\ (n + k) - 1 = n + (k - 1) /\ u[n + k] = t[k]
      BY <1>0, <1>6
    <3>2. all[n + (k - 1)] = first[n] \o second[k - 1] /\ second[k - 1] \in Seq(S)
      BY <1>12
    <3> QED BY <3>1, <3>2
  <2>2. CASE t[k] \in S
    <3>1. second[k] = Append(second[k - 1], t[k]) /\ all[n + k] = Append(first[n] \o second[k - 1], t[k])
      BY <1>3, <1>4, <2>1, <2>2
    <3>2. second[k] \in Seq(S)
      BY <2>1, <2>2, <3>1, Appended
    <3>3. all[n + k] = first[n] \o second[k]
      <4> DEFINE f == first[n]
                 h == second[k - 1]
                 x == t[k]
      <4>1. f \in Seq(S) /\ h \in Seq(S) /\ x \in S
        BY <1>10, <2>1, <2>2
      <4> HIDE DEF f, h, x
      <4>2. Append(f \o h, x) = f \o Append(h, x)
        <5>1. IsSequence(f) /\ IsSequence(h)
          BY <4>1 DEF IsSequence
        <5> QED BY <5>1, AppendJoined
      <4> QED BY <3>1, <4>2 DEF f, h, x
    <3> QED BY <2>1, <3>2, <3>3
  <2>3. CASE t[k] \notin S
    <3>1. second[k] = second[k - 1] /\ all[n + k] = first[n] \o second[k - 1]
      BY <1>3, <1>4, <2>1, <2>3
    <3> QED BY <2>1, <3>1
  <2> QED BY <2>2, <2>3
<1> HIDE DEF Later
<1>13. m \in Later
  <2>1. \A k \in 1..m : k - 1 \in Later => k \in Later
    BY <1>12
  <2> QED BY <1>0, <1>11, <2>1, UpTo, Zenon
<1> QED BY <1>5, <1>13 DEF Later, u

\* The incidents of the operations add up.
LEMMA CountsJoined ==
  ASSUME NEW T, NEW s \in Seq(T), NEW t \in Seq(T), NEW incidents,
         \A x \in T : IncidentsOf(x, incidents) \in Nat
  PROVE  /\ IncidentCounts(s, incidents)[Len(s)] \in Nat
         /\ IncidentCounts(t, incidents)[Len(t)] \in Nat
         /\ IncidentCounts(s \o t, incidents)[Len(s \o t)]
              = IncidentCounts(s, incidents)[Len(s)] + IncidentCounts(t, incidents)[Len(t)]
<1> DEFINE n == Len(s)
           m == Len(t)
           u == s \o t
           Inc(x) == IncidentsOf(x, incidents)
           all == IncidentCounts(u, incidents)
           first == IncidentCounts(s, incidents)
           second == IncidentCounts(t, incidents)
           Same == {k \in 0..n : all[k] = first[k] /\ first[k] \in Nat}
           Later == {k \in 0..m : all[n + k] = first[n] + second[k] /\ second[k] \in Nat}
<1>0. n \in Nat /\ m \in Nat
  BY JoinedAt
<1>1. /\ n \in Nat /\ m \in Nat /\ Len(u) = n + m /\ Len(u) \in Nat
      /\ \A i \in 1..n : u[i] = s[i] /\ s[i] \in T
      /\ \A i \in 1..m : u[n + i] = t[i] /\ t[i] \in T
  BY JoinedAt
<1>2. first[0] = 0 /\ \A k \in 1..n : first[k] = first[k - 1] + Inc(s[k])
  BY <1>1, CountsDefined
<1>3. second[0] = 0 /\ \A k \in 1..m : second[k] = second[k - 1] + Inc(t[k])
  BY <1>1, CountsDefined
<1>4. all[0] = 0 /\ \A k \in 1..(n + m) : all[k] = all[k - 1] + Inc(u[k])
  <2> HIDE DEF u
  <2>1. all[0] = 0 /\ \A k \in 1..Len(u) : all[k] = all[k - 1] + Inc(u[k])
    BY <1>1, CountsDefined
  <2> QED BY <1>1, <2>1
<1>5. \A x \in T : Inc(x) \in Nat
  OBVIOUS
<1> HIDE DEF n, m, u, all, first, second, Inc
<1>6. 0 \in Same
  BY <1>1, <1>2, <1>4
<1>7. ASSUME NEW k \in 1..n, k - 1 \in Same PROVE k \in Same
  <2>1. /\ k \in 1..(n + m) /\ k \in 0..n /\ u[k] = s[k] /\ Inc(s[k]) \in Nat
        /\ all[k - 1] = first[k - 1] /\ first[k - 1] \in Nat
    BY <1>1, <1>5, <1>7
  <2>2. first[k] = first[k - 1] + Inc(s[k]) /\ all[k] = first[k - 1] + Inc(s[k])
    BY <1>2, <1>4, <2>1
  <2> QED BY <2>1, <2>2
<1>8. n \in Same
  <2> HIDE DEF Same
  <2>1. \A k \in 1..n : k - 1 \in Same => k \in Same
    BY <1>7
  <2> QED BY <1>0, <1>6, <2>1, UpTo, Zenon
<1>9. all[n] = first[n] /\ first[n] \in Nat
  BY <1>8
<1> HIDE DEF Same
<1>10. 0 \in Later
  BY <1>1, <1>3, <1>9
<1>11. ASSUME NEW k \in 1..m, k - 1 \in Later PROVE k \in Later
  <2>1. /\ n + k \in 1..(n + m) /\ k \in 0..m /\ u[n + k] = t[k] /\ Inc(t[k]) \in Nat
        /\ all[n + (k - 1)] = first[n] + second[k - 1] /\ second[k - 1] \in Nat
        /\ (n + k) - 1 = n + (k - 1)
    BY <1>1, <1>5, <1>11
  <2>2. second[k] = second[k - 1] + Inc(t[k]) /\ all[n + k] = all[n + (k - 1)] + Inc(t[k])
    BY <1>3, <1>4, <2>1
  <2> QED BY <1>9, <2>1, <2>2
<1> HIDE DEF Later
<1>12. m \in Later
  <2>1. \A k \in 1..m : k - 1 \in Later => k \in Later
    BY <1>11
  <2> QED BY <1>0, <1>10, <2>1, UpTo, Zenon
<1> QED BY <1>1, <1>9, <1>12 DEF Later, u, all, first, second, n, m

\* The same of whatever is a sequence.
LEMMA SequencesJoin ==
  ASSUME NEW s, NEW t, IsSequence(s), IsSequence(t)
  PROVE  /\ IsSequence(s \o t)
         /\ Len(s) \in Nat /\ Len(t) \in Nat /\ Len(s \o t) = Len(s) + Len(t)
         /\ Range(s \o t) = Range(s) \cup Range(t)
<1>1. PICK P, Q : s \in Seq(P) /\ t \in Seq(Q)
  BY DEF IsSequence
<1> DEFINE U == P \cup Q
<1>2. P \subseteq U /\ Q \subseteq U
  OBVIOUS
<1> HIDE DEF U
<1>3. s \in Seq(U) /\ t \in Seq(U)
  BY <1>1, <1>2, SeqMonotonic
<1>4. s \o t \in Seq(U) /\ Len(s \o t) = Len(s) + Len(t) /\ Range(s \o t) = Range(s) \cup Range(t)
  BY <1>3, Joining
<1>5. Len(s) \in Nat /\ Len(t) \in Nat
  BY <1>3, LenProperties
<1>6. IsSequence(s \o t)
  BY <1>4, Zenon DEF IsSequence
<1> QED BY <1>4, <1>5, <1>6

LEMMA AmongIs ==
  ASSUME NEW s, IsSequence(s), NEW S
  PROVE  /\ Among(s, S) \in Seq(S) /\ Range(Among(s, S)) = Range(s) \cap S
         /\ IsSequence(Among(s, S))
<1>1. PICK T : s \in Seq(T)
  BY DEF IsSequence
<1>2. Among(s, S) \in Seq(S) /\ Range(Among(s, S)) = Range(s) \cap S
  BY <1>1, AmongElements
<1> QED BY <1>2, Zenon DEF IsSequence

LEMMA AmongBoth ==
  ASSUME NEW s, NEW t, IsSequence(s), IsSequence(t), NEW S
  PROVE  Among(s \o t, S) = Among(s, S) \o Among(t, S)
<1>1. PICK P, Q : s \in Seq(P) /\ t \in Seq(Q)
  BY DEF IsSequence
<1> DEFINE U == P \cup Q
<1>2. P \subseteq U /\ Q \subseteq U
  OBVIOUS
<1> HIDE DEF U
<1>3. s \in Seq(U) /\ t \in Seq(U)
  BY <1>1, <1>2, SeqMonotonic
<1> QED BY <1>3, AmongJoined


\* The nodes that the operations of a change are on, as ids of the graph.
Direct(g, operations) == Among(ChangedIds(operations), DOMAIN g.node)

TablesOf(operations) == [i \in DOMAIN operations |-> operations[i].table]

IdsOf(names) == [i \in DOMAIN names |-> TableId(<<world.database, names[i]>>)]

LEMMA TablesJoined ==
  ASSUME NEW T, NEW s \in Seq(T), NEW t \in Seq(T)
  PROVE  /\ TablesOf(s) \in Seq({x.table : x \in T})
         /\ TablesOf(s \o t) = TablesOf(s) \o TablesOf(t)
<1> DEFINE U == {x.table : x \in T}
           u == s \o t
<1>1. /\ u \in Seq(T) /\ Len(s) \in Nat /\ Len(t) \in Nat
      /\ Len(u) = Len(s) + Len(t) /\ DOMAIN u = 1..(Len(s) + Len(t))
      /\ \A i \in 1..Len(s) : u[i] = s[i]
      /\ \A i \in 1..Len(t) : u[Len(s) + i] = t[i]
  BY JoinedAt
<1>2. ASSUME NEW q \in Seq(T)
      PROVE  /\ TablesOf(q) \in Seq(U) /\ Len(TablesOf(q)) = Len(q)
             /\ \A i \in 1..Len(q) : TablesOf(q)[i] = q[i].table
  <2>1. DOMAIN q = 1..Len(q) /\ Len(q) \in Nat /\ \A i \in 1..Len(q) : q[i] \in T
    BY LenProperties
  <2>2. TablesOf(q) = [i \in 1..Len(q) |-> q[i].table]
    BY <2>1 DEF TablesOf
  <2>3. \A i \in 1..Len(q) : q[i].table \in U
    BY <2>1
  <2> HIDE DEF U
  <2> QED BY <2>1, <2>2, <2>3, IsASeq
<1>3. TablesOf(s) \in Seq(U) /\ TablesOf(t) \in Seq(U) /\ TablesOf(u) \in Seq(U)
  BY <1>1, <1>2
<1> DEFINE a == TablesOf(u)
           b == TablesOf(s) \o TablesOf(t)
<1>4. b \in Seq(U) /\ Len(b) = Len(s) + Len(t) /\ Len(a) = Len(s) + Len(t)
  <2> DEFINE p == TablesOf(s)
             q == TablesOf(t)
  <2>1. Len(p) = Len(s) /\ Len(q) = Len(t) /\ Len(a) = Len(u)
    <3> HIDE DEF U, u
    <3> QED BY <1>1, <1>2
  <2>2. p \in Seq(U) /\ q \in Seq(U)
    BY <1>3
  <2> HIDE DEF U, u, a, p, q
  <2>3. p \o q \in Seq(U) /\ Len(p \o q) = Len(p) + Len(q)
    BY <2>2, Joining
  <2> QED BY <1>1, <2>1, <2>3 DEF p, q
<1>5. /\ \A i \in 1..Len(s) : b[i] = s[i].table
      /\ \A i \in 1..Len(t) : b[Len(s) + i] = t[i].table
  <2> HIDE DEF U
  <2>1. Len(TablesOf(s)) = Len(s) /\ Len(TablesOf(t)) = Len(t)
    BY <1>2
  <2>2. /\ \A i \in 1..Len(TablesOf(s)) : b[i] = TablesOf(s)[i]
        /\ \A i \in 1..Len(TablesOf(t)) : b[Len(TablesOf(s)) + i] = TablesOf(t)[i]
    BY <1>3, JoinedAt
  <2> QED BY <1>2, <2>1, <2>2
<1>6. \A i \in 1..(Len(s) + Len(t)) : a[i] = b[i]
  <2> SUFFICES ASSUME NEW i \in 1..(Len(s) + Len(t)) PROVE a[i] = b[i]
    OBVIOUS
  <2>1. a[i] = u[i].table
    <3> HIDE DEF U, u
    <3> QED BY <1>1, <1>2
  <2> HIDE DEF a, b, u
  <2>2. CASE i \in 1..Len(s)
    BY <1>1, <1>5, <2>1, <2>2
  <2>3. CASE i \notin 1..Len(s)
    <3>1. i - Len(s) \in 1..Len(t) /\ i = Len(s) + (i - Len(s))
      BY <1>1, <2>3
    <3> QED BY <1>1, <1>5, <2>1, <3>1
  <2> QED BY <2>2, <2>3
<1>7. a \in Seq(U)
  BY <1>3
<1> HIDE DEF a, b, U
<1>8. a = b
  BY <1>4, <1>6, <1>7, SeqEqual
<1> QED BY <1>3, <1>8 DEF a, b, U

LEMMA IdsJoined ==
  ASSUME NEW T, NEW s \in Seq(T), NEW t \in Seq(T)
  PROVE  /\ IdsOf(s) \in Seq({TableId(<<world.database, x>>) : x \in T})
         /\ IdsOf(s \o t) = IdsOf(s) \o IdsOf(t)
<1> DEFINE Id(x) == TableId(<<world.database, x>>)
           U == {Id(x) : x \in T}
           u == s \o t
<1>1. /\ u \in Seq(T) /\ Len(s) \in Nat /\ Len(t) \in Nat
      /\ Len(u) = Len(s) + Len(t) /\ DOMAIN u = 1..(Len(s) + Len(t))
      /\ \A i \in 1..Len(s) : u[i] = s[i]
      /\ \A i \in 1..Len(t) : u[Len(s) + i] = t[i]
  BY JoinedAt
<1>2. ASSUME NEW q \in Seq(T)
      PROVE  /\ IdsOf(q) \in Seq(U) /\ Len(IdsOf(q)) = Len(q)
             /\ \A i \in 1..Len(q) : IdsOf(q)[i] = Id(q[i])
  <2>1. DOMAIN q = 1..Len(q) /\ Len(q) \in Nat /\ \A i \in 1..Len(q) : q[i] \in T
    BY LenProperties
  <2>2. IdsOf(q) = [i \in 1..Len(q) |-> Id(q[i])]
    BY <2>1 DEF IdsOf
  <2> HIDE DEF Id
  <2>3. \A i \in 1..Len(q) : Id(q[i]) \in U
    BY <2>1
  <2> HIDE DEF U
  <2> QED BY <2>1, <2>2, <2>3, IsASeq
<1> HIDE DEF Id
<1>3. IdsOf(s) \in Seq(U) /\ IdsOf(t) \in Seq(U) /\ IdsOf(u) \in Seq(U)
  BY <1>1, <1>2
<1> DEFINE a == IdsOf(u)
           b == IdsOf(s) \o IdsOf(t)
<1>4. b \in Seq(U) /\ Len(b) = Len(s) + Len(t) /\ Len(a) = Len(s) + Len(t)
  <2> DEFINE p == IdsOf(s)
             q == IdsOf(t)
  <2>1. Len(p) = Len(s) /\ Len(q) = Len(t) /\ Len(a) = Len(u)
    <3> HIDE DEF U, u
    <3> QED BY <1>1, <1>2
  <2>2. p \in Seq(U) /\ q \in Seq(U)
    BY <1>3
  <2> HIDE DEF U, u, a, p, q
  <2>3. p \o q \in Seq(U) /\ Len(p \o q) = Len(p) + Len(q)
    BY <2>2, Joining
  <2> QED BY <1>1, <2>1, <2>3 DEF p, q
<1>5. /\ \A i \in 1..Len(s) : b[i] = Id(s[i])
      /\ \A i \in 1..Len(t) : b[Len(s) + i] = Id(t[i])
  <2> HIDE DEF U
  <2>1. Len(IdsOf(s)) = Len(s) /\ Len(IdsOf(t)) = Len(t)
    BY <1>2
  <2>2. /\ \A i \in 1..Len(IdsOf(s)) : b[i] = IdsOf(s)[i]
        /\ \A i \in 1..Len(IdsOf(t)) : b[Len(IdsOf(s)) + i] = IdsOf(t)[i]
    BY <1>3, JoinedAt
  <2> QED BY <1>2, <2>1, <2>2
<1>6. \A i \in 1..(Len(s) + Len(t)) : a[i] = b[i]
  <2> SUFFICES ASSUME NEW i \in 1..(Len(s) + Len(t)) PROVE a[i] = b[i]
    OBVIOUS
  <2>1. a[i] = Id(u[i])
    <3> HIDE DEF U, u
    <3> QED BY <1>1, <1>2
  <2> HIDE DEF a, b, u
  <2>2. CASE i \in 1..Len(s)
    BY <1>1, <1>5, <2>1, <2>2
  <2>3. CASE i \notin 1..Len(s)
    <3>1. i - Len(s) \in 1..Len(t) /\ i = Len(s) + (i - Len(s))
      BY <1>1, <2>3
    <3> QED BY <1>1, <1>5, <2>1, <3>1
  <2> QED BY <2>2, <2>3
<1>7. a \in Seq(U)
  BY <1>3
<1> HIDE DEF a, b, U
<1>8. a = b
  BY <1>4, <1>6, <1>7, SeqEqual
<1> QED BY <1>3, <1>8 DEF a, b, U, Id

LEMMA DirectJoined ==
  ASSUME NEW T, NEW s \in Seq(T), NEW t \in Seq(T), NEW g
  PROVE  /\ Direct(g, s) \in Seq(DOMAIN g.node)
         /\ Direct(g, t) \in Seq(DOMAIN g.node)
         /\ Direct(g, s \o t) = Direct(g, s) \o Direct(g, t)
<1> DEFINE Names == STRING \ {None}
           Name(o) == Among(TablesOf(o), Names)
<1>1. \A o : ChangedIds(o) = IdsOf(Name(o))
  BY DEF ChangedIds, TablesOf, IdsOf
<1> HIDE DEF Names
<1>2. /\ IsSequence(TablesOf(s)) /\ IsSequence(TablesOf(t))
      /\ TablesOf(s \o t) = TablesOf(s) \o TablesOf(t)
  BY TablesJoined, Zenon DEF IsSequence
<1>3. Name(s \o t) = Name(s) \o Name(t)
  BY <1>2, AmongBoth
<1>4. Name(s) \in Seq(Names) /\ Name(t) \in Seq(Names)
  BY <1>2, AmongIs
<1> HIDE DEF Name
<1>5. /\ IsSequence(IdsOf(Name(s))) /\ IsSequence(IdsOf(Name(t)))
      /\ IdsOf(Name(s) \o Name(t)) = IdsOf(Name(s)) \o IdsOf(Name(t))
  BY <1>4, IdsJoined, Zenon DEF IsSequence
<1>6. /\ IsSequence(ChangedIds(s)) /\ IsSequence(ChangedIds(t))
      /\ ChangedIds(s \o t) = ChangedIds(s) \o ChangedIds(t)
  BY <1>1, <1>3, <1>5
<1>7. Direct(g, s \o t) = Direct(g, s) \o Direct(g, t)
  BY <1>6, AmongBoth DEF Direct
<1>8. Direct(g, s) \in Seq(DOMAIN g.node) /\ Direct(g, t) \in Seq(DOMAIN g.node)
  BY <1>6, AmongIs DEF Direct
<1> QED BY <1>7, <1>8

\* What is reached from an object.
Below(g, id) == DOMAIN Downstream(g, id) \ {id}

\* A change reaches what one of its objects reaches.
LEMMA ImpactDomain ==
  ASSUME NEW g, NEW S, NEW ids \in Seq(S)
  PROVE  DOMAIN Impact(g, ids) = UNION {Below(g, id) : id \in Range(ids)}
<1> DEFINE n == Len(ids)
           all == Impacts(g, ids)
           Reaching(i) == Below(g, ids[i])
           Good == {k \in 0..n : DOMAIN all[k] = UNION {Reaching(i) : i \in 1..k}}
<1>1. n \in Nat /\ DOMAIN ids = 1..n
  BY LenProperties
<1>2. all[0] = <<>> /\ \A k \in 1..n : all[k] = Joined(all[k - 1], Downstream(g, ids[k]), ids[k])
  BY <1>1, ImpactsDefined
<1>3. ASSUME NEW k \in 1..n PROVE DOMAIN all[k] = DOMAIN all[k - 1] \cup Reaching(k)
  <2> DEFINE id == ids[k]
  <2>1. all[k] = Joined(all[k - 1], Downstream(g, id), id)
    BY <1>2
  <2>2. Reaching(k) = DOMAIN Downstream(g, id) \ {id}
    BY DEF Below
  <2> HIDE DEF all, n, Reaching, id
  <2> QED BY <2>1, <2>2 DEF Joined
<1>4. Impact(g, ids) = all[n]
  BY DEF Impact
<1>5. UNION {Below(g, id) : id \in Range(ids)} = UNION {Reaching(i) : i \in 1..n}
  BY <1>1 DEF Range
<1> HIDE DEF n, all, Reaching
<1>6. 0 \in Good
  <2>1. DOMAIN all[0] = {}
    BY <1>2
  <2> QED BY <1>1, <2>1
<1>7. ASSUME NEW k \in 1..n, k - 1 \in Good PROVE k \in Good
  <2>1. DOMAIN all[k] = DOMAIN all[k - 1] \cup Reaching(k) /\ k \in 0..n
    BY <1>1, <1>3
  <2>2. DOMAIN all[k - 1] = UNION {Reaching(i) : i \in 1..(k - 1)}
    BY <1>7
  <2>3. 1..k = 1..(k - 1) \cup {k}
    BY <1>1
  <2> QED BY <2>1, <2>2, <2>3
<1> HIDE DEF Good
<1>8. n \in Good
  <2>1. \A k \in 1..n : k - 1 \in Good => k \in Good
    BY <1>7
  <2> QED BY <1>1, <1>6, <2>1, UpTo, Zenon
<1> QED BY <1>4, <1>5, <1>8 DEF Good

\* What more objects reach is added to what the first ones reach, and
\* changes none of the paths to it.
LEMMA ImpactJoined ==
  ASSUME NEW g, NEW S, NEW s \in Seq(S), NEW t \in Seq(S)
  PROVE  \A id \in DOMAIN Impact(g, s) :
           id \in DOMAIN Impact(g, s \o t) /\ Impact(g, s \o t)[id] = Impact(g, s)[id]
<1> DEFINE n == Len(s)
           m == Len(t)
           u == s \o t
           all == Impacts(g, u)
           first == Impacts(g, s)
           Down(x) == Downstream(g, x)
           Same == {k \in 0..n : all[k] = first[k]}
           Later == {k \in 0..m : \A id \in DOMAIN all[n] :
                                    id \in DOMAIN all[n + k] /\ all[n + k][id] = all[n][id]}
<1>0. n \in Nat /\ m \in Nat
  BY JoinedAt
<1>1. Len(u) = n + m /\ Len(u) \in Nat /\ \A i \in 1..n : u[i] = s[i]
  BY JoinedAt
<1>2. first[0] = <<>> /\ \A k \in 1..n : first[k] = Joined(first[k - 1], Down(s[k]), s[k])
  BY <1>0, ImpactsDefined
<1>3. all[0] = <<>> /\ \A k \in 1..(n + m) : all[k] = Joined(all[k - 1], Down(u[k]), u[k])
  <2> HIDE DEF u
  <2>1. all[0] = <<>> /\ \A k \in 1..Len(u) : all[k] = Joined(all[k - 1], Down(u[k]), u[k])
    BY <1>1, ImpactsDefined
  <2> QED BY <1>1, <2>1
<1>4. Impact(g, u) = all[n + m] /\ Impact(g, s) = first[n]
  BY <1>1 DEF Impact
<1> HIDE DEF n, m, u, all, first, Down
<1>5. n \in Same
  <2>1. 0 \in Same
    BY <1>0, <1>2, <1>3
  <2>2. ASSUME NEW k \in 1..n, k - 1 \in Same PROVE k \in Same
    <3>1. k \in 1..(n + m) /\ k \in 0..n
      BY <1>0
    <3>2. all[k - 1] = first[k - 1] /\ u[k] = s[k]
      BY <1>1, <2>2
    <3> QED BY <1>2, <1>3, <3>1, <3>2
  <2> HIDE DEF Same
  <2>3. \A k \in 1..n : k - 1 \in Same => k \in Same
    BY <2>2
  <2> QED BY <1>0, <2>1, <2>3, UpTo, Zenon
<1>6. m \in Later
  <2>1. 0 \in Later
    <3>1. n + 0 = n /\ 0 \in 0..m
      BY <1>0
    <3> QED BY <3>1
  <2>2. ASSUME NEW k \in 1..m, k - 1 \in Later PROVE k \in Later
    <3>1. n + k \in 1..(n + m) /\ k \in 0..m /\ (n + k) - 1 = n + (k - 1)
      BY <1>0
    <3>2. all[n + k] = Joined(all[n + (k - 1)], Down(u[n + k]), u[n + k])
      BY <1>3, <3>1
    <3>3. \A id \in DOMAIN all[n + (k - 1)] :
            id \in DOMAIN all[n + k] /\ all[n + k][id] = all[n + (k - 1)][id]
      BY <3>2 DEF Joined
    <3>4. \A id \in DOMAIN all[n] :
            id \in DOMAIN all[n + (k - 1)] /\ all[n + (k - 1)][id] = all[n][id]
      BY <2>2
    <3> QED BY <3>1, <3>3, <3>4
  <2> HIDE DEF Later
  <2>3. \A k \in 1..m : k - 1 \in Later => k \in Later
    BY <2>2
  <2> QED BY <1>0, <2>1, <2>3, UpTo, Zenon
<1>7. all[n] = first[n]
  BY <1>5
<1>8. \A id \in DOMAIN all[n] : id \in DOMAIN all[n + m] /\ all[n + m][id] = all[n][id]
  BY <1>6
<1> QED BY <1>4, <1>7, <1>8 DEF u

\* The graph of a world.
IsGraph(g) ==
  /\ IsFiniteSet(DOMAIN g.node)
  /\ g.edges \in Seq(Range(g.edges))
  /\ \A e \in Range(g.edges) :
       {e.source, e.target} \subseteq DOMAIN g.node /\ e.confidence \in 0..100

\* A search finds nodes.
LEMMA DownstreamIsNodes ==
  ASSUME NEW g, IsGraph(g), NEW id
  PROVE  DOMAIN Downstream(g, id) \subseteq DOMAIN g.node
<1> DEFINE most == MostExpansions(g)
           nodes == DOMAIN g.node
           n == Len(g.edges)
           run == Expansions(g, id)
           Good == {k \in 0..most : DOMAIN run[k].visited \subseteq nodes}
<1>1. most \in Nat
  BY FS_CardinalityType DEF IsGraph, MostExpansions
<1>2. n \in Nat /\ \A i \in 1..n : g.edges[i].source \in nodes
  <2>1. DOMAIN g.edges = 1..n /\ n \in Nat
    BY LenProperties DEF IsGraph
  <2>2. \A i \in 1..n : g.edges[i] \in Range(g.edges)
    BY <2>1 DEF Range
  <2> QED BY <2>1, <2>2 DEF IsGraph
<1>3. ASSUME NEW at, NEW s, DOMAIN s.visited \subseteq nodes
      PROVE  DOMAIN FollowEach(g, at, s)[n].visited \subseteq nodes
  <2> DEFINE after == FollowEach(g, at, s)
             Fine == {k \in 0..n : DOMAIN after[k].visited \subseteq nodes}
  <2>1. after[0] = s /\ \A k \in 1..n :
          after[k] = IF g.edges[k].target = at.id
                     THEN Follow(at, after[k - 1], g.edges[k]) ELSE after[k - 1]
    BY <1>2, FollowEachDefined
  <2> HIDE DEF after, n
  <2>2. 0 \in Fine
    BY <1>2, <1>3, <2>1
  <2>3. ASSUME NEW k \in 1..n, k - 1 \in Fine PROVE k \in Fine
    <3>1. \/ after[k] = after[k - 1]
          \/ after[k] = Follow(at, after[k - 1], g.edges[k])
      BY <2>1
    <3>2. \/ Follow(at, after[k - 1], g.edges[k]) = after[k - 1]
          \/ DOMAIN Follow(at, after[k - 1], g.edges[k]).visited
               = DOMAIN after[k - 1].visited \cup {g.edges[k].source}
      BY DEF Follow
    <3>3. DOMAIN after[k - 1].visited \subseteq nodes /\ g.edges[k].source \in nodes /\ k \in 0..n
      BY <1>2, <2>3
    <3> QED BY <3>1, <3>2, <3>3
  <2> HIDE DEF Fine
  <2>4. \A k \in 1..n : k - 1 \in Fine => k \in Fine
    BY <2>3
  <2>5. n \in Fine
    BY <1>2, <2>2, <2>4, UpTo, Zenon
  <2> QED BY <2>5 DEF Fine, after
<1>4. /\ run[0] = [visited |-> <<>>, frontier |-> <<[id |-> id, via |-> <<>>]>>]
      /\ \A k \in 1..most : run[k] = Expand(g, run[k - 1])
  BY <1>1, ExpansionsDefined
<1>5. Downstream(g, id) = run[most].visited
  BY DEF Downstream
<1>6. ASSUME NEW s, DOMAIN s.visited \subseteq nodes PROVE DOMAIN Expand(g, s).visited \subseteq nodes
  <2>1. Popped(s).visited = s.visited
    BY DEF Popped
  <2>2. \/ Expand(g, s) = s
        \/ Expand(g, s) = Popped(s)
        \/ Expand(g, s) = FollowEach(g, Head(s.frontier), Popped(s))[n]
    BY DEF Expand
  <2>3. DOMAIN FollowEach(g, Head(s.frontier), Popped(s))[n].visited \subseteq nodes
    BY <1>3, <1>6, <2>1
  <2> QED BY <1>6, <2>1, <2>2, <2>3
<1> HIDE DEF most, run, n, nodes
<1>7. 0 \in Good
  <2>1. DOMAIN run[0].visited = {}
    BY <1>4
  <2> QED BY <1>1, <2>1
<1>8. ASSUME NEW k \in 1..most, k - 1 \in Good PROVE k \in Good
  <2>1. DOMAIN run[k - 1].visited \subseteq nodes /\ k \in 0..most
    BY <1>1, <1>8
  <2>2. run[k] = Expand(g, run[k - 1])
    BY <1>4
  <2> QED BY <1>6, <2>1, <2>2
<1> HIDE DEF Good
<1>9. most \in Good
  <2>1. \A k \in 1..most : k - 1 \in Good => k \in Good
    BY <1>8
  <2> QED BY <1>1, <1>7, <2>1, UpTo, Zenon
<1> QED BY <1>5, <1>9 DEF Good, nodes

LEMMA ImpactIsNodes ==
  ASSUME NEW g, IsGraph(g), NEW S, NEW ids \in Seq(S)
  PROVE  DOMAIN Impact(g, ids) \subseteq DOMAIN g.node /\ IsFiniteSet(DOMAIN Impact(g, ids))
<1>1. \A id : Below(g, id) \subseteq DOMAIN g.node
  BY DownstreamIsNodes DEF Below
<1>2. DOMAIN Impact(g, ids) \subseteq DOMAIN g.node
  <2>1. DOMAIN Impact(g, ids) = UNION {Below(g, id) : id \in Range(ids)}
    BY ImpactDomain
  <2> QED BY <1>1, <2>1
<1> QED BY <1>2, FS_Subset DEF IsGraph

-----------------------------------------------------------------------------
(***************************************************************************)
(* What grows with a change.                                               *)
(***************************************************************************)

\* A change and what is written after it.
LEMMA PrefixJoins ==
  ASSUME NEW T, NEW s \in Seq(T), NEW u \in Seq(T), IsPrefix(s, u)
  PROVE  \E t \in Seq(T) : u = s \o t
<1> DEFINE n == Len(s)
           m == Len(u)
           t == SubSeq(u, n + 1, m)
<1>1. /\ n \in Nat /\ m \in Nat /\ n <= m /\ DOMAIN s = 1..n /\ DOMAIN u = 1..m
      /\ \A i \in 1..m : u[i] \in T
  BY LenProperties DEF IsPrefix
<1>2. \A i \in 1..n : s[i] = u[i]
  <2>1. SubSeq(s, 1, n) = SubSeq(u, 1, n)
    BY DEF IsPrefix
  <2>2. \A i \in 1..n : SubSeq(s, 1, n)[i] = s[i] /\ SubSeq(u, 1, n)[i] = u[i]
    BY <1>1
  <2> QED BY <2>1, <2>2
<1>3. t \in Seq(T) /\ Len(t) = m - n /\ \A i \in 1..(m - n) : t[i] = u[n + i]
  <2>1. n + 1 \in Int /\ m \in Int
    BY <1>1
  <2>2. t \in Seq(T) /\ Len(t) = IF n + 1 <= m THEN m - (n + 1) + 1 ELSE 0
    BY <1>1, <2>1, SubSeqProperties
  <2>3. \A i \in 1..(m - (n + 1) + 1) : t[i] = u[(n + 1) + i - 1]
    BY <1>1, <2>1, SubSeqProperties
  <2> HIDE DEF t, n, m
  <2> QED BY <1>1, <2>2, <2>3
<1> HIDE DEF t, n, m
<1>4. /\ s \o t \in Seq(T) /\ Len(s \o t) = m
      /\ \A i \in 1..n : (s \o t)[i] = s[i]
      /\ \A i \in 1..(m - n) : (s \o t)[n + i] = t[i]
  BY <1>1, <1>3, JoinedAt DEF n
<1>5. \A i \in 1..m : (s \o t)[i] = u[i]
  <2> SUFFICES ASSUME NEW i \in 1..m PROVE (s \o t)[i] = u[i]
    OBVIOUS
  <2>1. CASE i \in 1..n
    BY <1>2, <1>4, <2>1
  <2>2. CASE i \notin 1..n
    <3>1. i - n \in 1..(m - n) /\ i = n + (i - n)
      BY <1>1, <2>2
    <3> QED BY <1>3, <1>4, <3>1
  <2> QED BY <2>1, <2>2
<1>6. Len(u) = m
  BY DEF m
<1>7. s \o t = u
  BY <1>4, <1>5, <1>6, SeqEqual
<1> QED BY <1>3, <1>7

\* What a finite number of things are given is finite.
LEMMA ValuesAreFinite ==
  ASSUME NEW S, IsFiniteSet(S), NEW f, DOMAIN f = S
  PROVE  IsFiniteSet({f[x] : x \in S})
<1> DEFINE T == {f[x] : x \in S}
           h == [x \in S |-> f[x]]
<1>1. h \in Surjection(S, T)
  BY DEF Surjection
<1> HIDE DEF h, T
<1>2. IsFiniteSet(T)
  BY <1>1, FS_Surjection
<1> QED BY <1>2 DEF T

\* Numbers in a row have a bound.
LEMMA Bounded ==
  ASSUME NEW n \in Nat, NEW f, \A i \in 1..n : f[i] \in Nat
  PROVE  \E b \in Nat : \A i \in 1..n : f[i] <= b
<1> DEFINE Good == {k \in 0..n : \E b \in Nat : \A i \in 1..k : f[i] <= b}
<1>1. 0 \in Good
  OBVIOUS
<1>2. ASSUME NEW k \in 1..n, k - 1 \in Good PROVE k \in Good
  <2>1. PICK b \in Nat : \A i \in 1..(k - 1) : f[i] <= b
    BY <1>2
  <2> DEFINE c == IF b >= f[k] THEN b ELSE f[k]
  <2>2. c \in Nat /\ b <= c /\ f[k] <= c
    OBVIOUS
  <2> HIDE DEF c
  <2>3. \A i \in 1..k : f[i] <= c
    <3> SUFFICES ASSUME NEW i \in 1..k PROVE f[i] <= c
      OBVIOUS
    <3>1. CASE i = k
      BY <2>2, <3>1
    <3>2. CASE i \in 1..(k - 1)
      <4>1. f[i] <= b /\ f[i] \in Nat
        BY <2>1, <3>2
      <4> QED BY <2>2, <4>1
    <3> QED BY <3>1, <3>2
  <2> QED BY <2>2, <2>3
<1> HIDE DEF Good
<1>3. n \in Good
  <2>1. \A k \in 1..n : k - 1 \in Good => k \in Good
    BY <1>2
  <2> QED BY <1>1, <2>1, UpTo, Zenon
<1> QED BY <1>3 DEF Good

LEMMA LargestGrows ==
  ASSUME NEW b \in Nat, NEW S, NEW R, S \subseteq R, R \subseteq 0..b, S # {}
  PROVE  Largest(S) \in Nat /\ Largest(R) \in Nat /\ Largest(S) <= Largest(R)
<1>1. Largest(S) \in S
  BY LargestOf
<1>2. Largest(R) \in R /\ \A m \in R : m <= Largest(R)
  BY LargestOf
<1> DEFINE x == Largest(S)
           y == Largest(R)
<1>3. x \in 0..b /\ y \in 0..b /\ x <= y
  BY <1>1, <1>2
<1> HIDE DEF x, y
<1>4. x \in Nat /\ y \in Nat /\ x <= y
  BY <1>3
<1> QED BY <1>4 DEF x, y

LEMMA ProductGrows ==
  ASSUME NEW w \in Nat, NEW a \in Nat, NEW b \in Nat, a <= b
  PROVE  w * a \in Nat /\ w * b \in Nat /\ w * a <= w * b
<1>1. b - a \in Nat /\ w * (b - a) \in Nat
  OBVIOUS
<1>2. w * b = w * a + w * (b - a)
  OBVIOUS
<1> QED BY <1>1, <1>2

\* Of a set of nodes: those that satisfy a condition, and their names.
LEMMA NodesGrow ==
  ASSUME NEW A, NEW B, A \subseteq B, IsFiniteSet(B)
  PROVE  Cardinality(A) \in Nat /\ Cardinality(B) \in Nat /\ Cardinality(A) <= Cardinality(B)
<1>1. IsFiniteSet(A) /\ Cardinality(A) <= Cardinality(B)
  BY FS_Subset
<1> QED BY <1>1, FS_CardinalityType

\* What is analyzed after other objects adds to every figure.
LEMMA AnalyzeGrows ==
  ASSUME NEW g, IsGraph(g), NEW s \in Seq(DOMAIN g.node), NEW t \in Seq(DOMAIN g.node),
         NEW a, NEW b, Among(a, DOMAIN g.node) = s, Among(b, DOMAIN g.node) = s \o t
  PROVE  LET p == Analyze(g, a)
             q == Analyze(g, b)
         IN /\ p.affected \in Nat /\ q.affected \in Nat /\ p.affected <= q.affected
            /\ p.critical \in Nat /\ q.critical \in Nat /\ p.critical <= q.critical
            /\ p.production => q.production
            /\ p.replicas \in Nat /\ q.replicas \in Nat /\ p.replicas <= q.replicas
            /\ p.pipelines \in Nat /\ q.pipelines \in Nat /\ p.pipelines <= q.pipelines
<1> DEFINE nodes == DOMAIN g.node
           u == s \o t
           I == Impact(g, s)
           J == Impact(g, u)
           A == DOMAIN I
           B == DOMAIN J
           name == [id \in nodes |-> g.node[id].name]
           Named(C) == {name[id] : id \in C}
           Critical(C) == {id \in C : g.node[id].criticality = "critical"}
           Pipeline(C) == {id \in C : g.node[id].type = "data_pipeline"}
           Replica(K) == {id \in DOMAIN K : IsReplicationPath(K[id])}
           p == Analyze(g, a)
           q == Analyze(g, b)
<1>1. u \in Seq(nodes) /\ Len(s) \in Nat /\ Len(u) \in Nat /\ Len(s) <= Len(u)
  BY JoinedAt
<1>2. A \subseteq nodes /\ B \subseteq nodes /\ IsFiniteSet(B) /\ IsFiniteSet(nodes)
  <2> HIDE DEF u
  <2> QED BY <1>1, ImpactIsNodes DEF IsGraph
<1>3. \A id \in A : id \in B /\ J[id] = I[id]
  BY ImpactJoined
<1>4. /\ p.affected = Len(s) + Cardinality(A)
      /\ p.critical = Cardinality({g.node[id].name : id \in Critical(A)})
      /\ p.production = (\E id \in A : g.node[id].production)
      /\ p.replicas = Cardinality(Replica(I))
      /\ p.pipelines = Cardinality({g.node[id].name : id \in Pipeline(A)})
  BY DEF Analyze
<1>5. /\ q.affected = Len(u) + Cardinality(B)
      /\ q.critical = Cardinality({g.node[id].name : id \in Critical(B)})
      /\ q.production = (\E id \in B : g.node[id].production)
      /\ q.replicas = Cardinality(Replica(J))
      /\ q.pipelines = Cardinality({g.node[id].name : id \in Pipeline(B)})
  BY DEF Analyze
<1>6. \A C : C \subseteq nodes => {g.node[id].name : id \in C} = Named(C)
  OBVIOUS
<1>7. \A C : C \subseteq nodes => IsFiniteSet(Named(C))
  <2> SUFFICES ASSUME NEW C, C \subseteq nodes PROVE IsFiniteSet(Named(C))
    OBVIOUS
  <2> DEFINE f == [id \in C |-> name[id]]
  <2>1. IsFiniteSet(C)
    BY <1>2, FS_Subset
  <2>2. Named(C) = {f[id] : id \in C}
    OBVIOUS
  <2>3. DOMAIN f = C
    OBVIOUS
  <2> HIDE DEF f, Named
  <2> QED BY <2>1, <2>2, <2>3, ValuesAreFinite
<1>8. \A C, D : C \subseteq D => Named(C) \subseteq Named(D)
  OBVIOUS
<1>9. /\ Critical(A) \subseteq Critical(B) /\ Critical(B) \subseteq nodes /\ Critical(A) \subseteq nodes
      /\ Pipeline(A) \subseteq Pipeline(B) /\ Pipeline(B) \subseteq nodes /\ Pipeline(A) \subseteq nodes
      /\ Replica(I) \subseteq Replica(J) /\ Replica(J) \subseteq B
      /\ A \subseteq B
  <2> HIDE DEF I, J, nodes
  <2> QED BY <1>2, <1>3
<1> HIDE DEF p, q, Named, Critical, Pipeline, Replica, A, B, I, J, u, name, nodes
<1>10. /\ p.critical = Cardinality(Named(Critical(A))) /\ q.critical = Cardinality(Named(Critical(B)))
       /\ p.pipelines = Cardinality(Named(Pipeline(A))) /\ q.pipelines = Cardinality(Named(Pipeline(B)))
  BY <1>4, <1>5, <1>6, <1>9
<1>11. /\ Named(Critical(A)) \subseteq Named(Critical(B)) /\ IsFiniteSet(Named(Critical(B)))
       /\ Named(Pipeline(A)) \subseteq Named(Pipeline(B)) /\ IsFiniteSet(Named(Pipeline(B)))
       /\ IsFiniteSet(Replica(J))
  BY <1>2, <1>7, <1>8, <1>9, FS_Subset
<1>12. p.critical \in Nat /\ q.critical \in Nat /\ p.critical <= q.critical
  BY <1>10, <1>11, NodesGrow
<1>13. p.pipelines \in Nat /\ q.pipelines \in Nat /\ p.pipelines <= q.pipelines
  BY <1>10, <1>11, NodesGrow
<1>14. p.replicas \in Nat /\ q.replicas \in Nat /\ p.replicas <= q.replicas
  BY <1>4, <1>5, <1>9, <1>11, NodesGrow
<1>15. Cardinality(A) \in Nat /\ Cardinality(B) \in Nat /\ Cardinality(A) <= Cardinality(B)
  BY <1>2, <1>9, NodesGrow
<1>16. p.affected \in Nat /\ q.affected \in Nat /\ p.affected <= q.affected
  BY <1>1, <1>4, <1>5, <1>15
<1>17. p.production => q.production
  BY <1>4, <1>5, <1>9
<1> QED BY <1>12, <1>13, <1>14, <1>16, <1>17 DEF p, q

\* A change d in the world of c that has c's operations, and more.
Adds(c, d) ==
  /\ c.prod \in BOOLEAN /\ d.prod = c.prod
  /\ d.tables = c.tables /\ d.scanned = c.scanned /\ d.incidents = c.incidents
  /\ \E T : \E s, t \in Seq(T) :
       /\ c.ops = s /\ d.ops = s \o t /\ s # <<>>
       /\ \A x \in T : IncidentsOf(x, c.incidents) \in Nat

\* A score that does not fall.
Grows(m, n) == m \in Nat /\ n \in Nat /\ m <= n

LEMMA KindsAdd ==
  ASSUME NEW c, NEW d, Adds(c, d)
  PROVE  /\ c.ops # <<>> /\ d.ops # <<>> /\ IsSequence(c.ops) /\ IsSequence(d.ops)
         /\ Kinds(c) \subseteq Kinds(d) /\ Kinds(c) # {} /\ IsFiniteSet(Kinds(d))
         /\ NamedTables(c) \subseteq NamedTables(d)
         /\ Grows(Len(c.ops), Len(d.ops))
         /\ Grows(IncidentsFound(c), IncidentsFound(d))
<1>1. PICK T : \E s, t \in Seq(T) :
        /\ c.ops = s /\ d.ops = s \o t /\ s # <<>>
        /\ \A x \in T : IncidentsOf(x, c.incidents) \in Nat
  BY DEF Adds
<1>2. PICK s \in Seq(T), t \in Seq(T) :
        /\ c.ops = s /\ d.ops = s \o t /\ s # <<>>
        /\ \A x \in T : IncidentsOf(x, c.incidents) \in Nat
  BY <1>1
<1> DEFINE u == s \o t
           n == Len(u)
<1>3. /\ u \in Seq(T) /\ Len(s) \in Nat /\ Len(t) \in Nat /\ n = Len(s) + Len(t)
      /\ DOMAIN s = 1..Len(s) /\ DOMAIN u = 1..n
      /\ \A i \in 1..Len(s) : u[i] = s[i]
  BY JoinedAt
<1>4. Len(s) # 0
  BY <1>2, EmptySeq
<1>5. c.ops = s /\ d.ops = u
  BY <1>2
<1>6. IsSequence(s) /\ IsSequence(u)
  <2> HIDE DEF u
  <2> QED BY <1>3 DEF IsSequence
<1>7. Grows(IncidentsFound(c), IncidentsFound(d))
  <2>1. d.incidents = c.incidents
    BY DEF Adds
  <2> DEFINE x == IncidentCounts(s, c.incidents)[Len(s)]
             y == IncidentCounts(t, c.incidents)[Len(t)]
             z == IncidentCounts(u, c.incidents)[Len(u)]
  <2>2. x \in Nat /\ y \in Nat /\ z = x + y
    BY <1>2, CountsJoined
  <2>3. IncidentsFound(c) = x /\ IncidentsFound(d) = z
    BY <1>5, <2>1 DEF IncidentsFound
  <2> HIDE DEF x, y, z
  <2> QED BY <2>2, <2>3 DEF Grows
<1> HIDE DEF u, n
<1>8. \A i \in 1..Len(s) : i \in 1..n
  BY <1>3
<1>9. 1 \in 1..Len(s)
  BY <1>3, <1>4
<1>10. Kinds(c) \subseteq Kinds(d) /\ Kinds(c) # {} /\ NamedTables(c) \subseteq NamedTables(d)
  BY <1>3, <1>5, <1>8, <1>9 DEF Kinds, NamedTables
<1>11. IsFiniteSet(Kinds(d))
  <2> DEFINE D == 1..n
             f == [i \in D |-> u[i].operation]
  <2>1. Kinds(d) = {f[i] : i \in D} /\ DOMAIN f = D
    BY <1>3, <1>5 DEF Kinds
  <2>2. IsFiniteSet(D)
    BY <1>3, FS_Interval
  <2> HIDE DEF f, D
  <2> QED BY <2>1, <2>2, ValuesAreFinite
<1>12. Grows(Len(s), n) /\ u # <<>>
  BY <1>3, <1>4, EmptySeq DEF Grows, n
<1> QED BY <1>2, <1>5, <1>6, <1>7, <1>10, <1>11, <1>12 DEF n

\* The factors of the kinds of operation.
LEMMA KindFactorsGrow ==
  ASSUME NEW c, NEW d, Adds(c, d)
  PROVE  /\ Grows(LockRisk(c), LockRisk(d))
         /\ Grows(BackwardCompatibility(c), BackwardCompatibility(d))
         /\ Grows(RollbackDifficulty(c), RollbackDifficulty(d))
         /\ Grows(ChangeComplexity(c), ChangeComplexity(d))
         /\ Grows(QueryImpact(c), QueryImpact(d))
         /\ Grows(HistoricalIncidents(c), HistoricalIncidents(d))
<1>1. /\ c.ops # <<>> /\ d.ops # <<>> /\ IsSequence(c.ops) /\ IsSequence(d.ops)
      /\ Kinds(c) \subseteq Kinds(d) /\ Kinds(c) # {} /\ IsFiniteSet(Kinds(d))
      /\ NamedTables(c) \subseteq NamedTables(d)
      /\ Grows(Len(c.ops), Len(d.ops))
      /\ Grows(IncidentsFound(c), IncidentsFound(d))
  BY KindsAdd
<1>2. Grows(LockRisk(c), LockRisk(d))
  <2>1. ASSUME NEW e, e.ops # <<>>, IsSequence(e.ops)
        PROVE  /\ LockRisk(e) \in 0..85
               /\ \A i \in DOMAIN e.ops : LockRiskOf(e.ops[i].operation) <= LockRisk(e)
               /\ \E i \in DOMAIN e.ops : LockRisk(e) = LockRiskOf(e.ops[i].operation)
    <3>1. PICK S : e.ops \in Seq(S)
      BY <2>1 DEF IsSequence
    <3> QED BY <2>1, <3>1, LockRiskIsWorst
  <2>2. PICK i \in DOMAIN c.ops : LockRisk(c) = LockRiskOf(c.ops[i].operation)
    BY <1>1, <2>1
  <2>3. PICK j \in DOMAIN d.ops : c.ops[i].operation = d.ops[j].operation
    BY <1>1 DEF Kinds
  <2>4. LockRisk(c) \in 0..85 /\ LockRisk(d) \in 0..85 /\ LockRisk(c) <= LockRisk(d)
    BY <1>1, <2>1, <2>2, <2>3
  <2> QED BY <2>4 DEF Grows
<1>3. Grows(BackwardCompatibility(c), BackwardCompatibility(d))
  BY <1>1 DEF BackwardCompatibility, Grows
<1>4. Grows(RollbackDifficulty(c), RollbackDifficulty(d))
  <2>1. HardToRollBack \cap EasyToRollBack = {}
    BY DEF HardToRollBack, EasyToRollBack
  <2>2. ASSUME NEW e, e.ops # <<>>, Kinds(e) # {}
        PROVE  /\ Kinds(e) \cap HardToRollBack # {} => RollbackDifficulty(e) = 80
               /\ Kinds(e) \subseteq EasyToRollBack => RollbackDifficulty(e) = 15
               /\ Kinds(e) \cap HardToRollBack = {} /\ ~ Kinds(e) \subseteq EasyToRollBack
                    => RollbackDifficulty(e) = 40
    BY <2>1, <2>2 DEF RollbackDifficulty
  <2>3. CASE Kinds(d) \cap HardToRollBack # {}
    BY <1>1, <2>2, <2>3 DEF Grows
  <2>4. CASE Kinds(d) \subseteq EasyToRollBack
    BY <1>1, <2>2, <2>4 DEF Grows
  <2>5. CASE Kinds(d) \cap HardToRollBack = {} /\ ~ Kinds(d) \subseteq EasyToRollBack
    BY <1>1, <2>2, <2>5 DEF Grows
  <2> QED BY <2>3, <2>4, <2>5
<1>5. Grows(ChangeComplexity(c), ChangeComplexity(d))
  <2> DEFINE x == Cardinality(Kinds(c))
             y == Cardinality(Kinds(d))
             m == Len(c.ops)
             n == Len(d.ops)
             p == IF "unknown" \in Kinds(c) THEN 25 ELSE 0
             q == IF "unknown" \in Kinds(d) THEN 25 ELSE 0
  <2>1. x \in Nat /\ y \in Nat /\ x <= y
    BY <1>1, NodesGrow
  <2>2. m \in Nat /\ n \in Nat /\ m <= n
    BY <1>1 DEF Grows
  <2>3. p \in Nat /\ q \in Nat /\ p <= q
    BY <1>1
  <2>4. /\ ChangeComplexity(c) = AtMost(95, 10 + 8 * m + 6 * x + p)
        /\ ChangeComplexity(d) = AtMost(95, 10 + 8 * n + 6 * y + q)
    BY DEF ChangeComplexity
  <2> HIDE DEF x, y, m, n, p, q
  <2> QED BY <2>1, <2>2, <2>3, <2>4 DEF Grows, AtMost
<1>6. Grows(QueryImpact(c), QueryImpact(d))
  <2> DEFINE Base(e) == IF Kinds(e) \cap RewriteOps # {} THEN 55 ELSE 15
             Bump(e) == IF NamedTables(e) \cap e.scanned # {} THEN 25 ELSE 0
  <2>1. \A e : QueryImpact(e) = AtMost(95, Base(e) + Bump(e))
    BY DEF QueryImpact
  <2>2. Base(c) \in {15, 55} /\ Base(d) \in {15, 55} /\ Base(c) <= Base(d)
    BY <1>1
  <2>3. Bump(c) \in {0, 25} /\ Bump(d) \in {0, 25} /\ Bump(c) <= Bump(d)
    BY <1>1 DEF Adds
  <2> HIDE DEF Base, Bump
  <2> QED BY <2>1, <2>2, <2>3 DEF Grows, AtMost
<1>7. Grows(HistoricalIncidents(c), HistoricalIncidents(d))
  <2> DEFINE x == IncidentsFound(c)
             y == IncidentsFound(d)
  <2>1. x \in Nat /\ y \in Nat /\ x <= y
    BY <1>1 DEF Grows
  <2>2. /\ HistoricalIncidents(c) = IF x = 0 THEN 15 ELSE AtMost(95, 65 + 10 * (x - 1))
        /\ HistoricalIncidents(d) = IF y = 0 THEN 15 ELSE AtMost(95, 65 + 10 * (y - 1))
    BY DEF HistoricalIncidents
  <2> HIDE DEF x, y
  <2> QED BY <2>1, <2>2 DEF Grows, AtMost
<1> QED BY <1>2, <1>3, <1>4, <1>5, <1>6, <1>7

\* The sizes of the tables of a change have a largest one.
LEMMA SizesBounded ==
  ASSUME NEW c, IsSequence(c.ops), NEW size, \A x \in DOMAIN c.tables : size[x] \in Nat
  PROVE  \E b \in Nat : {size[x] : x \in TargetTables(c)} \subseteq 0..b
<1> DEFINE n == Len(c.ops)
           At(i) == c.ops[i].table
           f == [i \in 1..n |-> IF At(i) \in DOMAIN c.tables THEN size[At(i)] ELSE 0]
<1>1. n \in Nat /\ DOMAIN c.ops = 1..n
  BY LenProperties DEF IsSequence
<1>2. \A i \in 1..n : f[i] \in Nat
  OBVIOUS
<1>3. \A x \in TargetTables(c) : x \in DOMAIN c.tables /\ \E i \in 1..n : x = At(i)
  BY <1>1 DEF TargetTables, NamedTables
<1>4. \A x \in TargetTables(c) : \E i \in 1..n : size[x] = f[i]
  BY <1>3
<1> HIDE DEF n, f
<1>5. PICK b \in Nat : \A i \in 1..n : f[i] <= b
  BY <1>1, <1>2, Bounded
<1>6. \A x \in TargetTables(c) : size[x] \in 0..b
  BY <1>2, <1>4, <1>5
<1> QED BY <1>6

\* The factors of the tables the catalog knows.
LEMMA TableFactorsGrow ==
  ASSUME NEW c, NEW d, Adds(c, d), TargetTables(c) # {},
         \A x \in DOMAIN c.tables : {c.tables[x].gb, c.tables[x].krows} \subseteq Nat \cup {None}
  PROVE  /\ Grows(TableSize(c), TableSize(d))
         /\ Grows(DataVolume(c), DataVolume(d))
         /\ Grows(IndexImpact(c), IndexImpact(d))
<1>1. /\ IsSequence(d.ops) /\ Kinds(c) \subseteq Kinds(d)
      /\ d.tables = c.tables /\ TargetTables(c) \subseteq TargetTables(d)
  <2>1. d.tables = c.tables
    BY DEF Adds
  <2> QED BY <2>1, KindsAdd DEF TargetTables
<1>2. TargetTables(d) \subseteq DOMAIN c.tables
  BY <1>1 DEF TargetTables
<1>3. Grows(LargestGb(c), LargestGb(d))
  <2> DEFINE size == [x \in DOMAIN c.tables |-> Measured(c.tables[x].gb)]
             Sizes(e) == {size[x] : x \in TargetTables(e)}
  <2>1. \A x \in DOMAIN c.tables : size[x] \in Nat
    BY DEF Measured
  <2>2. LargestGb(c) = Largest(Sizes(c)) /\ LargestGb(d) = Largest(Sizes(d))
    <3>1. {Measured(c.tables[x].gb) : x \in TargetTables(c)} = Sizes(c)
      BY <1>1, <1>2
    <3>2. {Measured(d.tables[x].gb) : x \in TargetTables(d)} = Sizes(d)
      BY <1>1, <1>2
    <3> HIDE DEF Sizes
    <3> QED BY <3>1, <3>2 DEF LargestGb
  <2>3. Sizes(c) # {} /\ Sizes(c) \subseteq Sizes(d)
    BY <1>1
  <2>4. PICK b \in Nat : Sizes(d) \subseteq 0..b
    <3> HIDE DEF size
    <3> QED BY <1>1, <2>1, SizesBounded
  <2> HIDE DEF Sizes
  <2> QED BY <2>2, <2>3, <2>4, LargestGrows DEF Grows
<1>4. Grows(LargestKrows(c), LargestKrows(d))
  <2> DEFINE size == [x \in DOMAIN c.tables |-> Measured(c.tables[x].krows)]
             Sizes(e) == {size[x] : x \in TargetTables(e)}
  <2>1. \A x \in DOMAIN c.tables : size[x] \in Nat
    BY DEF Measured
  <2>2. LargestKrows(c) = Largest(Sizes(c)) /\ LargestKrows(d) = Largest(Sizes(d))
    <3>1. {Measured(c.tables[x].krows) : x \in TargetTables(c)} = Sizes(c)
      BY <1>1, <1>2
    <3>2. {Measured(d.tables[x].krows) : x \in TargetTables(d)} = Sizes(d)
      BY <1>1, <1>2
    <3> HIDE DEF Sizes
    <3> QED BY <3>1, <3>2 DEF LargestKrows
  <2>3. Sizes(c) # {} /\ Sizes(c) \subseteq Sizes(d)
    BY <1>1
  <2>4. PICK b \in Nat : Sizes(d) \subseteq 0..b
    <3> HIDE DEF size
    <3> QED BY <1>1, <2>1, SizesBounded
  <2> HIDE DEF Sizes
  <2> QED BY <2>2, <2>3, <2>4, LargestGrows DEF Grows
<1>5. TargetTables(d) # {}
  BY <1>1
<1>6. Grows(TableSize(c), TableSize(d))
  BY <1>3, <1>5 DEF TableSize, Banded, Grows
<1>7. Grows(DataVolume(c), DataVolume(d))
  BY <1>4, <1>5 DEF DataVolume, Banded, Grows
<1>8. LargeTable(c) => LargeTable(d)
  BY <1>3, <1>5 DEF LargeTable, Grows
<1>9. Grows(IndexImpact(c), IndexImpact(d))
  BY <1>1, <1>8 DEF IndexImpact, Grows
<1> QED BY <1>6, <1>7, <1>9

\* The factors of the blast radius.
LEMMA ImpactFactorsGrow ==
  ASSUME NEW c, NEW d, Adds(c, d), d.radius = NoRadius <=> c.radius = NoRadius,
         c.radius # NoRadius =>
           /\ Grows(c.radius.affected, d.radius.affected)
           /\ Grows(c.radius.critical, d.radius.critical)
           /\ Grows(c.radius.replicas, d.radius.replicas)
           /\ Grows(c.radius.pipelines, d.radius.pipelines)
           /\ c.radius.production => d.radius.production
  PROVE  /\ Grows(Criticality(c), Criticality(d))
         /\ Grows(DependencyCount(c), DependencyCount(d))
         /\ Grows(ProductionUsage(c), ProductionUsage(d))
         /\ Grows(ReplicationImpact(c), ReplicationImpact(d))
<1>1. Grows(Criticality(c), Criticality(d))
  <2> DEFINE Count(e) == IF e.radius = NoRadius THEN 0 ELSE e.radius.critical
  <2>1. Count(c) \in Nat /\ Count(d) \in Nat /\ Count(c) <= Count(d)
    BY DEF Grows
  <2>2. \A e : Criticality(e) = CASE Count(e) = 0 -> 10 [] Count(e) \in 1..2 -> 55 [] OTHER -> 85
    BY DEF Criticality
  <2> HIDE DEF Count
  <2>3. \A e : Count(e) \in Nat =>
                 Criticality(e) = IF Count(e) = 0 THEN 10 ELSE IF Count(e) <= 2 THEN 55 ELSE 85
    BY <2>2
  <2> QED BY <2>1, <2>3 DEF Grows
<1>2. Grows(DependencyCount(c), DependencyCount(d))
  <2> DEFINE Count(e) == IF e.radius = NoRadius THEN 0 ELSE e.radius.affected
  <2>1. Count(c) \in Nat /\ Count(d) \in Nat /\ Count(c) <= Count(d)
    BY DEF Grows
  <2>2. \A e : DependencyCount(e) =
                 CASE Count(e) \in 0..1 -> 10 [] Count(e) \in 2..4 -> 35 [] Count(e) \in 5..9 -> 60
                   [] OTHER -> 85
    BY DEF DependencyCount
  <2> HIDE DEF Count
  <2>3. \A e : Count(e) \in Nat =>
          DependencyCount(e) = IF Count(e) <= 1 THEN 10 ELSE IF Count(e) <= 4 THEN 35
                               ELSE IF Count(e) <= 9 THEN 60 ELSE 85
    BY <2>2
  <2> QED BY <2>1, <2>3 DEF Grows
<1>3. Grows(ProductionUsage(c), ProductionUsage(d))
  BY DEF ProductionUsage, Grows, Adds
<1>4. Grows(ReplicationImpact(c), ReplicationImpact(d))
  <2> DEFINE Count(e) == IF e.radius = NoRadius THEN 0 ELSE e.radius.replicas + e.radius.pipelines
  <2>1. Count(c) \in Nat /\ Count(d) \in Nat /\ Count(c) <= Count(d)
    BY DEF Grows
  <2>2. \A e : ReplicationImpact(e) = CASE Count(e) = 0 -> 10 [] Count(e) = 1 -> 45 [] OTHER -> 75
    BY DEF ReplicationImpact
  <2> HIDE DEF Count
  <2>3. \A e : ReplicationImpact(e) = IF Count(e) = 0 THEN 10 ELSE IF Count(e) = 1 THEN 45 ELSE 75
    BY <2>2
  <2> QED BY <2>1, <2>3 DEF Grows
<1> QED BY <1>1, <1>2, <1>3, <1>4

\* No weight is negative: a higher factor raises the score.
LEMMA WeightedGrows ==
  ASSUME NEW s, NEW t, \A f \in FactorTypes : Grows(s[f], t[f])
  PROVE  Grows(Weighted(s), Weighted(t))
<1> DEFINE P(f) == Weight[f] * s[f]
           Q(f) == Weight[f] * t[f]
<1>1. \A f \in FactorTypes : P(f) \in Nat /\ Q(f) \in Nat /\ P(f) <= Q(f)
  <2> SUFFICES ASSUME NEW f \in FactorTypes
               PROVE  P(f) \in Nat /\ Q(f) \in Nat /\ P(f) <= Q(f)
    OBVIOUS
  <2>1. Weight[f] \in Nat /\ s[f] \in Nat /\ t[f] \in Nat /\ s[f] <= t[f]
    BY WeightAssumption DEF Grows
  <2> QED BY <2>1, ProductGrows
<1>2. Weighted(s) = P("lock_risk") + P("backward_compatibility") + P("criticality")
        + P("dependency_count") + P("production_usage") + P("rollback_difficulty")
        + P("table_size") + P("data_volume") + P("index_impact") + P("replication_impact")
        + P("change_complexity") + P("query_impact") + P("historical_incidents")
  BY DEF Weighted
<1>3. Weighted(t) = Q("lock_risk") + Q("backward_compatibility") + Q("criticality")
        + Q("dependency_count") + Q("production_usage") + Q("rollback_difficulty")
        + Q("table_size") + Q("data_volume") + Q("index_impact") + Q("replication_impact")
        + Q("change_complexity") + Q("query_impact") + Q("historical_incidents")
  BY DEF Weighted
<1> HIDE DEF P, Q
<1> QED BY <1>1, <1>2, <1>3 DEF Grows, FactorTypes

\* So does the level.
LEMMA LevelGrows ==
  ASSUME NEW m, NEW n, Grows(m, n)
  PROVE  /\ RiskLevelFor(m) \in Levels /\ RiskLevelFor(n) \in Levels
         /\ Grows(Rank[RiskLevelFor(m)], Rank[RiskLevelFor(n)])
<1> DEFINE a == 100 * LowMax
           b == 100 * MediumMax
           h == 100 * HighMax
           Number(k) == IF k <= a THEN 0 ELSE IF k <= b THEN 1 ELSE IF k <= h THEN 2 ELSE 3
<1>1. a \in Nat /\ b \in Nat /\ h \in Nat
  BY LevelAssumption
<1>2. \A k : RiskLevelFor(k) \in Levels /\ Rank[RiskLevelFor(k)] = Number(k)
  BY DEF RiskLevelFor, Levels, Rank
<1> HIDE DEF a, b, h
<1>3. Number(m) \in Nat /\ Number(n) \in Nat /\ Number(m) <= Number(n)
  BY <1>1 DEF Grows
<1> QED BY <1>2, <1>3 DEF Grows

LEMMA WorldIsSound ==
  ASSUME world \in Worlds
  PROVE  /\ world.prod \in BOOLEAN /\ None \notin DOMAIN world.tables
         /\ \A x \in DOMAIN world.tables :
              {world.tables[x].gb, world.tables[x].krows} \subseteq Nat \cup {None}
         /\ \A op : IncidentsOf(op, world.incidents) \in Nat
         /\ world.graph # None => IsGraph(world.graph)
BY WorldAssumption DEF IsGraph, IncidentsOf

\* And what the rules make of it.
LEMMA VerdictGrows ==
  ASSUME world \in Worlds, NEW p, NEW q, NEW before, NEW after, NEW u, NEW v,
         \A f \in Counted : Grows(p.scores[f], q.scores[f]),
         p.level \in Levels, q.level \in Levels, Rank[p.level] <= Rank[q.level],
         Decided(before, Len(world.rules), p, u), Decided(after, Len(world.rules), q, v)
  PROVE  /\ Rank[before.level] <= Rank[after.level]
         /\ before.approval => after.approval
<1> DEFINE One(a) == world.prod /\ a.level \in {"high", "critical"}
           Two(a) == /\ world.prod
                     /\ "table_size" \in Counted /\ a.scores.table_size >= 75
                     /\ "backward_compatibility" \in Counted
                     /\ a.scores.backward_compatibility >= 55
           Four(a) == "dependency_count" \in Counted /\ a.scores.dependency_count >= 85
<1>1. \A a, o : LET document == Document(a, o) IN
        /\ Triggered(RequireApprovalHighRiskProduction, document) <=> One(a)
        /\ Triggered(EscalateLargeTableBreakingChange, document) <=> Two(a)
        /\ Triggered(RequireApprovalDependencyCount, document) <=> Four(a)
  BY WorldIsSound, RulesAsk
<1>2. \A e, a, o : Decided(e, Len(world.rules), a, o) =>
        /\ e.level = IF Two(a) THEN "critical" ELSE a.level
        /\ e.approval <=> One(a) \/ Two(a) \/ Four(a)
  <2> HIDE DEF One, Two, Four
  <2> QED BY <1>1, DecidedBy
<1>3. /\ before.level = IF Two(p) THEN "critical" ELSE p.level
      /\ before.approval <=> One(p) \/ Two(p) \/ Four(p)
      /\ after.level = IF Two(q) THEN "critical" ELSE q.level
      /\ after.approval <=> One(q) \/ Two(q) \/ Four(q)
  BY <1>2
<1>4. Two(p) => Two(q)
  BY DEF Grows
<1>5. Four(p) => Four(q)
  BY DEF Grows
<1>6. \A l \in Levels : Rank[l] \in 0..3 /\ (Rank[l] >= 2 <=> l \in {"high", "critical"})
  BY DEF Levels, Rank
<1>7. Rank["critical"] = 3
  BY DEF Rank
<1>8. One(p) => One(q)
  BY <1>6
<1> HIDE DEF One, Two, Four
<1>9. Rank[before.level] <= Rank[after.level]
  <2>1. CASE Two(q)
    <3>1. Rank[after.level] = 3 /\ before.level \in Levels
      BY <1>3, <1>7, <2>1 DEF Levels
    <3> QED BY <1>6, <3>1
  <2>2. CASE ~ Two(q)
    BY <1>3, <1>4, <2>2
  <2> QED BY <2>1, <2>2
<1> QED BY <1>3, <1>4, <1>5, <1>8, <1>9

\* What is known of the assessment before the last edit.
LEMMA PreviousAssessment ==
  ASSUME AssessmentInv, previous # None
  PROVE  /\ previous.statements \in Seq(Written)
         /\ previous.ops = ParseSql(previous.statements)
         /\ previous.assessment.scores = Scores(Context(previous.ops, RadiusOf(previous.ops)))
         /\ previous.assessment.score = Weighted(Calculated(Context(previous.ops, RadiusOf(previous.ops))))
         /\ previous.assessment.level = RiskLevelFor(previous.assessment.score)
         /\ Decided(previous.verdict, Len(world.rules), previous.assessment, previous.ops)
<1>1. /\ previous.statements \in Seq(Written)
      /\ previous.ops = ParseSql(previous.statements)
      /\ previous.assessment = AssessmentOf(previous.ops)
      /\ Decided(previous.verdict, Len(world.rules), previous.assessment, previous.ops)
  BY DEF AssessmentInv, PreviousComputed
<1> QED BY <1>1 DEF AssessmentOf, Assessment

\* Every factor of a change that has another one's operations, and more.
LEMMA ScoresGrow ==
  ASSUME world \in Worlds, NEW T, NEW s \in Seq(T), NEW t \in Seq(T), s # <<>>,
         NEW i \in DOMAIN s, s[i].table \in DOMAIN world.tables
  PROVE  \A f \in FactorTypes :
           Grows(Calculated(Context(s, RadiusOf(s)))[f],
                 Calculated(Context(s \o t, RadiusOf(s \o t)))[f])
<1> DEFINE u == s \o t
           c == Context(s, RadiusOf(s))
           d == Context(u, RadiusOf(u))
<1>1. /\ c.ops = s /\ c.prod = world.prod /\ c.tables = world.tables /\ c.radius = RadiusOf(s)
      /\ c.scanned = world.scanned /\ c.incidents = world.incidents
      /\ d.ops = u /\ d.prod = world.prod /\ d.tables = world.tables /\ d.radius = RadiusOf(u)
      /\ d.scanned = world.scanned /\ d.incidents = world.incidents
  BY DEF Context
<1> HIDE DEF c, d
<1>2. Adds(c, d)
  BY <1>1, WorldIsSound DEF Adds
<1>3. TargetTables(c) # {}
  BY <1>1, WorldIsSound DEF TargetTables, NamedTables
<1>4. u # <<>>
  BY <1>1, <1>2, KindsAdd
<1>5. /\ d.radius = NoRadius <=> c.radius = NoRadius
      /\ c.radius # NoRadius =>
           /\ Grows(c.radius.affected, d.radius.affected)
           /\ Grows(c.radius.critical, d.radius.critical)
           /\ Grows(c.radius.replicas, d.radius.replicas)
           /\ Grows(c.radius.pipelines, d.radius.pipelines)
           /\ c.radius.production => d.radius.production
  <2>1. CASE world.graph = None
    BY <1>1, <2>1 DEF RadiusOf
  <2>2. CASE world.graph # None
    <3> DEFINE g == world.graph
               a == ChangedIds(s)
               b == ChangedIds(u)
    <3>1. c.radius = Analyze(g, a) /\ d.radius = Analyze(g, b)
      <4> HIDE DEF u
      <4> QED BY <1>1, <1>4, <2>2 DEF RadiusOf
    <3>2. IsGraph(g)
      BY <2>2, WorldIsSound
    <3>3. /\ Direct(g, s) \in Seq(DOMAIN g.node) /\ Direct(g, t) \in Seq(DOMAIN g.node)
          /\ Direct(g, u) = Direct(g, s) \o Direct(g, t)
      BY DirectJoined
    <3>4. Among(a, DOMAIN g.node) = Direct(g, s) /\ Among(b, DOMAIN g.node) = Direct(g, u)
      BY DEF Direct
    <3>5. \A x : "affected" \in DOMAIN Analyze(g, x)
      BY DEF Analyze
    <3>6. Analyze(g, a) # NoRadius /\ Analyze(g, b) # NoRadius
      <4>1. DOMAIN NoRadius = {}
        BY DEF NoRadius
      <4> QED BY <3>5, <4>1
    <3> HIDE DEF g, a, b, u
    <3>7. LET p == Analyze(g, a)
              q == Analyze(g, b)
          IN /\ p.affected \in Nat /\ q.affected \in Nat /\ p.affected <= q.affected
             /\ p.critical \in Nat /\ q.critical \in Nat /\ p.critical <= q.critical
             /\ p.production => q.production
             /\ p.replicas \in Nat /\ q.replicas \in Nat /\ p.replicas <= q.replicas
             /\ p.pipelines \in Nat /\ q.pipelines \in Nat /\ p.pipelines <= q.pipelines
      <4>1. Among(b, DOMAIN g.node) = Direct(g, s) \o Direct(g, t)
        BY <3>3, <3>4
      <4> QED BY <3>2, <3>3, <3>4, <4>1, AnalyzeGrows
    <3> QED BY <3>1, <3>6, <3>7 DEF Grows
  <2> QED BY <2>1, <2>2
<1>6. /\ Grows(LockRisk(c), LockRisk(d))
      /\ Grows(BackwardCompatibility(c), BackwardCompatibility(d))
      /\ Grows(RollbackDifficulty(c), RollbackDifficulty(d))
      /\ Grows(ChangeComplexity(c), ChangeComplexity(d))
      /\ Grows(QueryImpact(c), QueryImpact(d))
      /\ Grows(HistoricalIncidents(c), HistoricalIncidents(d))
  BY <1>2, KindFactorsGrow
<1>7. /\ Grows(TableSize(c), TableSize(d))
      /\ Grows(DataVolume(c), DataVolume(d))
      /\ Grows(IndexImpact(c), IndexImpact(d))
  BY <1>1, <1>2, <1>3, WorldIsSound, TableFactorsGrow
<1>8. /\ Grows(Criticality(c), Criticality(d))
      /\ Grows(DependencyCount(c), DependencyCount(d))
      /\ Grows(ProductionUsage(c), ProductionUsage(d))
      /\ Grows(ReplicationImpact(c), ReplicationImpact(d))
  BY <1>2, <1>5, ImpactFactorsGrow
<1>9. \A f \in FactorTypes : Grows(Calculated(c)[f], Calculated(d)[f])
  BY <1>6, <1>7, <1>8 DEF Calculated, FactorTypes
<1> QED BY <1>9 DEF c, d

\* LargerNeverSafer of compute_factors, RiskEngine.assess and
\* RiskPolicyEngine.evaluate: for every catalog, dependency graph and
\* history, every weights and limits a policy file may give, and changes of
\* any length, what is written after a change lowers nothing.
THEOREM LargerNeverSaferHolds == RiskSpec => []LargerNeverSafer
<1>1. AssessmentInv => LargerNeverSafer
  <2> SUFFICES ASSUME AssessmentInv, Grown,
                      NEW i \in DOMAIN previous.ops, previous.ops[i].table \in DOMAIN world.tables
               PROVE  /\ \A f \in Counted : previous.assessment.scores[f] <= assessment.scores[f]
                      /\ Rank[previous.verdict.level] <= Rank[verdict.level]
                      /\ previous.verdict.approval => verdict.approval
    BY DEF LargerNeverSafer
  <2> DEFINE s == previous.ops
             p == previous.assessment
             q == assessment
             calculated(o) == Calculated(Context(o, RadiusOf(o)))
  <2>1. Returned /\ previous # None /\ IsPrefix(s, ops) /\ s # <<>>
    BY DEF Grown
  <2>2. /\ world \in Worlds /\ statements \in Seq(Written)
        /\ ops = ParseSql(statements) /\ radius = RadiusOf(ops)
        /\ \A f \in Counted : q.scores[f] = calculated(ops)[f]
        /\ q.score = Weighted(calculated(ops)) /\ q.level = RiskLevelFor(q.score)
        /\ Decided(verdict, Len(world.rules), q, ops)
    BY <2>1, ReturnedAssessment DEF Scores
  <2>3. /\ previous.statements \in Seq(Written) /\ s = ParseSql(previous.statements)
        /\ \A f \in Counted : p.scores[f] = calculated(s)[f]
        /\ p.score = Weighted(calculated(s)) /\ p.level = RiskLevelFor(p.score)
        /\ Decided(previous.verdict, Len(world.rules), p, s)
    BY <2>1, PreviousAssessment DEF Scores
  <2>4. PICK T : s \in Seq(T) /\ ops \in Seq(T)
    <3> DEFINE T == Parts(previous.statements) \cup Parts(statements)
    <3>1. s \in Seq(Parts(previous.statements)) /\ ops \in Seq(Parts(statements))
      BY <2>2, <2>3, SqlParses
    <3>2. Parts(previous.statements) \subseteq T /\ Parts(statements) \subseteq T
      OBVIOUS
    <3> HIDE DEF T, s
    <3>3. s \in Seq(T) /\ ops \in Seq(T)
      BY <3>1, <3>2, SeqMonotonic
    <3> QED BY <3>3
  <2>5. PICK t \in Seq(T) : ops = s \o t
    BY <2>1, <2>4, PrefixJoins
  <2>6. i \in DOMAIN s /\ s[i].table \in DOMAIN world.tables
    OBVIOUS
  <2> HIDE DEF s, p, q
  <2>7. \A f \in FactorTypes : Grows(calculated(s)[f], calculated(ops)[f])
    BY <2>1, <2>2, <2>4, <2>5, <2>6, ScoresGrow
  <2>11. \A f \in Counted : Grows(p.scores[f], q.scores[f])
    <3>1. Counted \subseteq FactorTypes
      BY DEF Counted
    <3> HIDE DEF calculated
    <3> QED BY <2>2, <2>3, <2>7, <3>1
  <2> HIDE DEF calculated
  <2>8. p.level \in Levels /\ q.level \in Levels /\ Rank[p.level] <= Rank[q.level]
    <3>1. Grows(p.score, q.score)
      BY <2>2, <2>3, <2>7, WeightedGrows
    <3> QED BY <2>2, <2>3, <3>1, LevelGrows DEF Grows
  <2>9. Rank[previous.verdict.level] <= Rank[verdict.level] /\ (previous.verdict.approval => verdict.approval)
    BY <2>2, <2>3, <2>8, <2>11, VerdictGrows
  <2>10. \A f \in Counted : p.scores[f] <= q.scores[f]
    BY <2>11 DEF Grows
  <2> QED BY <2>9, <2>10 DEF p, q
<1>2. RiskSpec => []AssessmentInv
  BY InitAssessment, AssessmentStep, PTL DEF RiskSpec
<1> QED BY <1>1, <1>2, PTL

-----------------------------------------------------------------------------
(***************************************************************************)
(* A change in another order.                                              *)
(***************************************************************************)

\* A statement at the end adds its operations at the end.
LEMMA OneMoreParses ==
  ASSUME NEW ss \in Seq(Written), NEW x \in Written
  PROVE  ParseSql(Append(ss, x)) = ParseSql(ss) \o ParseStatement(x)
<1> DEFINE u == Append(ss, x)
           n == Len(ss)
           all == Parsed(u)
           run == Parsed(ss)
           Same == {k \in 0..n : all[k] = run[k]}
<1>1. n \in Nat /\ u \in Seq(Written) /\ Len(u) = n + 1 /\ u[n + 1] = x /\ \A i \in 1..n : u[i] = ss[i]
  <2>1. n \in Nat
    BY LenProperties
  <2> QED BY <2>1, AppendProperties
<1>2. run[0] = <<>> /\ \A k \in 1..n : run[k] = run[k - 1] \o ParseStatement(ss[k])
  BY <1>1, ParsedDefined
<1>3. all[0] = <<>> /\ \A k \in 1..(n + 1) : all[k] = all[k - 1] \o ParseStatement(u[k])
  <2> HIDE DEF u
  <2>1. Len(u) \in Nat
    BY <1>1
  <2>2. all[0] = <<>> /\ \A k \in 1..Len(u) : all[k] = all[k - 1] \o ParseStatement(u[k])
    BY <2>1, ParsedDefined
  <2> QED BY <1>1, <2>2
<1>4. ParseSql(u) = all[n + 1] /\ ParseSql(ss) = run[n]
  BY <1>1 DEF ParseSql
<1> HIDE DEF u, n, all, run
<1>5. 0 \in Same
  BY <1>1, <1>2, <1>3
<1>6. ASSUME NEW k \in 1..n, k - 1 \in Same PROVE k \in Same
  <2>1. k \in 1..(n + 1) /\ k \in 0..n
    BY <1>1
  <2>2. all[k - 1] = run[k - 1] /\ u[k] = ss[k]
    BY <1>1, <1>6
  <2> QED BY <1>2, <1>3, <2>1, <2>2
<1> HIDE DEF Same
<1>7. n \in Same
  <2>1. \A k \in 1..n : k - 1 \in Same => k \in Same
    BY <1>6
  <2> QED BY <1>1, <1>5, <2>1, UpTo, Zenon
<1>8. all[n] = run[n]
  BY <1>7 DEF Same
<1>9. n + 1 \in 1..(n + 1) /\ (n + 1) - 1 = n
  BY <1>1
<1>10. all[n + 1] = all[n] \o ParseStatement(x)
  BY <1>1, <1>3, <1>9
<1> QED BY <1>4, <1>8, <1>10 DEF u

\* The last two statements, and those before them.
LEMMA SwappedParts ==
  ASSUME NEW S, NEW s \in Seq(S), Len(s) >= 2
  PROVE  \E h \in Seq(S) : \E a, b \in S :
           /\ s = Append(Append(h, a), b)
           /\ Swapped(s) = Append(Append(h, b), a)
<1> DEFINE n == Len(s)
           h == SubSeq(s, 1, n - 2)
           a == s[n - 1]
           b == s[n]
           w == Swapped(s)
           p == Append(Append(h, a), b)
           q == Append(Append(h, b), a)
<1>1. n \in Nat /\ n >= 2 /\ DOMAIN s = 1..n /\ \A i \in 1..n : s[i] \in S
  BY LenProperties
<1>2. a \in S /\ b \in S
  BY <1>1
<1>3. h \in Seq(S) /\ Len(h) = n - 2 /\ \A i \in 1..(n - 2) : h[i] = s[i]
  <2>1. 1 \in Int /\ n - 2 \in Int /\ \A i \in 1..(n - 2) : s[i] \in S
    BY <1>1
  <2>2. /\ h \in Seq(S)
        /\ Len(h) = IF 1 <= n - 2 THEN (n - 2) - 1 + 1 ELSE 0
        /\ \A i \in 1..((n - 2) - 1 + 1) : h[i] = s[1 + i - 1]
    <3> HIDE DEF n
    <3> QED BY <2>1, SubSeqProperties
  <2> HIDE DEF h, n
  <2> QED BY <1>1, <2>2
<1>4. w = [i \in 1..n |-> IF i = n - 1 THEN b ELSE IF i = n THEN a ELSE s[i]]
  <2>1. w = [s EXCEPT ![n] = s[n - 1], ![n - 1] = s[n]]
    BY <1>1 DEF Swapped
  <2> HIDE DEF w
  <2> QED BY <1>1, <2>1
<1>5. w \in Seq(S) /\ Len(w) = n
  <2>1. \A i \in 1..n : w[i] \in S
    BY <1>1, <1>2, <1>4
  <2> HIDE DEF w, n
  <2> QED BY <1>1, <1>4, <2>1, IsASeq
<1> HIDE DEF h, n, a, b, w
<1>6. \A x, y \in S : /\ Append(Append(h, x), y) \in Seq(S)
                      /\ Len(Append(Append(h, x), y)) = n
                      /\ \A i \in 1..(n - 2) : Append(Append(h, x), y)[i] = s[i]
                      /\ Append(Append(h, x), y)[n - 1] = x
                      /\ Append(Append(h, x), y)[n] = y
  <2> SUFFICES ASSUME NEW x \in S, NEW y \in S
               PROVE  /\ Append(Append(h, x), y) \in Seq(S)
                      /\ Len(Append(Append(h, x), y)) = n
                      /\ \A i \in 1..(n - 2) : Append(Append(h, x), y)[i] = s[i]
                      /\ Append(Append(h, x), y)[n - 1] = x
                      /\ Append(Append(h, x), y)[n] = y
    OBVIOUS
  <2> DEFINE v == Append(h, x)
  <2>1. v \in Seq(S) /\ Len(v) = n - 1 /\ v[n - 1] = x /\ \A i \in 1..(n - 2) : v[i] = s[i]
    BY <1>1, <1>3, AppendProperties
  <2> HIDE DEF v
  <2>2. /\ Append(v, y) \in Seq(S) /\ Len(Append(v, y)) = Len(v) + 1
        /\ \A i \in 1..Len(v) : Append(v, y)[i] = v[i]
        /\ Append(v, y)[Len(v) + 1] = y
    BY <2>1, AppendProperties
  <2>3. (n - 1) + 1 = n /\ \A i \in 1..(n - 2) : i \in 1..(n - 1)
    BY <1>1
  <2>4. n - 1 \in 1..(n - 1)
    BY <1>1
  <2> QED BY <2>1, <2>2, <2>3, <2>4 DEF v
<1>7. \A i \in 1..n : i \in 1..(n - 2) \/ i = n - 1 \/ i = n
  BY <1>1
<1>8. s = p
  <2>1. p \in Seq(S) /\ Len(p) = n
    BY <1>2, <1>6
  <2>2. \A i \in 1..n : p[i] = s[i]
    BY <1>2, <1>6, <1>7 DEF a, b
  <2>3. Len(s) = n
    BY DEF n
  <2> HIDE DEF p
  <2> QED BY <2>1, <2>2, <2>3, SeqEqual
<1>9. w = q
  <2>1. q \in Seq(S) /\ Len(q) = n
    BY <1>2, <1>6
  <2>2. \A i \in 1..n : q[i] = w[i]
    <3>1. \A i \in 1..(n - 2) : q[i] = s[i] /\ w[i] = s[i]
      BY <1>1, <1>2, <1>4, <1>6
    <3>2. q[n - 1] = b /\ w[n - 1] = b /\ q[n] = a /\ w[n] = a
      BY <1>1, <1>2, <1>4, <1>6
    <3> QED BY <1>7, <3>1, <3>2
  <2> HIDE DEF q
  <2> QED BY <1>5, <2>1, <2>2, SeqEqual
<1> QED BY <1>2, <1>3, <1>8, <1>9 DEF w

\* Objects analyzed in another order: the replicas apart, the same figures.
LEMMA AnalyzeSame ==
  ASSUME NEW g, NEW s \in Seq(DOMAIN g.node), NEW t \in Seq(DOMAIN g.node),
         Range(s) = Range(t), Len(s) = Len(t),
         NEW a, NEW b, Among(a, DOMAIN g.node) = s, Among(b, DOMAIN g.node) = t
  PROVE  LET p == Analyze(g, a)
             q == Analyze(g, b)
         IN /\ p.affected = q.affected /\ p.critical = q.critical
            /\ p.production = q.production /\ p.pipelines = q.pipelines
<1> DEFINE Critical(C) == {g.node[id].name : id \in {id \in C : g.node[id].criticality = "critical"}}
           Pipeline(C) == {g.node[id].name : id \in {id \in C : g.node[id].type = "data_pipeline"}}
           A == DOMAIN Impact(g, s)
           B == DOMAIN Impact(g, t)
           p == Analyze(g, a)
           q == Analyze(g, b)
<1>1. A = B
  <2>1. /\ DOMAIN Impact(g, s) = UNION {Below(g, id) : id \in Range(s)}
        /\ DOMAIN Impact(g, t) = UNION {Below(g, id) : id \in Range(t)}
    BY ImpactDomain
  <2> QED BY <2>1
<1>2. /\ p.affected = Len(s) + Cardinality(A) /\ p.critical = Cardinality(Critical(A))
      /\ p.production = (\E id \in A : g.node[id].production)
      /\ p.pipelines = Cardinality(Pipeline(A))
  BY DEF Analyze
<1>3. /\ q.affected = Len(t) + Cardinality(B) /\ q.critical = Cardinality(Critical(B))
      /\ q.production = (\E id \in B : g.node[id].production)
      /\ q.pipelines = Cardinality(Pipeline(B))
  BY DEF Analyze
<1> HIDE DEF A, B, p, q, Critical, Pipeline
<1> QED BY <1>1, <1>2, <1>3 DEF p, q

\* All factors but one read nothing else.
LEMMA FactorsSame ==
  ASSUME NEW c, NEW d,
         d.prod = c.prod, d.tables = c.tables, d.scanned = c.scanned,
         d.ops = <<>> <=> c.ops = <<>>, Len(d.ops) = Len(c.ops),
         Kinds(d) = Kinds(c), NamedTables(d) = NamedTables(c),
         IncidentsFound(d) = IncidentsFound(c),
         d.radius = NoRadius <=> c.radius = NoRadius,
         c.radius # NoRadius =>
           /\ d.radius.affected = c.radius.affected /\ d.radius.critical = c.radius.critical
           /\ d.radius.production = c.radius.production
  PROVE  \A f \in FactorTypes \ {"replication_impact"} : Calculated(d)[f] = Calculated(c)[f]
<1>1. TargetTables(d) = TargetTables(c)
  BY DEF TargetTables
<1>2. LargestGb(d) = LargestGb(c) /\ LargestKrows(d) = LargestKrows(c)
  BY <1>1 DEF LargestGb, LargestKrows
<1>3. LargeTable(d) <=> LargeTable(c)
  BY <1>1, <1>2 DEF LargeTable
<1>4. /\ LockRisk(d) = LockRisk(c)
      /\ BackwardCompatibility(d) = BackwardCompatibility(c)
  BY DEF LockRisk, BackwardCompatibility
<1>5. RollbackDifficulty(d) = RollbackDifficulty(c)
  BY DEF RollbackDifficulty
<1>6. Criticality(d) = Criticality(c)
  BY DEF Criticality
<1>7. DependencyCount(d) = DependencyCount(c)
  BY DEF DependencyCount
<1>8. ProductionUsage(d) = ProductionUsage(c)
  BY DEF ProductionUsage
<1>9. TableSize(d) = TableSize(c) /\ DataVolume(d) = DataVolume(c)
  BY <1>1, <1>2 DEF TableSize, DataVolume
<1>10. IndexImpact(d) = IndexImpact(c)
  BY <1>3 DEF IndexImpact
<1>11. QueryImpact(d) = QueryImpact(c)
  BY DEF QueryImpact
<1>12. ChangeComplexity(d) = ChangeComplexity(c)
  BY DEF ChangeComplexity
<1>13. HistoricalIncidents(d) = HistoricalIncidents(c)
  BY DEF HistoricalIncidents
<1> QED BY <1>4, <1>5, <1>6, <1>7, <1>8, <1>9, <1>10, <1>11, <1>12, <1>13 DEF Calculated, FactorTypes

\* Three sequences after one another, the last two of them in either order.
LEMMA JoinedEitherWay ==
  ASSUME NEW S, NEW h \in Seq(S), NEW s \in Seq(S), NEW t \in Seq(S)
  PROVE  LET u == (h \o s) \o t
             v == (h \o t) \o s
         IN u \in Seq(S) /\ v \in Seq(S) /\ Len(u) = Len(v) /\ Range(u) = Range(v)
<1> DEFINE x == h \o s
           y == h \o t
<1>1. x \in Seq(S) /\ Len(x) = Len(h) + Len(s) /\ Range(x) = Range(h) \cup Range(s)
  BY Joining
<1>2. y \in Seq(S) /\ Len(y) = Len(h) + Len(t) /\ Range(y) = Range(h) \cup Range(t)
  BY Joining
<1>3. Len(h) \in Nat /\ Len(s) \in Nat /\ Len(t) \in Nat
  BY LenProperties
<1> HIDE DEF x, y
<1>4. /\ x \o t \in Seq(S) /\ Len(x \o t) = Len(x) + Len(t)
      /\ Range(x \o t) = Range(x) \cup Range(t)
  BY <1>1, Joining
<1>5. /\ y \o s \in Seq(S) /\ Len(y \o s) = Len(y) + Len(s)
      /\ Range(y \o s) = Range(y) \cup Range(s)
  BY <1>2, Joining
<1>6. Len(x \o t) = Len(y \o s) /\ Range(x \o t) = Range(y \o s)
  BY <1>1, <1>2, <1>3, <1>4, <1>5
<1> QED BY <1>4, <1>5, <1>6 DEF x, y

\* Three parts of a change, the last two of them in either order.
LEMMA ScoresOfReordered ==
  ASSUME world \in Worlds, NEW T, NEW h \in Seq(T), NEW s \in Seq(T), NEW t \in Seq(T)
  PROVE  LET u == (h \o s) \o t
             v == (h \o t) \o s
         IN \A f \in FactorTypes \ {"replication_impact"} :
              Calculated(Context(v, RadiusOf(v)))[f] = Calculated(Context(u, RadiusOf(u)))[f]
<1> DEFINE x == h \o s
           y == h \o t
           u == x \o t
           v == y \o s
           c == Context(u, RadiusOf(u))
           d == Context(v, RadiusOf(v))
<1>1. x \in Seq(T) /\ y \in Seq(T)
  BY Joining
<1>2. u \in Seq(T) /\ v \in Seq(T) /\ Len(u) = Len(v) /\ Range(u) = Range(v)
  BY JoinedEitherWay
<1> HIDE DEF x, y
<1>3. /\ c.ops = u /\ c.prod = world.prod /\ c.tables = world.tables /\ c.radius = RadiusOf(u)
      /\ c.scanned = world.scanned /\ c.incidents = world.incidents
      /\ d.ops = v /\ d.prod = world.prod /\ d.tables = world.tables /\ d.radius = RadiusOf(v)
      /\ d.scanned = world.scanned /\ d.incidents = world.incidents
  BY DEF Context
<1> HIDE DEF c, d
<1>4. IncidentsFound(d) = IncidentsFound(c)
  <2> DEFINE Tally(z) == IncidentCounts(z, world.incidents)[Len(z)]
  <2>1. \A e : IncidentsOf(e, world.incidents) \in Nat
    BY WorldIsSound
  <2>2. ASSUME NEW p \in Seq(T), NEW q \in Seq(T)
        PROVE  Tally(p) \in Nat /\ Tally(q) \in Nat /\ Tally(p \o q) = Tally(p) + Tally(q)
    <3> HIDE DEF u, v
    <3> QED BY <2>1, CountsJoined
  <2>3. IncidentsFound(c) = Tally(u) /\ IncidentsFound(d) = Tally(v)
    BY <1>3 DEF IncidentsFound
  <2> HIDE DEF Tally
  <2>4. Tally(x) = Tally(h) + Tally(s) /\ Tally(y) = Tally(h) + Tally(t)
    BY <2>2 DEF x, y
  <2>5. Tally(u) = Tally(x) + Tally(t) /\ Tally(v) = Tally(y) + Tally(s)
    BY <1>1, <2>2
  <2>6. Tally(h) \in Nat /\ Tally(s) \in Nat /\ Tally(t) \in Nat
    BY <2>2
  <2> QED BY <2>3, <2>4, <2>5, <2>6
<1>5. /\ d.radius = NoRadius <=> c.radius = NoRadius
      /\ c.radius # NoRadius =>
           /\ d.radius.affected = c.radius.affected /\ d.radius.critical = c.radius.critical
           /\ d.radius.production = c.radius.production
  <2> DEFINE g == world.graph
             D(z) == Direct(g, z)
             nodes == DOMAIN g.node
  <2>1. u = <<>> <=> v = <<>>
    BY <1>2, EmptySeq
  <2>2. \A p, q \in Seq(T) : D(p) \in Seq(nodes) /\ D(q) \in Seq(nodes) /\ D(p \o q) = D(p) \o D(q)
    BY DirectJoined
  <2>3. CASE world.graph = None \/ u = <<>>
    BY <1>3, <2>1, <2>3 DEF RadiusOf
  <2>4. CASE world.graph # None /\ u # <<>>
    <3>1. c.radius = Analyze(g, ChangedIds(u)) /\ d.radius = Analyze(g, ChangedIds(v))
      <4> HIDE DEF u, v
      <4> QED BY <1>3, <2>1, <2>4 DEF RadiusOf
    <3>2. \A e : "affected" \in DOMAIN Analyze(g, e)
      BY DEF Analyze
    <3>3. c.radius # NoRadius /\ d.radius # NoRadius
      <4>1. DOMAIN NoRadius = {}
        BY DEF NoRadius
      <4> QED BY <3>1, <3>2, <4>1
    <3>4. Among(ChangedIds(u), nodes) = D(u) /\ Among(ChangedIds(v), nodes) = D(v)
      BY DEF Direct
    <3> DEFINE a == ChangedIds(u)
               b == ChangedIds(v)
               i == D(h)
               j == D(s)
               k == D(t)
    <3> HIDE DEF D, nodes
    <3>5. D(x) = i \o j /\ D(y) = i \o k
      BY <2>2 DEF x, y
    <3>6. D(u) = (i \o j) \o k /\ D(v) = (i \o k) \o j
      BY <1>1, <2>2, <3>5
    <3>7. i \in Seq(nodes) /\ j \in Seq(nodes) /\ k \in Seq(nodes)
      BY <2>2
    <3> HIDE DEF i, j, k, u, v, a, b
    <3>8. /\ D(u) \in Seq(nodes) /\ D(v) \in Seq(nodes)
          /\ Len(D(u)) = Len(D(v)) /\ Range(D(u)) = Range(D(v))
      BY <3>6, <3>7, JoinedEitherWay
    <3>9. Among(a, nodes) = D(u) /\ Among(b, nodes) = D(v)
      BY <3>4 DEF a, b
    <3> HIDE DEF g
    <3>10. LET p == Analyze(g, a)
               q == Analyze(g, b)
           IN /\ p.affected = q.affected /\ p.critical = q.critical
              /\ p.production = q.production /\ p.pipelines = q.pipelines
      BY <3>8, <3>9, AnalyzeSame DEF nodes
    <3> QED BY <3>1, <3>3, <3>10 DEF a, b
  <2> QED BY <2>3, <2>4
<1>6. Kinds(d) = Kinds(c) /\ NamedTables(d) = NamedTables(c)
  <2>1. \A e : /\ Kinds(e) = {z.operation : z \in Range(e.ops)}
               /\ NamedTables(e) = {z.table : z \in Range(e.ops)} \ {None}
    BY DEF Kinds, NamedTables, Range
  <2> QED BY <1>2, <1>3, <2>1
<1>7. d.ops = <<>> <=> c.ops = <<>>
  BY <1>2, <1>3, EmptySeq
<1>8. d.prod = c.prod /\ d.tables = c.tables /\ d.scanned = c.scanned /\ Len(d.ops) = Len(c.ops)
  BY <1>2, <1>3
<1> HIDE DEF u, v
<1>9. \A f \in FactorTypes \ {"replication_impact"} : Calculated(d)[f] = Calculated(c)[f]
  BY <1>4, <1>5, <1>6, <1>7, <1>8, FactorsSame, Zenon
<1> QED BY <1>9 DEF c, d, u, v, x, y

\* OrderMovesReplicationOnly of the analyzer and compute_factors, for every
\* catalog, dependency graph and history, and migrations of any length.
THEOREM OrderMovesReplicationOnlyHolds == RiskSpec => []OrderMovesReplicationOnly
<1>1. AssessmentInv => OrderMovesReplicationOnly
  <2> SUFFICES ASSUME AssessmentInv, Reordered
               PROVE  \A f \in Counted \ {"replication_impact"} :
                        previous.assessment.scores[f] = assessment.scores[f]
    BY DEF OrderMovesReplicationOnly
  <2> DEFINE p == previous.statements
             Score(o) == Calculated(Context(o, RadiusOf(o)))
  <2>1. Returned /\ previous # None /\ Len(p) = Len(statements)
    BY DEF Reordered
  <2>2. /\ world \in Worlds /\ statements \in Seq(Written)
        /\ \A f \in Counted : assessment.scores[f] = Score(ParseSql(statements))[f]
    BY <2>1, ReturnedAssessment DEF Scores
  <2>3. /\ p \in Seq(Written)
        /\ \A f \in Counted : previous.assessment.scores[f] = Score(ParseSql(p))[f]
    BY <2>1, PreviousAssessment DEF Scores
  <2>7. Counted \subseteq FactorTypes
    BY DEF Counted
  <2>4. statements = Swapped(p)
    <3>1. (\E s \in Written : statements = Append(p, s)) \/ statements = Swapped(p)
      BY <2>1 DEF AssessmentInv, PreviousComputed
    <3>2. \A s \in Written : Len(Append(p, s)) = Len(p) + 1 /\ Len(p) \in Nat
      BY <2>3, LenProperties, AppendProperties
    <3> HIDE DEF p
    <3> QED BY <2>1, <3>1, <3>2
  <2>5. CASE ~ Len(p) >= 2
    <3>1. Swapped(p) = p
      BY <2>5 DEF Swapped
    <3> HIDE DEF p, Score
    <3> QED BY <2>2, <2>3, <2>4, <3>1
  <2>6. CASE Len(p) >= 2
    <3> HIDE DEF p
    <3>1. PICK h \in Seq(Written) : \E a, b \in Written :
            p = Append(Append(h, a), b) /\ Swapped(p) = Append(Append(h, b), a)
      BY <2>3, <2>6, SwappedParts
    <3>2. PICK a \in Written, b \in Written :
            p = Append(Append(h, a), b) /\ Swapped(p) = Append(Append(h, b), a)
      BY <3>1
    <3> DEFINE H == ParseSql(h)
               A == ParseStatement(a)
               B == ParseStatement(b)
               T == Parts(h) \cup Range(A) \cup Range(B)
    <3>3. H \in Seq(T) /\ A \in Seq(T) /\ B \in Seq(T)
      <4>1. IsStatement(a) /\ IsStatement(b)
        BY StatementsAssumption
      <4>2. H \in Seq(Parts(h)) /\ A \in Seq(Range(A)) /\ B \in Seq(Range(B))
        BY <4>1, SqlParses, StatementParses
      <4>3. Parts(h) \subseteq T /\ Range(A) \subseteq T /\ Range(B) \subseteq T
        OBVIOUS
      <4> HIDE DEF H, A, B, T
      <4> QED BY <4>2, <4>3, SeqMonotonic
    <3>4. ParseSql(p) = (H \o A) \o B /\ ParseSql(Swapped(p)) = (H \o B) \o A
      <4>1. /\ ParseSql(Append(h, a)) = H \o A /\ Append(h, a) \in Seq(Written)
            /\ ParseSql(Append(h, b)) = H \o B /\ Append(h, b) \in Seq(Written)
        BY OneMoreParses, AppendProperties
      <4>2. /\ ParseSql(Append(Append(h, a), b)) = ParseSql(Append(h, a)) \o B
            /\ ParseSql(Append(Append(h, b), a)) = ParseSql(Append(h, b)) \o A
        BY <4>1, OneMoreParses
      <4> QED BY <3>2, <4>1, <4>2
    <3> HIDE DEF H, A, B, T
    <3>5. \A f \in FactorTypes \ {"replication_impact"} :
            Score((H \o B) \o A)[f] = Score((H \o A) \o B)[f]
      BY <2>2, <3>3, ScoresOfReordered
    <3> HIDE DEF Score
    <3> QED BY <2>2, <2>3, <2>4, <2>7, <3>4, <3>5
  <2> QED BY <2>5, <2>6
<1>2. RiskSpec => []AssessmentInv
  BY InitAssessment, AssessmentStep, PTL DEF RiskSpec
<1> QED BY <1>1, <1>2, PTL

-----------------------------------------------------------------------------
(***************************************************************************)
(* The confidence in a blast radius.                                       *)
(***************************************************************************)
LEMMA TotalsDefined ==
  ASSUME NEW f, Cardinality(DOMAIN f) \in Nat
  PROVE  /\ Totals(f)[0] = [left |-> DOMAIN f, sum |-> 0]
         /\ \A k \in 1..Cardinality(DOMAIN f) : Totals(f)[k] = TakeOne(f, Totals(f)[k - 1])
<1> DEFINE n == Cardinality(DOMAIN f)
           first == [left |-> DOMAIN f, sum |-> 0]
           Defines(h) == h = [k \in 0..n |-> IF k = 0 THEN first ELSE TakeOne(f, h[k - 1])]
           run == Totals(f)
<1>1. \A h : Defines(h) <=> IsRun(h, "total", f, 0, first, n)
  <2> HIDE DEF n, first
  <2> QED BY DEF IsRun, Turn
<1>2. run = CHOOSE h : Defines(h)
  BY DEF Totals
<1> HIDE DEF Defines, n, first
<1>3. \E h : Defines(h)
  BY <1>1, RunExists DEF n
<1> HIDE DEF run
<1>4. IsRun(run, "total", f, 0, first, n)
  BY <1>1, <1>2, <1>3
<1>5. n \in Nat
  BY DEF n
<1>6. run[0] = first /\ \A k \in 1..n : run[k] = Turn("total", f, 0, k, run[k - 1])
  BY <1>4, <1>5, RunValues DEF IsRun
<1> QED BY <1>6 DEF run, n, first, Turn

\* A sum is no larger than the largest of its terms allows.
LEMMA TotalBounds ==
  ASSUME NEW f, IsFiniteSet(DOMAIN f), NEW m \in Nat, \A x \in DOMAIN f : f[x] \in 0..m
  PROVE  Total(f) \in Nat /\ Total(f) <= m * Cardinality(DOMAIN f)
<1> DEFINE n == Cardinality(DOMAIN f)
           run == Totals(f)
           Good == {k \in 0..n : /\ run[k].left \subseteq DOMAIN f
                                 /\ Cardinality(run[k].left) = n - k
                                 /\ run[k].sum \in Nat /\ run[k].sum <= m * k}
<1>1. n \in Nat
  BY FS_CardinalityType
<1>2. run[0] = [left |-> DOMAIN f, sum |-> 0] /\ \A k \in 1..n : run[k] = TakeOne(f, run[k - 1])
  BY <1>1, TotalsDefined
<1>3. Total(f) = run[n].sum
  BY DEF Total
<1>4. 0 \in Good
  <2>1. run[0].left = DOMAIN f /\ run[0].sum = 0 /\ Cardinality(DOMAIN f) = n
    BY <1>2
  <2> HIDE DEF n, run
  <2> QED BY <1>1, <2>1
<1> HIDE DEF n, run
<1>5. ASSUME NEW k \in 1..n, k - 1 \in Good PROVE k \in Good
  <2> DEFINE before == run[k - 1]
             x == CHOOSE x \in before.left : TRUE
  <2>1. /\ before.left \subseteq DOMAIN f /\ Cardinality(before.left) = n - (k - 1)
        /\ before.sum \in Nat /\ before.sum <= m * (k - 1)
    BY <1>5
  <2>2. run[k].left = before.left \ {x} /\ run[k].sum = before.sum + f[x]
    <3>1. run[k] = TakeOne(f, before)
      BY <1>2
    <3> HIDE DEF before
    <3>2. TakeOne(f, before) = [left |-> before.left \ {x}, sum |-> before.sum + f[x]]
      BY DEF TakeOne
    <3> HIDE DEF x
    <3> QED BY <3>1, <3>2
  <2>3. IsFiniteSet(before.left)
    BY <2>1, FS_Subset
  <2>4. before.left # {}
    <3>1. Cardinality(before.left) # 0
      BY <1>1, <2>1
    <3> QED BY <3>1, FS_EmptySet
  <2>5. x \in before.left
    BY <2>4
  <2> HIDE DEF before, x
  <2>6. Cardinality(before.left \ {x}) = Cardinality(before.left) - 1
    BY <2>3, <2>5, FS_RemoveElement
  <2>7. Cardinality(run[k].left) = n - k
    BY <1>1, <2>1, <2>2, <2>6
  <2>8. run[k].sum \in Nat /\ run[k].sum <= m * k
    <3>1. f[x] \in 0..m
      BY <2>1, <2>5
    <3>2. m * (k - 1) + m = m * k /\ m * (k - 1) \in Nat
      OBVIOUS
    <3> QED BY <2>1, <2>2, <3>1, <3>2
  <2>9. k \in 0..n /\ run[k].left \subseteq DOMAIN f
    BY <1>1, <2>1, <2>2
  <2> QED BY <2>7, <2>8, <2>9
<1> HIDE DEF Good
<1>6. n \in Good
  <2>1. \A k \in 1..n : k - 1 \in Good => k \in Good
    BY <1>5
  <2> QED BY <1>1, <1>4, <2>1, UpTo, Zenon
<1> QED BY <1>3, <1>6 DEF Good, n

LEMMA RoundedBounds ==
  ASSUME NEW n \in Nat, NEW d \in Nat \ {0}, NEW m \in Nat, n <= m * d
  PROVE  Rounded(n, d) \in Nat /\ Rounded(n, d) <= m
<1> DEFINE a == 2 * n + d
           b == 2 * d
           q == a \div b
<1>1. a \in Nat /\ b \in Nat \ {0}
  OBVIOUS
<1> HIDE DEF a, b
<1>2. q \in Nat /\ b * q <= a
  BY <1>1
<1> HIDE DEF q
<1>3. ~ q >= m + 1
  <2> SUFFICES ASSUME q >= m + 1 PROVE FALSE
    OBVIOUS
  <2>1. b * (m + 1) <= b * q
    BY <1>1, <1>2, ProductGrows
  <2>2. b * (m + 1) = 2 * (m * d) + 2 * d
    BY DEF b
  <2>3. m * d \in Nat /\ b * q \in Nat
    BY <1>1, <1>2
  <2> QED BY <1>2, <2>1, <2>2, <2>3 DEF a
<1>4. Rounded(n, d) = q
  BY DEF Rounded, q, a, b
<1> QED BY <1>2, <1>3, <1>4

LEMMA Scaled ==
  ASSUME NEW a \in 0..100, NEW b \in Nat, NEW m \in Nat, b <= m
  PROVE  b * a \in Nat /\ b * a <= m * 100
<1>1. b * a \in Nat /\ b * a <= b * 100
  BY ProductGrows
<1> QED BY <1>1

\* At most four confidences, each a percentage.
LEMMA PathConfidenceBounds ==
  ASSUME NEW E, \A e \in E : e.confidence \in 0..100,
         NEW path \in Seq(E), Len(path) <= 4
  PROVE  PathConfidence(path) \in Nat /\ PathConfidence(path) <= 10000
<1> DEFINE n == Len(path)
           run == Products(path)
           At(k) == path[k].confidence
           c == 100
           d == 10000
<1>1. n \in Nat /\ n <= 4 /\ \A k \in 1..n : At(k) \in 0..100
  <2>1. n \in Nat /\ \A k \in 1..n : path[k] \in E
    BY LenProperties
  <2> QED BY <2>1
<1>2. run[0] = 1 /\ \A k \in 1..n : run[k] = run[k - 1] * At(k)
  BY <1>1, ProductsDefined
<1>3. /\ n = 0 => PathConfidence(path) = d
      /\ n = 1 => PathConfidence(path) = run[1] * c
      /\ n = 2 => PathConfidence(path) = run[2]
      /\ n = 3 => PathConfidence(path) = Rounded(run[3], c)
      /\ n = 4 => PathConfidence(path) = Rounded(run[4], d)
  <2> DEFINE p == run[n]
             one == p * c
             three == Rounded(p, c)
             four == Rounded(p, d)
  <2>1. PathConfidence(path) = CASE n = 0 -> d [] n = 1 -> one [] n = 2 -> p
                                 [] n = 3 -> three [] OTHER -> four
    BY DEF PathConfidence
  <2> HIDE DEF n, d, one, p, three, four
  <2>2. /\ n = 0 => PathConfidence(path) = d
        /\ n = 1 => PathConfidence(path) = one
        /\ n = 2 => PathConfidence(path) = p
        /\ n = 3 => PathConfidence(path) = three
        /\ n = 4 => PathConfidence(path) = four
    BY <2>1
  <2> QED BY <2>2 DEF one, three, four, p
<1>4. c \in Nat \ {0} /\ d \in Nat \ {0} /\ d = c * c
  OBVIOUS
<1>5. \A k \in 1..n, m \in Nat : run[k - 1] \in Nat /\ run[k - 1] <= m =>
                                   run[k] \in Nat /\ run[k] <= m * c
  <2> SUFFICES ASSUME NEW k \in 1..n, NEW m \in Nat, run[k - 1] \in Nat, run[k - 1] <= m
               PROVE  run[k] \in Nat /\ run[k] <= m * c
    OBVIOUS
  <2> HIDE DEF n, run, At
  <2>1. At(k) \in 0..100 /\ run[k] = run[k - 1] * At(k)
    BY <1>1, <1>2
  <2> QED BY <2>1, Scaled
<1> HIDE DEF n, run, At, c, d
<1>6. n >= 1 => run[1] \in Nat /\ run[1] <= c
  <2> SUFFICES ASSUME n >= 1 PROVE run[1] \in Nat /\ run[1] <= c
    OBVIOUS
  <2>1. 1 \in 1..n /\ 1 - 1 = 0 /\ run[0] \in Nat /\ run[0] <= 1 /\ 1 \in Nat
    BY <1>1, <1>2
  <2>2. run[1] \in Nat /\ run[1] <= 1 * c
    BY <1>5, <2>1
  <2> QED BY <1>4, <2>2
<1>7. n >= 2 => run[2] \in Nat /\ run[2] <= d
  <2> SUFFICES ASSUME n >= 2 PROVE run[2] \in Nat /\ run[2] <= d
    OBVIOUS
  <2>1. 2 \in 1..n /\ 2 - 1 = 1 /\ run[1] \in Nat /\ run[1] <= c
    BY <1>1, <1>6
  <2>2. run[2] \in Nat /\ run[2] <= c * c
    BY <1>4, <1>5, <2>1
  <2> QED BY <1>4, <2>2
<1>8. n >= 3 => run[3] \in Nat /\ run[3] <= d * c
  <2> SUFFICES ASSUME n >= 3 PROVE run[3] \in Nat /\ run[3] <= d * c
    OBVIOUS
  <2>1. 3 \in 1..n /\ 3 - 1 = 2 /\ run[2] \in Nat /\ run[2] <= d
    BY <1>1, <1>7
  <2> QED BY <1>4, <1>5, <2>1
<1>9. n >= 4 => run[4] \in Nat /\ run[4] <= d * d
  <2> SUFFICES ASSUME n >= 4 PROVE run[4] \in Nat /\ run[4] <= d * d
    OBVIOUS
  <2> DEFINE m == d * c
  <2>1. 4 \in 1..n /\ 4 - 1 = 3 /\ run[3] \in Nat /\ run[3] <= m
    BY <1>1, <1>8
  <2>2. m \in Nat /\ m * c = d * d
    BY <1>4
  <2> HIDE DEF m
  <2>3. run[4] \in Nat /\ run[4] <= m * c
    BY <1>5, <2>1, <2>2
  <2> QED BY <2>2, <2>3
<1>10. PathConfidence(path) \in Nat /\ PathConfidence(path) <= d
  <2>1. CASE n = 0
    BY <1>3, <1>4, <2>1
  <2>2. CASE n = 1
    <3>1. c * run[1] \in Nat /\ c * run[1] <= c * c
      BY <1>4, <1>6, <2>2, ProductGrows
    <3>2. run[1] \in Nat /\ run[1] * c = c * run[1]
      BY <1>4, <1>6, <2>2
    <3> QED BY <1>3, <1>4, <2>2, <3>1, <3>2
  <2>3. CASE n = 2
    BY <1>3, <1>7, <2>3
  <2>4. CASE n = 3
    <3> DEFINE r == run[3]
    <3>1. r \in Nat /\ r <= d * c /\ PathConfidence(path) = Rounded(r, c)
      BY <1>3, <1>8, <2>4
    <3> HIDE DEF r
    <3>2. Rounded(r, c) \in Nat /\ Rounded(r, c) <= d
      BY <1>4, <3>1, RoundedBounds
    <3> QED BY <3>1, <3>2
  <2>5. CASE n = 4
    <3> DEFINE r == run[4]
    <3>1. r \in Nat /\ r <= d * d /\ PathConfidence(path) = Rounded(r, d)
      BY <1>3, <1>9, <2>5
    <3> HIDE DEF r
    <3>2. Rounded(r, d) \in Nat /\ Rounded(r, d) <= d
      BY <1>4, <3>1, RoundedBounds
    <3> QED BY <3>1, <3>2
  <2>6. n = 0 \/ n = 1 \/ n = 2 \/ n = 3 \/ n = 4
    BY <1>1
  <2> QED BY <2>1, <2>2, <2>3, <2>4, <2>5, <2>6
<1> QED BY <1>10 DEF d

\* The paths a search keeps run along edges of the graph, and are no longer
\* than MaxHops.
IsShort(E, path) == path \in Seq(E) /\ Len(path) <= MaxHops

Waiting(E, queue) == \E W : queue \in Seq(W) /\ \A w \in W : IsShort(E, w.via)

ShortPaths(E, found) == \A x \in DOMAIN found : IsShort(E, found[x].via)

LEMMA WaitingStays ==
  ASSUME NEW E, NEW queue, Waiting(E, queue)
  PROVE  /\ queue # <<>> => IsShort(E, Head(queue).via) /\ Waiting(E, Tail(queue))
         /\ \A w : IsShort(E, w.via) => Waiting(E, Append(queue, w))
<1>1. PICK W : queue \in Seq(W) /\ \A w \in W : IsShort(E, w.via)
  BY DEF Waiting
<1>2. ASSUME queue # <<>> PROVE IsShort(E, Head(queue).via) /\ Waiting(E, Tail(queue))
  <2>1. Head(queue) \in W /\ Tail(queue) \in Seq(W)
    BY <1>1, <1>2, HeadTailProperties
  <2> QED BY <1>1, <2>1 DEF Waiting
<1>3. ASSUME NEW w, IsShort(E, w.via) PROVE Waiting(E, Append(queue, w))
  <2> DEFINE V == W \cup {w}
  <2>1. W \subseteq V /\ w \in V /\ \A v \in V : IsShort(E, v.via)
    BY <1>1, <1>3
  <2> HIDE DEF V
  <2>2. queue \in Seq(V)
    BY <1>1, <2>1
  <2>3. Append(queue, w) \in Seq(V)
    BY <2>1, <2>2, AppendProperties
  <2> QED BY <2>1, <2>3 DEF Waiting
<1> QED BY <1>2, <1>3

LEMMA FollowsShort ==
  ASSUME NEW g, IsGraph(g), NEW at, NEW s,
         IsShort(Range(g.edges), at.via), Len(at.via) < MaxHops,
         ShortPaths(Range(g.edges), s.visited), Waiting(Range(g.edges), s.frontier)
  PROVE  LET t == FollowEach(g, at, s)[Len(g.edges)]
         IN ShortPaths(Range(g.edges), t.visited) /\ Waiting(Range(g.edges), t.frontier)
<1> DEFINE E == Range(g.edges)
           n == Len(g.edges)
           after == FollowEach(g, at, s)
           Good(t) == ShortPaths(E, t.visited) /\ Waiting(E, t.frontier)
           Fine == {k \in 0..n : Good(after[k])}
<1>1. n \in Nat /\ \A i \in 1..n : g.edges[i] \in E
  <2>1. DOMAIN g.edges = 1..n /\ n \in Nat
    BY LenProperties DEF IsGraph
  <2> QED BY <2>1 DEF Range
<1>2. after[0] = s /\ \A k \in 1..n :
        after[k] = IF g.edges[k].target = at.id
                   THEN Follow(at, after[k - 1], g.edges[k]) ELSE after[k - 1]
  BY <1>1, FollowEachDefined
<1>3. Good(s) /\ IsShort(E, at.via)
  OBVIOUS
<1> HIDE DEF E, n, after
<1>4. ASSUME NEW t, Good(t), NEW e \in E PROVE Good(Follow(at, t, e))
  <2> DEFINE path == Append(at.via, e)
             found == [id |-> e.source, via |-> path]
             seen == [i \in DOMAIN t.visited \cup {e.source} |->
                        IF i = e.source THEN found ELSE t.visited[i]]
  <2>1. IsShort(E, path)
    <3>1. at.via \in Seq(E) /\ Len(at.via) \in Nat /\ MaxHops \in Nat
      BY <1>3, LenProperties, HopsAssumption DEF IsShort
    <3>2. path \in Seq(E) /\ Len(path) = Len(at.via) + 1
      BY <3>1, AppendProperties
    <3> QED BY <3>1, <3>2 DEF IsShort
  <2> HIDE DEF path
  <2>2. found.via = path /\ found.id = e.source
    OBVIOUS
  <2> HIDE DEF found
  <2>3. Waiting(E, Append(t.frontier, found))
    BY <1>4, <2>1, <2>2, WaitingStays
  <2>4. ShortPaths(E, seen)
    BY <1>4, <2>1, <2>2 DEF ShortPaths
  <2>5. Follow(at, t, e) = t \/ Follow(at, t, e) = [visited |-> seen, frontier |-> Append(t.frontier, found)]
    BY <2>2 DEF Follow, found, path
  <2> HIDE DEF seen
  <2> DEFINE u == [visited |-> seen, frontier |-> Append(t.frontier, found)]
  <2>6. u.visited = seen /\ u.frontier = Append(t.frontier, found)
    OBVIOUS
  <2> HIDE DEF u
  <2>7. Good(u)
    BY <2>3, <2>4, <2>6
  <2>8. Follow(at, t, e) = t \/ Follow(at, t, e) = u
    BY <2>5 DEF u
  <2> HIDE DEF Good
  <2> QED BY <1>4, <2>7, <2>8
<1> HIDE DEF Good
<1>5. 0 \in Fine
  <2>1. Good(after[0])
    BY <1>2, <1>3 DEF Good
  <2> QED BY <1>1, <2>1
<1>6. ASSUME NEW k \in 1..n, k - 1 \in Fine PROVE k \in Fine
  <2>1. Good(after[k - 1]) /\ k \in 0..n /\ g.edges[k] \in E
    BY <1>1, <1>6
  <2>2. Good(Follow(at, after[k - 1], g.edges[k]))
    BY <1>4, <2>1
  <2> QED BY <1>2, <2>1, <2>2
<1> HIDE DEF Fine
<1>7. n \in Fine
  <2>1. \A k \in 1..n : k - 1 \in Fine => k \in Fine
    BY <1>6
  <2> QED BY <1>1, <1>5, <2>1, UpTo, Zenon
<1> QED BY <1>7 DEF Fine, Good, E, n, after

LEMMA SearchesShort ==
  ASSUME NEW g, IsGraph(g), NEW id
  PROVE  ShortPaths(Range(g.edges), Downstream(g, id))
<1> DEFINE E == Range(g.edges)
           most == MostExpansions(g)
           run == Expansions(g, id)
           Good(t) == ShortPaths(E, t.visited) /\ Waiting(E, t.frontier)
           Fine == {k \in 0..most : Good(run[k])}
<1>1. most \in Nat
  BY FS_CardinalityType DEF IsGraph, MostExpansions
<1>2. /\ run[0] = [visited |-> <<>>, frontier |-> <<[id |-> id, via |-> <<>>]>>]
      /\ \A k \in 1..most : run[k] = Expand(g, run[k - 1])
  BY <1>1, ExpansionsDefined
<1>3. ASSUME NEW s, Good(s) PROVE Good(Expand(g, s))
  <2> DEFINE at == Head(s.frontier)
             t == FollowEach(g, at, Popped(s))[Len(g.edges)]
  <2>1. CASE s.frontier = <<>>
    BY <1>3, <2>1 DEF Expand
  <2>2. CASE s.frontier # <<>>
    <3>1. IsShort(E, at.via) /\ Waiting(E, Tail(s.frontier))
      BY <1>3, <2>2, WaitingStays
    <3>2. Good(Popped(s))
      BY <1>3, <3>1 DEF Popped
    <3>3. Len(at.via) < MaxHops => Good(t)
      BY <3>1, <3>2, FollowsShort
    <3>4. Len(at.via) \in Nat /\ MaxHops \in Nat
      BY <3>1, LenProperties, HopsAssumption DEF IsShort
    <3>5. Expand(g, s) = IF Len(at.via) >= MaxHops THEN Popped(s) ELSE t
      BY <2>2 DEF Expand
    <3> HIDE DEF Good, t, at
    <3> QED BY <3>2, <3>3, <3>4, <3>5
  <2> QED BY <2>1, <2>2
<1>4. Good(run[0])
  <2> DEFINE start == [id |-> id, via |-> <<>>]
  <2>1. run[0].visited = <<>> /\ run[0].frontier = <<start>>
    BY <1>2
  <2>2. IsShort(E, start.via)
    BY HopsAssumption DEF IsShort
  <2> HIDE DEF start
  <2>3. Waiting(E, <<start>>)
    <3> DEFINE W == {start}
    <3>1. <<start>> \in Seq(W) /\ \A w \in W : IsShort(E, w.via)
      BY <2>2
    <3> HIDE DEF W
    <3> QED BY <3>1 DEF Waiting
  <2>4. ShortPaths(E, <<>>)
    BY DEF ShortPaths
  <2> QED BY <2>1, <2>3, <2>4
<1>5. Downstream(g, id) = run[most].visited
  BY DEF Downstream
<1>6. Good(run[most]) => ShortPaths(E, Downstream(g, id))
  BY <1>5
<1> HIDE DEF most, run, Good
<1>7. 0 \in Fine
  BY <1>1, <1>4
<1>8. \A k \in 1..most : k - 1 \in Fine => k \in Fine
  <2> SUFFICES ASSUME NEW k \in 1..most, k - 1 \in Fine PROVE k \in Fine
    OBVIOUS
  <2>1. Good(run[k - 1]) /\ k \in 0..most /\ run[k] = Expand(g, run[k - 1])
    BY <1>1, <1>2
  <2> QED BY <1>3, <2>1
<1> HIDE DEF Fine
<1>9. most \in Fine
  BY <1>1, <1>7, <1>8, UpTo, Zenon
<1> QED BY <1>6, <1>9 DEF Fine

LEMMA ImpactIsShort ==
  ASSUME NEW g, IsGraph(g), NEW S, NEW ids \in Seq(S)
  PROVE  ShortPaths(Range(g.edges), Impact(g, ids))
<1> DEFINE E == Range(g.edges)
           n == Len(ids)
           all == Impacts(g, ids)
           Fine == {k \in 0..n : ShortPaths(E, all[k])}
<1>1. n \in Nat
  BY LenProperties
<1>2. all[0] = <<>> /\ \A k \in 1..n : all[k] = Joined(all[k - 1], Downstream(g, ids[k]), ids[k])
  BY <1>1, ImpactsDefined
<1>3. Impact(g, ids) = all[n]
  BY DEF Impact
<1>4. \A x : ShortPaths(E, Downstream(g, x))
  BY SearchesShort
<1> HIDE DEF n, all, E
<1>5. 0 \in Fine
  BY <1>1, <1>2 DEF ShortPaths
<1>6. \A k \in 1..n : k - 1 \in Fine => k \in Fine
  <2> SUFFICES ASSUME NEW k \in 1..n, k - 1 \in Fine PROVE k \in Fine
    OBVIOUS
  <2> DEFINE before == all[k - 1]
             found == Downstream(g, ids[k])
  <2>1. ShortPaths(E, before) /\ k \in 0..n /\ all[k] = Joined(before, found, ids[k])
    BY <1>1, <1>2
  <2>2. ShortPaths(E, found)
    BY <1>4
  <2> HIDE DEF before, found
  <2>3. ShortPaths(E, Joined(before, found, ids[k]))
    BY <2>1, <2>2 DEF ShortPaths, Joined
  <2> QED BY <2>1, <2>3
<1> HIDE DEF Fine
<1>7. n \in Fine
  BY <1>1, <1>5, <1>6, UpTo, Zenon
<1> QED BY <1>3, <1>7 DEF Fine, E

\* The average of confidences is one.
LEMMA EstimateBounds ==
  ASSUME NEW g, IsGraph(g), NEW S, NEW ids \in Seq(S)
  PROVE  LET q == EstimateConfidence(Impact(g, ids)) IN q \in Nat /\ q <= 10000
<1> DEFINE impact == Impact(g, ids)
           E == Range(g.edges)
           each == [id \in DOMAIN impact |-> PathConfidence(impact[id].via)]
           d == 10000
           n == Cardinality(DOMAIN impact)
<1>1. IsFiniteSet(DOMAIN impact) /\ \A id \in DOMAIN impact : IsShort(E, impact[id].via)
  BY ImpactIsNodes, ImpactIsShort DEF ShortPaths
<1>2. \A e \in E : e.confidence \in 0..100
  BY DEF IsGraph
<1>3. EstimateConfidence(impact) = IF DOMAIN impact = {} THEN d ELSE Rounded(Total(each), n)
  BY DEF EstimateConfidence
<1> HIDE DEF impact, E
<1>4. ASSUME NEW id \in DOMAIN impact
      PROVE  PathConfidence(impact[id].via) \in Nat /\ PathConfidence(impact[id].via) <= d
  <2> DEFINE path == impact[id].via
  <2>1. path \in Seq(E) /\ Len(path) <= MaxHops
    BY <1>1 DEF IsShort
  <2> HIDE DEF path
  <2>2. Len(path) \in Nat /\ Len(path) <= 4
    BY <2>1, LenProperties, HopsAssumption
  <2> QED BY <1>2, <2>1, <2>2, PathConfidenceBounds DEF path
<1>5. d \in Nat
  OBVIOUS
<1> HIDE DEF d
<1>6. DOMAIN each = DOMAIN impact /\ \A id \in DOMAIN each : each[id] \in 0..d
  BY <1>4, <1>5
<1>7. n \in Nat /\ (DOMAIN impact # {} => n # 0)
  BY <1>1, FS_CardinalityType, FS_EmptySet
<1> HIDE DEF each
<1>8. Total(each) \in Nat /\ Total(each) <= d * n
  BY <1>1, <1>5, <1>6, TotalBounds
<1> HIDE DEF n
<1>9. EstimateConfidence(impact) \in Nat /\ EstimateConfidence(impact) <= d
  <2>1. CASE DOMAIN impact = {}
    BY <1>3, <1>5, <2>1
  <2>2. CASE DOMAIN impact # {}
    <3>1. Rounded(Total(each), n) \in Nat /\ Rounded(Total(each), n) <= d
      BY <1>5, <1>7, <1>8, <2>2, RoundedBounds
    <3> QED BY <1>3, <2>2, <3>1
  <2> QED BY <2>1, <2>2
<1> QED BY <1>9 DEF d, impact

\* The confidence in the blast radius of a change.
LEMMA RadiusBounds ==
  ASSUME world \in Worlds, NEW T, NEW s \in Seq(T)
  PROVE  \/ RadiusOf(s) = NoRadius
         \/ /\ RadiusOf(s) # NoRadius
            /\ RadiusOf(s).confidence \in Nat /\ RadiusOf(s).confidence <= 10000
<1> SUFFICES ASSUME RadiusOf(s) # NoRadius
             PROVE  RadiusOf(s).confidence \in Nat /\ RadiusOf(s).confidence <= 10000
  OBVIOUS
<1> DEFINE g == world.graph
           ids == Direct(g, s)
           d == 10000
<1>1. g # None /\ RadiusOf(s) = Analyze(g, ChangedIds(s))
  BY DEF RadiusOf
<1>2. IsGraph(g)
  BY <1>1, WorldIsSound
<1>3. ids \in Seq(DOMAIN g.node)
  BY DirectJoined
<1>4. Analyze(g, ChangedIds(s)).confidence = EstimateConfidence(Impact(g, ids))
  BY DEF Analyze, Direct
<1> HIDE DEF g, ids
<1>5. EstimateConfidence(Impact(g, ids)) \in Nat /\ EstimateConfidence(Impact(g, ids)) <= d
  BY <1>2, <1>3, EstimateBounds
<1> HIDE DEF d
<1>6. RadiusOf(s).confidence \in Nat /\ RadiusOf(s).confidence <= d
  BY <1>1, <1>4, <1>5
<1> QED BY <1>6 DEF d

\* The confidence in an assessment is a percentage of a percentage of that,
\* and lower when a clause was not understood.
LEMMA ConfidenceBounds ==
  ASSUME NEW c, NEW T, c.ops \in Seq(T),
         \/ c.radius = NoRadius
         \/ /\ c.radius # NoRadius
            /\ c.radius.confidence \in Nat /\ c.radius.confidence <= 10000
  PROVE  /\ Confidence(c) \in Nat /\ Confidence(c) <= 10000
         /\ \A i \in DOMAIN c.ops : c.ops[i].operation = "unknown" => Confidence(c) <= 8500
         /\ UnknownCount(c) >= 3 => Confidence(c) <= 5500
         /\ c.radius = NoRadius => Confidence(c) <= 5500
<1> DEFINE d == 10000
           h == 8500
           l == 5500
           unclear == {i \in DOMAIN c.ops : c.ops[i].operation = "unknown"}
           n == Cardinality(unclear)
           u == IF n = 0 THEN 100 ELSE AtLeast(40, 100 - 15 * n)
           m == IF NamedTables(c) \subseteq DOMAIN c.tables THEN 100 ELSE 85
           r == IF c.radius = NoRadius THEN 5000 ELSE c.radius.confidence
<1>1. Confidence(c) = Rounded(u * m * r, d)
  BY DEF Confidence, UnknownCount, Nearest, Rounded
<1>2. r \in Nat /\ r <= d /\ (c.radius = NoRadius => r = 5000)
  OBVIOUS
<1>3. m \in Nat /\ m <= 100 /\ n = UnknownCount(c)
  BY DEF UnknownCount
<1>4. IsFiniteSet(unclear)
  <2>1. DOMAIN c.ops = 1..Len(c.ops) /\ Len(c.ops) \in Nat
    BY LenProperties
  <2>2. IsFiniteSet(1..Len(c.ops))
    BY <2>1, FS_Interval
  <2> QED BY <2>1, <2>2, FS_Subset
<1>5. n \in Nat /\ (n = 0 => unclear = {})
  <2> HIDE DEF unclear
  <2> QED BY <1>4, FS_CardinalityType, FS_EmptySet
<1>6. u \in Nat /\ u <= 100 /\ (n # 0 => u <= 85) /\ (n >= 3 => u <= 55)
  <2> HIDE DEF n
  <2> QED BY <1>5 DEF AtLeast
<1>7. /\ d \in Nat \ {0} /\ h \in Nat /\ l \in Nat
      /\ d = 100 * 100 /\ h = 85 * 100 /\ l = 55 * 100 /\ 5000 <= l
  OBVIOUS
<1> HIDE DEF d, h, l, u, m, r, n
<1>8. ASSUME NEW a \in Nat, u <= a
      PROVE  Confidence(c) \in Nat /\ Confidence(c) <= a * 100
  <2> DEFINE p == u * m
             b == a * 100
  <2>1. p \in Nat /\ b \in Nat /\ p <= b
    <3>1. u * m \in Nat /\ u * m <= u * 100
      BY <1>3, <1>6, ProductGrows
    <3>2. u * 100 <= a * 100 /\ a * 100 \in Nat
      BY <1>6, <1>8
    <3> QED BY <1>6, <3>1, <3>2
  <2>2. u * m * r = p * r
    OBVIOUS
  <2> HIDE DEF p, b
  <2>3. p * r \in Nat /\ p * r <= p * d
    BY <1>2, <1>7, <2>1, ProductGrows
  <2>4. d * p <= d * b /\ d * p \in Nat /\ d * b \in Nat
    BY <1>7, <2>1, ProductGrows
  <2>5. d * p = p * d /\ d * b = b * d
    BY <1>7, <2>1
  <2> DEFINE x == p * r
  <2>6. x \in Nat /\ x <= b * d
    BY <2>3, <2>4, <2>5, <1>7, <2>1
  <2>7. Confidence(c) = Rounded(x, d)
    BY <1>1, <2>2
  <2> HIDE DEF x
  <2>8. Rounded(x, d) \in Nat /\ Rounded(x, d) <= b
    BY <1>7, <2>1, <2>6, RoundedBounds
  <2> QED BY <2>7, <2>8 DEF b
<1>9. Confidence(c) \in Nat /\ Confidence(c) <= d
  <2>1. Confidence(c) \in Nat /\ Confidence(c) <= 100 * 100
    BY <1>6, <1>8
  <2> QED BY <1>7, <2>1
<1>10. ASSUME NEW i \in DOMAIN c.ops, c.ops[i].operation = "unknown" PROVE Confidence(c) <= h
  <2>1. unclear # {}
    BY <1>10
  <2>2. u <= 85
    BY <1>5, <1>6, <2>1
  <2> QED BY <1>7, <1>8, <2>2
<1>11. n >= 3 => Confidence(c) <= l
  BY <1>6, <1>7, <1>8
<1>12. ASSUME c.radius = NoRadius PROVE Confidence(c) <= l
  <2> DEFINE p == u * m
             x == p * r
  <2>1. p \in Nat /\ p <= d
    <3>1. u * m \in Nat /\ u * m <= u * 100
      BY <1>3, <1>6, ProductGrows
    <3>2. u * 100 <= 100 * 100 /\ u * 100 \in Nat
      BY <1>6
    <3> QED BY <1>7, <3>1, <3>2
  <2>2. x = p * 5000 /\ Confidence(c) = Rounded(x, d)
    BY <1>1, <1>2, <1>12
  <2> HIDE DEF p
  <2>3. x \in Nat /\ x <= 5000 * d /\ 5000 * d <= l * d
    BY <1>7, <2>1, <2>2
  <2> HIDE DEF x
  <2>4. Rounded(x, d) \in Nat /\ Rounded(x, d) <= l
    BY <1>7, <2>3, RoundedBounds
  <2> QED BY <2>2, <2>4
<1> QED BY <1>3, <1>9, <1>10, <1>11, <1>12 DEF d, h, l

Percent == 0..100

\* Every factor is a score out of a hundred.
LEMMA ScoresBounded ==
  ASSUME NEW c, c.prod \in BOOLEAN, NEW T, c.ops \in Seq(T),
         \A x \in T : IncidentsOf(x, c.incidents) \in Nat
  PROVE  \A f \in FactorTypes : Calculated(c)[f] \in Percent
<1>1. LockRisk(c) \in 0..100
  <2>1. CASE c.ops = <<>>
    BY <2>1 DEF LockRisk
  <2>2. CASE c.ops # <<>>
    <3>1. LockRisk(c) \in 0..85
      BY <2>2, LockRiskIsWorst
    <3> QED BY <3>1
  <2> QED BY <2>1, <2>2
<1>2. BackwardCompatibility(c) \in 0..100 /\ IndexImpact(c) \in 0..100 /\ QueryImpact(c) \in 0..100
  BY DEF BackwardCompatibility, IndexImpact, QueryImpact, AtMost
<1>3. Criticality(c) \in 0..100
  <2> DEFINE n == IF c.radius = NoRadius THEN 0 ELSE c.radius.critical
  <2>1. Criticality(c) = CASE n = 0 -> 10 [] n \in 1..2 -> 55 [] OTHER -> 85
    BY DEF Criticality
  <2> HIDE DEF n
  <2> QED BY <2>1
<1>4. DependencyCount(c) \in 0..100
  <2> DEFINE n == IF c.radius = NoRadius THEN 0 ELSE c.radius.affected
  <2>1. DependencyCount(c) = CASE n \in 0..1 -> 10 [] n \in 2..4 -> 35 [] n \in 5..9 -> 60
                               [] OTHER -> 85
    BY DEF DependencyCount
  <2> HIDE DEF n
  <2> QED BY <2>1
<1>5. ReplicationImpact(c) \in 0..100
  <2> DEFINE n == IF c.radius = NoRadius THEN 0 ELSE c.radius.replicas + c.radius.pipelines
  <2>1. ReplicationImpact(c) = CASE n = 0 -> 10 [] n = 1 -> 45 [] OTHER -> 75
    BY DEF ReplicationImpact
  <2> HIDE DEF n
  <2> QED BY <2>1
<1>6. ProductionUsage(c) \in 0..100
  BY DEF ProductionUsage
<1>7. TableSize(c) \in 0..100 /\ DataVolume(c) \in 0..100
  BY DEF TableSize, DataVolume, Banded
<1>8. RollbackDifficulty(c) \in 0..100
  <2> DEFINE hard == Kinds(c) \cap HardToRollBack # {}
             easy == c.ops # <<>> /\ Kinds(c) \subseteq EasyToRollBack
  <2>1. ~ (hard /\ easy)
    BY DEF HardToRollBack, EasyToRollBack
  <2>2. RollbackDifficulty(c) = CASE hard -> 80 [] easy -> 15 [] OTHER -> 40
    BY DEF RollbackDifficulty
  <2> HIDE DEF hard, easy
  <2> QED BY <2>1, <2>2
<1> DEFINE n == Len(c.ops)
           k == Cardinality(Kinds(c))
           i == IncidentsFound(c)
           more == IF "unknown" \in Kinds(c) THEN 25 ELSE 0
<1>9. n \in Nat /\ DOMAIN c.ops = 1..n
  BY LenProperties
<1>10. ChangeComplexity(c) \in 0..100
  <2>1. k \in Nat
    <3> DEFINE D == 1..n
               f == [j \in D |-> c.ops[j].operation]
    <3>1. Kinds(c) = {f[j] : j \in D} /\ DOMAIN f = D
      BY <1>9 DEF Kinds
    <3>2. IsFiniteSet(D)
      BY <1>9, FS_Interval
    <3> HIDE DEF f, D
    <3> QED BY <3>1, <3>2, ValuesAreFinite, FS_CardinalityType
  <2>2. more \in {0, 25}
    OBVIOUS
  <2>3. ChangeComplexity(c) = AtMost(95, 10 + 8 * n + 6 * k + more)
    BY DEF ChangeComplexity
  <2> HIDE DEF n, k, more
  <2> QED BY <1>9, <2>1, <2>2, <2>3 DEF AtMost
<1>11. HistoricalIncidents(c) \in 0..100
  <2>1. i \in Nat
    BY CountsJoined DEF IncidentsFound
  <2>2. HistoricalIncidents(c) = IF i = 0 THEN 15 ELSE AtMost(95, 65 + 10 * (i - 1))
    BY DEF HistoricalIncidents
  <2> HIDE DEF i
  <2> QED BY <2>1, <2>2 DEF AtMost
<1> DEFINE Good(x) == x \in 0..100
<1>12. /\ Good(LockRisk(c)) /\ Good(BackwardCompatibility(c)) /\ Good(Criticality(c))
       /\ Good(DependencyCount(c)) /\ Good(ProductionUsage(c)) /\ Good(RollbackDifficulty(c))
       /\ Good(TableSize(c)) /\ Good(DataVolume(c)) /\ Good(IndexImpact(c))
       /\ Good(ReplicationImpact(c)) /\ Good(ChangeComplexity(c)) /\ Good(QueryImpact(c))
       /\ Good(HistoricalIncidents(c))
  BY <1>1, <1>2, <1>3, <1>4, <1>5, <1>6, <1>7, <1>8, <1>10, <1>11
<1> HIDE DEF Good
<1>13. \A f \in FactorTypes : Good(Calculated(c)[f])
  BY <1>12 DEF Calculated, FactorTypes
<1> QED BY <1>13 DEF Good, Percent

\* The weights add up to a hundred.
LEMMA WeightedBounded ==
  ASSUME NEW s, \A f \in FactorTypes : s[f] \in Percent
  PROVE  Weighted(s) \in Nat /\ Weighted(s) <= 10000
<1> DEFINE P(f) == Weight[f] * s[f]
           W(f) == Weight[f]
           ones == [f \in FactorTypes |-> 1]
<1>1. \A f \in FactorTypes : P(f) \in Nat /\ W(f) \in Nat /\ P(f) <= 100 * W(f)
  <2> SUFFICES ASSUME NEW f \in FactorTypes
               PROVE  P(f) \in Nat /\ W(f) \in Nat /\ P(f) <= 100 * W(f)
    OBVIOUS
  <2>1. Weight[f] \in Nat /\ s[f] \in Nat /\ s[f] <= 100
    BY WeightAssumption DEF Percent
  <2> DEFINE w == Weight[f]
  <2> HIDE DEF w
  <2>2. w * s[f] \in Nat /\ w * s[f] <= w * 100
    BY <2>1, ProductGrows DEF w
  <2> QED BY <2>1, <2>2 DEF w
<1>2. Weighted(s) = P("lock_risk") + P("backward_compatibility") + P("criticality")
        + P("dependency_count") + P("production_usage") + P("rollback_difficulty")
        + P("table_size") + P("data_volume") + P("index_impact") + P("replication_impact")
        + P("change_complexity") + P("query_impact") + P("historical_incidents")
  BY DEF Weighted
<1>3. 100 = W("lock_risk") + W("backward_compatibility") + W("criticality")
        + W("dependency_count") + W("production_usage") + W("rollback_difficulty")
        + W("table_size") + W("data_volume") + W("index_impact") + W("replication_impact")
        + W("change_complexity") + W("query_impact") + W("historical_incidents")
  <2>1. Weighted(ones) = 100
    BY WeightAssumption
  <2>2. \A f \in FactorTypes : ones[f] = 1 /\ Weight[f] * 1 = W(f)
    BY WeightAssumption
  <2> HIDE DEF ones, W
  <2> QED BY <2>1, <2>2 DEF Weighted, FactorTypes
<1> HIDE DEF P, W
<1> DEFINE Fine(f) == P(f) \in Nat /\ W(f) \in Nat /\ P(f) <= 100 * W(f)
           low == P("lock_risk") + P("backward_compatibility") + P("criticality")
                    + P("dependency_count") + P("production_usage") + P("rollback_difficulty")
           high == low + P("table_size") + P("data_volume") + P("index_impact")
                     + P("replication_impact")
           few == W("lock_risk") + W("backward_compatibility") + W("criticality")
                    + W("dependency_count") + W("production_usage") + W("rollback_difficulty")
           many == few + W("table_size") + W("data_volume") + W("index_impact")
                     + W("replication_impact")
<1>4. /\ Fine("lock_risk") /\ Fine("backward_compatibility") /\ Fine("criticality")
      /\ Fine("dependency_count") /\ Fine("production_usage") /\ Fine("rollback_difficulty")
      /\ Fine("table_size") /\ Fine("data_volume") /\ Fine("index_impact")
      /\ Fine("replication_impact") /\ Fine("change_complexity") /\ Fine("query_impact")
      /\ Fine("historical_incidents")
  <2> HIDE DEF Fine
  <2>1. \A f \in FactorTypes : Fine(f)
    BY <1>1 DEF Fine
  <2> QED BY <2>1 DEF FactorTypes
<1>5. low \in Nat /\ few \in Nat /\ low <= 100 * few
  BY <1>4
<1>6. /\ Weighted(s) = high + P("change_complexity") + P("query_impact") + P("historical_incidents")
      /\ 100 = many + W("change_complexity") + W("query_impact") + W("historical_incidents")
  BY <1>2, <1>3
<1> HIDE DEF low, few
<1>7. high \in Nat /\ many \in Nat /\ high <= 100 * many
  BY <1>4, <1>5
<1> HIDE DEF high, many
<1> QED BY <1>4, <1>6, <1>7

\* The figures of an assessment.
LEMMA FiguresBounded ==
  ASSUME world \in Worlds, NEW ss \in Seq(Written)
  PROVE  LET found == AssessmentOf(ParseSql(ss))
         IN /\ found.score \in Nat /\ found.score <= 10000
            /\ found.confidence \in Nat /\ found.confidence <= 10000
            /\ found.level \in Levels
<1> DEFINE o == ParseSql(ss)
           c == Context(o, RadiusOf(o))
           T == Parts(ss)
           found == AssessmentOf(o)
           d == 10000
<1>1. o \in Seq(T)
  BY SqlParses
<1>2. /\ c.ops = o /\ c.prod = world.prod /\ c.incidents = world.incidents
      /\ c.radius = RadiusOf(o)
  BY DEF Context
<1>3. /\ found.score = Weighted(Calculated(c)) /\ found.level = RiskLevelFor(found.score)
      /\ found.confidence = Confidence(c)
  BY DEF AssessmentOf, Assessment
<1> HIDE DEF o, c, T, found
<1>4. found.score \in Nat /\ found.score <= d
  <2>1. c.prod \in BOOLEAN /\ c.ops \in Seq(T) /\ \A x \in T : IncidentsOf(x, c.incidents) \in Nat
    BY <1>1, <1>2, WorldIsSound
  <2> DEFINE score == Calculated(c)
  <2>2. \A f \in FactorTypes : score[f] \in Percent
    BY <2>1, ScoresBounded
  <2> HIDE DEF score
  <2>3. Weighted(score) \in Nat /\ Weighted(score) <= d
    BY <2>2, WeightedBounded
  <2> HIDE DEF d
  <2> QED BY <1>3, <2>3 DEF score
<1>5. found.confidence \in Nat /\ found.confidence <= d
  <2>1. \/ c.radius = NoRadius
        \/ /\ c.radius # NoRadius
           /\ c.radius.confidence \in Nat /\ c.radius.confidence <= d
    BY <1>1, <1>2, RadiusBounds
  <2>2. Confidence(c) \in Nat /\ Confidence(c) <= d
    BY <1>1, <1>2, <2>1, ConfidenceBounds
  <2> HIDE DEF d
  <2> QED BY <1>3, <2>2
<1> HIDE DEF d
<1>6. found.level \in Levels
  BY <1>3 DEF RiskLevelFor, Levels
<1> QED BY <1>4, <1>5, <1>6 DEF found, d, o

\* There is an assessment once the engine has made one.
Unassessed == phase \in {"assessed", "done"} \/ assessment = None

LEMMA UnassessedHolds == RiskSpec => []Unassessed
<1>1. RiskInit => Unassessed
  BY DEF RiskInit, Unassessed
<1>2. Unassessed /\ [RiskNext]_riskVars => Unassessed'
  BY DEF Unassessed, riskVars, RiskNext, Reject, Parse, Trace, Assess, ApplyRule, Finish,
         AppendStatement, SwapStatements, Resubmit
<1> QED BY <1>1, <1>2, PTL DEF RiskSpec

\* RiskTypeOK: an assessment's score and its confidence are shares of a
\* whole, for every policy file whose weights add up to one, for every
\* catalog and for changes of any length; before and after the rules its
\* level is one of the four.
THEOREM RiskTypeCorrect == RiskSpec => []RiskTypeOK
<1>1. AssessmentInv /\ Unassessed => RiskTypeOK
  <2> SUFFICES ASSUME AssessmentInv, Unassessed, assessment # None
               PROVE  /\ assessment.score \in 0..Whole
                      /\ assessment.confidence \in 0..Whole
                      /\ assessment.level \in Levels
                      /\ verdict.level \in Levels
    BY DEF RiskTypeOK
  <2> DEFINE a == assessment
  <2>1. /\ world \in Worlds /\ statements \in Seq(Written) /\ a = AssessmentOf(ParseSql(statements))
        /\ \E n \in Int : Decided(verdict, n, a, ops)
    <3>1. phase \in {"assessed", "done"}
      BY DEF Unassessed
    <3> HIDE DEF a
    <3>2. rule \in 1..(Len(world.rules) + 1) /\ Decided(verdict, rule - 1, a, ops)
      BY <3>1 DEF AssessmentInv, Computed, a
    <3>3. rule \in Int
      BY <3>2, RulesOfWorld DEF AssessmentInv, Computed
    <3>4. rule - 1 \in Int
      BY <3>3
    <3> QED BY <3>1, <3>2, <3>4 DEF AssessmentInv, Computed, a
  <2>2. /\ a.score \in Nat /\ a.score <= Whole /\ a.confidence \in Nat /\ a.confidence <= Whole
        /\ a.level \in Levels
    BY <2>1, FiguresBounded DEF Whole
  <2>3. verdict.level \in Levels
    BY <2>1, <2>2 DEF Decided, Heeds, Levels
  <2>4. Whole \in Nat
    BY DEF Whole
  <2> HIDE DEF a
  <2>5. a.score \in 0..Whole /\ a.confidence \in 0..Whole
    BY <2>2, <2>4
  <2> QED BY <2>2, <2>3, <2>5 DEF a
<1>2. RiskSpec => []AssessmentInv
  BY InitAssessment, AssessmentStep, PTL DEF RiskSpec
<1> QED BY <1>1, <1>2, UnassessedHolds, PTL

-----------------------------------------------------------------------------
(***************************************************************************)
(* What destroys data.                                                     *)
(***************************************************************************)
\* A clause that drops a column or changes a type is taken for that, and the
\* short form of it for nothing that is known.
LEMMA DestructionParses ==
  ASSUME NEW clause, NEW kind \in Destructive, Means(clause, kind)
  PROVE  /\ clause \notin ShortForms => ParseClause(clause) \in Destructive
         /\ clause \in ShortForms => ParseClause(clause) = "unknown"
<1> DEFINE hits == {i \in DOMAIN PatternOrder : clause \in Matched[PatternOrder[i]]}
<1>1. clause \in {"drop column", "drop column, short", "alter column type"}
  <2>1. "drop_table" \notin DOMAIN Meaning
    BY DEF Meaning
  <2>2. /\ Meaning.drop_column = {"drop column", "drop column, short"}
        /\ Meaning.alter_column_type = {"alter column type"}
    BY DEF Meaning
  <2> QED BY <2>1, <2>2 DEF Means, Destructive
<1>2. ParseClause(clause) = IF hits = {} THEN "unknown" ELSE PatternOrder[Min(hits)]
  BY DEF ParseClause
<1>3. hits \subseteq Nat /\ \A i \in hits : i \in 1..15 /\ clause \in Matched[PatternOrder[i]]
  <2>1. DOMAIN PatternOrder = 1..15
    BY DEF PatternOrder
  <2> QED BY <2>1
<1>4. \A i \in 1..15 : PatternOrder[i] \in DOMAIN Matched
  BY DEF PatternOrder, Matched
<1>5. \A p \in DOMAIN Matched :
        clause \in Matched[p] => p \in Destructive /\ clause \notin ShortForms
  <2>1. clause \notin NamedConstraints \cup UnnamedConstraints
    BY <1>1 DEF NamedConstraints, UnnamedConstraints
  <2>2. DOMAIN Matched =
          {"add_foreign_key", "add_primary_key", "add_constraint", "drop_constraint",
           "add_column", "drop_column", "rename_column", "rename_table",
           "alter_column_type", "set_column_not_null", "drop_column_not_null",
           "set_column_default", "drop_column_default", "attach_partition",
           "detach_partition"}
    BY DEF Matched
  <2>3. /\ clause \notin Matched.add_foreign_key
        /\ clause \notin Matched.add_primary_key
        /\ clause \notin Matched.add_constraint
        /\ clause \notin Matched.drop_constraint
        /\ clause \notin Matched.add_column
        /\ clause \notin Matched.rename_column
        /\ clause \notin Matched.rename_table
        /\ clause \notin Matched.set_column_not_null
        /\ clause \notin Matched.drop_column_not_null
        /\ clause \notin Matched.set_column_default
        /\ clause \notin Matched.drop_column_default
        /\ clause \notin Matched.attach_partition
        /\ clause \notin Matched.detach_partition
    BY <1>1, <2>1 DEF Matched
  <2>4. /\ Matched.drop_column = {"drop column"}
        /\ Matched.alter_column_type = {"alter column type"}
    BY DEF Matched
  <2>5. "drop column" \notin ShortForms /\ "alter column type" \notin ShortForms
    BY DEF ShortForms
  <2> QED BY <2>2, <2>3, <2>4, <2>5 DEF Destructive
<1>6. clause \notin ShortForms => hits # {}
  <2> SUFFICES ASSUME clause \notin ShortForms PROVE hits # {}
    OBVIOUS
  <2>1. clause \in {"drop column", "alter column type"}
    BY <1>1 DEF ShortForms
  <2>2. /\ 6 \in DOMAIN PatternOrder /\ PatternOrder[6] = "drop_column"
        /\ 9 \in DOMAIN PatternOrder /\ PatternOrder[9] = "alter_column_type"
    BY DEF PatternOrder
  <2>3. /\ Matched["drop_column"] = {"drop column"}
        /\ Matched["alter_column_type"] = {"alter column type"}
    BY DEF Matched
  <2> QED BY <2>1, <2>2, <2>3
<1>7. clause \in ShortForms => hits = {}
  BY <1>3, <1>4, <1>5
<1> HIDE DEF hits
<1>8. hits # {} => Min(hits) \in hits
  <2>1. hits # {} => \E n \in hits : \A k \in hits : n <= k
    BY <1>3, LeastMember
  <2> QED BY <2>1 DEF Min
<1> QED BY <1>2, <1>3, <1>4, <1>5, <1>6, <1>7, <1>8

\* The operation of a clause is that of its pattern.
LEMMA ClauseOperation ==
  ASSUME NEW s, s.shape = "alter_table", NEW i \in DOMAIN s.clauses
  PROVE  \E o \in Range(ParseStatement(s)) : o.operation = ParseClause(s.clauses[i])
<1> DEFINE p == ParseStatement(s)
<1>1. p = [j \in DOMAIN s.clauses |-> Operation(ParseClause(s.clauses[j]), s.tables[1])]
  BY DEF ParseStatement, OneObjectShapes
<1> HIDE DEF p
<1>2. p[i] = Operation(ParseClause(s.clauses[i]), s.tables[1]) /\ p[i] \in Range(p)
  BY <1>1 DEF Range
<1>3. p[i].operation = ParseClause(s.clauses[i])
  BY <1>2 DEF Operation
<1> QED BY <1>2, <1>3 DEF p

LEMMA DestructiveOperation ==
  ASSUME NEW s, IsStatement(s), NEW kind \in Destructive
  PROVE  /\ WritesInFull(s, kind) =>
              \E o \in Range(ParseStatement(s)) : o.operation \in Destructive
         /\ WritesShort(s, kind) =>
              \E o \in Range(ParseStatement(s)) : o.operation = "unknown"
<1> DEFINE p == ParseStatement(s)
<1>1. /\ DOMAIN s.tables = 1..Len(s.tables) /\ Len(s.tables) \in Nat
      /\ s.shape \in Shapes
      /\ s.shape = "drop_table" => Len(s.tables) # 0
  <2>1. /\ s.tables \in Seq(Range(s.tables)) /\ s.shape \in Shapes
        /\ s.shape = "drop_table" => s.tables # <<>>
    BY DEF IsStatement
  <2> QED BY <2>1, LenProperties, EmptySeq
<1>2. s.shape = kind => s.shape = "drop_table"
  BY <1>1 DEF Destructive, Shapes, OneObjectShapes, DmlShapes, ForeignShapes
<1>3. ASSUME s.shape = "drop_table"
      PROVE  \E o \in Range(p) : o.operation \in Destructive
  <2>1. p = [i \in DOMAIN s.tables |-> Operation("drop_table", s.tables[i])]
    BY <1>3 DEF ParseStatement, OneObjectShapes
  <2>2. 1 \in DOMAIN s.tables
    BY <1>1, <1>3
  <2> HIDE DEF p
  <2>3. p[1] = Operation("drop_table", s.tables[1]) /\ p[1] \in Range(p)
    BY <2>1, <2>2 DEF Range
  <2>4. p[1].operation = "drop_table"
    BY <2>3 DEF Operation
  <2> QED BY <2>3, <2>4 DEF p, Destructive
<1>4. ASSUME WritesClause(s, kind, Clauses \ ShortForms)
      PROVE  \E o \in Range(p) : o.operation \in Destructive
  <2>1. PICK i \in DOMAIN s.clauses : Means(s.clauses[i], kind) /\ s.clauses[i] \notin ShortForms
    BY <1>4 DEF WritesClause
  <2>2. s.shape = "alter_table"
    BY <1>4 DEF WritesClause
  <2>3. ParseClause(s.clauses[i]) \in Destructive
    BY <2>1, DestructionParses
  <2> QED BY <2>1, <2>2, <2>3, ClauseOperation
<1>5. ASSUME WritesShort(s, kind)
      PROVE  \E o \in Range(p) : o.operation = "unknown"
  <2>1. PICK i \in DOMAIN s.clauses : Means(s.clauses[i], kind) /\ s.clauses[i] \in ShortForms
    BY <1>5 DEF WritesShort, WritesClause
  <2>2. s.shape = "alter_table"
    BY <1>5 DEF WritesShort, WritesClause
  <2>3. ParseClause(s.clauses[i]) = "unknown"
    BY <2>1, DestructionParses
  <2> QED BY <2>1, <2>2, <2>3, ClauseOperation
<1> QED BY <1>2, <1>3, <1>4, <1>5 DEF WritesInFull

\* Whatever operation there is stays in sight.
LEMMA OperationOf ==
  ASSUME AssessmentInv, Returned, NEW i \in DOMAIN statements,
         NEW o \in Range(ParseStatement(statements[i]))
  PROVE  /\ ops \in Seq(Parts(statements))
         /\ \E k \in DOMAIN ops : ops[k] = o
<1>1. statements \in Seq(Written) /\ ops = ParseSql(statements)
  BY ReturnedAssessment
<1>2. ops \in Seq(Parts(statements)) /\ o \in Range(ops)
  BY <1>1, SqlParses DEF Parts
<1> QED BY <1>2 DEF Range

\* The confidence in what is returned.
LEMMA ReturnedConfidence ==
  ASSUME AssessmentInv, Returned
  PROVE  LET unknown == {i \in DOMAIN ops : ops[i].operation = "unknown"} IN
         /\ assessment.confidence \in Nat
         /\ unknown # {} => assessment.confidence <= 8500
         /\ Cardinality(unknown) >= 3 \/ radius = NoRadius => assessment.confidence <= 5500
<1> DEFINE c == Context(ops, radius)
<1>1. /\ world \in Worlds /\ statements \in Seq(Written) /\ ops = ParseSql(statements)
      /\ radius = RadiusOf(ops) /\ assessment.confidence = Confidence(c)
  BY ReturnedAssessment
<1>2. c.ops = ops /\ c.radius = radius
  BY DEF Context
<1>3. ops \in Seq(Parts(statements))
  BY <1>1, SqlParses
<1>4. \/ c.radius = NoRadius
      \/ /\ c.radius # NoRadius
         /\ c.radius.confidence \in Nat /\ c.radius.confidence <= 10000
  BY <1>1, <1>2, <1>3, RadiusBounds
<1>5. Cardinality({i \in DOMAIN ops : ops[i].operation = "unknown"}) = UnknownCount(c)
  BY <1>2 DEF UnknownCount
<1> HIDE DEF c
<1>6. /\ Confidence(c) \in Nat
      /\ \A i \in DOMAIN c.ops : c.ops[i].operation = "unknown" => Confidence(c) <= 8500
      /\ UnknownCount(c) >= 3 => Confidence(c) <= 5500
      /\ c.radius = NoRadius => Confidence(c) <= 5500
  BY <1>2, <1>3, <1>4, ConfidenceBounds
<1>7. (\E i \in DOMAIN ops : ops[i].operation = "unknown") => assessment.confidence <= 8500
  BY <1>1, <1>2, <1>6
<1> QED BY <1>1, <1>2, <1>5, <1>6, <1>7

\* DestructionIsFlagged of parse_sql, compute_factors and
\* generate_recommendations: in a migration of any length, wherever in it the
\* data is lost and whatever else is changed or known, the parser, the
\* factors and the recommendations do not lose sight of it together.
THEOREM DestructionIsFlaggedHolds == RiskSpec => []DestructionIsFlagged
<1>1. ASSUME AssessmentInv, Returned, world.prod,
             NEW i \in DOMAIN statements, NEW kind \in Destructive
      PROVE  /\ WritesInFull(statements[i], kind) => Demanded
             /\ WritesShort(statements[i], kind) => Doubted
  <2> DEFINE c == Context(ops, radius)
             s == statements[i]
             plan == Recommend("rollback plan", TRUE)
             checked == Recommend("verify compatibility", TRUE)
  <2>1. /\ world \in Worlds /\ statements \in Seq(Written)
        /\ assessment.recommendations = Recommendations(c)
    BY <1>1, ReturnedAssessment
  <2>2. c.ops = ops /\ c.prod = TRUE
    <3>1. world.prod = TRUE
      BY <1>1, <2>1, WorldIsSound
    <3> QED BY <3>1 DEF Context
  <2>3. IsStatement(s)
    BY <2>1, StatementsAssumption, LenProperties
  <2>4. ASSUME WritesShort(s, kind) PROVE Doubted
    <3>1. PICK o \in Range(ParseStatement(s)) : o.operation = "unknown"
      BY <2>3, <2>4, DestructiveOperation
    <3>2. PICK k \in DOMAIN ops : ops[k] = o
      BY <1>1, OperationOf
    <3> QED BY <1>1, <3>1, <3>2, ReturnedConfidence DEF Doubted
  <2>5. ASSUME WritesInFull(s, kind) PROVE Demanded
    <3>1. PICK o \in Range(ParseStatement(s)) : o.operation \in Destructive
      BY <2>3, <2>5, DestructiveOperation
    <3>2. PICK k \in DOMAIN ops : ops[k] = o
      BY <1>1, OperationOf
    <3> HIDE DEF c, s
    <3>3. o.operation \in Kinds(c)
      BY <2>2, <3>2 DEF Kinds
    <3>4. Kinds(c) \cap BreakingHard # {} /\ Kinds(c) \cap HardToRollBack # {}
      BY <3>1, <3>3 DEF Destructive, BreakingHard, HardToRollBack
    <3>5. BackwardCompatibility(c) = 90 /\ RollbackDifficulty(c) = 80
      <4>1. ~ Kinds(c) \subseteq EasyToRollBack
        BY <3>4 DEF HardToRollBack, EasyToRollBack
      <4> QED BY <3>4, <4>1 DEF BackwardCompatibility, RollbackDifficulty
    <3>6. /\ "backward_compatibility" \in Counted => Scores(c)["backward_compatibility"] = 90
          /\ "rollback_difficulty" \in Counted => Scores(c)["rollback_difficulty"] = 80
      BY <3>5 DEF Scores, Calculated
    <3>7. /\ "backward_compatibility" \in Counted => checked \in Recommendations(c)
          /\ "rollback_difficulty" \in Counted => plan \in Recommendations(c)
      <4> DEFINE score == Scores(c)
      <4>1. /\ "backward_compatibility" \in Counted => score["backward_compatibility"] >= 55
            /\ "rollback_difficulty" \in Counted => score["rollback_difficulty"] >= 55
        BY <3>6
      <4> HIDE DEF score
      <4>2. /\ "backward_compatibility" \in Counted /\ score["backward_compatibility"] >= 55
                 => checked \in Recommendations(c)
            /\ "rollback_difficulty" \in Counted /\ score["rollback_difficulty"] >= 55
                 => plan \in Recommendations(c)
        BY <2>2 DEF Recommendations, score
      <4> QED BY <4>1, <4>2
    <3> QED BY <2>1, <3>7 DEF Demanded
  <2> QED BY <2>4, <2>5
<1>2. AssessmentInv => DestructionIsFlagged
  BY <1>1 DEF DestructionIsFlagged
<1>3. RiskSpec => []AssessmentInv
  BY InitAssessment, AssessmentStep, PTL DEF RiskSpec
<1> QED BY <1>2, <1>3, PTL

\* UnreadIsReviewed of parse_sql, run, _confidence_and_uncertainty and the
\* rule low-confidence-manual-review: for every catalog, graph and policy
\* file, and the rules in any order, what was not read is not trusted.
THEOREM UnreadIsReviewedHolds == RiskSpec => []UnreadIsReviewed
<1>1. AssessmentInv => UnreadIsReviewed
  <2> DEFINE unknown == {i \in DOMAIN ops : ops[i].operation = "unknown"}
  <2> SUFFICES ASSUME AssessmentInv, Returned,
                      ops = <<>> \/ Cardinality(unknown) >= 3 \/ world.graph = None
               PROVE  ManualReview \in verdict.extra
    BY DEF UnreadIsReviewed, ManualReview
  <2>1. /\ world \in Worlds /\ world.prod \in BOOLEAN /\ radius = RadiusOf(ops)
        /\ Decided(verdict, Len(world.rules), assessment, ops)
    BY ReturnedAssessment, WorldIsSound
  <2>2. ops = <<>> \/ world.graph = None => radius = NoRadius
    BY <2>1 DEF RadiusOf
  <2>3. assessment.confidence \in Nat /\ assessment.confidence <= 5500
    <3> HIDE DEF unknown
    <3>1. Cardinality(unknown) >= 3 \/ radius = NoRadius
      BY <2>2
    <3> QED BY <3>1, ReturnedConfidence DEF unknown
  <2>4. assessment.confidence < 6000
    BY <2>3
  <2>5. Triggered(LowConfidenceManualReview, Document(assessment, ops))
    BY <2>1, <2>4, RulesAsk
  <2> QED BY <2>1, <2>5, DecidedBy
<1>2. RiskSpec => []AssessmentInv
  BY InitAssessment, AssessmentStep, PTL DEF RiskSpec
<1> QED BY <1>1, <1>2, PTL

=============================================================================
