-------------------------- MODULE DependencyGraph --------------------------
(***************************************************************************)
(* The Change Risk Engine's graph of resources (domain/dependency.py) and  *)
(* the builder that fills it from the catalog and from the application     *)
(* dependency configuration (dependencies/graph_builder.py).               *)
(*                                                                         *)
(* A graph is [node, edges]: node maps ids to their records, edges is the  *)
(* sequence in which edges were added.  An edge says that its source       *)
(* depends on its target.  An id is a tuple whose first member is its      *)
(* prefix; a table reference is <<database, table>>, the schema being part *)
(* of the table.  Confidence is in percent.                                *)
(***************************************************************************)
EXTENDS Naturals, Sequences, FiniteSets, SequencesExt

TableId(ref) == <<"table", ref[1], ref[2]>>
ViewId(ref) == <<"view", ref[1], ref[2]>>
DatabaseId(name) == <<"database", name>>
ApiId(name) == <<"api", name>>
ServiceId(name) == <<"service", name>>
PipelineId(name) == <<"pipeline", name>>

EmptyGraph == [node |-> <<>>, edges |-> <<>>]

\* What the metadata of a node says: a node whose metadata lacks the key
\* "critical" is of unknown criticality, one that lacks "production" counts
\* as production.
Node(type, name, criticality, production) ==
  [type |-> type, name |-> name, criticality |-> criticality, production |-> production]

PlainNode(type, name) == Node(type, name, "unknown", TRUE)

Declared(critical) == IF critical THEN "critical" ELSE "standard"

Edge(source, target, relationship, confidence) ==
  [source |-> source, target |-> target, relationship |-> relationship,
   confidence |-> confidence]

\* The node added first stays.
AddNode(g, id, n) ==
  IF id \in DOMAIN g.node THEN g
  ELSE [g EXCEPT !.node = [i \in DOMAIN @ \cup {id} |-> IF i = id THEN n ELSE @[i]]]

AddEdge(g, e) == [g EXCEPT !.edges = Append(@, e)]

-----------------------------------------------------------------------------
(***************************************************************************)
(* add_database_metadata.  A catalog is a sequence of tables with the      *)
(* references of their foreign keys, and one of views with what they read. *)
(* References to what the catalog does not hold are dropped.               *)
(***************************************************************************)
AddForeignKey(g, source, ref) ==
  IF TableId(ref) \in DOMAIN g.node
  THEN AddEdge(g, Edge(source, TableId(ref), "foreign_key", 100))
  ELSE g

\* A view reads a table, or else a view, of that name.
AddViewRead(g, source, ref) ==
  LET found == {id \in {TableId(ref), ViewId(ref)} : id \in DOMAIN g.node}
      read == IF TableId(ref) \in found THEN TableId(ref) ELSE ViewId(ref)
  IN IF found = {} THEN g ELSE AddEdge(g, Edge(source, read, "reads_from", 100))

AddDatabaseMetadata(g, db, catalog) ==
  LET id(t) == TableId(<<db, t.name>>)
      viewId(v) == ViewId(<<db, v.name>>)
      database == AddNode(g, DatabaseId(db), PlainNode("database", db))
      tables == FoldLeft(LAMBDA h, t : AddNode(h, id(t), PlainNode("table", t.name)),
                         database, catalog.tables)
      views == FoldLeft(LAMBDA h, v : AddNode(h, viewId(v), PlainNode("view", v.name)),
                        tables, catalog.views)
      keys == FoldLeft(LAMBDA h, t :
                         FoldLeft(LAMBDA k, ref : AddForeignKey(k, id(t), <<db, ref>>),
                                  h, t.keys),
                       views, catalog.tables)
  IN FoldLeft(LAMBDA h, v :
                FoldLeft(LAMBDA k, ref : AddViewRead(k, viewId(v), <<db, ref>>), h, v.reads),
              keys, catalog.views)

-----------------------------------------------------------------------------
(***************************************************************************)
(* add_app_config.  A table the catalog does not hold is added on demand.  *)
(***************************************************************************)
EnsureTableEdge(g, dependent, ref) ==
  AddEdge(AddNode(g, TableId(ref), PlainNode("table", ref)),
          Edge(dependent, TableId(ref), "reads_or_writes", 85))

AddDatabase(g, d) ==
  AddNode(g, DatabaseId(d.name),
          Node("database", d.name, Declared(d.critical), d.production))

AddService(g, s) ==
  LET id == IF s.type = "data_pipeline" THEN PipelineId(s.name) ELSE ServiceId(s.name)
      type == IF s.type = "data_pipeline" THEN "data_pipeline" ELSE "service"
      n == Node(type, s.name, Declared(s.critical), s.production)
  IN FoldLeft(LAMBDA h, ref : EnsureTableEdge(h, id, ref), AddNode(g, id, n), s.uses)

\* The target of a replication is what goes stale when its source changes.
AddReplication(g, r) ==
  LET sources == AddNode(g, TableId(r.source), PlainNode("table", r.source))
      both == AddNode(sources, TableId(r.target),
                      PlainNode("replication_target", r.target))
  IN AddEdge(both, Edge(TableId(r.target), TableId(r.source), "replication", 90))

\* An API served by what is not a service keeps only the edges to its tables.
AddApi(g, a) ==
  LET api == AddNode(g, ApiId(a.name), PlainNode("api_endpoint", a.name))
      served == IF ServiceId(a.service) \in DOMAIN g.node
                THEN AddEdge(api, Edge(ApiId(a.name), ServiceId(a.service), "served_by", 95))
                ELSE api
  IN FoldLeft(LAMBDA h, ref : EnsureTableEdge(h, ApiId(a.name), ref), served, a.tables)

AddAppConfig(g, config) ==
  LET databases == FoldLeft(AddDatabase, g, config.databases)
      services == FoldLeft(AddService, databases, config.services)
      replicas == FoldLeft(AddReplication, services, config.replication)
  IN FoldLeft(AddApi, replicas, config.apis)

-----------------------------------------------------------------------------
(***************************************************************************)
(* Traversal.  Downstream of a node is what depends on it: edges are       *)
(* walked from their target to their source.  Upstream is the reverse.     *)
(***************************************************************************)
Near(direction, e) == IF direction = "down" THEN e.target ELSE e.source
Far(direction, e) == IF direction = "down" THEN e.source ELSE e.target

\* A path from one node to another: at least one edge, each starting where
\* the one before it ended.
IsPath(g, direction, path, from, to) ==
  /\ path \in Seq(Range(g.edges))
  /\ path # <<>>
  /\ Near(direction, path[1]) = from
  /\ Far(direction, path[Len(path)]) = to
  /\ \A i \in 1..(Len(path) - 1) : Near(direction, path[i + 1]) = Far(direction, path[i])

\* The given nodes, and those one edge away from them.
Onward(g, direction, from) ==
  from \cup {Far(direction, e) : e \in {e \in Range(g.edges) : Near(direction, e) \in from}}

\* For each k up to n: id, and the nodes at the end of a path of at most k
\* edges from there.
Reach(g, direction, id, n) ==
  LET reach[k \in 0..n] == IF k = 0 THEN {id} ELSE Onward(g, direction, reach[k - 1])
  IN reach

\* The nodes at the end of a path of at most n edges from id: id itself is one
\* of them where a cycle leads back to it.
Within(g, direction, id, n) ==
  LET reach == Reach(g, direction, id, n)
      cycle == \E e \in Range(g.edges) : /\ Far(direction, e) = id
                                         /\ n > 0 /\ Near(direction, e) \in reach[n - 1]
  IN IF cycle THEN reach[n] ELSE reach[n] \ {id}

\* The number of edges on the shortest path to a node Within reach.
Distance(g, direction, from, to, n) ==
  CHOOSE k \in 1..n : /\ to \in Within(g, direction, from, k)
                      /\ k = 1 \/ to \notin Within(g, direction, from, k - 1)

=============================================================================
