--------------------------- MODULE MCBlastRadius ---------------------------
(***************************************************************************)
(* Small graphs, built by the builder, and short changes for BlastRadius.  *)
(***************************************************************************)
EXTENDS BlastRadius, TLC

Table(t) == <<"orders_db", t>>

\* Foreign keys among three tables: chains, a diamond, a table that refers
\* to itself, and cycles of two and of three.
ForeignKeys == {<<"b", "a">>, <<"c", "a">>, <<"c", "b">>, <<"a", "c">>, <<"a", "a">>, <<"b", "c">>}

CatalogTable(t, keys) ==
  [name |-> t, keys |-> SetToSeq({k[2] : k \in {k \in keys : k[1] = t}})]

Catalog(keys) ==
  [tables |-> <<CatalogTable("a", keys), CatalogTable("b", keys), CatalogTable("c", keys)>>,
   views |-> <<[name |-> "v", reads |-> <<"a">>], [name |-> "w", reads |-> <<"v", "gone">>]>>]

Service(n, type, uses) ==
  [name |-> n, type |-> type, production |-> TRUE, critical |-> n = "shop", uses |-> uses]

NoConfig == [databases |-> <<>>, services |-> <<>>, replication |-> <<>>, apis |-> <<>>]

\* A service behind an API, a pipeline, and a replica that is in the catalog
\* as well, so that a table depends on another by two edges.
AppConfig ==
  [databases |-> <<[name |-> "orders_db", production |-> TRUE, critical |-> TRUE]>>,
   services |-> <<Service("shop", "service", <<Table("b")>>),
                  Service("etl", "data_pipeline", <<Table("a"), Table("other")>>)>>,
   replication |-> <<[source |-> Table("a"), target |-> <<"lake_db", "a">>],
                     [source |-> Table("a"), target |-> Table("b")]>>,
   apis |-> <<[name |-> "get", service |-> "shop", tables |-> <<Table("c")>>],
              [name |-> "put", service |-> "etl", tables |-> <<>>]>>]

GraphOf(keys, config) ==
  AddAppConfig(AddDatabaseMetadata(EmptyGraph, "orders_db", Catalog(keys)), config)

SmallGraphs == {GraphOf(keys, config) : keys \in SUBSET ForeignKeys, config \in {NoConfig, AppConfig}}

ChangedIds == {TableId(Table(t)) : t \in {"a", "b", "c", "gone"}}

ShortChanges == {<<>>} \cup [1..1 -> ChangedIds] \cup [1..2 -> ChangedIds]

=============================================================================
