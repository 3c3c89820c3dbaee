---------------------------- MODULE MCChangeRisk ----------------------------
(***************************************************************************)
(* Worlds, statements and the shipped weights for ChangeRisk.              *)
(***************************************************************************)
EXTENDS ChangeRisk

\* policies/risk/factor-weights.yaml
ShippedWeight ==
  [lock_risk |-> 16, backward_compatibility |-> 12, criticality |-> 11,
   dependency_count |-> 10, production_usage |-> 9, rollback_difficulty |-> 8,
   table_size |-> 8, data_volume |-> 7, index_impact |-> 6, replication_impact |-> 5,
   change_complexity |-> 4, query_impact |-> 2, historical_incidents |-> 2]

Ref(t) == <<"db", t>>

\* A mirror of orders that also refers to items: which of the two is changed
\* first decides whether it is a replica.
Catalog ==
  [tables |-> <<[name |-> "orders", keys |-> <<>>],
                [name |-> "items", keys |-> <<"orders">>],
                [name |-> "mirror", keys |-> <<"items">>]>>,
   views |-> <<[name |-> "v", reads |-> <<"orders">>]>>]

Service(n, type, critical, uses) ==
  [name |-> n, type |-> type, production |-> critical, critical |-> critical, uses |-> uses]

SmallConfig ==
  [databases |-> <<[name |-> "db", production |-> TRUE, critical |-> TRUE]>>,
   services |-> <<Service("shop", "service", TRUE, <<Ref("items")>>),
                  Service("etl", "data_pipeline", FALSE, <<Ref("orders"), Ref("lost")>>)>>,
   replication |-> <<[source |-> Ref("orders"), target |-> Ref("mirror")]>>,
   apis |-> <<[name |-> "get", service |-> "shop", tables |-> <<Ref("items")>>]>>]

\* Ten services on one table.
WideConfig ==
  [SmallConfig EXCEPT !.services =
     [i \in 1..10 |-> Service(ToString(i), "service", i <= 3, <<Ref("orders")>>)]]

CatalogOnly == AddDatabaseMetadata(EmptyGraph, "db", Catalog)
SmallGraph == AddAppConfig(CatalogOnly, SmallConfig)
WideGraph == AddAppConfig(CatalogOnly, WideConfig)

Metadata(gb, krows) == [gb |-> gb, krows |-> krows]

World(graph, database, prod, tables, scanned, incidents) ==
  [graph |-> graph, database |-> database, prod |-> prod, tables |-> tables,
   scanned |-> scanned, incidents |-> incidents, rules |-> DefaultRules]

Measurements ==
  [orders |-> Metadata(600, 80000), items |-> Metadata(0, 50), mirror |-> Metadata(120, None)]

ShippedWorlds ==
  {World(SmallGraph, "db", TRUE, Measurements, {}, <<>>),
   World(SmallGraph, "db", FALSE, [items |-> Metadata(None, None)], {"items"}, [orders |-> 4, items |-> 1]),
   World(WideGraph, "db", FALSE, Measurements, {"orders"}, <<>>),
   World(WideGraph, "db", TRUE, [orders |-> Metadata(9, 900)], {}, [orders |-> 1]),
   World(CatalogOnly, "unknown", TRUE, <<>>, {}, <<>>),
   World(None, "db", TRUE, [items |-> Metadata(40, 20000)], {}, <<>>)}

\* Each of them also with the rules the other way round.
SmallWorlds ==
  UNION {{w, [w EXCEPT !.rules = Reverse(DefaultRules)]} : w \in ShippedWorlds}

Statement(shape, tables, clauses) == [shape |-> shape, tables |-> tables, clauses |-> clauses]

On(shape, table) == Statement(shape, <<table>>, <<>>)
Alter(table, clauses) == Statement("alter_table", <<table>>, clauses)

AllStatements ==
  {Alter("orders", <<clause>>) :
     clause \in {"add column", "named foreign key", "named unique", "unique", "set not null",
                 "drop column", "set default", "drop constraint", "attach partition"}}
  \cup {Alter("items", <<"add column", "alter column type">>),
        Alter("items", <<"named primary key">>),
        Alter("mirror", <<"rename column">>),
        Alter("gone", <<"drop column, short", "add column, type with comma">>),
        Alter("orders", <<"owner to", "set schema", "validate constraint">>),
        On("create_index", "orders"), On("create_index_concurrently", "orders"),
        On("create_index", "items"), On("drop_index", None),
        On("create_table", "new"), On("create_function", "f"), On("drop_view", "v"),
        Statement("drop_table", <<"items", "orders">>, <<>>),
        On("truncate", "orders"), On("alter view", "v"), On("update", "orders")}

\* What an author adds or swaps.
AddedStatements ==
  {Alter("orders", <<"add column">>), Alter("items", <<"named check">>),
   Alter("items", <<"add column", "drop column">>), Alter("orders", <<"alter column type">>),
   Alter("orders", <<"drop column, short">>), On("create_index", "orders"),
   On("drop_index", None), On("drop_table", "items"), On("drop_view", "v"),
   On("truncate", "orders")}

OneStatement == {<<>>} \cup [1..1 -> AllStatements]

=============================================================================
