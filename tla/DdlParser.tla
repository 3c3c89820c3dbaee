----------------------------- MODULE DdlParser -----------------------------
(***************************************************************************)
(* The DDL parser of the Change Risk Engine                                *)
(* (analyzers/database/parser.py).                                         *)
(*                                                                         *)
(* A statement is [shape, tables, clauses]: what kind of SQL statement it  *)
(* is, the objects it names and, for ALTER TABLE, the shapes of its        *)
(* comma-separated clauses.  What the regular expressions do is modelled   *)
(* by the set of shapes each of them matches; the order in which they are  *)
(* tried is kept.                                                          *)
(***************************************************************************)
EXTENDS Naturals, Sequences, FiniteSets, SequencesExt

CONSTANT None  \* an operation that names no table

-----------------------------------------------------------------------------
(***************************************************************************)
(* Clauses of ALTER TABLE.  A constraint is "named" when the clause has    *)
(* the words ADD CONSTRAINT; "short" forms leave the word COLUMN out.      *)
(***************************************************************************)
NamedConstraints ==
  {"named foreign key", "named foreign key, no columns", "named primary key",
   "named primary key using index", "named check", "named unique"}

UnnamedConstraints == {"foreign key", "primary key", "check", "unique"}

\* The clauses each pattern matches.  _ADD_COLUMN takes any two words after
\* ADD for a column and its type, but no comma within the type.
Matched == [
  add_foreign_key |-> {"named foreign key"},
  add_primary_key |-> {"primary key", "named primary key"},
  add_constraint |-> NamedConstraints,
  drop_constraint |-> {"drop constraint"},
  add_column |-> {"add column", "add column, short"} \cup NamedConstraints \cup UnnamedConstraints,
  drop_column |-> {"drop column"},
  rename_column |-> {"rename column"},
  rename_table |-> {"rename to"},
  alter_column_type |-> {"alter column type"},
  set_column_not_null |-> {"set not null"},
  drop_column_not_null |-> {"drop not null"},
  set_column_default |-> {"set default"},
  drop_column_default |-> {"drop default"},
  attach_partition |-> {"attach partition"},
  detach_partition |-> {"detach partition"}]

\* Clauses no pattern matches.
UnmatchedClauses ==
  {"add column, type with comma", "drop column, short", "rename column, short",
   "rename constraint", "owner to", "set schema", "validate constraint"}

\* Those of them that leave the word COLUMN out.
ShortForms == {"drop column, short", "rename column, short"}

Clauses == UNION {Matched[p] : p \in DOMAIN Matched} \cup UnmatchedClauses

\* Mutant: columns before constraints.
ColumnsFirst ==
  <<"add_column", "drop_column", "rename_column", "rename_table",
    "add_foreign_key", "add_primary_key", "add_constraint", "drop_constraint",
    "alter_column_type", "set_column_not_null", "drop_column_not_null",
    "set_column_default", "drop_column_default", "attach_partition", "detach_partition">>

\* The order in which _parse_alter_table_action tries the patterns.
PatternOrder ==
  <<"add_foreign_key", "add_primary_key", "add_constraint", "drop_constraint",
    "add_column", "drop_column", "rename_column", "rename_table",
    "alter_column_type", "set_column_not_null", "drop_column_not_null",
    "set_column_default", "drop_column_default", "attach_partition", "detach_partition">>

\* The first pattern that matches names the operation.
ParseClause(clause) ==
  LET hits == {i \in DOMAIN PatternOrder : clause \in Matched[PatternOrder[i]]}
  IN IF hits = {} THEN "unknown" ELSE PatternOrder[Min(hits)]

-----------------------------------------------------------------------------
(***************************************************************************)
(* Statements.  The patterns of parse_statement start with different       *)
(* keywords, so that their order does not matter.                          *)
(***************************************************************************)
Operation(kind, table) == [operation |-> kind, table |-> table]

\* One operation on the first object named: DROP VIEW and DROP FUNCTION
\* take no list.
OneObjectShapes ==
  {"create_table", "create_index", "create_index_concurrently", "create_view",
   "drop_view", "create_function", "drop_function", "alter_function"}

\* Statements that return no operation: data changes, and DDL outside the
\* parser's vocabulary.
DmlShapes == {"insert", "update", "delete"}
ForeignShapes ==
  {"truncate", "create table as", "alter view", "alter index", "drop schema",
   "create type", "grant"}

Shapes == OneObjectShapes \cup DmlShapes \cup ForeignShapes
            \cup {"drop_table", "drop_index", "alter_table"}

ParseStatement(s) ==
  CASE s.shape = "drop_table" ->
         [i \in DOMAIN s.tables |-> Operation("drop_table", s.tables[i])]
    [] s.shape = "alter_table" ->
         [i \in DOMAIN s.clauses |-> Operation(ParseClause(s.clauses[i]), s.tables[1])]
    [] s.shape = "drop_index" -> <<Operation("drop_index", None)>>
    [] s.shape \in OneObjectShapes -> <<Operation(s.shape, s.tables[1])>>
    [] OTHER -> <<>>

\* parse_sql, over the statements sqlparse splits a file into.
Parsed(statements) ==
  LET parsed[n \in 0..Len(statements)] ==
        IF n = 0 THEN <<>> ELSE parsed[n - 1] \o ParseStatement(statements[n])
  IN parsed

ParseSql(statements) == Parsed(statements)[Len(statements)]

-----------------------------------------------------------------------------
(***************************************************************************)
(* What a clause does to the table, read off the SQL and not off the       *)
(* parser, for the clauses whose operation the parser knows.               *)
(***************************************************************************)
Meaning == [
  add_foreign_key |-> {"named foreign key", "named foreign key, no columns", "foreign key"},
  add_primary_key |-> {"named primary key", "named primary key using index", "primary key"},
  add_constraint |-> {"named check", "check", "named unique", "unique"},
  drop_constraint |-> {"drop constraint"},
  add_column |-> {"add column", "add column, short", "add column, type with comma"},
  drop_column |-> {"drop column", "drop column, short"},
  rename_column |-> {"rename column", "rename column, short"},
  rename_table |-> {"rename to"},
  alter_column_type |-> {"alter column type"},
  set_column_not_null |-> {"set not null"},
  drop_column_not_null |-> {"drop not null"},
  set_column_default |-> {"set default"},
  drop_column_default |-> {"drop default"},
  attach_partition |-> {"attach partition"},
  detach_partition |-> {"detach partition"}]

Means(clause, kind) == kind \in DOMAIN Meaning /\ clause \in Meaning[kind]

=============================================================================
