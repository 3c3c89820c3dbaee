---------------------------- MODULE RiskFactors ----------------------------
(***************************************************************************)
(* The thirteen risk factors (risk/factors.py), what the engine makes of   *)
(* them (risk/engine.py) and the recommendations                           *)
(* (risk/recommendations.py), as operators over a context                  *)
(*   [ops, prod, tables, radius, scanned, incidents]:                      *)
(* the operations of the change, whether its environment is production,    *)
(* the collected metadata of the tables that have any ([gb, krows], whole  *)
(* gigabytes and thousands of rows, None where the catalog has none), the  *)
(* blast radius or NoRadius, the tables already scanned heavily, and       *)
(* the number of incidents on record for each table.                       *)
(*                                                                         *)
(* Scores are whole numbers in the code too; weights are hundredths, and   *)
(* the overall score is in hundredths of a point, which is what the code   *)
(* rounds to.  Confidence is in ten-thousandths.                           *)
(***************************************************************************)
EXTENDS DdlParser

CONSTANTS
  Weight,                     \* policies/risk/factor-weights.yaml: factors
  LowMax, MediumMax, HighMax  \* and risk_levels

FactorTypes ==
  {"lock_risk", "backward_compatibility", "criticality", "dependency_count",
   "production_usage", "rollback_difficulty", "table_size", "data_volume",
   "index_impact", "replication_impact", "change_complexity", "query_impact",
   "historical_incidents"}

\* The sum of the weighted scores.
Weighted(score) ==
  Weight.lock_risk * score.lock_risk
  + Weight.backward_compatibility * score.backward_compatibility
  + Weight.criticality * score.criticality
  + Weight.dependency_count * score.dependency_count
  + Weight.production_usage * score.production_usage
  + Weight.rollback_difficulty * score.rollback_difficulty
  + Weight.table_size * score.table_size
  + Weight.data_volume * score.data_volume
  + Weight.index_impact * score.index_impact
  + Weight.replication_impact * score.replication_impact
  + Weight.change_complexity * score.change_complexity
  + Weight.query_impact * score.query_impact
  + Weight.historical_incidents * score.historical_incidents

\* RiskWeightsPolicy refuses weights that do not add up to 1.
ASSUME WeightAssumption ==
  /\ Weight \in [FactorTypes -> Nat]
  /\ Weighted([f \in FactorTypes |-> 1]) = 100

ASSUME LevelAssumption ==
  LowMax \in Nat /\ MediumMax \in Nat /\ HighMax \in Nat

-----------------------------------------------------------------------------
(***************************************************************************)
(* What the calculators look at.                                           *)
(***************************************************************************)
\* change.blast_radius without a dependency graph: it has no figures.
NoRadius == <<>>

Kinds(c) == {c.ops[i].operation : i \in DOMAIN c.ops}

NamedTables(c) == {c.ops[i].table : i \in DOMAIN c.ops} \ {None}

\* target_tables(): the named tables that have metadata.
TargetTables(c) == NamedTables(c) \cap DOMAIN c.tables

\* `or 0`: a number the catalog does not have counts as nothing.
Measured(n) == IF n = None THEN 0 ELSE n

Largest(numbers) == CHOOSE n \in numbers : \A m \in numbers : m <= n

LargestGb(c) == Largest({Measured(c.tables[t].gb) : t \in TargetTables(c)})
LargestKrows(c) == Largest({Measured(c.tables[t].krows) : t \in TargetTables(c)})

\* The score of the first band whose limit is above the number.
Banded(n, l1, s1, l2, s2, l3, s3, l4, s4, above) ==
  IF n < l1 THEN s1 ELSE IF n < l2 THEN s2 ELSE IF n < l3 THEN s3 ELSE IF n < l4 THEN s4 ELSE above

AtMost(limit, n) == IF n <= limit THEN n ELSE limit

-----------------------------------------------------------------------------
(***************************************************************************)
(* The factors.                                                            *)
(***************************************************************************)
\* _LOCK_RISK_BASE, which has no entry for drop_table and alter_table.
LockRiskBase ==
  [create_table |-> 10, add_column |-> 20, drop_column |-> 35,
   alter_column_type |-> 85, rename_column |-> 15, rename_table |-> 15,
   set_column_not_null |-> 55, drop_column_not_null |-> 15,
   set_column_default |-> 10, drop_column_default |-> 10, create_index |-> 70,
   create_index_concurrently |-> 20, drop_index |-> 40, add_constraint |-> 60,
   add_foreign_key |-> 60, add_primary_key |-> 65, drop_constraint |-> 20,
   create_view |-> 10, drop_view |-> 10, alter_view |-> 10, create_function |-> 5,
   drop_function |-> 5, alter_function |-> 5, attach_partition |-> 45,
   detach_partition |-> 45, unknown |-> 50]

LockRiskOf(kind) ==
  IF kind \in DOMAIN LockRiskBase THEN LockRiskBase[kind] ELSE LockRiskBase.unknown

BreakingHard == {"drop_table", "drop_column", "alter_column_type", "rename_column",
                 "rename_table", "drop_view", "drop_function"}
BreakingSoft == {"set_column_not_null", "drop_constraint", "drop_index", "detach_partition"}
HardToRollBack == {"drop_table", "drop_column", "alter_column_type", "drop_constraint",
                   "drop_index"}
EasyToRollBack == {"add_column", "create_table", "create_index", "create_index_concurrently",
                   "create_view", "create_function", "set_column_default",
                   "drop_column_default", "drop_column_not_null"}
RewriteOps == {"alter_column_type", "set_column_not_null", "add_primary_key",
               "add_foreign_key", "add_constraint"}

\* Mutant: the operation written last decides.
LastLockRisk(c) ==
  IF c.ops = <<>> THEN 0 ELSE LockRiskOf(c.ops[Len(c.ops)].operation)

LockRisk(c) == IF c.ops = <<>> THEN 0 ELSE Largest({LockRiskOf(k) : k \in Kinds(c)})

BackwardCompatibility(c) ==
  IF Kinds(c) \cap BreakingHard # {} THEN 90
  ELSE IF Kinds(c) \cap BreakingSoft # {} THEN 55
  ELSE 15

Criticality(c) ==
  LET count == IF c.radius = NoRadius THEN 0 ELSE c.radius.critical
  IN CASE count = 0 -> 10 [] count \in 1..2 -> 55 [] OTHER -> 85

DependencyCount(c) ==
  LET count == IF c.radius = NoRadius THEN 0 ELSE c.radius.affected
  IN CASE count \in 0..1 -> 10 [] count \in 2..4 -> 35 [] count \in 5..9 -> 60 [] OTHER -> 85

ProductionUsage(c) ==
  CASE ~c.prod -> 10
    [] c.prod /\ c.radius # NoRadius /\ c.radius.production -> 85
    [] OTHER -> 50

TableSize(c) ==
  IF TargetTables(c) = {} THEN 20
  ELSE Banded(LargestGb(c), 1, 10, 10, 30, 100, 55, 500, 75, 95)

DataVolume(c) ==
  IF TargetTables(c) = {} THEN 20
  ELSE Banded(LargestKrows(c), 100, 10, 1000, 25, 10000, 45, 50000, 65, 85)

LargeTable(c) == TargetTables(c) # {} /\ LargestGb(c) >= 100

\* The worst index operation decides: a blocking build, then a drop.
IndexImpact(c) ==
  IF "create_index" \in Kinds(c) THEN IF LargeTable(c) THEN 90 ELSE 70
  ELSE IF "drop_index" \in Kinds(c) THEN 40
  ELSE IF "create_index_concurrently" \in Kinds(c) THEN 20
  ELSE 5

QueryImpact(c) ==
  LET base == IF Kinds(c) \cap RewriteOps # {} THEN 55 ELSE 15
      bump == IF NamedTables(c) \cap c.scanned # {} THEN 25 ELSE 0
  IN AtMost(95, base + bump)

ReplicationImpact(c) ==
  LET total == IF c.radius = NoRadius THEN 0 ELSE c.radius.replicas + c.radius.pipelines
  IN CASE total = 0 -> 10 [] total = 1 -> 45 [] OTHER -> 75

\* Mutant: one operation that is easy to undo is enough.
AnyEasyRollback(c) ==
  CASE Kinds(c) \cap HardToRollBack # {} -> 80
    [] Kinds(c) \cap EasyToRollBack # {} -> 15
    [] OTHER -> 40

\* Mutant: the operation written last decides.
LastRollback(c) ==
  CASE c.ops # <<>> /\ c.ops[Len(c.ops)].operation \in HardToRollBack -> 80
    [] c.ops # <<>> /\ c.ops[Len(c.ops)].operation \in EasyToRollBack -> 15
    [] OTHER -> 40

RollbackDifficulty(c) ==
  CASE Kinds(c) \cap HardToRollBack # {} -> 80
    [] c.ops # <<>> /\ Kinds(c) \subseteq EasyToRollBack -> 15
    [] OTHER -> 40

ChangeComplexity(c) ==
  AtMost(95, 10 + 8 * Len(c.ops) + 6 * Cardinality(Kinds(c))
             + (IF "unknown" \in Kinds(c) THEN 25 ELSE 0))

\* The incidents of a table count once for every operation on it.
IncidentsOf(op, incidents) ==
  IF op.table \in DOMAIN incidents THEN incidents[op.table] ELSE 0

IncidentCounts(ops, incidents) ==
  LET count[n \in 0..Len(ops)] ==
        IF n = 0 THEN 0 ELSE count[n - 1] + IncidentsOf(ops[n], incidents)
  IN count

IncidentsFound(c) == IncidentCounts(c.ops, c.incidents)[Len(c.ops)]

HistoricalIncidents(c) ==
  IF IncidentsFound(c) = 0 THEN 15 ELSE AtMost(95, 65 + 10 * (IncidentsFound(c) - 1))

\* _FACTOR_FUNCS: what each calculator makes of the change.
Calculated(c) ==
  [lock_risk |-> LockRisk(c),
   backward_compatibility |-> BackwardCompatibility(c),
   criticality |-> Criticality(c),
   dependency_count |-> DependencyCount(c),
   production_usage |-> ProductionUsage(c),
   rollback_difficulty |-> RollbackDifficulty(c),
   table_size |-> TableSize(c),
   data_volume |-> DataVolume(c),
   index_impact |-> IndexImpact(c),
   replication_impact |-> ReplicationImpact(c),
   change_complexity |-> ChangeComplexity(c),
   query_impact |-> QueryImpact(c),
   historical_incidents |-> HistoricalIncidents(c)]

\* The factors a policy file gives a weight.
Counted == {f \in FactorTypes : Weight[f] > 0}

\* compute_factors, which leaves the other factors out.
Scores(c) == [f \in Counted |-> Calculated(c)[f]]

-----------------------------------------------------------------------------
(***************************************************************************)
(* RiskEngine.assess.                                                      *)
(***************************************************************************)
Levels == {"low", "medium", "high", "critical"}

Rank == [low |-> 0, medium |-> 1, high |-> 2, critical |-> 3]

RiskLevelFor(score) ==
  IF score <= 100 * LowMax THEN "low"
  ELSE IF score <= 100 * MediumMax THEN "medium"
  ELSE IF score <= 100 * HighMax THEN "high"
  ELSE "critical"

UnknownCount(c) == Cardinality({i \in DOMAIN c.ops : c.ops[i].operation = "unknown"})

AtLeast(limit, n) == IF n >= limit THEN n ELSE limit

Nearest(n, d) == (2 * n + d) \div (2 * d)

\* _confidence_and_uncertainty, in ten-thousandths.
Confidence(c) ==
  LET unknown == IF UnknownCount(c) = 0 THEN 100 ELSE AtLeast(40, 100 - 15 * UnknownCount(c))
      metadata == IF NamedTables(c) \subseteq DOMAIN c.tables THEN 100 ELSE 85
      graph == IF c.radius = NoRadius THEN 5000 ELSE c.radius.confidence
  IN Nearest(unknown * metadata * graph, 10000)

-----------------------------------------------------------------------------
(***************************************************************************)
(* generate_recommendations.                                               *)
(***************************************************************************)
Recommend(title, must) ==
  [title |-> title, priority |-> IF must THEN "required" ELSE "recommended"]

Recommendations(c) ==
  LET scored(f, limit) == f \in Counted /\ Scores(c)[f] >= limit
      when(condition, recommendation) == IF condition THEN {recommendation} ELSE {}
  IN UNION {
       when(scored("lock_risk", 50),
            Recommend("maintenance window", scored("lock_risk", 75) /\ c.prod)),
       when(scored("lock_risk", 50), Recommend("monitor locks", FALSE)),
       when("create_index" \in Kinds(c),
            Recommend("create index concurrently", c.prod /\ scored("index_impact", 90))),
       when(scored("backward_compatibility", 55), Recommend("verify compatibility", c.prod)),
       when(scored("replication_impact", 45), Recommend("monitor replication", FALSE)),
       when(scored("criticality", 55) /\ c.radius # NoRadius, Recommend("notify owners", c.prod)),
       when(scored("rollback_difficulty", 55), Recommend("rollback plan", c.prod)),
       when(scored("table_size", 55) \/ scored("data_volume", 65), Recommend("off-peak", FALSE)),
       when(c.ops # <<>>, [title |-> "validate queries", priority |-> "optional"])}

=============================================================================
