----------------------------- MODULE RiskPolicy -----------------------------
(***************************************************************************)
(* The vocabulary of the approval policy: policy/rules.py, and the rules   *)
(* of policies/risk/rules/database-change-policies.yaml as data.           *)
(*                                                                         *)
(* A rule is [conditions, level, approve, recommend]; a condition is       *)
(* [path, operator, value], its path the segments of the dotted field.     *)
(***************************************************************************)
EXTENDS RiskFactors

\* resolve_field_path: what is at the path, if there is anything.
Resolve(document, path) ==
  LET at[n \in 0..Len(path)] ==
        IF n = 0 THEN {document}
        ELSE {d[path[n]] : d \in {e \in at[n - 1] : path[n] \in DOMAIN e}}
  IN at[Len(path)]

\* evaluate_operator, for the operators that compare, and membership.
\* A comparison with what is missing does not hold.
EvaluateOperator(operator, actual, expected) ==
  CASE operator = "equals" -> expected \in actual
    [] operator = "not_equals" -> expected \notin actual
    [] operator = "gte" -> \E a \in actual : a >= expected
    [] operator = "lte" -> \E a \in actual : a <= expected
    [] operator = "gt" -> \E a \in actual : a > expected
    [] operator = "lt" -> \E a \in actual : a < expected
    [] operator = "in" -> \E a \in actual : a \in expected
    [] operator = "not_in" -> \A a \in actual : a \notin expected
    [] operator = "contains" -> \E a \in actual : expected \in a

Condition(path, operator, value) == [path |-> path, operator |-> operator, value |-> value]

Holds(condition, document) ==
  EvaluateOperator(condition.operator, Resolve(document, condition.path), condition.value)

Triggered(rule, document) ==
  \A i \in DOMAIN rule.conditions : Holds(rule.conditions[i], document)

Production == Condition(<<"is_production">>, "equals", TRUE)

FactorAtLeast(factor, score) == Condition(<<"factors", factor, "score">>, "gte", score)

Rule(conditions, level, approve, recommend) ==
  [conditions |-> conditions, level |-> level, approve |-> approve, recommend |-> recommend]

RequireApprovalHighRiskProduction ==
  Rule(<<Production, Condition(<<"risk_level">>, "in", {"high", "critical"})>>, None, TRUE, {})

EscalateLargeTableBreakingChange ==
  Rule(<<Production, FactorAtLeast("table_size", 75),
         FactorAtLeast("backward_compatibility", 55)>>, "critical", TRUE, {})

RecommendOnlineIndex ==
  Rule(<<FactorAtLeast("index_impact", 85)>>, None, FALSE,
       {[title |-> "online index build", priority |-> "required"]})

RequireApprovalDependencyCount ==
  Rule(<<FactorAtLeast("dependency_count", 85)>>, None, TRUE, {})

LowConfidenceManualReview ==
  Rule(<<Condition(<<"confidence">>, "lt", 6000)>>, None, FALSE,
       {[title |-> "manual review", priority |-> "recommended"]})

DefaultRules ==
  <<RequireApprovalHighRiskProduction, EscalateLargeTableBreakingChange,
    RecommendOnlineIndex, RequireApprovalDependencyCount, LowConfidenceManualReview>>

=============================================================================
