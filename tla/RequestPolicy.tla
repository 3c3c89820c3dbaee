--------------------------- MODULE RequestPolicy ----------------------------
(***************************************************************************)
(* The two judges of a request: the rules of policies/*.yaml as data with  *)
(* the PolicyEngine that evaluates them (policy/engine.py, rules.py), and  *)
(* the readiness scorecard (readiness/scorecard.py).                       *)
(***************************************************************************)
EXTENDS DbRequest

\* Mutant: a minimum is an exact value.
ExactMinimum(operator, actual, expected) ==
  CASE operator \in {"equals", "gte"} -> actual = expected
    [] operator = "lte" -> actual <= expected
    [] operator = "min_length" -> Len(actual) >= expected
    [] operator \in {"in", "regex"} -> actual \in expected
    [] operator = "not_in" -> actual \notin expected
    [] operator = "contains" -> expected \in actual

\* evaluate_operator, for the operators that the shipped rules use.  Every
\* field of a request has a value.  A regex is the set of what it matches.
EvaluateOperator(operator, actual, expected) ==
  CASE operator = "equals" -> actual = expected
    [] operator = "gte" -> actual >= expected
    [] operator = "lte" -> actual <= expected
    [] operator = "min_length" -> Len(actual) >= expected
    [] operator \in {"in", "regex"} -> actual \in expected
    [] operator = "not_in" -> actual \notin expected
    [] operator = "contains" -> expected \in actual

Sensitive == {"confidential", "restricted"}

Rule(field, operator, value, severity) ==
  [field |-> field, operator |-> operator, value |-> value, severity |-> severity,
   onlyFor |-> {"public", "internal"} \cup Sensitive]

\* The one rule with a condition (`when`), on data_classification.
SensitiveRequiresAudit ==
  [Rule("extensions", "contains", "pgaudit", "error") EXCEPT !.onlyFor = Sensitive]

\* The rule naming-convention-format is left out: it refuses no name that the
\* schema's own pattern (WellFormed) accepts.
GlobalRules ==
  <<Rule("name", "not_in", {"reserved"}, "error"),
    Rule("cost_center", "regex", {"CC-code"}, "error"),
    SensitiveRequiresAudit>>

EnvRules ==
  [dev |->
     <<Rule("storage_gb", "lte", 500, "warning"),
       Rule("connection_limit", "lte", 500, "warning")>>,
   staging |->
     <<Rule("backup_retention_days", "gte", 7, "error"),
       Rule("enhanced_monitoring", "equals", TRUE, "warning"),
       Rule("extensions", "contains", "pgaudit", "error")>>,
   prod |->
     <<Rule("platform", "in", {"aws", "k3s"}, "error"),
       Rule("multi_az", "equals", TRUE, "error"),
       Rule("backup_retention_days", "gte", 30, "error"),
       Rule("deletion_protection", "equals", TRUE, "error"),
       Rule("enhanced_monitoring", "equals", TRUE, "error"),
       Rule("approvals", "min_length", 1, "error"),
       Rule("availability_target", "gte", 9990, "error"),
       Rule("extensions", "contains", "pgaudit", "error"),
       Rule("storage_gb", "gte", 100, "error")>>]

\* rules_for: an environment without a file has no rules of its own.
RulesFor(environment, present) ==
  GlobalRules \o (IF present THEN EnvRules[environment] ELSE <<>>)

Broken(rule, q) ==
  /\ q.data_classification \in rule.onlyFor
  /\ ~EvaluateOperator(rule.operator, q[rule.field], rule.value)

\* PolicyResult.passed: no rule of severity "error" is broken.
Passes(q, present) ==
  LET rules == RulesFor(q.environment, present)
  IN \A i \in DOMAIN rules : rules[i].severity = "error" => ~Broken(rules[i], q)

-----------------------------------------------------------------------------
Prod(q) == q.environment = "prod"

\* Mutant: the scorecard asks for more than the rules.
DriftedMinimum == [dev |-> 1, staging |-> 7, prod |-> 35]

RetentionMinimum == [dev |-> 1, staging |-> 7, prod |-> 30]

AvailabilityFloor == [dev |-> 9500, staging |-> 9900, prod |-> 9990]

\* CHECKS: the weight of each check.
Weight ==
  [multi_az |-> 15, backup_retention |-> 15, deletion_protection |-> 10, monitoring |-> 10,
   audit_logging |-> 15, approvals |-> 10, slo_defined |-> 10, tags_complete |-> 5,
   connection_governance |-> 5, ownership |-> 5]

\* The checks that q passes.
Checked(q, global) ==
  {c \in DOMAIN Weight :
    CASE c = "multi_az" -> Prod(q) => q.multi_az
      [] c = "backup_retention" -> q.backup_retention_days >= RetentionMinimum[q.environment]
      [] c = "deletion_protection" -> Prod(q) => q.deletion_protection
      [] c = "monitoring" -> Prod(q) => q.enhanced_monitoring
      [] c = "audit_logging" -> q.data_classification \in Sensitive => "pgaudit" \in q.extensions
      [] c = "approvals" -> Prod(q) => Len(q.approvals) >= 1
      [] c = "slo_defined" -> q.availability_target >= AvailabilityFloor[q.environment]
      [] c = "tags_complete" -> \A k \in DOMAIN RequiredTags(q) : ResolveTags(q, global)[k] # Blank
      [] c = "connection_governance" -> q.statement_timeout <= 300 /\ q.idle_timeout <= 600
      [] c = "ownership" -> q.owner # "x" /\ q.cost_center # "x"}

Points(c, checks) == IF c \in checks THEN Weight[c] ELSE 0

\* The weights of these checks, added up.
TotalPoints(checks) ==
  Points("multi_az", checks) + Points("backup_retention", checks)
    + Points("deletion_protection", checks) + Points("monitoring", checks)
    + Points("audit_logging", checks) + Points("approvals", checks)
    + Points("slo_defined", checks) + Points("tags_complete", checks)
    + Points("connection_governance", checks) + Points("ownership", checks)

\* score, which rounds: the weights add up to 100, so nothing is rounded.
Score(q, global) == (100 * TotalPoints(Checked(q, global))) \div TotalPoints(DOMAIN Weight)

\* readiness_threshold_for: no file, no threshold.
Threshold(environment, present) ==
  IF present THEN [dev |-> 0, staging |-> 60, prod |-> 85][environment] ELSE 0

\* Mutant: the thresholds are taken for the points that may be missing.
LenientlyReady(q, global, present) ==
  Score(q, global) >= 100 - Threshold(q.environment, present)

IsReady(q, global, present) == Score(q, global) >= Threshold(q.environment, present)

=============================================================================
