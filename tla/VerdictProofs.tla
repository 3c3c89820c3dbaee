---------------------------- MODULE VerdictProofs ----------------------------
(***************************************************************************)
(* Theorems about the two judges of a request, for every template, option  *)
(* and extension: the rules and checks are the shipped ones, the requests  *)
(* are all that the schema admits.  Then about the severity of a service's *)
(* report, for all objectives and figures.                                 *)
(***************************************************************************)
EXTENDS RequestDecision, ServiceHealth, FiniteSetTheorems, SequenceTheorems, TLAPS

(***************************************************************************)
(* What the rules say.                                                     *)
(***************************************************************************)

\* A request of one of the three environments and the four classes of data.
Judged(q) ==
  /\ q.environment \in {"dev", "staging", "prod"}
  /\ q.data_classification \in {"public", "internal", "confidential", "restricted"}

\* The global rules, on a request.
PassesGlobalRules(q) ==
  /\ q.name # "reserved"
  /\ q.cost_center = "CC-code"
  /\ q.data_classification \in Sensitive => "pgaudit" \in q.extensions

\* The rules of the environments, those of severity "error".
PassesStagingRules(q) == q.backup_retention_days >= 7 /\ "pgaudit" \in q.extensions

PassesProdRules(q) ==
  /\ q.platform \in {"aws", "k3s"}
  /\ q.multi_az = TRUE
  /\ q.backup_retention_days >= 30
  /\ q.deletion_protection = TRUE
  /\ q.enhanced_monitoring = TRUE
  /\ Len(q.approvals) >= 1
  /\ q.availability_target >= 9990
  /\ "pgaudit" \in q.extensions
  /\ q.storage_gb >= 100

\* A rule that applies to every class of data.
LEMMA SeverityOf ==
  ASSUME NEW field, NEW operator, NEW value, NEW severity
  PROVE  Rule(field, operator, value, severity).severity = severity
BY DEF Rule

LEMMA RuleHolds ==
  ASSUME NEW q, Judged(q), NEW field, NEW operator, NEW value, NEW severity
  PROVE  ~Broken(Rule(field, operator, value, severity), q)
           <=> EvaluateOperator(operator, q[field], value)
<1> DEFINE rule == Rule(field, operator, value, severity)
<1>1. rule.field = field /\ rule.operator = operator /\ rule.value = value
  BY DEF Rule
<1>2. q.data_classification \in {"public", "internal", "confidential", "restricted"}
  BY DEF Judged
<1>3. rule.onlyFor = {"public", "internal"} \cup {"confidential", "restricted"}
  BY DEF Rule, Sensitive
<1> HIDE DEF rule
<1>4. q.data_classification \in rule.onlyFor
  BY <1>2, <1>3
<1>5. Broken(rule, q) <=> ~EvaluateOperator(operator, q[field], value)
  BY <1>1, <1>4 DEF Broken
<1> QED BY <1>5 DEF rule

\* What each operator then asks of the field.
LEMMA IsTrue ==
  ASSUME NEW q, Judged(q), NEW field
  PROVE  ~Broken(Rule(field, "equals", TRUE, "error"), q) <=> q[field] = TRUE
<1> DEFINE rule == Rule(field, "equals", TRUE, "error")
<1>1. rule.field = field /\ rule.operator = "equals" /\ rule.value = TRUE
  BY DEF Rule
<1>2. q.data_classification \in {"public", "internal", "confidential", "restricted"}
  BY DEF Judged
<1>3. rule.onlyFor = {"public", "internal"} \cup {"confidential", "restricted"}
  BY DEF Rule, Sensitive
<1> HIDE DEF rule
<1>4. q.data_classification \in rule.onlyFor
  BY <1>2, <1>3
<1>5. EvaluateOperator(rule.operator, q[rule.field], rule.value) <=> q[field] = TRUE
  BY <1>1 DEF EvaluateOperator
<1>6. Broken(rule, q) <=> ~EvaluateOperator(rule.operator, q[rule.field], rule.value)
  BY <1>4 DEF Broken
<1> QED BY <1>5, <1>6 DEF rule

LEMMA AtLeast ==
  ASSUME NEW q, Judged(q), NEW field, NEW value
  PROVE  ~Broken(Rule(field, "gte", value, "error"), q) <=> q[field] >= value
<1>1. EvaluateOperator("gte", q[field], value) <=> q[field] >= value
  BY DEF EvaluateOperator
<1> QED BY <1>1, RuleHolds

LEMMA LongEnough ==
  ASSUME NEW q, Judged(q), NEW field, NEW value
  PROVE  ~Broken(Rule(field, "min_length", value, "error"), q) <=> Len(q[field]) >= value
<1>1. EvaluateOperator("min_length", q[field], value) <=> Len(q[field]) >= value
  BY DEF EvaluateOperator
<1> QED BY <1>1, RuleHolds

LEMMA IsIn ==
  ASSUME NEW q, Judged(q), NEW field, NEW value
  PROVE  ~Broken(Rule(field, "in", value, "error"), q) <=> q[field] \in value
<1>1. EvaluateOperator("in", q[field], value) <=> q[field] \in value
  BY DEF EvaluateOperator
<1> QED BY <1>1, RuleHolds

LEMMA Matches ==
  ASSUME NEW q, Judged(q), NEW field, NEW value
  PROVE  ~Broken(Rule(field, "regex", value, "error"), q) <=> q[field] \in value
<1>1. EvaluateOperator("regex", q[field], value) <=> q[field] \in value
  BY DEF EvaluateOperator
<1> QED BY <1>1, RuleHolds

LEMMA NotIn ==
  ASSUME NEW q, Judged(q), NEW field, NEW value
  PROVE  ~Broken(Rule(field, "not_in", value, "error"), q) <=> q[field] \notin value
<1>1. EvaluateOperator("not_in", q[field], value) <=> q[field] \notin value
  BY DEF EvaluateOperator
<1> QED BY <1>1, RuleHolds

LEMMA HasElement ==
  ASSUME NEW q, Judged(q), NEW field, NEW value
  PROVE  ~Broken(Rule(field, "contains", value, "error"), q) <=> value \in q[field]
<1>1. EvaluateOperator("contains", q[field], value) <=> value \in q[field]
  BY DEF EvaluateOperator
<1> QED BY <1>1, RuleHolds

\* No rule of severity "error" in this sequence of rules is broken.
AllHold(rules, q) == \A i \in DOMAIN rules : rules[i].severity = "error" => ~Broken(rules[i], q)

LEMMA GlobalRulesSay ==
  ASSUME NEW q, Judged(q)
  PROVE  AllHold(GlobalRules, q) <=> PassesGlobalRules(q)
<1>1. DOMAIN GlobalRules = 1..3
  BY DEF GlobalRules
<1>2. /\ GlobalRules[1] = Rule("name", "not_in", {"reserved"}, "error")
      /\ GlobalRules[2] = Rule("cost_center", "regex", {"CC-code"}, "error")
      /\ GlobalRules[3] = SensitiveRequiresAudit
  BY DEF GlobalRules
<1>3. AllHold(GlobalRules, q) <=>
        \A i \in {1, 2, 3} : GlobalRules[i].severity = "error" => ~Broken(GlobalRules[i], q)
  BY <1>1 DEF AllHold
<1>4. SensitiveRequiresAudit.severity = "error"
      /\ (~Broken(SensitiveRequiresAudit, q) <=>
            (q.data_classification \in Sensitive => "pgaudit" \in q.extensions))
  <2>1. EvaluateOperator("contains", q.extensions, "pgaudit") <=> "pgaudit" \in q.extensions
    BY DEF EvaluateOperator
  <2> QED BY <2>1 DEF SensitiveRequiresAudit, Rule, Broken
<1>5. /\ GlobalRules[1].severity = "error"
      /\ ~Broken(GlobalRules[1], q) <=> q.name # "reserved"
  BY <1>2, SeverityOf, NotIn
<1>6. /\ GlobalRules[2].severity = "error"
      /\ ~Broken(GlobalRules[2], q) <=> q.cost_center = "CC-code"
  BY <1>2, SeverityOf, Matches
<1> QED BY <1>2, <1>3, <1>4, <1>5, <1>6 DEF PassesGlobalRules

LEMMA StagingRulesSay ==
  ASSUME NEW q, Judged(q)
  PROVE  AllHold(EnvRules.staging, q) <=> PassesStagingRules(q)
<1> DEFINE rules == EnvRules.staging
<1>1. /\ DOMAIN rules = 1..3
      /\ rules[1] = Rule("backup_retention_days", "gte", 7, "error")
      /\ rules[2] = Rule("enhanced_monitoring", "equals", TRUE, "warning")
      /\ rules[3] = Rule("extensions", "contains", "pgaudit", "error")
  BY DEF EnvRules
<1> HIDE DEF rules
<1>2. AllHold(rules, q) <=>
        \A i \in {1, 2, 3} : rules[i].severity = "error" => ~Broken(rules[i], q)
  BY <1>1 DEF AllHold
<1>3. rules[1].severity = "error" /\ rules[2].severity # "error" /\ rules[3].severity = "error"
  <2>1. Rule("enhanced_monitoring", "equals", TRUE, "warning").severity = "warning"
    BY DEF Rule
  <2>2. /\ Rule("backup_retention_days", "gte", 7, "error").severity = "error"
        /\ Rule("extensions", "contains", "pgaudit", "error").severity = "error"
    BY SeverityOf
  <2> QED BY <1>1, <2>1, <2>2
<1>4. ~Broken(rules[1], q) <=> q.backup_retention_days >= 7
  BY <1>1, AtLeast
<1>5. ~Broken(rules[3], q) <=> "pgaudit" \in q.extensions
  BY <1>1, HasElement
<1> QED BY <1>2, <1>3, <1>4, <1>5 DEF PassesStagingRules, rules

LEMMA DevRulesSay ==
  ASSUME NEW q, Judged(q)
  PROVE  AllHold(EnvRules.dev, q)
<1> DEFINE rules == EnvRules.dev
<1>1. /\ DOMAIN rules = 1..2
      /\ rules[1] = Rule("storage_gb", "lte", 500, "warning")
      /\ rules[2] = Rule("connection_limit", "lte", 500, "warning")
  BY DEF EnvRules
<1> HIDE DEF rules
<1>2. rules[1].severity # "error" /\ rules[2].severity # "error"
  BY <1>1, SeverityOf
<1> QED BY <1>1, <1>2 DEF AllHold, rules

LEMMA ProdRulesSay ==
  ASSUME NEW q, Judged(q)
  PROVE  AllHold(EnvRules.prod, q) <=> PassesProdRules(q)
<1> DEFINE rules == EnvRules.prod
<1>1. /\ DOMAIN rules = 1..9
      /\ rules[1] = Rule("platform", "in", {"aws", "k3s"}, "error")
      /\ rules[2] = Rule("multi_az", "equals", TRUE, "error")
      /\ rules[3] = Rule("backup_retention_days", "gte", 30, "error")
      /\ rules[4] = Rule("deletion_protection", "equals", TRUE, "error")
      /\ rules[5] = Rule("enhanced_monitoring", "equals", TRUE, "error")
      /\ rules[6] = Rule("approvals", "min_length", 1, "error")
      /\ rules[7] = Rule("availability_target", "gte", 9990, "error")
      /\ rules[8] = Rule("extensions", "contains", "pgaudit", "error")
      /\ rules[9] = Rule("storage_gb", "gte", 100, "error")
  BY DEF EnvRules
<1> HIDE DEF rules
<1>2. AllHold(rules, q) <=> \A i \in 1..9 : rules[i].severity = "error" => ~Broken(rules[i], q)
  BY <1>1 DEF AllHold
<1>3. \A i \in 1..9 : rules[i].severity = "error"
  <2>1. rules[1].severity = "error"
    BY <1>1, SeverityOf
  <2>2. rules[2].severity = "error"
    <3>1. rules[2] = Rule("multi_az", "equals", TRUE, "error")
      BY <1>1
    <3>2. Rule("multi_az", "equals", TRUE, "error").severity = "error"
      BY DEF Rule
    <3> QED BY <3>1, <3>2, Zenon
  <2>3. rules[3].severity = "error"
    BY <1>1, SeverityOf
  <2>4. rules[4].severity = "error"
    <3>1. rules[4] = Rule("deletion_protection", "equals", TRUE, "error")
      BY <1>1
    <3>2. Rule("deletion_protection", "equals", TRUE, "error").severity = "error"
      BY DEF Rule
    <3> QED BY <3>1, <3>2, Zenon
  <2>5. rules[5].severity = "error"
    <3>1. rules[5] = Rule("enhanced_monitoring", "equals", TRUE, "error")
      BY <1>1
    <3>2. Rule("enhanced_monitoring", "equals", TRUE, "error").severity = "error"
      BY DEF Rule
    <3> QED BY <3>1, <3>2, Zenon
  <2>6. rules[6].severity = "error"
    BY <1>1, SeverityOf
  <2>7. rules[7].severity = "error"
    BY <1>1, SeverityOf
  <2>8. rules[8].severity = "error"
    BY <1>1, SeverityOf
  <2>9. rules[9].severity = "error"
    BY <1>1, SeverityOf
  <2> QED BY <2>1, <2>2, <2>3, <2>4, <2>5, <2>6, <2>7, <2>8, <2>9
<1>4. /\ ~Broken(rules[1], q) <=> q.platform \in {"aws", "k3s"}
      /\ ~Broken(rules[2], q) <=> q.multi_az = TRUE
      /\ ~Broken(rules[3], q) <=> q.backup_retention_days >= 30
      /\ ~Broken(rules[4], q) <=> q.deletion_protection = TRUE
      /\ ~Broken(rules[5], q) <=> q.enhanced_monitoring = TRUE
      /\ ~Broken(rules[6], q) <=> Len(q.approvals) >= 1
      /\ ~Broken(rules[7], q) <=> q.availability_target >= 9990
      /\ ~Broken(rules[8], q) <=> "pgaudit" \in q.extensions
      /\ ~Broken(rules[9], q) <=> q.storage_gb >= 100
  <2>1. ~Broken(rules[1], q) <=> q.platform \in {"aws", "k3s"}
    BY <1>1, IsIn
  <2>2. ~Broken(rules[2], q) <=> q.multi_az = TRUE
    <3>1. ~Broken(Rule("multi_az", "equals", TRUE, "error"), q) <=> q.multi_az = TRUE
      BY IsTrue
    <3>2. rules[2] = Rule("multi_az", "equals", TRUE, "error")
      BY <1>1
    <3> QED BY <3>1, <3>2, Zenon
  <2>3. ~Broken(rules[3], q) <=> q.backup_retention_days >= 30
    BY <1>1, AtLeast
  <2>4. ~Broken(rules[4], q) <=> q.deletion_protection = TRUE
    <3>1. ~Broken(Rule("deletion_protection", "equals", TRUE, "error"), q) <=> q.deletion_protection = TRUE
      BY IsTrue
    <3>2. rules[4] = Rule("deletion_protection", "equals", TRUE, "error")
      BY <1>1
    <3> QED BY <3>1, <3>2, Zenon
  <2>5. ~Broken(rules[5], q) <=> q.enhanced_monitoring = TRUE
    <3>1. ~Broken(Rule("enhanced_monitoring", "equals", TRUE, "error"), q) <=> q.enhanced_monitoring = TRUE
      BY IsTrue
    <3>2. rules[5] = Rule("enhanced_monitoring", "equals", TRUE, "error")
      BY <1>1
    <3> QED BY <3>1, <3>2, Zenon
  <2>6. ~Broken(rules[6], q) <=> Len(q.approvals) >= 1
    BY <1>1, LongEnough
  <2>7. ~Broken(rules[7], q) <=> q.availability_target >= 9990
    BY <1>1, AtLeast
  <2>8. ~Broken(rules[8], q) <=> "pgaudit" \in q.extensions
    BY <1>1, HasElement
  <2>9. ~Broken(rules[9], q) <=> q.storage_gb >= 100
    BY <1>1, AtLeast
  <2> QED BY <2>1, <2>2, <2>3, <2>4, <2>5, <2>6, <2>7, <2>8, <2>9
<1>7. (\A i \in 1..9 : ~Broken(rules[i], q)) <=>
        /\ ~Broken(rules[1], q) /\ ~Broken(rules[2], q) /\ ~Broken(rules[3], q)
        /\ ~Broken(rules[4], q) /\ ~Broken(rules[5], q) /\ ~Broken(rules[6], q)
        /\ ~Broken(rules[7], q) /\ ~Broken(rules[8], q) /\ ~Broken(rules[9], q)
  OBVIOUS
<1> QED BY <1>2, <1>3, <1>4, <1>7 DEF PassesProdRules, rules

LEMMA AllHoldConcat ==
  ASSUME NEW S, NEW a \in Seq(S), NEW b \in Seq(S), NEW q
  PROVE  AllHold(a \o b, q) <=> AllHold(a, q) /\ AllHold(b, q)
<1>1. /\ Len(a) \in Nat /\ Len(b) \in Nat
      /\ DOMAIN a = 1..Len(a) /\ DOMAIN b = 1..Len(b)
      /\ DOMAIN (a \o b) = 1..(Len(a) + Len(b))
      /\ \A i \in 1..(Len(a) + Len(b)) :
           (a \o b)[i] = IF i <= Len(a) THEN a[i] ELSE b[i - Len(a)]
  BY ConcatProperties
<1>2. ASSUME AllHold(a \o b, q)
      PROVE  AllHold(a, q) /\ AllHold(b, q)
  <2>1. ASSUME NEW i \in DOMAIN a, a[i].severity = "error"
        PROVE  ~Broken(a[i], q)
    <3>1. i \in DOMAIN (a \o b) /\ (a \o b)[i] = a[i]
      BY <1>1
    <3> QED BY <1>2, <2>1, <3>1 DEF AllHold
  <2>2. ASSUME NEW i \in DOMAIN b, b[i].severity = "error"
        PROVE  ~Broken(b[i], q)
    <3>1. Len(a) + i \in DOMAIN (a \o b) /\ (a \o b)[Len(a) + i] = b[i]
      BY <1>1
    <3> QED BY <1>2, <2>2, <3>1 DEF AllHold
  <2> QED BY <2>1, <2>2 DEF AllHold
<1>3. ASSUME AllHold(a, q), AllHold(b, q)
      PROVE  AllHold(a \o b, q)
  <2>1. ASSUME NEW i \in DOMAIN (a \o b), (a \o b)[i].severity = "error"
        PROVE  ~Broken((a \o b)[i], q)
    <3>1. CASE i <= Len(a)
      <4>1. i \in DOMAIN a /\ (a \o b)[i] = a[i]
        BY <1>1, <3>1
      <4> QED BY <1>3, <2>1, <4>1 DEF AllHold
    <3>2. CASE ~(i <= Len(a))
      <4>1. i - Len(a) \in DOMAIN b /\ (a \o b)[i] = b[i - Len(a)]
        BY <1>1, <3>2
      <4> QED BY <1>3, <2>1, <4>1 DEF AllHold
    <3> QED BY <3>1, <3>2
  <2> QED BY <2>1 DEF AllHold
<1> QED BY <1>2, <1>3

LEMMA SequenceOfItsElements ==
  ASSUME NEW s, NEW n \in Nat, s = [i \in 1..n |-> s[i]]
  PROVE  s \in Seq({s[i] : i \in 1..n})
<1> DEFINE f == [i \in 1..n |-> s[i]]
<1>1. f \in Seq({s[i] : i \in 1..n})
  OBVIOUS
<1> QED BY <1>1

LEMMA RulesAreSequences ==
  \E S : /\ GlobalRules \in Seq(S) /\ <<>> \in Seq(S)
         /\ \A e \in {"dev", "staging", "prod"} : EnvRules[e] \in Seq(S)
<1> DEFINE S == {GlobalRules[i] : i \in 1..3} \cup {EnvRules.dev[i] : i \in 1..2}
                  \cup {EnvRules.staging[i] : i \in 1..3} \cup {EnvRules.prod[i] : i \in 1..9}
<1>1. GlobalRules \in Seq({GlobalRules[i] : i \in 1..3})
  BY DEF GlobalRules
<1>2. EnvRules.dev \in Seq({EnvRules.dev[i] : i \in 1..2})
  BY DEF EnvRules
<1>3. EnvRules.staging \in Seq({EnvRules.staging[i] : i \in 1..3})
  <2>1. EnvRules.staging = [i \in 1..3 |-> EnvRules.staging[i]]
    BY DEF EnvRules
  <2> QED BY <2>1, SequenceOfItsElements
<1>4. EnvRules.prod \in Seq({EnvRules.prod[i] : i \in 1..9})
  <2>1. EnvRules.prod = [i \in 1..9 |-> EnvRules.prod[i]]
    BY DEF EnvRules
  <2> QED BY <2>1, SequenceOfItsElements
<1>5. /\ {GlobalRules[i] : i \in 1..3} \subseteq S
      /\ {EnvRules.dev[i] : i \in 1..2} \subseteq S
      /\ {EnvRules.staging[i] : i \in 1..3} \subseteq S
      /\ {EnvRules.prod[i] : i \in 1..9} \subseteq S
  OBVIOUS
<1>6. \A A, B : A \subseteq B => Seq(A) \subseteq Seq(B)
  OBVIOUS
<1> HIDE DEF S
<1>7. GlobalRules \in Seq(S) /\ EnvRules.dev \in Seq(S) /\ EnvRules.staging \in Seq(S)
      /\ EnvRules.prod \in Seq(S)
  BY <1>1, <1>2, <1>3, <1>4, <1>5, <1>6
<1>8. <<>> \in Seq(S)
  OBVIOUS
<1> QED BY <1>7, <1>8

\* The rules of the environment of a request.
PassesEnvRules(q) ==
  /\ q.environment = "staging" => PassesStagingRules(q)
  /\ q.environment = "prod" => PassesProdRules(q)

\* What a request that passes has been found to be.
LEMMA PassesSays ==
  ASSUME NEW q, Judged(q), NEW present \in BOOLEAN
  PROVE  Passes(q, present) <=> PassesGlobalRules(q) /\ (present => PassesEnvRules(q))
<1>1. q.environment \in {"dev", "staging", "prod"}
  BY DEF Judged
<1>2. PICK S : /\ GlobalRules \in Seq(S) /\ <<>> \in Seq(S)
               /\ \A e \in {"dev", "staging", "prod"} : EnvRules[e] \in Seq(S)
  BY RulesAreSequences
<1> DEFINE own == IF present THEN EnvRules[q.environment] ELSE <<>>
<1>3. own \in Seq(S)
  BY <1>1, <1>2
<1>4. Passes(q, present) <=> AllHold(GlobalRules \o own, q)
  BY DEF Passes, RulesFor, AllHold
<1>5. Passes(q, present) <=> AllHold(GlobalRules, q) /\ AllHold(own, q)
  <2> HIDE DEF own
  <2> QED BY <1>2, <1>3, <1>4, AllHoldConcat
<1>6. AllHold(own, q) <=> (present => PassesEnvRules(q))
  <2>1. CASE ~present
    <3>1. own = <<>>
      BY <2>1
    <3>2. AllHold(<<>>, q)
      BY DEF AllHold
    <3> HIDE DEF own
    <3> QED BY <2>1, <3>1, <3>2
  <2>2. CASE present
    <3>1. own = EnvRules[q.environment]
      BY <2>2
    <3> HIDE DEF own
    <3>2. CASE q.environment = "dev"
      BY <2>2, <3>1, <3>2, DevRulesSay DEF PassesEnvRules
    <3>3. CASE q.environment = "staging"
      BY <2>2, <3>1, <3>3, StagingRulesSay DEF PassesEnvRules
    <3>4. CASE q.environment = "prod"
      BY <2>2, <3>1, <3>4, ProdRulesSay DEF PassesEnvRules
    <3> QED BY <1>1, <3>2, <3>3, <3>4
  <2> QED BY <2>1, <2>2
<1> QED BY <1>5, <1>6, GlobalRulesSay

-----------------------------------------------------------------------------
(***************************************************************************)
(* What the scorecard says.                                                *)
(***************************************************************************)

\* What each check asks of the request.
LEMMA ChecksSay ==
  ASSUME NEW q, NEW global
  PROVE  /\ Checked(q, global) \subseteq DOMAIN Weight
         /\ "multi_az" \in Checked(q, global) <=> (Prod(q) => q.multi_az)
         /\ "backup_retention" \in Checked(q, global) <=> q.backup_retention_days >= RetentionMinimum[q.environment]
         /\ "deletion_protection" \in Checked(q, global) <=> (Prod(q) => q.deletion_protection)
         /\ "monitoring" \in Checked(q, global) <=> (Prod(q) => q.enhanced_monitoring)
         /\ "audit_logging" \in Checked(q, global) <=> (q.data_classification \in Sensitive => "pgaudit" \in q.extensions)
         /\ "approvals" \in Checked(q, global) <=> (Prod(q) => Len(q.approvals) >= 1)
         /\ "slo_defined" \in Checked(q, global) <=> q.availability_target >= AvailabilityFloor[q.environment]
         /\ "tags_complete" \in Checked(q, global) <=> (\A k \in DOMAIN RequiredTags(q) : ResolveTags(q, global)[k] # Blank)
         /\ "connection_governance" \in Checked(q, global) <=> (q.statement_timeout <= 300 /\ q.idle_timeout <= 600)
         /\ "ownership" \in Checked(q, global) <=> (q.owner # "x" /\ q.cost_center # "x")
<1>1. Checked(q, global) \subseteq DOMAIN Weight
  BY DEF Checked
<1>2. "multi_az" \in Checked(q, global) <=> (Prod(q) => q.multi_az)
  BY DEF Checked, Weight
<1>3. "backup_retention" \in Checked(q, global) <=> q.backup_retention_days >= RetentionMinimum[q.environment]
  BY DEF Checked, Weight
<1>4. "deletion_protection" \in Checked(q, global) <=> (Prod(q) => q.deletion_protection)
  BY DEF Checked, Weight
<1>5. "monitoring" \in Checked(q, global) <=> (Prod(q) => q.enhanced_monitoring)
  BY DEF Checked, Weight
<1>6. "audit_logging" \in Checked(q, global) <=> (q.data_classification \in Sensitive => "pgaudit" \in q.extensions)
  BY DEF Checked, Weight
<1>7. "approvals" \in Checked(q, global) <=> (Prod(q) => Len(q.approvals) >= 1)
  BY DEF Checked, Weight
<1>8. "slo_defined" \in Checked(q, global) <=> q.availability_target >= AvailabilityFloor[q.environment]
  BY DEF Checked, Weight
<1>9. "tags_complete" \in Checked(q, global) <=> (\A k \in DOMAIN RequiredTags(q) : ResolveTags(q, global)[k] # Blank)
  BY DEF Checked, Weight
<1>10. "connection_governance" \in Checked(q, global) <=> (q.statement_timeout <= 300 /\ q.idle_timeout <= 600)
  BY DEF Checked, Weight
<1>11. "ownership" \in Checked(q, global) <=> (q.owner # "x" /\ q.cost_center # "x")
  BY DEF Checked, Weight
<1> QED BY <1>1, <1>2, <1>3, <1>4, <1>5, <1>6, <1>7, <1>8, <1>9, <1>10, <1>11

\* The sum of the weights, with the weights put in.
LEMMA SumSays ==
  ASSUME NEW checks
  PROVE  /\ TotalPoints(checks) = (IF "multi_az" \in checks THEN 15 ELSE 0)
                            + (IF "backup_retention" \in checks THEN 15 ELSE 0)
                            + (IF "deletion_protection" \in checks THEN 10 ELSE 0)
                            + (IF "monitoring" \in checks THEN 10 ELSE 0)
                            + (IF "audit_logging" \in checks THEN 15 ELSE 0)
                            + (IF "approvals" \in checks THEN 10 ELSE 0)
                            + (IF "slo_defined" \in checks THEN 10 ELSE 0)
                            + (IF "tags_complete" \in checks THEN 5 ELSE 0)
                            + (IF "connection_governance" \in checks THEN 5 ELSE 0)
                            + (IF "ownership" \in checks THEN 5 ELSE 0)
         /\ TotalPoints(checks) \in Nat
<1>1. Points("multi_az", checks) = IF "multi_az" \in checks THEN 15 ELSE 0
  BY DEF Points, Weight
<1>2. Points("backup_retention", checks) = IF "backup_retention" \in checks THEN 15 ELSE 0
  BY DEF Points, Weight
<1>3. Points("deletion_protection", checks) = IF "deletion_protection" \in checks THEN 10 ELSE 0
  BY DEF Points, Weight
<1>4. Points("monitoring", checks) = IF "monitoring" \in checks THEN 10 ELSE 0
  BY DEF Points, Weight
<1>5. Points("audit_logging", checks) = IF "audit_logging" \in checks THEN 15 ELSE 0
  BY DEF Points, Weight
<1>6. Points("approvals", checks) = IF "approvals" \in checks THEN 10 ELSE 0
  BY DEF Points, Weight
<1>7. Points("slo_defined", checks) = IF "slo_defined" \in checks THEN 10 ELSE 0
  BY DEF Points, Weight
<1>8. Points("tags_complete", checks) = IF "tags_complete" \in checks THEN 5 ELSE 0
  BY DEF Points, Weight
<1>9. Points("connection_governance", checks) = IF "connection_governance" \in checks THEN 5 ELSE 0
  BY DEF Points, Weight
<1>10. Points("ownership", checks) = IF "ownership" \in checks THEN 5 ELSE 0
  BY DEF Points, Weight
<1> QED BY <1>1, <1>2, <1>3, <1>4, <1>5, <1>6, <1>7, <1>8, <1>9, <1>10 DEF TotalPoints

LEMMA SumOfAll == TotalPoints(DOMAIN Weight) = 100
<1>1. DOMAIN Weight = {"multi_az", "backup_retention", "deletion_protection", "monitoring", "audit_logging", "approvals", "slo_defined", "tags_complete", "connection_governance", "ownership"}
  BY DEF Weight
<1> QED BY <1>1, SumSays

\* The score is the sum of the weights of the checks that pass.
LEMMA ScoreIsSum ==
  ASSUME NEW q, NEW global
  PROVE  /\ Score(q, global) = TotalPoints(Checked(q, global))
         /\ Score(q, global) \in Nat
<1> DEFINE s == TotalPoints(Checked(q, global))
<1>1. s \in Nat
  BY SumSays
<1>2. Score(q, global) = (100 * s) \div 100
  BY SumOfAll DEF Score
<1> HIDE DEF s
<1>3. (100 * s) \div 100 = s
  BY <1>1
<1> QED BY <1>1, <1>2, <1>3 DEF s

\* More checks, no fewer points.
LEMMA SumMonotone ==
  ASSUME NEW some, NEW more, some \subseteq more
  PROVE  TotalPoints(some) <= TotalPoints(more)
<1>1. Points("multi_az", some) <= Points("multi_az", more) /\ Points("multi_az", some) \in Nat /\ Points("multi_az", more) \in Nat
  BY DEF Points, Weight
<1>2. Points("backup_retention", some) <= Points("backup_retention", more) /\ Points("backup_retention", some) \in Nat /\ Points("backup_retention", more) \in Nat
  BY DEF Points, Weight
<1>3. Points("deletion_protection", some) <= Points("deletion_protection", more) /\ Points("deletion_protection", some) \in Nat /\ Points("deletion_protection", more) \in Nat
  BY DEF Points, Weight
<1>4. Points("monitoring", some) <= Points("monitoring", more) /\ Points("monitoring", some) \in Nat /\ Points("monitoring", more) \in Nat
  BY DEF Points, Weight
<1>5. Points("audit_logging", some) <= Points("audit_logging", more) /\ Points("audit_logging", some) \in Nat /\ Points("audit_logging", more) \in Nat
  BY DEF Points, Weight
<1>6. Points("approvals", some) <= Points("approvals", more) /\ Points("approvals", some) \in Nat /\ Points("approvals", more) \in Nat
  BY DEF Points, Weight
<1>7. Points("slo_defined", some) <= Points("slo_defined", more) /\ Points("slo_defined", some) \in Nat /\ Points("slo_defined", more) \in Nat
  BY DEF Points, Weight
<1>8. Points("tags_complete", some) <= Points("tags_complete", more) /\ Points("tags_complete", some) \in Nat /\ Points("tags_complete", more) \in Nat
  BY DEF Points, Weight
<1>9. Points("connection_governance", some) <= Points("connection_governance", more) /\ Points("connection_governance", some) \in Nat /\ Points("connection_governance", more) \in Nat
  BY DEF Points, Weight
<1>10. Points("ownership", some) <= Points("ownership", more) /\ Points("ownership", some) \in Nat /\ Points("ownership", more) \in Nat
  BY DEF Points, Weight
<1> QED BY <1>1, <1>2, <1>3, <1>4, <1>5, <1>6, <1>7, <1>8, <1>9, <1>10 DEF TotalPoints

LEMMA ThresholdSays ==
  ASSUME NEW q, Judged(q), NEW present \in BOOLEAN
  PROVE  /\ q.environment = "prod" /\ present => Threshold(q.environment, present) = 85
         /\ q.environment = "staging" /\ present => Threshold(q.environment, present) = 60
         /\ q.environment = "dev" \/ ~present => Threshold(q.environment, present) = 0
         /\ Threshold(q.environment, present) \in Nat
<1>1. q.environment \in {"dev", "staging", "prod"}
  BY DEF Judged
<1> QED BY <1>1 DEF Threshold

\* The seven checks that a production request passes once the rules have.
LEMMA ProdRulesPassChecks ==
  ASSUME NEW q, Judged(q), q.environment = "prod", NEW global, Passes(q, TRUE)
  PROVE  Essentials \subseteq Checked(q, global)
<1>1. PassesProdRules(q)
  BY PassesSays DEF PassesEnvRules
<1>2. RetentionMinimum["prod"] = 30 /\ AvailabilityFloor["prod"] = 9990
  BY DEF RetentionMinimum, AvailabilityFloor
<1>3. "multi_az" \in Checked(q, global)
  BY <1>1, ChecksSay DEF PassesProdRules
<1>4. "backup_retention" \in Checked(q, global)
  BY <1>1, <1>2, ChecksSay DEF PassesProdRules
<1>5. "deletion_protection" \in Checked(q, global)
  BY <1>1, ChecksSay DEF PassesProdRules
<1>6. "monitoring" \in Checked(q, global)
  BY <1>1, ChecksSay DEF PassesProdRules
<1>7. "audit_logging" \in Checked(q, global)
  BY <1>1, ChecksSay DEF PassesProdRules
<1>8. "approvals" \in Checked(q, global)
  BY <1>1, ChecksSay DEF PassesProdRules
<1>9. "slo_defined" \in Checked(q, global)
  BY <1>1, <1>2, ChecksSay DEF PassesProdRules
<1> QED BY <1>3, <1>4, <1>5, <1>6, <1>7, <1>8, <1>9 DEF Essentials

\* A request that passes the rules of its environment scores enough for it.
LEMMA CompliantIsReady ==
  ASSUME NEW q, Judged(q), NEW global, NEW present \in BOOLEAN, Passes(q, TRUE)
  PROVE  IsReady(q, global, present)
<1> DEFINE checks == Checked(q, global)
<1>1. Score(q, global) = TotalPoints(checks) /\ Score(q, global) \in Nat
  BY ScoreIsSum
<1>2. CASE q.environment = "prod"
  <2>1. {"multi_az", "backup_retention", "deletion_protection", "monitoring",
         "audit_logging", "approvals", "slo_defined"} \subseteq checks
    BY <1>2, ProdRulesPassChecks DEF Essentials
  <2> HIDE DEF checks
  <2>2. TotalPoints(checks) >= 85
    BY <2>1, SumSays
  <2>3. Threshold(q.environment, present) <= 85
    BY <1>2, ThresholdSays
  <2> QED BY <1>1, <2>2, <2>3, ThresholdSays DEF IsReady
<1>3. CASE q.environment = "staging"
  <2>1. ~Prod(q) /\ RetentionMinimum["staging"] = 7 /\ PassesStagingRules(q)
    BY <1>3, PassesSays DEF Prod, RetentionMinimum, PassesEnvRules
  <2>2. {"multi_az", "deletion_protection", "monitoring", "approvals"} \subseteq checks
    BY <2>1, ChecksSay
  <2>3. "backup_retention" \in checks
    BY <1>3, <2>1, ChecksSay DEF PassesStagingRules
  <2>4. "audit_logging" \in checks
    BY <2>1, ChecksSay DEF PassesStagingRules
  <2> HIDE DEF checks
  <2>5. TotalPoints(checks) >= 60
    BY <2>2, <2>3, <2>4, SumSays
  <2>6. Threshold(q.environment, present) <= 60
    BY <1>3, ThresholdSays
  <2> QED BY <1>1, <2>5, <2>6, ThresholdSays DEF IsReady
<1>4. CASE q.environment = "dev"
  <2>1. Threshold(q.environment, present) = 0
    BY <1>4, ThresholdSays
  <2> QED BY <1>1, <2>1 DEF IsReady
<1> QED BY <1>2, <1>3, <1>4 DEF Judged

\* 85 points leave room for one of the essential checks to fail, not for two.
LEMMA OneEssentialShort ==
  ASSUME NEW q, Judged(q), q.environment = "prod", NEW global, IsReady(q, global, TRUE),
         NEW c \in Essentials \ Checked(q, global), NEW d \in Essentials \ Checked(q, global)
  PROVE  c = d
<1> DEFINE checks == Checked(q, global)
<1>1. TotalPoints(checks) >= 85
  BY ThresholdSays, ScoreIsSum DEF IsReady
<1>2. c \notin checks /\ d \notin checks
  OBVIOUS
<1> HIDE DEF checks
<1>3. SUFFICES ASSUME c # d PROVE FALSE
  OBVIOUS
<1>4. /\ c \in {"multi_az", "backup_retention", "deletion_protection", "monitoring",
                "audit_logging", "approvals", "slo_defined"}
      /\ d \in {"multi_az", "backup_retention", "deletion_protection", "monitoring",
                "audit_logging", "approvals", "slo_defined"}
  BY DEF Essentials
<1> QED BY <1>1, <1>2, <1>3, <1>4, SumSays

LEMMA AtMostOne ==
  ASSUME NEW S, \A c, d \in S : c = d
  PROVE  Cardinality(S) <= 1
<1>1. CASE S = {}
  BY <1>1, FS_EmptySet
<1>2. CASE S # {}
  <2>1. PICK c \in S : TRUE
    BY <1>2
  <2>2. S = {c}
    BY <2>1
  <2>3. Cardinality({c}) = 1
    BY FS_Singleton
  <2> QED BY <2>2, <2>3
<1> QED BY <1>1, <1>2

-----------------------------------------------------------------------------
(***************************************************************************)
(* A request that is made safer.                                           *)
(***************************************************************************)

\* What stays as it was, and what may only grow.
Harder(q, h) ==
  /\ \A f \in {"name", "environment", "owner", "cost_center", "data_classification",
               "platform", "storage_gb", "tags"} : h[f] = q[f]
  /\ \A f \in {"multi_az", "deletion_protection", "enhanced_monitoring"} :
       h[f] = q[f] \/ h[f] = TRUE
  /\ \A f \in {"backup_retention_days", "availability_target"} :
       q[f] \in Nat /\ h[f] \in Nat /\ h[f] >= q[f]
  /\ \A f \in {"statement_timeout", "idle_timeout"} : h[f] = q[f] \/ h[f] = 1
  /\ q.extensions \subseteq h.extensions
  /\ Len(q.approvals) >= 1 => Len(h.approvals) >= 1

LEMMA HardeningsAreHarder ==
  ASSUME NEW q, Loaded(q), NEW h \in Hardenings(q)
  PROVE  Harder(q, h)
<1>1. /\ q.backup_retention_days \in Nat /\ q.availability_target \in Nat
      /\ q.approvals \in Seq(STRING)
  BY DEF Loaded, WellFormed, Within
<1>2. {"name", "environment", "owner", "cost_center", "data_classification", "platform",
       "storage_gb", "tags", "multi_az", "deletion_protection", "enhanced_monitoring",
       "backup_retention_days", "availability_target", "statement_timeout", "idle_timeout",
       "extensions", "approvals"} \subseteq DOMAIN q
  BY DEF Loaded, Fields, RequiredFields, Defaults
<1>3. CASE \E f \in {"multi_az", "deletion_protection", "enhanced_monitoring"} :
             h = [q EXCEPT ![f] = TRUE]
  <2>1. PICK f \in {"multi_az", "deletion_protection", "enhanced_monitoring"} :
          h = [q EXCEPT ![f] = TRUE]
    BY <1>3
  <2>2. h[f] = TRUE /\ \A g \in DOMAIN q : g # f => h[g] = q[g]
    BY <1>2, <2>1
  <2> QED BY <1>1, <1>2, <2>2 DEF Harder
<1>4. CASE \E d \in {7, 30, 35} :
             d >= q.backup_retention_days /\ h = [q EXCEPT !.backup_retention_days = d]
  <2>1. PICK d \in {7, 30, 35} :
          d >= q.backup_retention_days /\ h = [q EXCEPT !.backup_retention_days = d]
    BY <1>4
  <2>2. /\ h.backup_retention_days = d
        /\ \A g \in DOMAIN q : g # "backup_retention_days" => h[g] = q[g]
    BY <1>2, <2>1
  <2> QED BY <1>1, <1>2, <2>1, <2>2 DEF Harder
<1>5. CASE \E a \in {9900, 9990, 10000} :
             a >= q.availability_target /\ h = [q EXCEPT !.availability_target = a]
  <2>1. PICK a \in {9900, 9990, 10000} :
          a >= q.availability_target /\ h = [q EXCEPT !.availability_target = a]
    BY <1>5
  <2>2. /\ h.availability_target = a
        /\ \A g \in DOMAIN q : g # "availability_target" => h[g] = q[g]
    BY <1>2, <2>1
  <2> QED BY <1>1, <1>2, <2>1, <2>2 DEF Harder
<1>6. CASE h = [q EXCEPT !.extensions = @ \cup {"pgaudit"}]
  <2>1. /\ h.extensions = q.extensions \cup {"pgaudit"}
        /\ \A g \in DOMAIN q : g # "extensions" => h[g] = q[g]
    BY <1>2, <1>6
  <2> QED BY <1>1, <1>2, <2>1 DEF Harder
<1>7. CASE h = [q EXCEPT !.approvals = Append(@, "CHG-2")]
  <2>1. /\ h.approvals = Append(q.approvals, "CHG-2")
        /\ \A g \in DOMAIN q : g # "approvals" => h[g] = q[g]
    BY <1>2, <1>7
  <2>2. Len(h.approvals) >= 1
    BY <1>1, <2>1
  <2> QED BY <1>1, <1>2, <2>1, <2>2 DEF Harder
<1>8. CASE h = [q EXCEPT !.statement_timeout = 1, !.idle_timeout = 1]
  <2>1. /\ h.statement_timeout = 1 /\ h.idle_timeout = 1
        /\ \A g \in DOMAIN q : g \notin {"statement_timeout", "idle_timeout"} => h[g] = q[g]
    BY <1>2, <1>8
  <2> QED BY <1>1, <1>2, <2>1 DEF Harder
<1>9. \/ \E f \in {"multi_az", "deletion_protection", "enhanced_monitoring"} :
           h = [q EXCEPT ![f] = TRUE]
      \/ \E d \in {7, 30, 35} :
           d >= q.backup_retention_days /\ h = [q EXCEPT !.backup_retention_days = d]
      \/ \E a \in {9900, 9990, 10000} :
           a >= q.availability_target /\ h = [q EXCEPT !.availability_target = a]
      \/ h = [q EXCEPT !.extensions = @ \cup {"pgaudit"}]
      \/ h = [q EXCEPT !.approvals = Append(@, "CHG-2")]
      \/ h = [q EXCEPT !.statement_timeout = 1, !.idle_timeout = 1]
  <2>1. \/ h \in {[q EXCEPT ![f] = TRUE] :
                   f \in {"multi_az", "deletion_protection", "enhanced_monitoring"}}
        \/ h \in {[q EXCEPT !.backup_retention_days = d] :
                   d \in {b \in {7, 30, 35} : b >= q.backup_retention_days}}
        \/ h \in {[q EXCEPT !.availability_target = a] :
                   a \in {b \in {9900, 9990, 10000} : b >= q.availability_target}}
        \/ h \in {[q EXCEPT !.extensions = @ \cup {"pgaudit"}],
                  [q EXCEPT !.approvals = Append(@, "CHG-2")],
                  [q EXCEPT !.statement_timeout = 1, !.idle_timeout = 1]}
    BY DEF Hardenings
  <2>2. CASE h \in {[q EXCEPT ![f] = TRUE] :
                   f \in {"multi_az", "deletion_protection", "enhanced_monitoring"}}
    BY <2>2
  <2>3. CASE h \in {[q EXCEPT !.backup_retention_days = d] :
                   d \in {b \in {7, 30, 35} : b >= q.backup_retention_days}}
    BY <2>3
  <2>4. CASE h \in {[q EXCEPT !.availability_target = a] :
                   a \in {b \in {9900, 9990, 10000} : b >= q.availability_target}}
    BY <2>4
  <2>5. CASE h \in {[q EXCEPT !.extensions = @ \cup {"pgaudit"}],
                  [q EXCEPT !.approvals = Append(@, "CHG-2")],
                  [q EXCEPT !.statement_timeout = 1, !.idle_timeout = 1]}
    BY <2>5
  <2> QED BY <2>1, <2>2, <2>3, <2>4, <2>5
<1> QED BY <1>3, <1>4, <1>5, <1>6, <1>7, <1>8, <1>9

LEMMA HarderIsJudged ==
  ASSUME NEW q, Judged(q), NEW h, Harder(q, h)
  PROVE  Judged(h) /\ h.environment = q.environment
BY DEF Judged, Harder

LEMMA HarderPasses ==
  ASSUME NEW q, Judged(q), NEW h, Harder(q, h), NEW present \in BOOLEAN, Passes(q, present)
  PROVE  Passes(h, present)
<1>1. PassesGlobalRules(q) /\ (present => PassesEnvRules(q))
  BY PassesSays
<1>2. PassesGlobalRules(h)
  BY <1>1 DEF PassesGlobalRules, Harder
<1>3. ASSUME PassesStagingRules(q)
      PROVE  PassesStagingRules(h)
  BY <1>3 DEF PassesStagingRules, Harder
<1>4. ASSUME PassesProdRules(q)
      PROVE  PassesProdRules(h)
  <2>1. /\ h.platform \in {"aws", "k3s"} /\ h.storage_gb >= 100
        /\ Len(h.approvals) >= 1 /\ "pgaudit" \in h.extensions
    BY <1>4 DEF PassesProdRules, Harder
  <2>2. h.backup_retention_days >= 30 /\ h.availability_target >= 9990
    BY <1>4 DEF PassesProdRules, Harder
  <2>3. h.multi_az = TRUE
    BY <1>4 DEF PassesProdRules, Harder
  <2>4. h.deletion_protection = TRUE
    BY <1>4 DEF PassesProdRules, Harder
  <2>5. h.enhanced_monitoring = TRUE
    BY <1>4 DEF PassesProdRules, Harder
  <2> QED BY <2>1, <2>2, <2>3, <2>4, <2>5 DEF PassesProdRules
<1>5. present => PassesEnvRules(h)
  BY <1>1, <1>3, <1>4, HarderIsJudged DEF PassesEnvRules
<1> QED BY <1>2, <1>5, HarderIsJudged, PassesSays

\* The tags are those of the same request.
LEMMA HarderKeepsTags ==
  ASSUME NEW q, NEW h, Harder(q, h), NEW global
  PROVE  RequiredTags(h) = RequiredTags(q) /\ ResolveTags(h, global) = ResolveTags(q, global)
<1>1. RequiredTags(h) = RequiredTags(q)
  BY DEF RequiredTags, Harder
<1>2. h.tags = q.tags
  BY DEF Harder
<1> QED BY <1>1, <1>2 DEF ResolveTags, RenderedTags

LEMMA HarderPassesChecks ==
  ASSUME NEW q, Judged(q), NEW h, Harder(q, h), NEW global
  PROVE  Checked(q, global) \subseteq Checked(h, global)
<1>1. /\ h.environment = q.environment /\ (Prod(h) <=> Prod(q))
      /\ h.data_classification = q.data_classification
      /\ h.owner = q.owner /\ h.cost_center = q.cost_center
  BY DEF Harder, Prod
<1>2. /\ RetentionMinimum[q.environment] \in Nat
      /\ AvailabilityFloor[q.environment] \in Nat
  BY DEF Judged, RetentionMinimum, AvailabilityFloor
<1>3. "multi_az" \in Checked(q, global) => "multi_az" \in Checked(h, global)
  BY <1>1, ChecksSay DEF Harder
<1>4. "backup_retention" \in Checked(q, global) => "backup_retention" \in Checked(h, global)
  BY <1>1, <1>2, ChecksSay DEF Harder
<1>5. "deletion_protection" \in Checked(q, global) => "deletion_protection" \in Checked(h, global)
  BY <1>1, ChecksSay DEF Harder
<1>6. "monitoring" \in Checked(q, global) => "monitoring" \in Checked(h, global)
  BY <1>1, ChecksSay DEF Harder
<1>7. "audit_logging" \in Checked(q, global) => "audit_logging" \in Checked(h, global)
  BY <1>1, ChecksSay DEF Harder
<1>8. "approvals" \in Checked(q, global) => "approvals" \in Checked(h, global)
  BY <1>1, ChecksSay DEF Harder
<1>9. "slo_defined" \in Checked(q, global) => "slo_defined" \in Checked(h, global)
  BY <1>1, <1>2, ChecksSay DEF Harder
<1>10. "tags_complete" \in Checked(q, global) => "tags_complete" \in Checked(h, global)
  BY HarderKeepsTags, ChecksSay
<1>11. "connection_governance" \in Checked(q, global)
         => "connection_governance" \in Checked(h, global)
  BY <1>1, ChecksSay DEF Harder
<1>12. "ownership" \in Checked(q, global) => "ownership" \in Checked(h, global)
  BY <1>1, ChecksSay
<1>13. Checked(q, global)
         \subseteq {"multi_az", "backup_retention", "deletion_protection", "monitoring",
                    "audit_logging", "approvals", "slo_defined", "tags_complete",
                    "connection_governance", "ownership"}
  BY ChecksSay DEF Weight
<1> QED BY <1>3, <1>4, <1>5, <1>6, <1>7, <1>8, <1>9, <1>10, <1>11, <1>12, <1>13

LEMMA HarderIsReady ==
  ASSUME NEW q, Judged(q), NEW h, Harder(q, h), NEW global, NEW present \in BOOLEAN,
         IsReady(q, global, present)
  PROVE  IsReady(h, global, present)
<1>1. /\ Score(q, global) = TotalPoints(Checked(q, global)) /\ Score(q, global) \in Nat
      /\ Score(h, global) = TotalPoints(Checked(h, global)) /\ Score(h, global) \in Nat
  BY ScoreIsSum
<1>2. Score(q, global) <= Score(h, global)
  BY <1>1, HarderPassesChecks, SumMonotone
<1>3. h.environment = q.environment /\ Threshold(q.environment, present) \in Nat
  BY HarderIsJudged, ThresholdSays
<1> QED BY <1>1, <1>2, <1>3 DEF IsReady

\* The required tags are merged last.
LEMMA RequiredTagsWin ==
  ASSUME NEW q, NEW global, NEW k \in DOMAIN RequiredTags(q)
  PROVE  ResolveTags(q, global)[k] = RequiredTags(q)[k]
<1>1. k \in DOMAIN RenderedTags(q) /\ RenderedTags(q)[k] = RequiredTags(q)[k]
  BY DEF RenderedTags, Over
<1> QED BY <1>1 DEF ResolveTags, Over

-----------------------------------------------------------------------------
(***************************************************************************)
(* The command.                                                            *)
(***************************************************************************)

\* What load_database_request returns has every field, within its limits.
LEMMA ValidatedIsLoaded ==
  ASSUME NEW document, IsValid(document)
  PROVE  Loaded(Validated(document))
<1>1. DOMAIN document \subseteq Fields /\ RequiredFields \subseteq DOMAIN document
  BY DEF IsValid
<1>2. DOMAIN Validated(document) = DOMAIN document \cup DOMAIN Defaults
  BY DEF Validated, Over
<1>3. DOMAIN Validated(document) = Fields
  BY <1>1, <1>2 DEF Fields
<1> QED BY <1>3 DEF IsValid, Loaded

LEMMA LoadedIsJudged ==
  ASSUME NEW q, Loaded(q)
  PROVE  Judged(q)
BY DEF Loaded, WellFormed, Judged

\* The inductive invariant: what each stage of the command has passed.
THEOREM StagesPassedHolds == Spec => []StagesPassed
<1>1. Init => StagesPassed
  BY DEF Init, StagesPassed, Ended
<1>2. StagesPassed /\ [Next]_vars => StagesPassed'
  <2> SUFFICES ASSUME StagesPassed, [Next]_vars
               PROVE  StagesPassed'
    OBVIOUS
  <2>1. CASE Retype
    BY <2>1 DEF Retype, StagesPassed, Ended
  <2>2. CASE MoveFile
    BY <2>2 DEF MoveFile, verdicts, StagesPassed, Ended
  <2>3. CASE Load
    <3>1. CASE IsValid(Document)
      <4>1. stage' = "loaded" /\ request' = Validated(Document) /\ UNCHANGED <<ruled, scored>>
        BY <2>3, <3>1 DEF Load
      <4>2. Loaded(request')
        BY <3>1, <4>1, ValidatedIsLoaded
      <4> QED BY <4>1, <4>2 DEF StagesPassed, Ended
    <3>2. CASE ~IsValid(Document)
      <4>1. stage = "typed" /\ stage' = "invalid" /\ UNCHANGED <<request, ruled, scored>>
        BY <2>3, <3>2 DEF Load
      <4> QED BY <4>1 DEF StagesPassed, Ended
    <3> QED BY <3>1, <3>2
  <2>4. CASE EvaluatePolicy
    <3>1. /\ Loaded(request) /\ request' = request /\ scored' = scored
          /\ ruled' \in BOOLEAN
      <4>1. stage = "loaded" /\ UNCHANGED <<request, scored>>
        BY <2>4 DEF EvaluatePolicy
      <4>2. Loaded(request)
        BY <4>1 DEF StagesPassed
      <4>3. ruled' = ("rules" \in files)
        BY <2>4 DEF EvaluatePolicy
      <4>4. ruled' \in BOOLEAN
        BY <4>3
      <4> QED BY <4>1, <4>2, <4>4
    <3>2. stage' = IF Passes(request, ruled') THEN "compliant" ELSE "violations"
      BY <2>4 DEF EvaluatePolicy
    <3> QED BY <3>1, <3>2 DEF StagesPassed, Ended
  <2>5. CASE AssessReadiness
    <3>1. /\ Loaded(request) /\ request' = request /\ ruled' = ruled
          /\ Passes(request, ruled) /\ scored' \in BOOLEAN
      <4>1. stage = "compliant" /\ UNCHANGED <<request, ruled>>
        BY <2>5 DEF AssessReadiness
      <4>2. Loaded(request) /\ Passes(request, ruled)
        BY <4>1 DEF StagesPassed
      <4>3. scored' = ("thresholds" \in files)
        BY <2>5 DEF AssessReadiness
      <4>4. scored' \in BOOLEAN
        BY <4>3
      <4> QED BY <4>1, <4>2, <4>4
    <3>2. stage' = IF IsReady(request, GlobalTags, scored') THEN "accepted" ELSE "not ready"
      BY <2>5 DEF AssessReadiness
    <3> QED BY <3>1, <3>2 DEF StagesPassed, Ended
  <2>6. CASE UNCHANGED vars
    BY <2>6 DEF vars, verdicts, StagesPassed, Ended
  <2> QED BY <2>1, <2>2, <2>3, <2>4, <2>5, <2>6 DEF Next
<1> QED BY <1>1, <1>2, PTL DEF Spec

\* Type correctness.
THEOREM TypeCorrect == Spec => []TypeOK
<1>1. Init => TypeOK
  BY DEF Init, TypeOK, Ended, Files
<1>2. TypeOK /\ StagesPassed /\ StagesPassed' /\ [Next]_vars => TypeOK'
  <2> SUFFICES ASSUME TypeOK, StagesPassed, StagesPassed', [Next]_vars
               PROVE  TypeOK'
    OBVIOUS
  <2>1. /\ stage' \in Ended \cup {"typed", "loaded", "compliant"}
        /\ {ruled', scored'} \subseteq BOOLEAN
        /\ request' # None => DOMAIN request' = Fields
    BY DEF StagesPassed, Loaded
  <2>2. template' \in Templates /\ added' \subseteq Additions /\ files' \subseteq Files
    BY DEF TypeOK, Next, Retype, MoveFile, Load, EvaluatePolicy, AssessReadiness, GiveFlag,
           GiveSet, GiveExtension, vars, command, verdicts
  <2> QED BY <2>1, <2>2 DEF TypeOK
<1> QED BY <1>1, <1>2, StagesPassedHolds, PTL DEF Spec

\* `request validate` never passes what `request provision` then finds not
\* ready: for every request that the schema admits, the rules of its
\* environment ask for at least what the scorecard does.
THEOREM PolicyImpliesReadinessHolds == Spec => []PolicyImpliesReadiness
<1>1. StagesPassed => PolicyImpliesReadiness
  <2> SUFFICES ASSUME StagesPassed, stage = "not ready", ruled
               PROVE  FALSE
    BY DEF PolicyImpliesReadiness
  <2>1. /\ Loaded(request) /\ Passes(request, ruled) /\ scored \in BOOLEAN
        /\ ruled \in BOOLEAN /\ ~IsReady(request, GlobalTags, scored)
    BY DEF StagesPassed
  <2>2. Passes(request, TRUE)
    <3>1. ruled = TRUE
      BY <2>1
    <3> QED BY <2>1, <3>1
  <2> QED BY <2>1, <2>2, LoadedIsJudged, CompliantIsReady
<1> QED BY <1>1, StagesPassedHolds, PTL

\* Either policy file is enough to keep a production request within one of
\* the essential checks, whatever the rest of the request says.
THEOREM OneFileIsEnoughHolds == Spec => []OneFileIsEnough
<1>1. StagesPassed => OneFileIsEnough
  <2> SUFFICES ASSUME StagesPassed, stage = "accepted", Prod(request), ruled \/ scored
               PROVE  Cardinality(Essentials \ Checked(request, GlobalTags))
                        <= (IF ruled THEN 0 ELSE 1)
    BY DEF OneFileIsEnough
  <2> DEFINE missing == Essentials \ Checked(request, GlobalTags)
  <2>1. /\ Loaded(request) /\ Passes(request, ruled) /\ scored \in BOOLEAN
        /\ ruled \in BOOLEAN /\ IsReady(request, GlobalTags, scored)
    BY DEF StagesPassed
  <2>2. Judged(request) /\ request.environment = "prod"
    BY <2>1, LoadedIsJudged DEF Prod
  <2>3. CASE ruled
    <3>1. ruled = TRUE
      BY <2>1, <2>3
    <3>2. Passes(request, TRUE)
      BY <2>1, <3>1
    <3>3. missing = {}
      BY <2>2, <3>2, ProdRulesPassChecks
    <3> QED BY <2>3, <3>3, FS_EmptySet
  <2>4. CASE ~ruled
    <3>1. scored = TRUE
      BY <2>1, <2>4
    <3>2. IsReady(request, GlobalTags, TRUE)
      BY <2>1, <3>1
    <3>3. \A c, d \in missing : c = d
      BY <2>2, <3>2, OneEssentialShort
    <3> HIDE DEF missing
    <3>4. Cardinality(missing) <= 1
      BY <3>3, AtMostOne
    <3> QED BY <2>4, <3>4 DEF missing
  <2> QED BY <2>3, <2>4
<1> QED BY <1>1, StagesPassedHolds, PTL

\* Making an accepted request safer never makes it refused.
THEOREM HardeningNeverHurtsHolds == Spec => []HardeningNeverHurts
<1>1. StagesPassed => HardeningNeverHurts
  <2> SUFFICES ASSUME StagesPassed, stage = "accepted", NEW h \in Hardenings(request)
               PROVE  Passes(h, ruled) /\ IsReady(h, GlobalTags, scored)
    BY DEF HardeningNeverHurts
  <2>1. /\ Loaded(request) /\ Passes(request, ruled) /\ scored \in BOOLEAN
        /\ ruled \in BOOLEAN /\ IsReady(request, GlobalTags, scored)
    BY DEF StagesPassed
  <2>2. Judged(request) /\ Harder(request, h)
    BY <2>1, LoadedIsJudged, HardeningsAreHarder
  <2> QED BY <2>1, <2>2, HarderPasses, HarderIsReady
<1> QED BY <1>1, StagesPassedHolds, PTL

\* No option, tag or file shadows a required tag.
THEOREM RequiredTagsHoldAlways == Spec => []RequiredTagsHold
<1>1. RequiredTagsHold
  BY RequiredTagsWin DEF RequiredTagsHold
<1> QED BY <1>1, PTL

-----------------------------------------------------------------------------
(***************************************************************************)
(* The severity of a report on service levels.                             *)
(***************************************************************************)
LEMMA SeverityRanks ==
  /\ SeverityRank("ok") = 1 /\ SeverityRank("ticket") = 2
  /\ SeverityRank("page") = 3 /\ SeverityRank("error") = 4
BY DEF SeverityRank, Severity

SeverityNames == {"ok", "ticket", "page", "error"}

\* The overall severity is the worst of a pillar's, and 1 without pillars.
LEMMA WorstIsWorst ==
  ASSUME NEW o, NEW m, Severities(o, m) \subseteq SeverityNames
  PROVE  /\ Severities(o, m) = {} => SeverityRank(WorstSeverity(o, m)) = 1
         /\ Severities(o, m) # {} => WorstSeverity(o, m) \in Severities(o, m)
         /\ \A s \in Severities(o, m) : SeverityRank(s) <= SeverityRank(WorstSeverity(o, m))
<1> DEFINE S == Severities(o, m)
<1>1. S \subseteq SeverityNames
  OBVIOUS
<1>2. WorstSeverity(o, m) =
        IF S = {} THEN "ok" ELSE CHOOSE s \in S : \A t \in S : SeverityRank(t) <= SeverityRank(s)
  BY DEF WorstSeverity
<1> HIDE DEF S
<1>3. S # {} => \E s \in S : \A t \in S : SeverityRank(t) <= SeverityRank(s)
  <2>1. CASE "error" \in S
    BY <1>1, <2>1, SeverityRanks DEF SeverityNames
  <2>2. CASE "error" \notin S /\ "page" \in S
    BY <1>1, <2>2, SeverityRanks DEF SeverityNames
  <2>3. CASE "error" \notin S /\ "page" \notin S /\ "ticket" \in S
    BY <1>1, <2>3, SeverityRanks DEF SeverityNames
  <2>4. CASE "error" \notin S /\ "page" \notin S /\ "ticket" \notin S
    <3>1. \A s \in S : s = "ok"
      BY <1>1, <2>4 DEF SeverityNames
    <3> QED BY <3>1, SeverityRanks
  <2> QED BY <2>1, <2>2, <2>3, <2>4
<1>4. CASE S = {}
  BY <1>2, <1>4, SeverityRanks DEF S
<1>5. CASE S # {}
  <2> DEFINE P(s) == \A t \in S : SeverityRank(t) <= SeverityRank(s)
  <2>1. WorstSeverity(o, m) = CHOOSE s \in S : P(s)
    BY <1>2, <1>5
  <2>2. \E s \in S : P(s)
    BY <1>3, <1>5
  <2> HIDE DEF P
  <2>3. WorstSeverity(o, m) \in S /\ P(WorstSeverity(o, m))
    BY <2>1, <2>2
  <2> QED BY <2>3, <1>5 DEF P, S
<1> QED BY <1>4, <1>5

LEMMA RankOfSeverity ==
  ASSUME NEW s \in SeverityNames
  PROVE  SeverityRank(s) \in 1..4
BY SeverityRanks DEF SeverityNames

\* Every pillar of one report is matched by one of the other that is as bad.
LEMMA WorseReport ==
  ASSUME NEW o, NEW m, NEW n,
         Severities(o, m) \subseteq SeverityNames, Severities(o, n) \subseteq SeverityNames,
         \A s \in Severities(o, m) : \E t \in Severities(o, n) : SeverityRank(s) <= SeverityRank(t)
  PROVE  SeverityRank(WorstSeverity(o, m)) <= SeverityRank(WorstSeverity(o, n))
<1> DEFINE S == Severities(o, m)
           T == Severities(o, n)
           s == WorstSeverity(o, m)
           t == WorstSeverity(o, n)
<1>1. (S = {} => SeverityRank(s) = 1) /\ (S # {} => s \in S)
  BY WorstIsWorst
<1>2. /\ T = {} => SeverityRank(t) = 1
      /\ T # {} => t \in T
      /\ \A u \in T : SeverityRank(u) <= SeverityRank(t)
  BY WorstIsWorst
<1>3. S \subseteq SeverityNames /\ T \subseteq SeverityNames
  OBVIOUS
<1>4. \A u \in S : \E v \in T : SeverityRank(u) <= SeverityRank(v)
  OBVIOUS
<1> HIDE DEF S, T, s, t
<1>5. SeverityRank(t) \in 1..4
  BY <1>2, <1>3, RankOfSeverity
<1>6. CASE S = {}
  BY <1>1, <1>5, <1>6 DEF s, t
<1>7. CASE S # {}
  <2>1. PICK v \in T : SeverityRank(s) <= SeverityRank(v)
    BY <1>1, <1>4, <1>7
  <2>2. SeverityRank(v) \in 1..4 /\ SeverityRank(s) \in 1..4
    BY <1>1, <1>3, <1>7, RankOfSeverity
  <2> QED BY <1>2, <1>5, <2>1, <2>2 DEF s, t
<1> QED BY <1>6, <1>7
-----------------------------------------------------------------------------
(***************************************************************************)
(* One pillar.                                                             *)
(***************************************************************************)

\* With p of q requests bad, another bad one does not lower the burn rate.
LEMMA BurnGrows ==
  ASSUME NEW p \in Nat, NEW q \in Nat \ {0}, p <= q, NEW a \in Nat, NEW t \in Nat, p * a >= q * t
  PROVE  (p + 1) * a >= (q + 1) * t
<1>1. (p + 1) * a = p * a + a /\ (q + 1) * t = q * t + t
  OBVIOUS
<1>2. p * a \in Nat /\ q * t \in Nat
  OBVIOUS
<1>3. CASE t <= a
  BY <1>1, <1>2, <1>3
<1>4. CASE t > a
  <2>1. q * a < q * t
    BY <1>4
  <2>2. p * a <= q * a
    OBVIOUS
  <2> QED BY <1>2, <2>1, <2>2
<1> QED BY <1>3, <1>4

\* A good request does not raise it.
LEMMA BurnFalls ==
  ASSUME NEW p \in Nat, NEW q \in Nat, NEW a \in Nat, NEW t \in Nat, p * a >= (q + 1) * t
  PROVE  p * a >= q * t
<1>1. (q + 1) * t = q * t + t /\ q * t \in Nat /\ p * a \in Nat
  OBVIOUS
<1> QED BY <1>1

\* What a counter can hold, whatever the bound.
Valid == {c \in [good : Nat, total : Nat \ {0}] : c.good <= c.total}

\* The two sides of the comparison of burn rates, as products.
Spent == Whole * PeriodDays * 10
Allowed(target, window, tenths) == tenths * (Whole - target) * window

LEMMA BurnSays ==
  ASSUME NEW c \in Valid, NEW target \in 1..Whole, NEW window \in Nat, NEW tenths \in Nat
  PROVE  /\ Bad(c) \in Nat /\ Bad(c) <= c.total
         /\ Spent \in Nat /\ Allowed(target, window, tenths) \in Nat
         /\ BurnsAtLeast(c, target, window, tenths)
              <=> Bad(c) * Spent >= c.total * Allowed(target, window, tenths)
<1>1. Bad(c) \in Nat /\ Bad(c) <= c.total /\ c.total \in Nat
  BY DEF Bad, Valid
<1>2. Spent \in Nat /\ Bad(c) * Whole * PeriodDays * 10 = Bad(c) * Spent
  <2>1. PeriodDays = 30 /\ Whole \in Nat
    BY DEF PeriodDays, Whole
  <2> QED BY <1>1, <2>1 DEF Spent
<1>3. PICK left \in Nat : Whole - target = left
  BY DEF Whole
<1>4. Allowed(target, window, tenths) = tenths * left * window
  BY <1>3 DEF Allowed
<1>5. tenths * left * window \in Nat
  BY <1>3
<1>6. tenths * c.total * left * window = c.total * (tenths * left * window)
  BY <1>1, <1>3
<1> QED BY <1>1, <1>2, <1>3, <1>4, <1>5, <1>6 DEF BurnsAtLeast

\* Only an objective of 100 % divides by zero.
LEMMA ValidDivides ==
  ASSUME NEW c \in Valid, NEW target
  PROVE  Divides(c, target) <=> target = Whole
BY DEF Divides, Valid

LEMMA CounterIsNamed ==
  ASSUME NEW c, NEW target, NEW window
  PROVE  CounterSeverity(c, target, window) \in SeverityNames
BY DEF CounterSeverity, SeverityNames

LEMMA MoreBurnIsWorse ==
  ASSUME NEW c \in Valid, NEW d \in Valid, NEW target, NEW window,
         BurnsAtLeast(c, target, window, 144) => BurnsAtLeast(d, target, window, 144),
         BurnsAtLeast(c, target, window, 30) => BurnsAtLeast(d, target, window, 30)
  PROVE  SeverityRank(CounterSeverity(c, target, window))
           <= SeverityRank(CounterSeverity(d, target, window))
<1>1. Divides(c, target) <=> Divides(d, target)
  BY ValidDivides
<1>2. SeverityRank(CounterSeverity(d, target, window)) \in 1..4
  BY CounterIsNamed, RankOfSeverity
<1> QED BY <1>1, <1>2, SeverityRanks DEF CounterSeverity

LEMMA FailureNeverCalms ==
  ASSUME NEW c \in Valid, NEW d \in Valid, NEW target \in 1..Whole, NEW window \in Nat,
         d.good = c.good, d.total = c.total + 1
  PROVE  SeverityRank(CounterSeverity(c, target, window))
           <= SeverityRank(CounterSeverity(d, target, window))
<1>1. ASSUME NEW tenths \in Nat, BurnsAtLeast(c, target, window, tenths)
      PROVE  BurnsAtLeast(d, target, window, tenths)
  <2> DEFINE p == Bad(c)
             q == c.total
             t == Allowed(target, window, tenths)
             a == Spent
  <2>1. p \in Nat /\ p <= q /\ a \in Nat /\ t \in Nat /\ p * a >= q * t
    BY <1>1, BurnSays
  <2>2. q \in Nat \ {0} /\ Bad(d) = p + 1
    BY DEF Bad, Valid
  <2>3. BurnsAtLeast(d, target, window, tenths) <=> Bad(d) * a >= d.total * t
    BY BurnSays
  <2> HIDE DEF p, q, t, a
  <2>4. (p + 1) * a >= (q + 1) * t
    BY <2>1, <2>2, BurnGrows
  <2> QED BY <2>2, <2>3, <2>4 DEF q
<1> QED BY <1>1, MoreBurnIsWorse

LEMMA SuccessNeverAlarms ==
  ASSUME NEW c \in Valid, NEW d \in Valid, NEW target \in 1..Whole, NEW window \in Nat,
         d.good = c.good + 1, d.total = c.total + 1
  PROVE  SeverityRank(CounterSeverity(d, target, window))
           <= SeverityRank(CounterSeverity(c, target, window))
<1>1. ASSUME NEW tenths \in Nat, BurnsAtLeast(d, target, window, tenths)
      PROVE  BurnsAtLeast(c, target, window, tenths)
  <2> DEFINE p == Bad(c)
             q == c.total
             t == Allowed(target, window, tenths)
             a == Spent
  <2>1. p \in Nat /\ a \in Nat /\ t \in Nat
    BY BurnSays
  <2>2. q \in Nat /\ Bad(d) = p
    BY DEF Bad, Valid
  <2>3. Bad(d) * a >= d.total * t /\ d.total = q + 1
    BY <1>1, BurnSays
  <2>4. BurnsAtLeast(c, target, window, tenths) <=> p * a >= q * t
    BY BurnSays
  <2> HIDE DEF p, q, t, a
  <2>5. p * a >= (q + 1) * t
    BY <2>2, <2>3
  <2> QED BY <2>1, <2>2, <2>4, <2>5, BurnFalls
<1> QED BY <1>1, MoreBurnIsWorse

\* The older a backup or a drill, the worse.
LEMMA OlderIsWorse ==
  ASSUME NEW age \in Nat, NEW older \in Nat, age <= older, NEW limit \in Nat
  PROVE  /\ SeverityRank(BackupSeverity(age, limit)) <= SeverityRank(BackupSeverity(older, limit))
         /\ SeverityRank(DrillSeverity(age, limit)) <= SeverityRank(DrillSeverity(older, limit))
<1>1. SeverityRank(BackupSeverity(age, limit)) <= SeverityRank(BackupSeverity(older, limit))
  BY SeverityRanks DEF BackupSeverity
<1>2. ReviewInterval(limit) \in Nat
  BY DEF ReviewInterval
<1>3. SeverityRank(DrillSeverity(age, limit)) <= SeverityRank(DrillSeverity(older, limit))
  BY <1>2, SeverityRanks DEF DrillSeverity
<1> QED BY <1>1, <1>3

LEMMA AgeIsNamed ==
  ASSUME NEW age, NEW limit
  PROVE  BackupSeverity(age, limit) \in SeverityNames /\ DrillSeverity(age, limit) \in SeverityNames
BY DEF BackupSeverity, DrillSeverity, SeverityNames

-----------------------------------------------------------------------------
(***************************************************************************)
(* A report.                                                               *)
(***************************************************************************)
LEMMA SeveritiesAreNamed ==
  ASSUME NEW o, NEW m
  PROVE  Severities(o, m) \subseteq SeverityNames
BY CounterIsNamed, AgeIsNamed DEF Severities

\* Every pillar of m is a pillar of n, and at least as bad there.
AsBad(o, m, n) ==
  /\ m.requests # NoData =>
       /\ n.requests # NoData
       /\ SeverityRank(CounterSeverity(m.requests, o.availability, m.window))
            <= SeverityRank(CounterSeverity(n.requests, o.availability, n.window))
  /\ m.latency # NoData =>
       /\ n.latency # NoData
       /\ SeverityRank(CounterSeverity(m.latency, o.availability, m.window))
            <= SeverityRank(CounterSeverity(n.latency, o.availability, n.window))
  /\ m.backup # NoData =>
       /\ n.backup # NoData
       /\ SeverityRank(BackupSeverity(m.backup, o.rpo)) <= SeverityRank(BackupSeverity(n.backup, o.rpo))
  /\ m.drill # NoData =>
       /\ n.drill # NoData
       /\ SeverityRank(DrillSeverity(m.drill, o.rto)) <= SeverityRank(DrillSeverity(n.drill, o.rto))

LEMMA AsBadReport ==
  ASSUME NEW o, NEW m, NEW n, AsBad(o, m, n)
  PROVE  SeverityRank(WorstSeverity(o, m)) <= SeverityRank(WorstSeverity(o, n))
<1>1. ASSUME NEW s \in Severities(o, m)
      PROVE  \E t \in Severities(o, n) : SeverityRank(s) <= SeverityRank(t)
  <2>1. CASE m.requests # NoData /\ s = CounterSeverity(m.requests, o.availability, m.window)
    <3>1. CounterSeverity(n.requests, o.availability, n.window) \in Severities(o, n)
      BY <2>1 DEF AsBad, Severities
    <3> QED BY <2>1, <3>1 DEF AsBad
  <2>2. CASE m.latency # NoData /\ s = CounterSeverity(m.latency, o.availability, m.window)
    <3>1. CounterSeverity(n.latency, o.availability, n.window) \in Severities(o, n)
      BY <2>2 DEF AsBad, Severities
    <3> QED BY <2>2, <3>1 DEF AsBad
  <2>3. CASE m.backup # NoData /\ s = BackupSeverity(m.backup, o.rpo)
    <3>1. BackupSeverity(n.backup, o.rpo) \in Severities(o, n)
      BY <2>3 DEF AsBad, Severities
    <3> QED BY <2>3, <3>1 DEF AsBad
  <2>4. CASE m.drill # NoData /\ s = DrillSeverity(m.drill, o.rto)
    <3>1. DrillSeverity(n.drill, o.rto) \in Severities(o, n)
      BY <2>4 DEF AsBad, Severities
    <3> QED BY <2>4, <3>1 DEF AsBad
  <2> QED BY <1>1, <2>1, <2>2, <2>3, <2>4 DEF Severities
<1> QED BY <1>1, SeveritiesAreNamed, WorseReport

-----------------------------------------------------------------------------
(***************************************************************************)
(* The service.                                                            *)
(***************************************************************************)
LEMMA BoundsAreSound ==
  /\ Objectives # {} /\ Windows \subseteq Nat \ {0} /\ MaxTotal \in Nat \ {0} /\ MaxAge \in Nat
  /\ Waits \subseteq 0..MaxAge /\ MaxRows \in Nat
  /\ \A o \in Objectives : o.availability \in 1..Whole /\ o.rpo \in Nat /\ o.rto \in Nat
BY HealthAssumption

\* What a pillar is, is told by its name.
LEMMA PillarKinds ==
  /\ Counters = {"requests", "latency"} /\ Ages = {"backup", "drill"}
  /\ Counters \cap Ages = {}
BY DEF Counters, Ages

LEMMA CollectKeepsType ==
  ASSUME HealthTypeOK, NEW p \in Counters \cup Ages, Collect(p)
  PROVE  HealthTypeOK'
<1>1. Waits \subseteq 0..MaxAge /\ MaxTotal \in Nat \ {0}
  BY BoundsAreSound
<1>2. PICK first \in IF p \in Ages THEN Waits ELSE [good : 0..1, total : {1}] :
             metrics' = [metrics EXCEPT ![p] = first]
  BY DEF Collect
<1>3. p \in Ages => first \in 0..MaxAge
  BY <1>1, <1>2
<1>4. p \notin Ages => first \in Counts
  BY <1>1, <1>2 DEF Counts
<1>5. UNCHANGED <<watched, slo, rows>>
  BY DEF Collect, Service
<1> QED BY <1>2, <1>3, <1>4, <1>5 DEF HealthTypeOK, Counters, Ages

\* A counter is what it counts.
LEMMA CounterCounts ==
  ASSUME NEW k \in Counts
  PROVE  [[k EXCEPT !.good = @ + 1] EXCEPT !.total = @ + 1]
           = [good |-> k.good + 1, total |-> k.total + 1]
<1> DEFINE j == [k EXCEPT !.good = @ + 1]
           i == [j EXCEPT !.total = @ + 1]
<1>1. DOMAIN k = {"good", "total"} /\ k = [x \in DOMAIN k |-> k[x]]
  BY DEF Counts
<1>2. /\ j = [x \in DOMAIN k |-> IF x = "good" THEN k.good + 1 ELSE k[x]]
      /\ j.good = k.good + 1 /\ j.total = k.total
  BY <1>1
<1>3. i = [x \in DOMAIN k |-> IF x = "total" THEN k.total + 1 ELSE j[x]]
  BY <1>2
<1> HIDE DEF j
<1>4. i = [good |-> k.good + 1, total |-> k.total + 1]
  BY <1>1, <1>2, <1>3
<1> QED BY <1>4 DEF j

LEMMA RequestKeepsType ==
  ASSUME HealthTypeOK, NEW c \in Counters, GoodRequest(c) \/ BadRequest(c)
  PROVE  HealthTypeOK'
<1>1. MaxTotal \in Nat \ {0}
  BY BoundsAreSound
<1>2. metrics[c] \in Counts /\ metrics[c].total < MaxTotal /\ UNCHANGED <<watched, slo, rows>>
  BY DEF GoodRequest, BadRequest, Counted, Service, HealthTypeOK, Counters
<1>3. PICK k : k \in Counts /\ metrics' = [metrics EXCEPT ![c] = k]
  <2>1. CASE GoodRequest(c)
    <3> DEFINE k == [good |-> metrics[c].good + 1, total |-> metrics[c].total + 1]
    <3>1. k \in Counts
      <4>1. /\ metrics[c].good \in Nat /\ metrics[c].total \in Nat
            /\ metrics[c].good <= metrics[c].total
        BY <1>1, <1>2 DEF Counts
      <4>2. /\ metrics[c].good + 1 \in 0..MaxTotal /\ metrics[c].total + 1 \in 1..MaxTotal
            /\ metrics[c].good + 1 <= metrics[c].total + 1
        BY <1>1, <1>2, <4>1
      <4> QED BY <4>2 DEF Counts
    <3>2. [[metrics[c] EXCEPT !.good = @ + 1] EXCEPT !.total = @ + 1] = k
      BY <1>2, CounterCounts
    <3>3. metrics' = [metrics EXCEPT ![c] = k]
      <4>1. metrics' = [[metrics EXCEPT ![c].good = @ + 1] EXCEPT ![c].total = @ + 1]
        BY <2>1 DEF GoodRequest
      <4>2. c \in DOMAIN metrics
        BY DEF HealthTypeOK, Counters
      <4> QED BY <3>2, <4>1, <4>2
    <3> QED BY <3>1, <3>3
  <2>2. CASE BadRequest(c)
    <3> DEFINE k == [metrics[c] EXCEPT !.total = @ + 1]
    <3>1. k \in Counts
      BY <1>1, <1>2 DEF Counts
    <3>2. metrics' = [metrics EXCEPT ![c] = k]
      BY <1>2, <2>2 DEF BadRequest
    <3> QED BY <3>1, <3>2
  <2> QED BY <2>1, <2>2
<1> QED BY <1>2, <1>3 DEF HealthTypeOK, Counters

LEMMA TimeKeepsType ==
  ASSUME HealthTypeOK, TimePasses
  PROVE  HealthTypeOK'
<1>1. MaxAge \in Nat /\ Waits \subseteq 0..MaxAge
  BY BoundsAreSound
<1>2. PICK hours \in Waits :
             metrics' = [metrics EXCEPT !.backup = Aged(@, hours), !.drill = Aged(@, hours)]
  BY DEF TimePasses
<1>3. \A age \in 0..MaxAge \cup {NoData} : Aged(age, hours) \in 0..MaxAge \cup {NoData}
  BY <1>1 DEF Aged
<1>4. UNCHANGED <<watched, slo, rows>>
  BY DEF TimePasses, Service
<1> QED BY <1>2, <1>3, <1>4 DEF HealthTypeOK

LEMMA RenewKeepsType ==
  ASSUME HealthTypeOK, NEW a \in Ages, Renew(a)
  PROVE  HealthTypeOK'
<1>1. 0 \in 0..MaxAge
  BY BoundsAreSound
<1>2. metrics' = [metrics EXCEPT ![a] = 0] /\ UNCHANGED <<watched, slo, rows>>
  BY DEF Renew, Service
<1> QED BY <1>1, <1>2 DEF HealthTypeOK, Ages

LEMMA RowKeepsType ==
  ASSUME HealthTypeOK, AddRow
  PROVE  HealthTypeOK'
<1>1. PICK d \in Dates, v \in Sizes : rows' = Append(rows, [day |-> d, value |-> v])
  BY DEF AddRow
<1>2. UNCHANGED <<watched, slo, metrics>> /\ Len(rows) < MaxRows /\ MaxRows \in Nat
  BY BoundsAreSound DEF AddRow
<1>3. rows' \in Seq([day : Dates, value : Sizes]) /\ Len(rows') = Len(rows) + 1 /\ Len(rows) \in Nat
  BY <1>1 DEF HealthTypeOK
<1> QED BY <1>2, <1>3 DEF HealthTypeOK

\* Counters count no more good requests than requests, ages are numbers, and
\* all stay within the bounds: what a report is computed from, whatever the
\* objectives, the windows and the bounds.
THEOREM HealthTypeCorrect == HealthSpec => []HealthTypeOK
<1>1. ASSUME HealthInit PROVE HealthTypeOK
  <2>1. slo \in Objectives
    <3>1. (CHOOSE o \in Objectives : TRUE) \in Objectives
      BY BoundsAreSound
    <3> QED BY <1>1, <3>1 DEF HealthInit
  <2>2. PICK w \in Windows : metrics = [requests |-> NoData, latency |-> NoData, backup |-> NoData,
                                       drill |-> NoData, window |-> w]
    BY <1>1 DEF HealthInit
  <2>3. rows \in Seq([day : Dates, value : Sizes]) /\ Len(rows) <= MaxRows
    BY <1>1, BoundsAreSound DEF HealthInit
  <2> QED BY <1>1, <2>1, <2>2, <2>3 DEF HealthInit, HealthTypeOK
<1>2. ASSUME HealthTypeOK, [HealthNext]_healthVars PROVE HealthTypeOK'
  <2>1. ASSUME NEW p \in Counters \cup Ages, Collect(p) PROVE HealthTypeOK'
    BY <1>2, <2>1, CollectKeepsType
  <2>2. ASSUME NEW c \in Counters, GoodRequest(c) \/ BadRequest(c) PROVE HealthTypeOK'
    BY <1>2, <2>2, RequestKeepsType
  <2>3. ASSUME NEW a \in Ages, Renew(a) PROVE HealthTypeOK'
    BY <1>2, <2>3, RenewKeepsType
  <2>4. CASE TimePasses
    BY <1>2, <2>4, TimeKeepsType
  <2>5. CASE AddRow
    BY <1>2, <2>5, RowKeepsType
  <2>6. CASE UNCHANGED healthVars
    BY <1>2, <2>6 DEF HealthTypeOK, healthVars
  <2> QED BY <1>2, <2>1, <2>2, <2>3, <2>4, <2>5, <2>6 DEF HealthNext
<1> QED BY <1>1, <1>2, PTL DEF HealthSpec

-----------------------------------------------------------------------------
(***************************************************************************)
(* Its report follows it.                                                  *)
(***************************************************************************)
LEMMA CountsAreValid ==
  ASSUME NEW k \in Counts
  PROVE  k \in Valid
BY BoundsAreSound DEF Counts, Valid

LEMMA PillarsAreSound ==
  ASSUME HealthTypeOK
  PROVE  /\ slo.availability \in 1..Whole /\ slo.rpo \in Nat /\ slo.rto \in Nat
         /\ metrics.window \in Nat
         /\ metrics.requests # NoData => metrics.requests \in Valid
         /\ metrics.latency # NoData => metrics.latency \in Valid
         /\ metrics.backup # NoData => metrics.backup \in Nat
         /\ metrics.drill # NoData => metrics.drill \in Nat
<1>1. slo.availability \in 1..Whole /\ slo.rpo \in Nat /\ slo.rto \in Nat
  BY BoundsAreSound DEF HealthTypeOK
<1>2. metrics.window \in Nat
  BY BoundsAreSound DEF HealthTypeOK
<1>3. metrics.requests \in Counts \cup {NoData} /\ metrics.latency \in Counts \cup {NoData}
  BY DEF HealthTypeOK
<1>4. metrics.backup \in 0..MaxAge \cup {NoData} /\ metrics.drill \in 0..MaxAge \cup {NoData}
  BY DEF HealthTypeOK
<1> QED BY <1>1, <1>2, <1>3, <1>4, CountsAreValid

\* The severities of pillars are comparable.
LEMMA RankIsNumber ==
  /\ \A c, target, window : SeverityRank(CounterSeverity(c, target, window)) \in 1..4
  /\ \A age, limit : /\ SeverityRank(BackupSeverity(age, limit)) \in 1..4
                     /\ SeverityRank(DrillSeverity(age, limit)) \in 1..4
BY CounterIsNamed, AgeIsNamed, RankOfSeverity

LEMMA FirstDataIsWorse ==
  ASSUME HealthTypeOK, NEW p \in Counters \cup Ages, Collect(p)
  PROVE  AsBad(slo, metrics, metrics')
<1>1. PICK first : metrics' = [metrics EXCEPT ![p] = first]
  BY DEF Collect
<1>2. metrics[p] = NoData
  BY DEF Collect
<1>3. \A x \in (Counters \cup Ages) \ {p} : metrics'[x] = metrics[x]
  BY <1>1 DEF HealthTypeOK, Counters, Ages
<1>4. metrics'.window = metrics.window
  BY <1>1 DEF HealthTypeOK, Counters, Ages
<1>5. p # "requests" => metrics'.requests = metrics.requests
  BY <1>3 DEF Counters
<1>6. p # "latency" => metrics'.latency = metrics.latency
  BY <1>3 DEF Counters
<1>7. p # "backup" => metrics'.backup = metrics.backup
  BY <1>3 DEF Ages
<1>8. p # "drill" => metrics'.drill = metrics.drill
  BY <1>3 DEF Ages
<1> QED BY <1>2, <1>4, <1>5, <1>6, <1>7, <1>8, RankIsNumber DEF AsBad

LEMMA FailureIsWorse ==
  ASSUME HealthTypeOK, HealthTypeOK', NEW c \in Counters, BadRequest(c)
  PROVE  AsBad(slo, metrics, metrics')
<1> DEFINE Severe(k) == SeverityRank(CounterSeverity(k, slo.availability, metrics.window))
           k == metrics[c]
           d == metrics'[c]
<1>1. metrics' = [metrics EXCEPT ![c].total = @ + 1] /\ slo' = slo /\ k # NoData
  BY DEF BadRequest, Counted, Service
<1>2. k \in Valid /\ d \in Valid /\ d.good = k.good /\ d.total = k.total + 1
  <2>1. k \in Counts
    BY <1>1 DEF HealthTypeOK, Counters
  <2>2. d = [k EXCEPT !.total = @ + 1]
    BY <1>1 DEF HealthTypeOK, Counters
  <2>3. d = [good |-> k.good, total |-> k.total + 1]
    BY <2>1, <2>2 DEF Counts
  <2>4. k.good \in Nat /\ k.total \in Nat \ {0} /\ k.good <= k.total
    BY <2>1, CountsAreValid DEF Valid
  <2> HIDE DEF d, k
  <2>5. d \in Valid
    BY <2>3, <2>4 DEF Valid
  <2> QED BY <2>1, <2>3, <2>5, CountsAreValid
<1>3. Severe(k) <= Severe(d)
  BY <1>2, FailureNeverCalms, PillarsAreSound
<1>4. d # NoData
  BY <1>2, NoDataAssumption DEF Valid
<1>5. /\ metrics'.backup = metrics.backup /\ metrics'.drill = metrics.drill
      /\ metrics'.window = metrics.window
      /\ \A x \in Counters \ {c} : metrics'[x] = metrics[x]
  BY <1>1 DEF HealthTypeOK, Counters
<1> HIDE DEF k, d
<1>6. CASE c = "requests"
  BY <1>3, <1>4, <1>5, <1>6, RankIsNumber DEF AsBad, Counters, k, d
<1>7. CASE c = "latency"
  BY <1>3, <1>4, <1>5, <1>7, RankIsNumber DEF AsBad, Counters, k, d
<1> QED BY <1>6, <1>7 DEF Counters

LEMMA SuccessIsBetter ==
  ASSUME HealthTypeOK, HealthTypeOK', NEW c \in Counters, GoodRequest(c)
  PROVE  AsBad(slo, metrics', metrics)
<1> DEFINE Severe(k) == SeverityRank(CounterSeverity(k, slo.availability, metrics.window))
           k == metrics[c]
           d == metrics'[c]
<1>1. /\ metrics' = [[metrics EXCEPT ![c].good = @ + 1] EXCEPT ![c].total = @ + 1]
      /\ slo' = slo /\ k # NoData
  BY DEF GoodRequest, Counted, Service
<1>2. k \in Valid /\ d \in Valid /\ d.good = k.good + 1 /\ d.total = k.total + 1
  <2>1. k \in Counts
    BY <1>1 DEF HealthTypeOK, Counters
  <2>2. d = [[k EXCEPT !.good = @ + 1] EXCEPT !.total = @ + 1]
    BY <1>1 DEF HealthTypeOK, Counters
  <2>3. d = [good |-> k.good + 1, total |-> k.total + 1]
    BY <2>1, <2>2 DEF Counts
  <2>4. k.good \in Nat /\ k.total \in Nat \ {0} /\ k.good <= k.total
    BY <2>1, CountsAreValid DEF Valid
  <2> HIDE DEF d, k
  <2>5. d \in Valid
    BY <2>3, <2>4 DEF Valid
  <2> QED BY <2>1, <2>3, <2>5, CountsAreValid
<1>3. Severe(d) <= Severe(k)
  BY <1>2, SuccessNeverAlarms, PillarsAreSound
<1>4. k # NoData
  BY <1>1
<1>5. /\ metrics'.backup = metrics.backup /\ metrics'.drill = metrics.drill
      /\ metrics'.window = metrics.window
      /\ \A x \in Counters \ {c} : metrics'[x] = metrics[x]
  BY <1>1 DEF HealthTypeOK, Counters
<1> HIDE DEF k, d
<1>6. CASE c = "requests"
  BY <1>3, <1>4, <1>5, <1>6, RankIsNumber DEF AsBad, Counters, k, d
<1>7. CASE c = "latency"
  BY <1>3, <1>4, <1>5, <1>7, RankIsNumber DEF AsBad, Counters, k, d
<1> QED BY <1>6, <1>7 DEF Counters

LEMMA TimeIsWorse ==
  ASSUME HealthTypeOK, TimePasses
  PROVE  AsBad(slo, metrics, metrics')
<1>1. PICK hours \in Waits :
             metrics' = [metrics EXCEPT !.backup = Aged(@, hours), !.drill = Aged(@, hours)]
  BY DEF TimePasses
<1>2. hours \in Nat
  BY <1>1, BoundsAreSound
<1>3. \A age \in Nat : Aged(age, hours) \in Nat /\ age <= Aged(age, hours)
  BY <1>2 DEF Aged
<1>4. /\ metrics'.requests = metrics.requests /\ metrics'.latency = metrics.latency
      /\ metrics'.window = metrics.window
      /\ metrics'.backup = Aged(metrics.backup, hours) /\ metrics'.drill = Aged(metrics.drill, hours)
  BY <1>1 DEF HealthTypeOK
<1>5. metrics.backup # NoData =>
        /\ metrics'.backup # NoData
        /\ SeverityRank(BackupSeverity(metrics.backup, slo.rpo))
             <= SeverityRank(BackupSeverity(metrics'.backup, slo.rpo))
  BY <1>3, <1>4, PillarsAreSound, OlderIsWorse, NoDataAssumption
<1>6. metrics.drill # NoData =>
        /\ metrics'.drill # NoData
        /\ SeverityRank(DrillSeverity(metrics.drill, slo.rto))
             <= SeverityRank(DrillSeverity(metrics'.drill, slo.rto))
  BY <1>3, <1>4, PillarsAreSound, OlderIsWorse, NoDataAssumption
<1> QED BY <1>4, <1>5, <1>6, RankIsNumber DEF AsBad

LEMMA RenewalIsBetter ==
  ASSUME HealthTypeOK, NEW a \in Ages, Renew(a)
  PROVE  AsBad(slo, metrics', metrics)
<1>1. metrics' = [metrics EXCEPT ![a] = 0] /\ metrics[a] # NoData
  BY DEF Renew
<1>2. \A age \in Nat :
        /\ SeverityRank(BackupSeverity(0, slo.rpo)) <= SeverityRank(BackupSeverity(age, slo.rpo))
        /\ SeverityRank(DrillSeverity(0, slo.rto)) <= SeverityRank(DrillSeverity(age, slo.rto))
  BY PillarsAreSound, OlderIsWorse
<1>3. metrics[a] \in Nat
  BY <1>1, PillarsAreSound DEF Ages
<1>4. CASE a = "backup"
  BY <1>1, <1>2, <1>3, <1>4, RankIsNumber DEF AsBad, HealthTypeOK
<1>5. CASE a = "drill"
  BY <1>1, <1>2, <1>3, <1>5, RankIsNumber DEF AsBad, HealthTypeOK
<1> QED BY <1>4, <1>5 DEF Ages

\* The overall severity follows the service, whatever the objectives, the
\* windows and the number of requests: no failed request, no time without a
\* backup or drill and no first data lowers it, and nothing good raises it.
THEOREM SeverityFollowsServiceHolds == HealthSpec => SeverityFollowsService
<1>1. ASSUME HealthTypeOK, HealthTypeOK', [HealthNext]_healthVars
      PROVE  (Worse => ReportRank' >= ReportRank) /\ (Better => ReportRank' <= ReportRank)
  <2>1. ReportRank \in 1..4 /\ ReportRank' \in 1..4
    <3>1. \A o, m : SeverityRank(WorstSeverity(o, m)) \in 1..4
      BY SeveritiesAreNamed, WorstIsWorst, RankOfSeverity
    <3> QED BY <3>1 DEF ReportRank
  <2>2. ASSUME Worse PROVE ReportRank' >= ReportRank
    <3>1. slo' = slo
      BY <2>2 DEF Worse, TimePasses, BadRequest, Collect, Counted, Service
    <3>2. AsBad(slo, metrics, metrics')
      BY <1>1, <2>2, TimeIsWorse, FailureIsWorse, FirstDataIsWorse DEF Worse
    <3>3. ReportRank <= ReportRank'
      BY <3>1, <3>2, AsBadReport DEF ReportRank
    <3> QED BY <2>1, <3>3
  <2>3. ASSUME Better PROVE ReportRank' <= ReportRank
    <3>1. slo' = slo
      BY <2>3 DEF Better, GoodRequest, Renew, Counted, Service
    <3>2. AsBad(slo, metrics', metrics)
      BY <1>1, <2>3, SuccessIsBetter, RenewalIsBetter DEF Better
    <3> QED BY <3>1, <3>2, AsBadReport DEF ReportRank
  <2> QED BY <2>2, <2>3
<1> QED BY <1>1, HealthTypeCorrect, PTL DEF SeverityFollowsService, HealthSpec

=============================================================================
