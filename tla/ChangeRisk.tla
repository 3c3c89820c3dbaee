----------------------------- MODULE ChangeRisk -----------------------------
(***************************************************************************)
(* The Change Risk Engine's pipeline (pipeline.py): a migration is parsed, *)
(* its blast radius traced, its risk scored, and the approval policy       *)
(* applied rule by rule.  Between two assessments its author edits the     *)
(* migration, and sees both assessments.                                   *)
(*                                                                         *)
(* A world is what the pipeline is given beside the change:                *)
(*   [graph, database, prod, tables, scanned, incidents, rules],           *)
(* the rules in the order of the names of their files, and of each file.   *)
(* It does not change: two assessments of one session look at one catalog. *)
(***************************************************************************)
EXTENDS RiskPolicy, BlastReport

CONSTANTS
  Worlds,      \* the worlds a change is assessed in
  Migrations,  \* the statement sequences an author starts from
  Statements,  \* the statements an author adds
  MaxEdits     \* bound on the edits of a session

ASSUME EditsAssumption == MaxEdits \in Nat

ASSUME NoneAssumption == None \notin Levels

\* A graph as the builder leaves it, over metadata as the catalog returns it.
ASSUME WorldAssumption ==
  \A w \in Worlds :
    /\ w.prod \in BOOLEAN
    /\ w.rules \in Seq(Range(w.rules)) /\ Range(w.rules) = Range(DefaultRules)
    /\ None \notin DOMAIN w.tables
    /\ \A t \in DOMAIN w.tables : {w.tables[t].gb, w.tables[t].krows} \subseteq Nat \cup {None}
    /\ \A t \in DOMAIN w.incidents : w.incidents[t] \in Nat
    /\ w.graph # None =>
         /\ IsFiniteSet(DOMAIN w.graph.node)
         /\ w.graph.edges \in Seq(Range(w.graph.edges))
         /\ \A e \in Range(w.graph.edges) :
              {e.source, e.target} \subseteq DOMAIN w.graph.node /\ e.confidence \in 0..100

\* The arithmetic of PathConfidence is that of the default max_hops.
ASSUME HopsAssumption == MaxHops \in 1..4

\* A statement of the vocabulary has what its kind of statement asks for.
IsStatement(s) ==
  /\ s.shape \in Shapes /\ Range(s.clauses) \subseteq Clauses
  /\ s.tables \in Seq(Range(s.tables)) /\ s.clauses \in Seq(Range(s.clauses))
  /\ s.shape \in {"drop_table", "alter_table"} => s.tables # <<>>

Written == Statements \cup UNION {Range(m) : m \in Migrations}

ASSUME StatementsAssumption ==
  /\ \A m \in Migrations : m \in Seq(Range(m))
  /\ \A s \in Written : IsStatement(s)

VARIABLES
  world,       \* the world of this session
  statements,  \* the statements of the migration
  edits,       \* how often it was edited
  phase,       \* what the pipeline does next
  ops,         \* change.operations
  radius,      \* the blast radius, or NoRadius
  assessment,  \* the assessment as the risk engine returns it
  rule,        \* the policy rule that is applied next
  verdict,     \* final level, approval and recommendations so far
  previous     \* the finished assessment before the last edit, or None

riskVars == <<world, statements, edits, phase, ops, radius, assessment, rule, verdict, previous>>

session == <<world, statements, edits, previous>>

RiskInit ==
  /\ world \in Worlds
  /\ statements \in Migrations
  /\ edits = 0
  /\ phase = "submitted"
  /\ ops = <<>> /\ radius = NoRadius /\ assessment = None
  /\ rule = 1 /\ verdict = None
  /\ previous = None

\* DatabaseChangeAnalyzer.analyze: nothing to analyze.
Reject ==
  /\ phase = "submitted" /\ statements = <<>>
  /\ phase' = "rejected"
  /\ UNCHANGED <<session, ops, radius, assessment, rule, verdict>>

Parse ==
  /\ phase = "submitted" /\ statements # <<>>
  /\ ops' = ParseSql(statements)
  /\ phase' = "parsed"
  /\ UNCHANGED <<session, radius, assessment, rule, verdict>>

\* The node ids of the operations that name an object, in their order: the
\* id of a table, whatever the object is.
ChangedIds(operations) ==
  LET tables == [i \in DOMAIN operations |-> operations[i].table]
      named == Among(tables, STRING \ {None})
  IN [i \in DOMAIN named |-> TableId(<<world.database, named[i]>>)]

\* Mutant: without an operation there is a radius all the same.
RadiusOfNothing(operations) ==
  IF world.graph = None THEN NoRadius ELSE Analyze(world.graph, ChangedIds(operations))

RadiusOf(operations) ==
  IF world.graph = None \/ operations = <<>> THEN NoRadius
  ELSE Analyze(world.graph, ChangedIds(operations))

Trace ==
  /\ phase = "parsed"
  /\ radius' = RadiusOf(ops)
  /\ phase' = "traced"
  /\ UNCHANGED <<session, ops, assessment, rule, verdict>>

\* FactorContext.
Context(operations, impact) ==
  [ops |-> operations, prod |-> world.prod, tables |-> world.tables, radius |-> impact,
   scanned |-> world.scanned, incidents |-> world.incidents]

\* RiskEngine.assess.  A factor that is left out weighs nothing, so that the
\* sum over all of them is the sum over the others.
Assessment(c) ==
  LET score == Weighted(Calculated(c))
  IN [scores |-> Scores(c),
      score |-> score,
      level |-> RiskLevelFor(score),
      confidence |-> Confidence(c),
      recommendations |-> Recommendations(c)]

\* The policy starts from the level of the risk engine.
Assess ==
  /\ phase = "traced"
  /\ assessment' = Assessment(Context(ops, radius))
  /\ verdict' = [level |-> assessment'.level, approval |-> FALSE, extra |-> {}]
  /\ rule' = 1
  /\ phase' = "assessed"
  /\ UNCHANGED <<session, ops, radius>>

\* RiskPolicyEngine.evaluate: what the rules see.  The level is that of the
\* risk engine, also when an earlier rule has raised it.
Document(found, operations) ==
  [is_production |-> world.prod,
   overall_score |-> found.score,
   risk_level |-> found.level,
   confidence |-> found.confidence,
   factors |-> [f \in Counted |-> [score |-> found.scores[f]]],
   operation_types |-> {operations[i].operation : i \in DOMAIN operations}]

\* A rule raises the level, and never lowers it.
Escalated(level, candidate) ==
  IF candidate # None /\ Rank[candidate] > Rank[level] THEN candidate ELSE level

\* Mutant: what an earlier rule asked for is forgotten.
ApplyLast(r) ==
  [level |-> Escalated(verdict.level, r.level),
   approval |-> r.approve,
   extra |-> verdict.extra \cup r.recommend]

Apply(r) ==
  [level |-> Escalated(verdict.level, r.level),
   approval |-> verdict.approval \/ r.approve,
   extra |-> verdict.extra \cup r.recommend]

ApplyRule ==
  /\ phase = "assessed" /\ rule <= Len(world.rules)
  /\ verdict' = IF Triggered(world.rules[rule], Document(assessment, ops))
                THEN Apply(world.rules[rule]) ELSE verdict
  /\ rule' = rule + 1
  /\ UNCHANGED <<session, phase, ops, radius, assessment>>

\* The assessment is returned with its explanation.
Finish ==
  /\ phase = "assessed" /\ rule > Len(world.rules)
  /\ phase' = "done"
  /\ UNCHANGED <<session, ops, radius, assessment, rule, verdict>>

-----------------------------------------------------------------------------
(***************************************************************************)
(* The author.                                                             *)
(***************************************************************************)
Resubmit(edited) ==
  /\ phase = "done" /\ edits < MaxEdits
  /\ edits' = edits + 1
  /\ statements' = edited
  /\ previous' = [statements |-> statements, ops |-> ops, assessment |-> assessment, verdict |-> verdict]
  /\ phase' = "submitted"
  /\ ops' = <<>> /\ radius' = NoRadius /\ assessment' = None /\ verdict' = None
  /\ rule' = 1
  /\ UNCHANGED world

\* A statement is added at the end.
AppendStatement == \E s \in Statements : Resubmit(Append(statements, s))

\* The last two statements change places.
SwapStatements ==
  LET n == Len(statements) IN
  /\ n >= 2
  /\ Resubmit([statements EXCEPT ![n] = statements[n - 1], ![n - 1] = statements[n]])

RiskNext ==
  \/ Reject \/ Parse \/ Trace \/ Assess \/ ApplyRule \/ Finish
  \/ AppendStatement \/ SwapStatements

RiskSpec == RiskInit /\ [][RiskNext]_riskVars

-----------------------------------------------------------------------------
Returned == phase = "done"

Grown == Returned /\ previous # None /\ IsPrefix(previous.ops, ops) /\ previous.ops # <<>>

Reordered ==
  /\ Returned /\ previous # None
  /\ Len(previous.statements) = Len(statements)

\* A hundred points, in hundredths, and full confidence, in ten-thousandths.
Whole == 10000

\* An assessment's numbers are in their ranges.
RiskTypeOK ==
  assessment # None =>
    /\ assessment.score \in 0..Whole
    /\ assessment.confidence \in 0..Whole
    /\ assessment.level \in Levels
    /\ verdict.level \in Levels

\* A change that does more is never assessed as safer: an operation added at
\* the end lowers no factor, so neither the score, nor the level after
\* policy, nor the need for approval, whatever the dependency graph, the
\* sizes, the scans and the incidents.  The catalog must know one of the
\* tables already: a first known, small table replaces the cautious
\* assumption about unknown ones.
LargerNeverSafer ==
  Grown /\ (\E i \in DOMAIN previous.ops : previous.ops[i].table \in DOMAIN world.tables) =>
    /\ \A f \in Counted : previous.assessment.scores[f] <= assessment.scores[f]
    /\ Rank[previous.verdict.level] <= Rank[verdict.level]
    /\ previous.verdict.approval => verdict.approval

\* The order of the statements moves one factor at most, replication_impact:
\* a resource keeps the path from the first object that reaches it
\* (analyzer.py:72), and whether it counts as a replica depends on the path.
OrderMovesReplicationOnly ==
  Reordered =>
    \A f \in Counted \ {"replication_impact"} : previous.assessment.scores[f] = assessment.scores[f]

\* A production change that the policy leaves at HIGH or CRITICAL needs
\* approval, whether the score or a rule put it there, and in whatever order
\* the rules stand: an escalation does not count on a rule that comes later,
\* and one that came earlier is not undone.
RiskyProductionNeedsApproval ==
  Returned /\ world.prod /\ verdict.level \in {"high", "critical"} => verdict.approval

\* What the author wrote: a statement of one kind, or a clause that means it,
\* with the word COLUMN or in the short form.
WritesClause(s, kind, forms) ==
  /\ s.shape = "alter_table"
  /\ \E i \in DOMAIN s.clauses : Means(s.clauses[i], kind) /\ s.clauses[i] \in forms

WritesInFull(s, kind) == s.shape = kind \/ WritesClause(s, kind, Clauses \ ShortForms)

WritesShort(s, kind) == WritesClause(s, kind, ShortForms)

Destructive == {"drop_table", "drop_column", "alter_column_type"}

\* Each of the two follows from a factor, and is asked for where it counts.
Demanded ==
  /\ "rollback_difficulty" \in Counted =>
       Recommend("rollback plan", TRUE) \in assessment.recommendations
  /\ "backward_compatibility" \in Counted =>
       Recommend("verify compatibility", TRUE) \in assessment.recommendations

Doubted == assessment.confidence <= 8500

\* Nothing that destroys data goes by: a statement that drops a table or a
\* column or changes a type, anywhere in a migration, also after operations
\* that are easy to undo, makes the production assessment demand a rollback
\* plan and a check of the applications, whatever is known of the tables and
\* with or without a dependency graph.  The one spelling the parser does not
\* understand, DROP without COLUMN, need not be demanded anything for, but
\* then at most 85% confidence is left, also with full metadata and a graph.
DestructionIsFlagged ==
  Returned /\ world.prod =>
    \A i \in DOMAIN statements : \A kind \in Destructive :
      /\ WritesInFull(statements[i], kind) => Demanded
      /\ WritesShort(statements[i], kind) => Doubted

\* A clause that adds a named constraint is never taken for a new column,
\* which it also looks like: the lock risk is that of validating the rows.
ConstraintsLock ==
  Returned /\ "lock_risk" \in Counted =>
    \A i \in DOMAIN statements :
      statements[i].shape = "alter_table" =>
        \A k \in DOMAIN statements[i].clauses :
          statements[i].clauses[k] \in NamedConstraints => assessment.scores.lock_risk >= 60

\* Nothing that the pipeline could not read passes for a change without
\* risk: a migration of which the parser returns no operation at all
\* (TRUNCATE), one with three clauses it does not understand, and any one
\* assessed without a dependency graph is marked for a manual review,
\* wherever the rule that asks for it stands.
UnreadIsReviewed ==
  Returned /\ (ops = <<>> \/ Cardinality({i \in DOMAIN ops : ops[i].operation = "unknown"}) >= 3
               \/ world.graph = None) =>
    Recommend("manual review", FALSE) \in verdict.extra

-----------------------------------------------------------------------------
(***************************************************************************)
(* The inductive invariant behind them: every result is the function of    *)
(* the statements, the world and the rules that the stages compute.        *)
(***************************************************************************)
AssessmentOf(operations) == Assessment(Context(operations, RadiusOf(operations)))

\* A decision that takes every rule of a set into account.
Heeds(decision, rules, level, document) ==
  LET triggered == {r \in rules : Triggered(r, document)} IN
  /\ decision.level = IF \E r \in triggered : r.level = "critical" THEN "critical" ELSE level
  /\ decision.approval \in BOOLEAN
  /\ decision.approval <=> \E r \in triggered : r.approve
  /\ decision.extra = UNION {r.recommend : r \in triggered}

\* The decision after the first n rules.
Decided(decision, n, found, operations) ==
  Heeds(decision, {world.rules[i] : i \in 1..n}, found.level, Document(found, operations))

Swapped(s) ==
  LET n == Len(s) IN
  IF n >= 2 THEN [s EXCEPT ![n] = s[n - 1], ![n - 1] = s[n]] ELSE s

\* What is known of the assessment before the last edit.
PreviousComputed ==
  previous # None =>
    /\ previous.statements \in Seq(Written)
    /\ previous.ops = ParseSql(previous.statements)
    /\ previous.assessment = AssessmentOf(previous.ops)
    /\ Decided(previous.verdict, Len(world.rules), previous.assessment, previous.ops)
    /\ \/ \E s \in Written : statements = Append(previous.statements, s)
       \/ statements = Swapped(previous.statements)

Computed ==
  /\ world \in Worlds /\ statements \in Seq(Written)
  /\ phase \in {"submitted", "rejected", "parsed", "traced", "assessed", "done"}
  /\ phase \in {"parsed", "traced", "assessed", "done"} => ops = ParseSql(statements)
  /\ phase \in {"traced", "assessed", "done"} => radius = RadiusOf(ops)
  /\ phase \in {"assessed", "done"} =>
       /\ assessment = AssessmentOf(ops)
       /\ rule \in 1..(Len(world.rules) + 1)
       /\ Decided(verdict, rule - 1, assessment, ops)
  /\ phase = "done" => rule = Len(world.rules) + 1

=============================================================================
