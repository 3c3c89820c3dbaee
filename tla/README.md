# Verification of the DBRE platform and the Change Risk Engine

This directory holds TLA+ models of the two Python packages of the repository,
`dbre_platform` (provisioning, policies, audit, backup) and
`change_risk_engine` (impact and risk of a schema change), the TLC
configurations that check them on small instances, and proofs that hold for
every value of the constants. Paths below are relative to `src/src/` unless
they start with `docs/`, `policies/` or another directory of the repository.

## The system

| Part | State it keeps | Operations | Talks to |
|---|---|---|---|
| Audit log (`dbre_platform/audit/logger.py`, `change_risk_engine/audit.py`) | a JSON Lines file, each line with the hash of the one before | `record`, `read_all`, `verify_chain` | every CLI command, every API handler |
| Request configuration (`config/`) | none | load, override, validate | CLI |
| Policy engine (`dbre_platform/policy/`, `policies/`) | rules loaded once | `load`, `evaluate` | provisioning gate, CLI |
| Readiness scorecard (`readiness/`) | none | `assess_readiness` | provisioning gate, CLI |
| Provisioning gate (`provisioning/base.py`, `cli/main.py request provision`) | the audit log | `provision` | policy, readiness, one provisioner, audit |
| Local Docker provisioner (`provisioning/local_docker.py`) | superuser file, compose override, credentials files, container, server | `_provision` | docker, psql |
| k3s provisioner (`provisioning/k3s.py`) | namespace, cluster, secret, port-forward | `_provision` | kubectl, psql |
| AWS provisioner (`provisioning/aws_rds.py`) | tfvars, plan and state files | `_provision` | terraform |
| SQL helpers (`postgres/`) | roles, settings and extensions on a server | `run_sql`, `run_script`, rendering | provisioners, backup, queries |
| Local backups (`backup/local_backup.py`) | dumps and their sidecars | create, list, verify, restore, prune | pg_dump, pg_restore |
| Recovery drill (`backup/dr_test.py`) | a throwaway database | `run_dr_test` | local backups, psql |
| AWS backups (`backup/aws_backup.py`) | none (RDS snapshots) | describe, restore command | AWS CLI |
| SLO, capacity, observability, tagging | none | calculators, queries, dashboards | CLI |
| Change pipeline (`change_risk_engine/pipeline.py`, `analyzers/`, `connectors/`) | none | parse, resolve, assess | dependency graph, blast radius, risk, policy |
| Dependency graph and blast radius (`dependencies/`, `blast_radius/`) | a graph per assessment | build, reach | pipeline |
| Risk engine and approval policy (`risk/`, `policy/`) | none | score, evaluate | pipeline |
| Assessment store (`persistence/`) | one JSON file, or one row, per change, assessment, deployment, outcome and override | save, get, list | API, CLI |
| HTTP API and CLI (`api/`, `cli/`) | none of their own | assess, report, record deployments | everything above |

The hard behaviours are few and specific: nothing in either package takes a
lock, so every file that two `dbre` processes (or two worker threads of the
API) share is read and written in interleaved steps; every external tool may
fail, or be given up on while it succeeds; a process may be killed between any
two steps, and several of them are not retried safely. What must survive all
of that is the audit trail, the policy gate, and the agreement between what a
command reports and what it left behind.

## The modules and the code

| Module | Models | Extends |
|---|---|---|
| `AuditLog` | `AuditLogger` of both packages | |
| `ProvisionGate` | `Provisioner.provision`, `request provision`: the abstract specification of a provisioner | |
| `LocalProvision` | `LocalDockerProvisioner._provision` behind the gate | `ProvisionGate` |
| `K3sProvision` | `K3sProvisioner._provision` behind the gate | `ProvisionGate` |
| `AwsProvision` | `AwsRdsProvisioner._provision` behind the gate, and what Terraform does with its files | `ProvisionGate` |
| `LocalBackup` | `LocalBackupManager`, `backup create`, `backup restore` | |
| `DrTest` | `run_dr_test`, `dr-test run` | `LocalBackup` |
| `DurableRecords` | the abstract specification of a store of records | |
| `AssessmentStore` | `FileAssessmentStore` under the API handlers, `cre analyze` and `cre history`; implements `DurableRecords` | |
| `DependencyGraph` | the graph, its builder and its edges (`domain/dependency.py`, `dependencies/`) | |
| `BlastRadius` | `BlastRadiusAnalyzer.analyze` and the breadth-first search, one edge at a time | `DependencyGraph` |
| `BlastReport` | what that search finds, as an operator, and the figures rolled up from it | `DependencyGraph` |
| `DdlParser` | `analyzers/database/parser.py` over shapes of statements | |
| `RiskFactors` | the thirteen factors, the score, the confidence and the recommendations (`risk/`) | `DdlParser` |
| `RiskPolicy` | the approval rules as data and the operators they use (`change_risk_engine/policy/`, `policies/risk/`) | `RiskFactors` |
| `ChangeRisk` | `pipeline.run` with the policy engine, and the author who edits the migration | `RiskPolicy`, `BlastReport` |
| `DbRequest` | overrides, validation and tags of a request document (`config/`, `tagging/`) | |
| `RequestPolicy` | the rules of `policies/*.yaml`, their engine, and the readiness scorecard | `DbRequest` |
| `RequestDecision` | load, policy and readiness of one command while options and files change | `RequestPolicy` |
| `SloReport` | `slo/calculator.py` | |
| `CapacityForecast` | `capacity/forecasting.py` | |
| `ServiceHealth` | what both say of a service as its figures change | `SloReport`, `CapacityForecast` |
| `RecordsProofs` | the theorems of `AuditLog` and `AssessmentStore` | both, `TLAPS` |
| `ChangeRiskProofs` | the theorems of `BlastRadius` and `ChangeRisk` | both, `TLAPS` |
| `VerdictProofs` | the theorems of `RequestDecision` and `ServiceHealth` | both, `TLAPS` |
| other `...Proofs` | the theorems of the module they are named after; `DrTestProofs` also those of `LocalBackup`, whose actions the drill uses | the module, `TLAPS` |
| `MC...` | model values and small sets for TLC | the module |

**AuditLog.** One element of `Calls` is one call of `record()`, by whatever
process or thread. `ReadLast` is `_last_hash`; `AppendLine` is the rest of the
method. Between the two steps other calls may run: nothing in the code prevents
it. `TearLine` and `FailBeforeWrite` are a process that dies, or a disk that is
full, around the write; since the file is opened in append mode, the next line
continues an incomplete one (`AfterWriting`). `Rewrite` is somebody with an
editor, who may remove the last line any number of times and then make one
change. `Verdict` is `verify_chain`, which reads the whole file and does not
write, so it is an operator and not a step. SHA-256 is idealised: a digest is
the call that computed it, so no two payloads share one.

**ProvisionGate.** One element of `Runs` is one invocation of
`dbre request provision`. `stage` is how far it has come: policy, readiness,
the provisioner's hook, the event it has yet to record, and the way it ended.
What the hook does is open (`HookReturns`, `HookRaises`). The verdicts are
constants, `Compliant` and `Ready`, except for the one rule whose content
matters to a property, `prod-platform-supported`. `Kill` is Ctrl-C, which is no
`Exception`, and every harder end.

**LocalProvision.** `step` is the position inside `_provision`; the other
variables are the files in `.dbre/`, the container and the server. Each file
access, `docker compose` call and psql call is an action, with a way to fail
before its effect (`StepFails`) and one to fail after it (a timeout). A
password is the run that generated it; a parameter file is the request it was
rendered from. The role script is one step, all or nothing: that a script may
stop after some of its six roles is left out.

**K3sProvision.** The runs share the Kubernetes cluster and
`.dbre/credentials/`. `manifest` is what `kubectl apply` stored, `serving` what
the instances run with: the operator's `Reconcile` brings the second in line
with the first at its own time, or never. `Drops` is one try of `_resilient`
that fails, before or after the server did its work; `SpawnForward` is
`_PortForwardTunnel.ensure`. `Legacy` stands for the manifest of a Cluster
somebody made without the request's database: its bootstrap differs, and is the
reason for the code's own `CREATE DATABASE`.

**LocalBackup.** One element of `Jobs` is one command. The jobs work on one
full name, since another name has a directory of its own. Files are indexed by
the second in their name. `DumpOpens` and `DumpEnds` are the two ends of
pg_dump; `linked` says whose open file is the one in place, because a dump that
is unlinked while it is written is lost. `OpenSidecar` and `WriteSidecar` are
`write_text`, which is not atomic. `Record` is the command's audit event. A
`Damage` is a disk error; one between the check of a file and its use is left
out, since no check made beforehand can see it.

**DrTest.** The drill uses the actions of `LocalBackup` for its backup and its
restore, and adds its own: `StartDrill`, one action for each `DrTestStep`,
`Interrupt`, `RecordDrill`. `scratch` is the set of throwaway databases that
exist.

**AssessmentStore.** One element of `Jobs` is one API request, which a worker
thread handles, or one `cre` command. Ids are fresh, so a change is named by the
job that submitted it and an assessment by the job that made it. `OpenChange` and
`WriteChange`, and the same two for an assessment, are `write_text`: it empties
the file, then fills it. Two jobs can assess one change and so write one file;
`opener` is the one that truncated it last, whose write is the one that makes
it whole. The contents of a change do not differ from one write to the next,
because the pipeline derives its operations from the SQL alone. `StartList` is
the `glob` and the `stat` calls of `list_assessments`, taken together as one
step, `ReadNext` and `ReadCut` one turn of its loop. The clock of the file
system (`now`) may give two writes one time. `RecordEvent` is the audit event
and the answer, which comes right after it. `Stop` is a process that dies or a
call that raises. An "announced" record is one that an event and an answer
tell of; `expected` remembers the announced assessments that a listing could
see when it began.

**AwsProvision.** Each step of `_provision` is an action: the tfvars file,
`terraform init`, `plan`, `apply`. `tfplan`, `state` and `tfvars` are the files
of an environment's one directory, which all runs for it share; `rds` is what
exists in AWS. A saved plan knows whether the state has changed since
(`fresh`), because Terraform refuses it then. Terraform writes the state after
each instance it destroys or makes. `PartlyApplied` is an apply that fails in
between, by itself: the old instance of a replacement is gone from AWS and from
the state, the new one could not be made, and the plan is stale. `CutOff` is an
apply that `subprocess.run` kills after 600 seconds, or that dies with the
command: AWS has moved, and the state has not, or only over the old instance.
`ApplyByHand` is what `docs/provisioning-aws.md` tells the user of a run without
`auto_approve` to do; it may succeed or fail half-way. `Replaces`, `Removable`
and `Protected` come from `terraform/`: the database's name forces a
replacement, and `environments/prod/main.tf` hardcodes the deletion protection.

**DependencyGraph, BlastRadius, BlastReport.** `AddDatabaseMetadata` and
`AddAppConfig` are the builder's two entry points, edge by edge, with what they
drop. In `BlastRadius`, `Begin` is one turn of the loop over the changed
objects, `Pop` is `frontier.pop(0)`, `FollowEdge` one turn of the loop over the
adjacency list, and `CollectDownstream` and `CollectUpstream` the merging of a
search into the result. `visited`, `frontier` and the results keep the path
(`via`), which is the evidence an assessment shows. `BlastReport!Downstream` is
the same search as recursive functions - over the edges of a node (`FollowEach`),
over the nodes (`Expansions`), over the changed objects (`Impacts`) - which
`ChangeRisk` uses; `NothingIsMissed` says that the two agree, and is a theorem.

**DdlParser, RiskFactors, RiskPolicy, ChangeRisk.** A statement is its shape,
the objects it names and the shapes of its clauses. What a regular expression
matches is a set of shapes, and `PatternOrder` is the order in which the
patterns are tried, which decides because the sets overlap. A risk factor is an
operator over the `FactorContext`; scores are the code's whole numbers, the
weighted score is in hundredths, so nothing is rounded that the code does not
round. `Calculated` has the thirteen, and `Scores` only those with a weight
(`Counted`), since `compute_factors` leaves the others out, and with them what
would be recommended because of them. A policy rule is a record, as in the YAML
file, and the order of the rules belongs to the world. The actions of
`ChangeRisk` are the stages of `pipeline.run` - `Parse`, `Trace`, `Assess`, and
`Apply` for one rule - and the edits of an author who submits the migration
again; `previous` is the assessment before the edit, so that the properties can
compare the two. Everything with a loop in the code - the statements of a file,
the objects named in the graph, the incidents, the paths of a policy rule - is a
recursive function over the positions of a sequence (`Parsed`, `Kept`,
`IncidentCounts`, `Products`, `Totals`, `Resolve`). A search without a graph
gives `NoRadius`.

**DbRequest, RequestPolicy, RequestDecision.** A request document is a function
from paths to values. Values stand for what the rules and the checks tell apart
(an owner is known, or too short). `GlobalTags` is a constant, since
`policies/tagging.yaml` may hold any. `Customized` is the template with `--set`,
the named flags and the added extensions, in the order of `cli/main.py`;
`IsValid` and `Validated` are the loader. `RequestDecision` has the command's
three steps, each reading the files that are there at that moment, and a user
who adds options (`Retype`) and files that come and go (`MoveFile`).

**SloReport, CapacityForecast, ServiceHealth.** Fractions are compared as
integers, multiplied out; the regression keeps numerator and denominator. The
actions of `ServiceHealth` are the events of a service: a request served or
failed, time without a backup or a drill, a new sample. Divisions by zero are
outcomes of their own (`SloReport`), not guards.

## What is checked

Nothing in either package waits for another process, and all of it comes to an
end; every configuration therefore turns the deadlock check off. (The final
states, where every call, run or job is over, are what TLC would report.)

| Run | Instance | What it shows |
|---|---|---|
| `AuditLog` | 4 calls, one change to the file after removals of the last line | the chain raises no false alarm, keeps detecting the change, and loses and doubles nothing |
| `LocalProvision` | 2 runs, 5 requests, `--mode` request and local | a success is backed by the machine, credentials of a sole run work, only gated runs leave traces; the module implements `GateSpec`; every run ends |
| `K3sProvision` | 2 runs, 3 requests, 2 tries | the same behind an operator and a tunnel; port-forwards are closed |
| `K3sRetry` | 2 runs one after the other, 1 request, 2 tries | refuted: a retry after a failure saves credentials that work |
| `AwsProvision` | 3 runs, 2 of them approving, 5 requests, any interleaving with applies by hand, applies that fail half-way | the module implements `GateSpec`; no production instance is taken down; a sole run's success is live; an instance Terraform does not know has a run to answer for it |
| `DrTest` | 2 jobs, each a drill, a backup, a restore or a prune, 2 seconds of 2 ticks, retention 0 and 1, 2 queries | what verifies is whole and stays until it expires; a restore loads what its metadata say; a passed drill restored its own dump and cleaned up; debris is reported |
| `LocalBackupSameSecond` | 2 jobs, no drills | refuted: without a prune, a backup reported as made is there |
| `AssessmentStore` | 3 jobs, limits 0 and 2 | announced assessments stay whole (`DurableRecords`); every assessment has its change, and a cut-off one has somebody to blame; a listing prefers no older assessment |
| `BlastRadius` | every set of 6 foreign keys over 3 tables, with and without an application configuration, changes of up to 2 objects, 3 hops | each search finds exactly what is in reach, by shortest paths; the analysis misses nothing and every path it cites exists |
| `ChangeRisk` | 6 worlds, each with the rules in both directions, migrations of up to 3 statements, 2 edits | a larger change is never safer, order moves one factor only, risky production changes need approval, destruction is flagged, a constraint is not taken for a column, what could not be read is reviewed |
| `RequestDecision` | the 4 example requests, up to 3 of 38 options, either file missing, global tags that shadow required ones | policy and readiness agree; hardening a request never gets it refused; one of the two files is enough for what is not negotiable; required tags hold |
| `ServiceHealth` | 3 objectives, 2 counters of 2, ages to 31 days; 4 samples | severity follows the service; growth never calms a forecast |

### Bounds

* *4 calls of `record()`.* A broken link needs two lines, a swap or an inner
  deletion that has been hidden by later appends needs three, and a fourth call
  is left to be torn or killed among them.
* *2 runs.* The interference between runs is pairwise: one run finds what
  another one left or is leaving. The requests share a name in two
  environments, a full name in two namespaces, have different names, break the
  platform rule, or score too low (in `LocalProvision`; in `K3sProvision` all
  of them pass, and one has another backend). That the properties hold for any number of
  runs and requests is proved.
* *`Attempts` = 2* instead of 4: the first try, which is repeated, and the
  last, which is not. The proofs are for any number.
* *2 jobs in 2 seconds.* A drill makes a backup, checks it and restores it, so
  that with a prune beside it a dump goes between any two of these steps; a
  backup and a restore, two backups or two drills are the other pairs, and two
  can share a second or not. `TicksPerSecond` = 2 lets two jobs start in one
  second at different times, which is what the names of the files cannot tell
  apart. Retention 0 and 1 tell an expired backup from one that is not yet. With
  2 queries a failing one may come before one that succeeds. That the properties
  hold for any number of jobs and seconds is proved.
* *3 runs in AWS.* Two that approve can apply each other's plans and stale
  plans, a third can only leave a plan behind for them and for the user. Two
  names in each of two environments tell a change of an instance from its
  replacement, and dev has a protected and an unprotected one. The two
  approving runs are interchangeable (symmetry); 2.5 million states.
* *3 tables, 6 foreign keys.* Chains, a diamond, a table that refers to
  itself, and cycles of two and of three, in every combination, beside two edges
  between one pair and nodes the catalog does not know. With `MaxHops` 3 a node
  may be in reach, at the limit or beyond it. Two changed objects may be
  reached from each other. That paths exist and are never replaced, and that a
  search is exact and the report complete, is proved for every finite graph and
  every limit.
* *Statements and worlds.* Each shape the parser tells apart occurs, alone and
  after others; the worlds have or lack a graph, sizes on both sides of the
  thresholds, unknown sizes, scans and incidents, in production and elsewhere,
  and each has the rules as they are shipped and the other way round, so that
  every two of them occur in both orders.
  Monotonicity and order are properties of pairs of assessments, one edit apart,
  so 2 edits give a first and a last operation and one between them. That they
  hold for migrations of any length, any graph, catalog and weights is proved.
* *3 options.* The request is never more than three fields away from one of the
  shipped examples, which lie on either side of every rule; an option that
  breaks a rule, one that repairs it and a third that interferes is the longest
  combination a rule or check depends on. Values stand at the limits of rules,
  checks and types (29 days beside 30, 9989 beside 9990, 601 seconds beside 600).
  For all requests of the schema the properties are proved.
* *Counters of 2, samples of 4.* With 2 requests a counter is perfect, half bad
  or all bad, which with windows of 1 and 7 days and three objectives meets each
  burn rate on both sides. 4 samples are the least whose last can change the
  slope, the fit and the branch at once; dates may coincide and come out of
  order. For counters of any size the severity is proved to follow.
* *3 jobs over the store.* Two jobs that write one change and a third that
  lists, or that submitted it; two assessments to be listed in order. A limit
  of 2 is reached or not; 0 is the boundary at which a listing still gives one
  result, and 1 is what the views of a single change ask for. That the
  properties hold for any number of jobs, changes and limits is proved.

### Fairness

Only `EveryRunEnds` needs it. `FairSpec` asks weak fairness of `Progress(r)`,
the steps of a run that are its own: a process that is not killed keeps
executing. That a call never blocks for ever is justified by the code, which
gives every `subprocess.run` a timeout and every wait loop a deadline. Nothing
is assumed of the CloudNativePG operator: a run must give up on a Cluster that
never becomes healthy. Neither is a tunnel assumed to work eventually.

## What is proved

TLAPS checks the theorems of eight modules, for every value of the constants.
Every safety property that a passing run checks is among them, but for one
(below). `PROJECT.json` lists the theorems and what each one says.

* `RecordsProofs`, of the audit log: `AuditTypeOK`, `NoFalseAlarm`, `EventsDurable` and
  `ChangeDetected`. The invariant
  `AuditInv` adds what they do not say themselves: who wrote each line
  (`LinesWritten`, `LinesUnique`, `DoneRecorded`), that without overlap one
  call at most is between its read and its append (`OneReader`), and that what
  it has seen is still the last line (`ReaderFresh`). The last is the heart: it
  makes the next link right, and is what an overlap breaks. For `ChangeDetected`
  the invariant must also survive removals of the last line, which no check can
  see: the hash a call has read, or a line links to, is then right or `Lost`,
  that is, of a line that is gone and can never come back (`ReaderFreshOrLost`,
  `ChainedOrLost`). A changed line cannot repair such a link by chance. That a
  call whose line is there never writes again is `LinesPast`, and
  `GarbledIsLast` keeps an incomplete line at the end. The theorem is about one
  such change: a later removal of the last line could take the change itself
  away, and a second change undo the first.
* `ProvisionGateProofs`: `GateFailsClosed` and `TrailFaithful`, for any
  provisioner. `GateInv` adds `StageMatchesVerdicts`, which verdict each stage
  has passed.
* `LocalProvisionProofs` and `K3sProvisionProofs`: each module implements
  `GateSpec` (the step of a run is a step of the gate or leaves the gate's
  variables alone), so it inherits the two properties above. Then
  `OnlyGatedLeaveTraces`, `SuccessIsBacked`, `SoleRunCredentialsWork`, and
  `SuperuserFileMatches` and `ForwardsClosed` respectively. `SuccessIsBacked`
  is not inductive: the strengthening `StepIsBacked` lists, for each step of
  the hook, what a run there can rely on, and the sets `WithDatabase`,
  `WithServer`, ... make that a chain, so that each action has to show one new
  conjunct. It holds with runs in parallel because no action of any run takes
  away what another relies on: databases, settings, roles and files are
  replaced, never removed. `OwnNames` says whose passwords are kept where,
  which with "alone" gives `SoleRunCredentialsWork`. `FirstRun` is the race
  for the superuser file. `ManifestFirst` is what the operator keeps.
* `RecordsProofs`, of the assessment store: `TypeOK`, `AssessmentsDurable` (each step is a `Save` or an
  `Announce` of `DurableRecords`, or leaves both sets alone), `ChangesBehind`
  and `ListsTheNewest`. In `StoreInv`, `StepIsBacked` says what a job at each
  step has written; it gives the refinement. `ChangeExists` and `CutExplained`
  give `ChangesBehind`: a file is never removed, and when it is cut off its
  `opener` has neither finished nor saved an assessment. `ListsAhead` is the
  invariant of the listing's loop: what it is expected to find it has found, or
  still has before it with an up-to-date time and nothing older behind it. It
  survives other jobs because an announced assessment is not touched again and
  times only grow.
* `AwsProvisionProofs`: the module implements `GateSpec`; `TypeOK`,
  `ProdStaysUp`, `SoleRunIsLive` and `OrphansAreReported`. `ProdStaysUp` needs
  to know that an instance found under a name is that of a request of this name
  and environment (`InstancesAreNamed`), or the hardcoded protection would be
  that of another one, and that a run at its apply works in an environment that
  has a directory (`UnderWay`). `ApplyLeaves` says what an apply may leave of
  AWS, the state and the plan, complete, failed half-way, cut off or by hand,
  and `RdsAfterApply` covers them together.
  The other two are part of `AwsTraceInv`: the files of a directory are about
  its own environment (`FilesAreNamed`), whatever is found there or in AWS some
  run was asked for (`TracesHaveRuns`), only an approving run applies
  (`OnlyApprovingApply`), and by nothing else does it succeed
  (`SuccessesApplied`). An apply that fails half-way makes the state forget an
  instance, but one that is gone (`OnlyTheGoneIsForgotten`).
* `ChangeRiskProofs`, of the search: `EvidenceIsAPath`, `FirstPathStays`, `SearchIsExact` and
  `NothingIsMissed`, for every finite graph, change and limit. The heart of
  `BlastInv` is `FrontierIsSorted`: the frontier is sorted by distance and spans
  at most one edge beyond the node that is expanded, which makes the branch of
  `_traverse` that would replace a path unreachable. `NothingIsDropped` says of
  each node found where it stands: in the frontier, under expansion, or behind
  with all its edges followed. It gives `SearchIsClosed`: a search that has
  ended has followed every edge of the changed object and of every node nearer
  than the limit. A node in reach that such a search has not found would have a
  nearest one before it on its path, which is a contradiction (`ReachIsFound`):
  the induction on the distance is written as the choice of a least
  counterexample, since the library's induction theorems cannot be used here.
  With `EvidenceIsAPath` that is exactness. `NothingIsMissed` compares the steps
  with the functions of `BlastReport`. `SearchIsReported` says that the search
  is at one of the report's expansions, some of its edges followed, and that
  the nodes found bound the number of expansions, so the functions are long
  enough; `ListIsReported` says the same of the changed objects already done.
  That the recursive functions have values at all is proved first (`RunExists`),
  again by a least counterexample.
* `ChangeRiskProofs`, of the assessment: all six properties of the run, and
  `RiskTypeOK`. The inductive invariant, `Computed` and `PreviousComputed`, says
  that what each stage has left is the function of the statements, the world and
  the rules that the code computes (`AssessmentOf`, `Decided`), before the last
  edit too. What remains are facts about those functions, for changes of any
  length, any finite graph and catalog, any weights that add up to one and any
  thresholds.
  `LargerNeverSafer`: the operations before the edit are a prefix of those after
  it, so more nodes are reached (`ImpactJoined`), the sets the figures count grow
  (`AnalyzeGrows`), and so does each of the thirteen factors
  (`KindFactorsGrow`, `TableFactorsGrow`, `ImpactFactorsGrow`); the weighted sum,
  the level and the rules follow (`WeightedGrows`, `LevelGrows`,
  `VerdictGrows`). The hypothesis of the property, a known table in the first
  change, is used in `TableFactorsGrow` and nowhere else.
  `OrderMovesReplicationOnly`: the two changes are the same operations in
  another order (`SwappedParts`), and joining in either order reaches the same
  nodes, though not by the same paths (`AnalyzeSame`), which is why
  `replication_impact` is not in the theorem.
  `DestructionIsFlagged` and `ConstraintsLock`: each clause, read by what it does
  to the table, is followed through `PatternOrder` to its operation
  (`DestructionParses`), which the factors and so the recommendations do not
  lose however many operations surround it. Only the short `DROP` becomes
  `UNKNOWN`, and costs confidence (`ConfidenceBounds`). Both theorems hold for
  any weights: what a factor without weight would ask for is not claimed.
  `RiskyProductionNeedsApproval` and `UnreadIsReviewed` hold with the rules in
  any order: `Decided` says of the rules applied so far, as a set, what they
  have made of the level, the approval and the recommendations (`Heeds`), and
  `RulesAsk` when each shipped rule is triggered. `UnreadIsReviewed` then needs
  that without operations, with three unread clauses or without a graph at most
  55% confidence is left.
  `RiskTypeOK` bounds the average of path confidences by 1, whose paths have at
  most four edges (`SearchesShort`, `PathConfidenceBounds`, `TotalBounds`).
  The induction on the length of a change is written as a least counterexample
  throughout (`UpTo`).
* `VerdictProofs`, of a request: `TypeOK`, `PolicyImpliesReadiness`,
  `OneFileIsEnough`, `HardeningNeverHurts` and `RequiredTagsHold`, for every
  request that the schema admits and not only those near an example. The
  invariant `StagesPassed` says what a request has passed at each stage. Then
  the shipped rules and checks are read out (`ProdRulesSay`, `ChecksSay`) and
  compared: production's rules imply the seven essential checks, whose points
  reach the threshold (`ProdRulesPassChecks`, `CompliantIsReady`); a request short of two essential checks
  misses the threshold (`OneEssentialShort`), and without thresholds the rules
  demand them; a harder request passes the same rules (`HarderPasses`) and more
  checks (`HarderPassesChecks`), and points only add up (`SumMonotone`).
* `VerdictProofs`, of a service: `HealthTypeOK` and `SeverityFollowsService`, for
  all objectives, windows and numbers of requests. The worst severity of one
  report is at most that of another when every pillar of the first is matched
  by one at least as bad (`WorseReport`). Each event is compared pillar by pillar
  (`AsBad`). The arithmetic is `BurnGrows`: when p of q requests are bad, a
  further bad one does not lower the burn rate, because p is at most q.
* `DrTestProofs`: of `LocalBackup`, `BackupTypeOK`, `TrustedIsWhole`,
  `RestoredIsRecorded` and `GoodUntilExpired`; of `DrTest`, `TypeOK`,
  `PassedDrillIsReal` and `DebrisIsReported`. `BackupInv` follows the bytes of a
  second from the job that made them: a sidecar that parses was written in full
  by a job of its second (`SidecarsAreOwned`), the file pg_dump writes stays its
  own until its checksum is computed (`DumpIsOwn`), the checksum is that of a
  whole dump (`DigestIsOfWhole`), a dump that was verified may go before
  pg_restore opens it but not change (`RestoreSeesVerified`), and a prune
  removes only what was recorded and had expired when it began
  (`TodoHasExpired`). `KeepsJobs` is what no step takes from a job, whichever
  step it is, so that the conjuncts about other jobs follow once for all
  actions. In a drill the same invariant holds because the drill takes the same
  steps (`BackupsHoldInDrills`); `DrillInv` adds where a throwaway database may
  exist (`ScratchInPlace`) and what the reports of a drill add up to at each of
  its steps (`DrillsAddUp`).

Assumptions: the sentinels are not among the data (`SentinelsDistinct`,
`GateAssumption`, `K3sAssumption`, `BackupAssumption`, `StoreAssumption`,
`DecisionAssumption`, `NoneAssumption`, `NoDataAssumption`), limits and bounds
are natural numbers, a compliant request meets the platform rule, the edges of a
graph join nodes of the graph (`GraphAssumption`, `WorldAssumption`: the builder
guarantees it by looking its targets up or adding them; the nodes are finitely
many), a search goes one hop at least, and four at most where its confidences
are computed (`HopsAssumption`, the default `max_hops`), sizes and incidents are
natural numbers, the weights add up to one (`WeightAssumption`, which the loader
enforces), a statement that drops or alters tables names one
(`StatementsAssumption`), objectives are positive (`HealthAssumption`, as the
schema says), a request is for one of the three platforms, there is at least one
try of a statement and one query of a drill (an empty list is replaced by
`SELECT 1`), a second has at least one tick.

### Only model-checked

* Liveness (`EveryRunEnds`), which is beyond the prover.
* `GrowthNeverCalms` of `ServiceHealth`. The regression is a quotient of sums
  over a sorted history, by a fold and the library's sort, about which nothing
  is true but by induction on the samples; 4 samples with every combination of
  4 dates and 4 values are checked.

The type invariants of all modules with variables are theorems, and no run
repeats them.

## Where the code and its documents disagree

Two disagreements are runs of their own, each of a statement that TLC refutes.

* `LocalBackupSameSecond`. `BackupMetadata` says that it is everything needed to
  restore one backup later; a failing backup unlinks the dump of one made in the
  same second, for which a success was reported.
* `K3sRetry`. `docs/provisioning-k3s.md` says that provisioning again after a
  failure is safe. A run that fails once its role script took effect, by a
  timeout or before it wrote the credentials file, leaves roles with passwords
  nobody has; the retry creates only missing roles, succeeds, and saves
  passwords of its own. In `LocalProvision` it is the same, and
  `docs/rbac-model.md` says that the role script can be run again.
  `SoleRunCredentialsWork` therefore speaks of a name that one run only has
  worked on.

The others are visible in the models, and are why some properties carry a
condition.

*Provisioning and audit.*

* ADR 0005: an event is chained from the last one's hash. Two overlapping calls
  chain from the same one, and `audit verify` reports tampering for ever
  (`NoFalseAlarm` speaks of calls that do not overlap). The removal of the last
  lines is not detected either, where the ADR promises detection of any deletion
  (`DeleteLast` is why `altered` has a value of its own).
* `policies/environments/prod.yaml` says that production never takes the bare
  local Docker path. `--mode local` overrides the platform after the rule has
  been judged on the request's own (`Backend`), and the run succeeds.
* `docs/disaster-recovery.md` says that a failed drill leaves no debris, since
  it drops its database in a `finally`. `CREATE DATABASE` is before the `try`:
  when psql is given up at its timeout and the server carries the statement out
  (`TargetStep`), the drill raises and the database stays (`DebrisIsReported`
  speaks of drills that report). The `ExecutorError` also leaves the command
  without an audit event. A drill asks its remaining queries after one has
  failed, where the same document says it stops.
* `k3s.py` says that every statement may be sent again. `CREATE DATABASE` is
  checked once and sent again without a check.
* A torn last line makes every later `record()` raise (`ReadFails`), and so
  every gated command fail; a policy or threshold file that does not load ends
  a run without an event (`GateRaises`).
* Two first runs in local mode generate two superuser passwords, and the server
  may keep the one the file does not have, after which no run gets in
  (`raced`); the container may be started with the parameters of another run's
  request (`override`).
* Two AWS runs for one environment share `tfplan`, so that the plan applied may
  be the other's (`SoleRunIsLive` speaks of a run alone), and an apply killed
  after 600 seconds leaves an instance that the state does not know and every
  retry collides with (`OrphansAreReported` asks for a run of the environment
  to answer for it).

*Requests, health and forecasts.*

* `docs/architecture.md` says that gates fail closed. A missing thresholds file
  is threshold 0 and a missing rules file is no rules; with both missing any
  valid request is accepted (`OneFileIsEnough` asks for one of them).
* `tagging/governance.py` puts platform-wide tags above a developer's, but the
  last update is `rendered_tags`, which contains the developer's tags again, so
  those win over `global_tags`. The required six do hold.
* Adding an extension to a document that lists none starts from an empty list
  and loses the default one.
* `slo report` promises that pillars without data are never silently treated as
  healthy. A report in which none was assessed is HEALTHY and exits with 0.
* `availability_target` may be 1.0, whose error budget is zero, and the
  calculator divides by it (`SeverityFollowsService` counts a report that fails
  as the worst severity, so it does not see this).

*The Change Risk Engine.*

* Assessing a change writes its file again, so a crash there destroys a change
  whose submission was answered (the second half of `ChangesBehind`); one record
  cut off makes every listing raise (`ReadCut`); a `limit` of 0 returns one
  assessment (`ReadNext`); when the audit event fails after the save, an
  assessment exists that the client was told had failed.
* The parser says "never a silent gap". `TRUNCATE` and `ALTER VIEW` yield no
  operation at all, not `UNKNOWN`. A file of nothing else is assessed as an
  empty change, where `analyzer.py` says that it raises; the policy then sends
  it to a manual review (`UnreadIsReviewed`). Beside statements that are read
  it leaves no trace.
* The policy's "over 500GB" rule tests a score of 75, which a table of 100 GB
  has (`factors.py`).
* `docs/risk-model.md` calls the dependency count distinct; a table that two
  operations name counts twice.
* `DROP c` without the word `COLUMN`, which PostgreSQL takes, becomes `UNKNOWN`:
  it costs confidence, but asks for no rollback plan (`DestructionIsFlagged`).
* An unnamed constraint (`ADD CHECK (...)`) is read as a new column, so
  `ConstraintsLock` speaks of named ones; `ADD COLUMN c numeric(10,2)` becomes
  `UNKNOWN`; `DROP VIEW` is looked up in the graph under a table's id and so has
  no blast radius; a dropped table takes the lock score of an unknown operation;
  an API that a data pipeline serves keeps no edge to it.
* Metadata of a first known, small table lowers factors that were cautious about
  unknown tables (the condition of `LargerNeverSafer`).

## What is not modelled

`PROJECT.json` gives every part and its reason. In short:

* AWS backups, observability and the metadata connectors read and print: a
  query of RDS, `pg_stat_*` or a catalog has nothing to interleave with, and
  what it returns is an input of the models.
* The PostgreSQL store is used by neither the API nor the CLI; each call is one
  transaction of the server.
* Explainer, reports and demo are wording and sample data.
* Terraform, Kubernetes, Ansible, monitoring and CI files are interpreted by
  others, except for what `AwsProvision` takes from the Terraform modules.

Inside the modelled parts the following is abstracted: the text of identifiers,
manifests, scripts and SQL; the splitting of a file into statements; the fields
of a request that no rule, check or provisioner reads; extensions on a server,
whose failures the provisioners only report; explanations and evidence texts of
an assessment; the lists of affected services, APIs, tables and databases of a
blast radius, which are only reported; deployments, outcomes and overrides of
the store, which nothing in the package saves; and `cre demo`, which saves like
`analyze` but records no event. Of Terraform, an instance that was created but
is marked as tainted, and an apply by hand that is killed, are left out. Of the
policies, `naming-convention-format` is, since the schema refuses the same
names. The readiness weights add up to 100, so `Score` is a whole number where
the code rounds; the error budget is taken over 30 days and the windows over
whole days, where the code takes any.

## Plan

Done: 1. `AuditLog` with proofs. 2. `ProvisionGate` with proofs. 3.
`LocalProvision` and `K3sProvision`, which implement it, with proofs. 4.
`LocalBackup` and `DrTest`. 5. `AssessmentStore`, which implements
`DurableRecords`, with proofs. 6. `AwsProvision`, the third implementation of
the gate, with proofs. 7. The Change Risk Engine from the parser to the policy,
with proofs of the search. 8. Requests and their two judges, service levels and
capacity. 9. Proofs of `LocalBackup` and `DrTest`, of what an AWS run leaves
behind, of `ChangeDetected`, and that a search is exact and its report complete.
10. Proofs of the decisions: of `ChangeRisk` for changes of any length, of
`RequestDecision` for every request of the schema, of `ServiceHealth` for all
figures.

Next, in this order:

11. `Compliant` and `Ready` of the gate as the definitions of `RequestPolicy`,
    so that the two proofs are about one request.
12. An abstract trail that `AuditLog` implements without overlap.
13. The forecast with recursive sums instead of folds, and what can be proved of
    a growing line.
