--------------------------- MODULE ProvisionGate ----------------------------
(***************************************************************************)
(* What every provisioner promises: `dbre request provision` (cli/main.py) *)
(* and the gate all provisioners share, Provisioner.provision              *)
(* (provisioning/base.py).                                                 *)
(*                                                                         *)
(* A run is one invocation of the command.  It evaluates the policies,     *)
(* then the readiness score, then calls the provisioner's own _provision   *)
(* ("hook"), and records one audit event with the outcome.  What the hook  *)
(* does is left open here; LocalProvision says it for local Docker mode.   *)
(***************************************************************************)
EXTENDS Naturals, Sequences

CONSTANTS
  Runs,       \* invocations of the command
  Requests,   \* database requests: records with a name, an env and a platform
  Modes,      \* values of the --mode option that are tried
  Compliant,  \* the requests that violate no ERROR rule
  Ready,      \* the requests that score at least their environment's threshold
  None

\* prod-platform-supported, the one rule whose content matters here.
PlatformRule(q) == q.env = "prod" => q.platform \in {"aws", "k3s"}

ASSUME GateAssumption ==
  /\ None \notin Runs \cup Requests \cup [req : Requests, mode : Modes]
  /\ Modes \subseteq {"request", "local", "k3s", "aws"}
  /\ \A q \in Requests : q.platform \in {"local", "k3s", "aws"}
  /\ Compliant \subseteq {q \in Requests : PlatformRule(q)}
  /\ Ready \subseteq Requests

VARIABLES
  job,    \* the request and the --mode of each run
  stage,  \* how far each run has come
  trail   \* the audit events of action "provision", in order

gateVars == <<job, stage, trail>>

InFlight == {"policy", "readiness", "hook", "blocked", "provisioned", "failed"}

Stages == InFlight \cup {"idle", "recorded", "unrecorded", "killed"}

\* The audit outcome each stage records, once the run has nothing else to do.
Outcome == [blocked |-> "blocked", provisioned |-> "success", failed |-> "failure"]

Event == [run : Runs, outcome : {"blocked", "success", "failure"}]

\* effective_mode: --mode overrides the platform the request asks for.
Backend(r) == IF job[r].mode = "request" THEN job[r].req.platform ELSE job[r].mode

GateInit ==
  /\ job = [r \in Runs |-> None]
  /\ stage = [r \in Runs |-> "idle"]
  /\ trail = <<>>

Advance(r, from, to) ==
  /\ stage[r] = from
  /\ stage' = [stage EXCEPT ![r] = to]

-----------------------------------------------------------------------------
\* The command starts on a request file that loads.
Start(r) ==
  /\ Advance(r, "idle", "policy")
  /\ \E q \in Requests, m \in Modes : job' = [job EXCEPT ![r] = [req |-> q, mode |-> m]]
  /\ UNCHANGED trail

EvaluatePolicy(r) ==
  /\ Advance(r, "policy", IF job[r].req \in Compliant THEN "readiness" ELSE "blocked")
  /\ UNCHANGED <<job, trail>>

AssessReadiness(r) ==
  /\ Advance(r, "readiness", IF job[r].req \in Ready THEN "hook" ELSE "blocked")
  /\ UNCHANGED <<job, trail>>

\* The policy files or the readiness thresholds do not load: neither call is
\* inside a try, so the run ends without an event.
GateRaises(r) ==
  /\ Advance(r, "policy", "unrecorded") \/ Advance(r, "readiness", "unrecorded")
  /\ UNCHANGED <<job, trail>>

\* _provision returns, or raises any Exception.
HookReturns(r) == Advance(r, "hook", "provisioned") /\ UNCHANGED <<job, trail>>

HookRaises(r) == Advance(r, "hook", "failed") /\ UNCHANGED <<job, trail>>

RecordOutcome(r) ==
  /\ stage[r] \in DOMAIN Outcome
  /\ trail' = Append(trail, [run |-> r, outcome |-> Outcome[stage[r]]])
  /\ stage' = [stage EXCEPT ![r] = "recorded"]
  /\ UNCHANGED job

\* AuditLogger.record raises (AuditLog, ReadFails and FailBeforeWrite).
RecordRaises(r) ==
  /\ stage[r] \in DOMAIN Outcome
  /\ stage' = [stage EXCEPT ![r] = "unrecorded"]
  /\ UNCHANGED <<job, trail>>

\* Ctrl-C (no Exception, so the gate's handler does not see it), SIGKILL, or
\* the machine going down.
Kill(r) ==
  /\ stage[r] \in InFlight
  /\ stage' = [stage EXCEPT ![r] = "killed"]
  /\ UNCHANGED <<job, trail>>

GateStep(r) ==
  EvaluatePolicy(r) \/ AssessReadiness(r) \/ GateRaises(r) \/ RecordOutcome(r) \/ RecordRaises(r)

GateNext ==
  \E r \in Runs : Start(r) \/ GateStep(r) \/ HookReturns(r) \/ HookRaises(r) \/ Kill(r)

GateSpec == GateInit /\ [][GateNext]_gateVars

-----------------------------------------------------------------------------
(***************************************************************************)
(* Properties                                                              *)
(***************************************************************************)

GateTypeOK ==
  /\ job \in [Runs -> [req : Requests, mode : Modes] \cup {None}]
  /\ stage \in [Runs -> Stages]
  /\ trail \in Seq(Event)
  /\ \A r \in Runs : job[r] = None <=> stage[r] = "idle"

Gated(r) == job[r] # None /\ job[r].req \in Compliant /\ job[r].req \in Ready

\* The hook of r has returned, and the run was neither killed nor refused by
\* the audit log since.
Succeeded(r) ==
  stage[r] = "provisioned" \/ \E i \in 1..Len(trail) : trail[i] = [run |-> r, outcome |-> "success"]

\* The gate fails closed: a run that does not pass policy and readiness never
\* reaches its provisioner.
GateFailsClosed ==
  \A r \in Runs : stage[r] \in {"hook", "provisioned", "failed"} => Gated(r)

\* The trail tells the truth once: a run has one event exactly when it ended
\* normally, the event says "blocked" exactly when the gate refused the run,
\* and a run that was killed or could not record has none.
TrailFaithful ==
  /\ \A r \in Runs : stage[r] = "recorded" <=> \E i \in 1..Len(trail) : trail[i].run = r
  /\ \A i, j \in 1..Len(trail) : trail[i].run = trail[j].run => i = j
  /\ \A i \in 1..Len(trail) : trail[i].outcome = "blocked" <=> ~Gated(trail[i].run)

-----------------------------------------------------------------------------
(***************************************************************************)
(* The inductive invariant behind the two properties.                      *)
(***************************************************************************)

\* What each stage says about the verdicts so far.
StageMatchesVerdicts ==
  \A r \in Runs :
    /\ stage[r] = "readiness" => job[r].req \in Compliant
    /\ stage[r] = "blocked" => ~Gated(r)

GateInv == GateTypeOK /\ GateFailsClosed /\ StageMatchesVerdicts /\ TrailFaithful

=============================================================================
