---------------------------- MODULE AwsProvision ----------------------------
(***************************************************************************)
(* AWS mode: AwsRdsProvisioner._provision (provisioning/aws_rds.py) behind *)
(* the gate of ProvisionGate.                                              *)
(*                                                                         *)
(* All runs for one environment work in one Terraform directory: they      *)
(* share its tfvars files, its plan file and its state, and the root       *)
(* module there has a single database.  Terraform refuses a saved plan     *)
(* once the state has changed, and its state misses what an apply that is  *)
(* killed has done in AWS.                                                 *)
(*                                                                         *)
(* Requests also have the deletion_protection they ask for, protected.     *)
(***************************************************************************)
EXTENDS ProvisionGate

CONSTANT Approving  \* the runs whose provisioner has auto_approve

ASSUME AwsAssumption == Approving \subseteq Runs

VARIABLES
  step,    \* the next step of _provision, for a run in its hook
  tfvars,  \* the request in <name>.auto.tfvars.json of each environment
  tfplan,  \* the plan file of each environment
  state,   \* the request in the Terraform state of each environment
  rds      \* the instances in AWS, with the request they were made for

aws == <<state, rds>>
awsVars == <<step, tfvars, tfplan, aws>>
vars == <<gateVars, awsVars>>

\* The directories in terraform/environments/.
Environments == {"dev", "prod"}

FullName(q) == <<q.name, q.env>>
FullNames == {FullName(q) : q \in Requests}

\* fresh says that the state has not changed since the plan was made.
PlanFile == [req : Requests, fresh : BOOLEAN]

Env(r) == job[r].req.env

\* environments/prod/main.tf hardcodes the protection.
Protected(q) == q.env = "prod" \/ q.protected

Init ==
  /\ GateInit
  /\ step = [r \in Runs |-> "tfvars"]
  /\ tfvars = [f \in FullNames |-> None]
  /\ tfplan = [e \in Environments |-> None]
  /\ state = [e \in Environments |-> None]
  /\ rds = [f \in FullNames |-> None]

At(r, s) == stage[r] = "hook" /\ Backend(r) = "aws" /\ step[r] = s

Go(r, s) ==
  /\ step' = [step EXCEPT ![r] = s]
  /\ UNCHANGED gateVars

Return(r) == HookReturns(r) /\ UNCHANGED step

Raise(r) == HookRaises(r) /\ UNCHANGED step

-----------------------------------------------------------------------------
(***************************************************************************)
(* What Terraform does with the plan file of environment e.                *)
(***************************************************************************)

\* Mutant: the module does not pass deletion_protection on.
RemovableAnyway(f) == f \in FullNames

Removable(f) == rds[f] # None => ~Protected(rds[f])

\* The plan replaces the database of another name (db_name cannot change).
Replaces(e) == state[e] # None /\ state[e].name # tfplan[e].req.name

\* The plan can be carried out: it is not stale, what has to go is not
\* protected, and what has to be made does not exist.
Applicable(e) ==
  LET new == FullName(tfplan[e].req) IN
    /\ tfplan[e] # None /\ tfplan[e].fresh
    /\ Replaces(e) => Removable(FullName(state[e]))
    /\ rds[new] # None => state[e] # None /\ FullName(state[e]) = new

WithoutOld(e) == IF Replaces(e) THEN [rds EXCEPT ![FullName(state[e])] = None] ELSE rds

WithNew(e) == [WithoutOld(e) EXCEPT ![FullName(tfplan[e].req)] = tfplan[e].req]

\* A state that has changed makes the plan stale.
Applied(e) ==
  /\ Applicable(e)
  /\ rds' = WithNew(e)
  /\ state' = [state EXCEPT ![e] = tfplan[e].req]
  /\ tfplan' = [tfplan EXCEPT ![e].fresh = state'[e] = state[e]]

\* terraform writes the state after each instance: the old one is gone.
OldIsGone(e) ==
  /\ Applicable(e) /\ Replaces(e)
  /\ state' = [state EXCEPT ![e] = None]
  /\ tfplan' = [tfplan EXCEPT ![e].fresh = FALSE]

\* What has to go is gone, and what has to be made could not be made.
PartlyApplied(e) == OldIsGone(e) /\ rds' = WithoutOld(e)

\* terraform is killed before it has written all of the state.
CutOff(e) ==
  \/ /\ Applicable(e)
     /\ rds' \in {rds, WithoutOld(e), WithNew(e)}
     /\ UNCHANGED <<state, tfplan>>
  \/ OldIsGone(e) /\ rds' \in {WithoutOld(e), WithNew(e)}

-----------------------------------------------------------------------------
(***************************************************************************)
(* The steps of _provision.                                                *)
(***************************************************************************)
WriteTfvars(r) ==
  /\ At(r, "tfvars")
  /\ Env(r) \in Environments
  /\ tfvars' = [tfvars EXCEPT ![FullName(job[r].req)] = job[r].req]
  /\ Go(r, "init") \/ Raise(r)
  /\ UNCHANGED <<tfplan, aws>>

TerraformInit(r) ==
  /\ At(r, "init")
  /\ Go(r, "plan")
  /\ UNCHANGED <<tfvars, tfplan, aws>>

\* What the plan command leaves: -var-file comes after the *.auto.tfvars.json
\* of other requests, so its values win.
SavePlan(r) ==
  /\ At(r, "plan")
  /\ tfplan' = [tfplan EXCEPT ![Env(r)] = [req |-> tfvars[FullName(job[r].req)], fresh |-> TRUE]]

\* Mutant: the hook ends the run itself, and nothing is recorded.
PlanAndLeave(r) ==
  /\ SavePlan(r)
  /\ IF r \in Approving
     THEN Go(r, "apply")
     ELSE Advance(r, "hook", "recorded") /\ UNCHANGED <<job, trail, step>>
  /\ UNCHANGED <<tfvars, aws>>

\* Without auto_approve the run ends here, successfully.
Plan(r) ==
  /\ SavePlan(r)
  /\ \/ IF r \in Approving THEN Go(r, "apply") ELSE Return(r)
     \/ Raise(r)
  /\ UNCHANGED <<tfvars, aws>>

\* `terraform output` may fail: the endpoint is then unknown, nothing else.
Apply(r) ==
  /\ At(r, "apply")
  /\ Applied(Env(r))
  /\ Return(r) \/ Raise(r)
  /\ UNCHANGED tfvars

\* Mutant: the exit status of apply is not looked at.
ApplyUnchecked(r) ==
  /\ At(r, "apply")
  /\ Return(r)
  /\ UNCHANGED <<tfvars, tfplan, aws>>

\* terraform refuses the plan, or fails before or after it has done a part.
ApplyFails(r) ==
  /\ At(r, "apply")
  /\ Raise(r)
  /\ PartlyApplied(Env(r)) \/ UNCHANGED <<tfplan, aws>>
  /\ UNCHANGED tfvars

\* Mutant: a timeout of apply is taken for "still being created".
TimeoutIsFine(r) ==
  /\ At(r, "apply")
  /\ CutOff(Env(r))
  /\ Return(r)
  /\ UNCHANGED tfvars

\* subprocess.run kills terraform after 600 seconds.
ApplyTimesOut(r) ==
  /\ At(r, "apply")
  /\ CutOff(Env(r))
  /\ Raise(r)
  /\ UNCHANGED tfvars

\* No directory for the environment, no terraform, or a command that fails.
StepFails(r) ==
  /\ \E s \in {"tfvars", "init", "plan"} : At(r, s)
  /\ Raise(r)
  /\ UNCHANGED <<tfvars, tfplan, aws>>

-----------------------------------------------------------------------------
AwsStep(r) ==
  \/ WriteTfvars(r) \/ TerraformInit(r) \/ Plan(r)
  \/ Apply(r) \/ ApplyFails(r) \/ ApplyTimesOut(r) \/ StepFails(r)

ElsewhereStep(r) ==
  /\ Backend(r) # "aws"
  /\ HookReturns(r) \/ HookRaises(r)
  /\ UNCHANGED awsVars

\* A kill may hit terraform too, or leave it to finish.
KillRun(r) ==
  /\ Kill(r)
  /\ UNCHANGED <<step, tfvars>>
  /\ \/ UNCHANGED <<tfplan, aws>>
     \/ At(r, "apply") /\ (Applied(Env(r)) \/ CutOff(Env(r)))

\* `terraform apply tfplan` by hand, as docs/provisioning-aws.md tells to; it
\* may fail half-way, but nothing kills it.
ApplyByHand(e) ==
  /\ Applied(e) \/ PartlyApplied(e)
  /\ UNCHANGED <<gateVars, step, tfvars>>

Next ==
  \/ \E r \in Runs :
       \/ (Start(r) \/ GateStep(r)) /\ UNCHANGED awsVars
       \/ AwsStep(r) \/ (stage[r] = "hook" /\ ElsewhereStep(r)) \/ KillRun(r)
  \/ \E e \in Environments : ApplyByHand(e)

Spec == Init /\ [][Next]_vars

-----------------------------------------------------------------------------
(***************************************************************************)
(* Properties                                                              *)
(***************************************************************************)

TypeOK ==
  /\ GateTypeOK
  /\ step \in [Runs -> {"tfvars", "init", "plan", "apply"}]
  /\ tfvars \in [FullNames -> Requests \cup {None}]
  /\ tfplan \in [Environments -> PlanFile \cup {None}]
  /\ state \in [Environments -> Requests \cup {None}]
  /\ rds \in [FullNames -> Requests \cup {None}]

\* No other run works in the Terraform directory of r.
Alone(r) == \A o \in Runs \ {r} : job[o] # None => Env(o) # Env(r)

\* The success of an approving run that is alone in its environment is backed
\* by an instance with the request's own settings, which Terraform knows of,
\* also after the plan is applied again by hand.
SoleRunIsLive ==
  \A r \in Approving :
    Succeeded(r) /\ Backend(r) = "aws" /\ Alone(r) =>
      rds[FullName(job[r].req)] = job[r].req /\ state[Env(r)] = job[r].req

Managed(f) == \E e \in Environments : state[e] # None /\ FullName(state[e]) = f

\* An instance that Terraform does not know of, and that every later apply
\* would collide with or forget, is the work of a run that did not report
\* success: whoever pays for it can find the run.
OrphansAreReported ==
  \A f \in FullNames : rds[f] # None /\ ~Managed(f) =>
    \E r \in Approving :
      job[r] # None /\ Env(r) = f[2] /\ stage[r] \notin InFlight \ {"failed"} /\ ~Succeeded(r)

\* No production instance is ever taken down, although every request for
\* production shares one Terraform state, whichever plan is applied by whom
\* and wherever an apply is cut off.
ProdStaysUp ==
  [][\A f \in FullNames : f[2] = "prod" /\ rds[f] # None => rds'[f] # None]_vars

-----------------------------------------------------------------------------
(***************************************************************************)
(* The inductive invariant behind ProdStaysUp.                             *)
(***************************************************************************)

\* A run past its first step works in the directory of an environment, and
\* its request is in a tfvars file there.
UnderWay ==
  \A r \in Runs :
    step[r] # "tfvars" =>
      job[r] # None /\ Env(r) \in Environments /\ tfvars[FullName(job[r].req)] # None

\* An instance is known by the name and the environment of its request.
InstancesAreNamed == \A f \in FullNames : rds[f] # None => FullName(rds[f]) = f

AwsInv == TypeOK /\ UnderWay /\ InstancesAreNamed

(***************************************************************************)
(* What SoleRunIsLive and OrphansAreReported rest on besides.              *)
(***************************************************************************)

\* The files and the state of a directory are about its own environment.
FilesAreNamed ==
  /\ \A f \in FullNames : tfvars[f] # None => FullName(tfvars[f]) = f
  /\ \A e \in Environments :
       /\ tfplan[e] # None => tfplan[e].req.env = e
       /\ state[e] # None => state[e].env = e

Asked(q) == \E r \in Runs : job[r] # None /\ job[r].req = q

\* Whatever is found in a directory or in AWS, some run was asked for it.
TracesHaveRuns ==
  /\ \A f \in FullNames :
       /\ tfvars[f] # None => Asked(tfvars[f])
       /\ rds[f] # None => Asked(rds[f])
  /\ \A e \in Environments :
       /\ tfplan[e] # None => Asked(tfplan[e].req)
       /\ state[e] # None => Asked(state[e])

OnlyApprovingApply == \A r \in Runs : step[r] = "apply" => r \in Approving

\* An approving run succeeds by its apply only.
SuccessesApplied ==
  \A r \in Approving : Succeeded(r) /\ Backend(r) = "aws" => step[r] = "apply"

AwsTraceInv ==
  /\ FilesAreNamed
  /\ TracesHaveRuns
  /\ OnlyApprovingApply
  /\ SuccessesApplied
  /\ SoleRunIsLive
  /\ OrphansAreReported

=============================================================================
