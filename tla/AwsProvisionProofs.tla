------------------------- MODULE AwsProvisionProofs -------------------------
(***************************************************************************)
(* Theorems about AwsProvision, for every set of runs and of requests: it  *)
(* implements the gate, its state is well typed, and no production         *)
(* instance is taken down.                                                 *)
(***************************************************************************)
EXTENDS AwsProvision, ProvisionGateProofs

\* Every step of AWS mode is a step of the gate, or invisible to it.
LEMMA AwsStepImplementsGate == [Next]_vars => [GateNext]_gateVars
<1> SUFFICES ASSUME [Next]_vars PROVE GateNext \/ UNCHANGED gateVars
  OBVIOUS
<1>1. ASSUME NEW r \in Runs, AwsStep(r) PROVE GateNext \/ UNCHANGED gateVars
  <2>1. HookReturns(r) \/ HookRaises(r) \/ UNCHANGED gateVars
    BY <1>1
    DEF AwsStep, WriteTfvars, TerraformInit, Plan, Apply, ApplyFails, ApplyTimesOut, StepFails,
        Go, Return, Raise
  <2> QED BY <2>1 DEF GateNext
<1>2. ASSUME NEW r \in Runs, ElsewhereStep(r) PROVE GateNext
  BY <1>2 DEF ElsewhereStep, GateNext
<1>3. ASSUME NEW r \in Runs, Start(r) \/ GateStep(r) \/ KillRun(r) PROVE GateNext
  BY <1>3 DEF KillRun, GateNext
<1>4. ASSUME NEW e \in Environments, ApplyByHand(e) PROVE UNCHANGED gateVars
  BY <1>4 DEF ApplyByHand
<1>5. CASE UNCHANGED vars
  BY <1>5 DEF vars
<1> QED BY <1>1, <1>2, <1>3, <1>4, <1>5 DEF Next

\* AwsRdsProvisioner implements the gate.
THEOREM AwsImplementsGate == Spec => GateSpec
<1>1. Init => GateInit
  BY DEF Init
<1> QED BY <1>1, AwsStepImplementsGate, PTL DEF Spec, GateSpec

-----------------------------------------------------------------------------
(***************************************************************************)
(* What terraform does to an environment.                                  *)
(***************************************************************************)

\* What an apply leaves, cut off or not: the plan file as it was or stale, the
\* state as it was, as planned, or without the instance that had to go.
LEMMA ApplyLeaves ==
  ASSUME TypeOK, NEW e \in Environments, Applied(e) \/ CutOff(e)
  PROVE  /\ Applicable(e) /\ rds' \in {rds, WithoutOld(e), WithNew(e)}
         /\ tfplan' \in [Environments -> PlanFile \cup {None}]
         /\ state' \in [Environments -> Requests \cup {None}]
         /\ \A d \in Environments :
              /\ tfplan'[d] = tfplan[d] \/ (d = e /\ tfplan'[d].req = tfplan[e].req)
              /\ state'[d] = state[d] \/ (d = e /\ state'[d] \in {tfplan[e].req, None})
<1>1. Applicable(e) /\ rds' \in {rds, WithoutOld(e), WithNew(e)}
  BY DEF Applied, CutOff, OldIsGone
<1>2. tfplan[e] \in PlanFile /\ tfplan[e].req \in Requests
  BY <1>1 DEF Applicable, TypeOK, PlanFile
<1>3. CASE UNCHANGED <<state, tfplan>>
  BY <1>1, <1>3 DEF TypeOK
<1>4. ASSUME NEW b \in BOOLEAN, NEW new \in {tfplan[e].req, None},
             tfplan' = [tfplan EXCEPT ![e].fresh = b], state' = [state EXCEPT ![e] = new]
      PROVE  /\ tfplan' \in [Environments -> PlanFile \cup {None}]
             /\ state' \in [Environments -> Requests \cup {None}]
             /\ \A d \in Environments :
                  /\ tfplan'[d] = tfplan[d] \/ (d = e /\ tfplan'[d].req = tfplan[e].req)
                  /\ state'[d] = state[d] \/ (d = e /\ state'[d] \in {tfplan[e].req, None})
  <2>1. [tfplan[e] EXCEPT !.fresh = b] \in PlanFile /\ [tfplan[e] EXCEPT !.fresh = b].req = tfplan[e].req
    BY <1>2 DEF PlanFile
  <2>2. tfplan' = [tfplan EXCEPT ![e] = [tfplan[e] EXCEPT !.fresh = b]]
    BY <1>4
  <2> QED BY <1>2, <1>4, <2>1, <2>2 DEF TypeOK
<1>5. CASE Applied(e)
  <2>1. (state'[e] = state[e]) \in BOOLEAN
    OBVIOUS
  <2> QED BY <1>1, <1>4, <1>5, <2>1 DEF Applied
<1>6. CASE OldIsGone(e)
  BY <1>1, <1>4, <1>6 DEF OldIsGone
<1> QED BY <1>1, <1>3, <1>5, <1>6 DEF CutOff

\* An apply that fails half-way leaves what one that is cut off may leave.
LEMMA PartlyIsCutOff ==
  ASSUME NEW e, PartlyApplied(e)
  PROVE  CutOff(e)
BY DEF PartlyApplied, CutOff

\* The instances an apply leaves, cut off or not: they are typed and named,
\* and those of production are all still there.
LEMMA RdsAfterApply ==
  ASSUME TypeOK, InstancesAreNamed, NEW e \in Environments, Applicable(e),
         rds' \in {rds, WithoutOld(e), WithNew(e)}
  PROVE  /\ rds' \in [FullNames -> Requests \cup {None}]
         /\ InstancesAreNamed'
         /\ \A f \in FullNames : f[2] = "prod" /\ rds[f] # None => rds'[f] # None
<1> DEFINE new == tfplan[e].req
           old == FullName(state[e])
<1>1. new \in Requests /\ FullName(new) \in FullNames /\ None \notin Requests
  BY GateAssumption DEF TypeOK, Applicable, PlanFile, FullNames
<1>2. \A f \in FullNames : f[2] = "prod" /\ rds[f] # None => ~Removable(f)
  BY DEF InstancesAreNamed, Removable, Protected, FullName
<1>3. /\ WithoutOld(e) \in [FullNames -> Requests \cup {None}]
      /\ \A f \in FullNames :
           /\ WithoutOld(e)[f] \in {rds[f], None}
           /\ f[2] = "prod" /\ rds[f] # None => WithoutOld(e)[f] # None
  <2>1. rds \in [FullNames -> Requests \cup {None}]
    BY DEF TypeOK
  <2>2. CASE Replaces(e)
    <3>1. Removable(old) /\ WithoutOld(e) = [rds EXCEPT ![old] = None]
      BY <2>2 DEF Applicable, WithoutOld
    <3> QED BY <1>2, <2>1, <3>1
  <2>3. CASE ~Replaces(e)
    BY <2>1, <2>3 DEF WithoutOld
  <2> QED BY <2>2, <2>3
<1>4. /\ WithNew(e) \in [FullNames -> Requests \cup {None}]
      /\ \A f \in FullNames :
           WithNew(e)[f] = IF f = FullName(new) THEN new ELSE WithoutOld(e)[f]
  BY <1>1, <1>3 DEF WithNew
<1>5. rds' \in [FullNames -> Requests \cup {None}]
  BY <1>3, <1>4 DEF TypeOK
<1>6. \A f \in FullNames :
        rds'[f] \in {rds[f], None} \/ (f = FullName(new) /\ rds'[f] = new)
  BY <1>3, <1>4
<1>7. InstancesAreNamed'
  BY <1>6 DEF InstancesAreNamed, FullName
<1>8. \A f \in FullNames : f[2] = "prod" /\ rds[f] # None => rds'[f] # None
  BY <1>1, <1>3, <1>4
<1> QED BY <1>5, <1>7, <1>8

\* What an apply does to the files, the state and the instances.
LEMMA ApplyKeeps ==
  ASSUME AwsInv, NEW e \in Environments, Applied(e) \/ CutOff(e)
  PROVE  /\ tfplan' \in [Environments -> PlanFile \cup {None}]
         /\ state' \in [Environments -> Requests \cup {None}]
         /\ rds' \in [FullNames -> Requests \cup {None}]
         /\ InstancesAreNamed'
         /\ \A f \in FullNames : f[2] = "prod" /\ rds[f] # None => rds'[f] # None
BY ApplyLeaves, RdsAfterApply DEF AwsInv

-----------------------------------------------------------------------------
(***************************************************************************)
(* The invariant is inductive.                                             *)
(***************************************************************************)

\* The gate's part of the type invariant is kept by every step of the gate.
LEMMA StartedKeepsJob ==
  ASSUME GateTypeOK, [GateNext]_gateVars, NEW r \in Runs, job[r] # None
  PROVE  job'[r] = job[r]
BY DEF GateTypeOK, GateNext, gateVars, Start, GateStep, EvaluatePolicy, AssessReadiness,
       GateRaises, RecordOutcome, RecordRaises, HookReturns, HookRaises, Kill, Advance

\* A request keeps its file, so a run under way stays under way.
LEMMA StaysUnderWay ==
  ASSUME AwsInv, [GateNext]_gateVars, UNCHANGED <<step, tfvars>>
  PROVE  UnderWay'
<1> SUFFICES ASSUME NEW r \in Runs, step[r] # "tfvars"
             PROVE  /\ job'[r] # None /\ Env(r)' \in Environments
                    /\ tfvars[FullName(job'[r].req)] # None
  BY DEF UnderWay
<1>1. job'[r] = job[r]
  BY StartedKeepsJob DEF AwsInv, TypeOK, UnderWay
<1> QED BY <1>1 DEF AwsInv, UnderWay, Env

\* A run in its hook has a request.
LEMMA InHook ==
  ASSUME AwsInv, NEW r \in Runs, NEW s, At(r, s)
  PROVE  /\ job[r] # None /\ job[r].req \in Requests /\ FullName(job[r].req) \in FullNames
         /\ step[r] = s /\ stage[r] = "hook"
         /\ s # "tfvars" => Env(r) \in Environments /\ tfvars[FullName(job[r].req)] \in Requests
<1>1. job[r] \in [req : Requests, mode : Modes] /\ job[r] # None /\ step[r] = s /\ stage[r] = "hook"
  BY DEF At, AwsInv, TypeOK, GateTypeOK
<1>2. job[r].req \in Requests /\ FullName(job[r].req) \in FullNames
  BY <1>1 DEF FullNames
<1>3. s # "tfvars" => Env(r) \in Environments /\ tfvars[FullName(job[r].req)] \in Requests
  BY <1>1, <1>2 DEF AwsInv, UnderWay, TypeOK
<1> QED BY <1>1, <1>2, <1>3

\* The steps that leave terraform's files and what it made alone.
LEMMA QuietStep ==
  ASSUME AwsInv, GateTypeOK', [GateNext]_gateVars, UNCHANGED awsVars
  PROVE  AwsInv'
<1>1. UnderWay'
  BY StaysUnderWay DEF awsVars
<1>2. TypeOK' /\ InstancesAreNamed'
  BY DEF AwsInv, TypeOK, InstancesAreNamed, awsVars, aws
<1> QED BY <1>1, <1>2 DEF AwsInv

\* An apply, complete or cut off, by a run or by hand.
LEMMA ApplyingStep ==
  ASSUME AwsInv, GateTypeOK', [GateNext]_gateVars, UNCHANGED <<step, tfvars>>,
         NEW e \in Environments, Applied(e) \/ CutOff(e)
  PROVE  AwsInv'
<1>1. UnderWay'
  BY StaysUnderWay
<1>2. TypeOK' /\ InstancesAreNamed'
  BY ApplyKeeps DEF AwsInv, TypeOK
<1> QED BY <1>1, <1>2 DEF AwsInv

\* The steps of a run in its hook.
LEMMA HookStep ==
  ASSUME AwsInv, GateTypeOK', [GateNext]_gateVars, NEW r \in Runs, AwsStep(r)
  PROVE  AwsInv'
<1>1. CASE WriteTfvars(r)
  <2> DEFINE q == job[r].req
  <2>1. /\ job[r] # None /\ q \in Requests /\ FullName(q) \in FullNames /\ step[r] = "tfvars"
        /\ Env(r) \in Environments /\ None \notin Requests
        /\ tfvars' = [tfvars EXCEPT ![FullName(q)] = q]
        /\ job' = job /\ UNCHANGED <<tfplan, aws>>
        /\ step' = [step EXCEPT ![r] = "init"] \/ step' = step
    BY <1>1, InHook, GateAssumption
    DEF WriteTfvars, Go, Raise, HookRaises, gateVars
  <2>2. TypeOK'
    BY <2>1 DEF AwsInv, TypeOK, aws
  <2>3. UnderWay'
    <3>1. \A f \in FullNames : tfvars[f] # None => tfvars'[f] # None
      BY <2>1 DEF AwsInv, TypeOK
    <3>2. \A o \in Runs \ {r} : step'[o] = step[o]
      BY <2>1 DEF AwsInv, TypeOK
    <3>3. tfvars'[FullName(q)] # None
      BY <2>1 DEF AwsInv, TypeOK
    <3>4. ASSUME NEW o \in Runs, step'[o] # "tfvars"
          PROVE  job[o] # None /\ Env(o) \in Environments /\ tfvars'[FullName(job[o].req)] # None
      <4>1. CASE o = r
        BY <2>1, <3>3, <4>1
      <4>2. CASE o # r
        <5>1. job[o] # None /\ Env(o) \in Environments /\ tfvars[FullName(job[o].req)] # None
          BY <3>2, <3>4, <4>2 DEF AwsInv, UnderWay
        <5>2. FullName(job[o].req) \in FullNames
          BY <5>1 DEF AwsInv, TypeOK, GateTypeOK, FullNames
        <5> QED BY <3>1, <5>1, <5>2
      <4> QED BY <4>1, <4>2
    <3> QED BY <2>1, <3>4 DEF UnderWay, Env
  <2>4. InstancesAreNamed'
    BY <2>1 DEF AwsInv, InstancesAreNamed, aws
  <2> QED BY <2>2, <2>3, <2>4 DEF AwsInv
<1>2. CASE TerraformInit(r) \/ Plan(r)
  <2>1. /\ job[r] # None /\ Env(r) \in Environments
        /\ tfvars[FullName(job[r].req)] \in Requests
        /\ job' = job /\ UNCHANGED <<tfvars, aws>>
        /\ step' = step \/ \E s \in {"plan", "apply"} : step' = [step EXCEPT ![r] = s]
    BY <1>2, InHook
    DEF TerraformInit, Plan, SavePlan, Go, Return, Raise, HookReturns, HookRaises, gateVars
  <2>2. tfplan' \in [Environments -> PlanFile \cup {None}]
    <3>1. [req |-> tfvars[FullName(job[r].req)], fresh |-> TRUE] \in PlanFile
      BY <2>1 DEF PlanFile
    <3> QED BY <1>2, <2>1, <3>1 DEF TerraformInit, Plan, SavePlan, AwsInv, TypeOK
  <2>3. TypeOK'
    BY <2>1, <2>2 DEF AwsInv, TypeOK, aws
  <2>4. UnderWay'
    <3>1. step[r] # "tfvars"
      BY <1>2, InHook DEF TerraformInit, Plan, SavePlan
    <3>2. \A o \in Runs : step'[o] # "tfvars" => step[o] # "tfvars"
      BY <2>1, <3>1 DEF AwsInv, TypeOK
    <3> QED BY <2>1, <3>2 DEF AwsInv, UnderWay, Env
  <2>5. InstancesAreNamed'
    BY <2>1 DEF AwsInv, InstancesAreNamed, aws
  <2> QED BY <2>3, <2>4, <2>5 DEF AwsInv
<1>3. CASE Apply(r) \/ ApplyTimesOut(r) \/ (ApplyFails(r) /\ PartlyApplied(Env(r)))
  <2>1. Env(r) \in Environments
    BY <1>3, InHook DEF Apply, ApplyFails, ApplyTimesOut
  <2>2. UNCHANGED <<step, tfvars>> /\ (Applied(Env(r)) \/ CutOff(Env(r)))
    BY <1>3, PartlyIsCutOff DEF Apply, ApplyFails, ApplyTimesOut, Return, Raise
  <2> QED BY <2>1, <2>2, ApplyingStep
<1>4. CASE (ApplyFails(r) /\ UNCHANGED <<tfplan, aws>>) \/ StepFails(r)
  <2>1. UNCHANGED awsVars
    BY <1>4 DEF ApplyFails, StepFails, Raise, awsVars
  <2> QED BY <2>1, QuietStep
<1>5. ApplyFails(r) => PartlyApplied(Env(r)) \/ UNCHANGED <<tfplan, aws>>
  BY DEF ApplyFails
<1> QED BY <1>1, <1>2, <1>3, <1>4, <1>5 DEF AwsStep

\* A kill, after which terraform may or may not have finished.
LEMMA KillStep ==
  ASSUME AwsInv, GateTypeOK', [GateNext]_gateVars, NEW r \in Runs, KillRun(r)
  PROVE  AwsInv'
<1>1. CASE UNCHANGED <<tfplan, aws>>
  <2>1. UNCHANGED awsVars
    BY <1>1 DEF KillRun, awsVars
  <2> QED BY <2>1, QuietStep
<1>2. CASE At(r, "apply") /\ (Applied(Env(r)) \/ CutOff(Env(r)))
  <2>1. Env(r) \in Environments /\ UNCHANGED <<step, tfvars>>
    BY <1>2, InHook DEF KillRun
  <2> QED BY <1>2, <2>1, ApplyingStep
<1> QED BY <1>1, <1>2 DEF KillRun

\* Every step keeps the invariant, the gate's part of it being given.
LEMMA AwsInvStep == AwsInv /\ GateTypeOK' /\ [Next]_vars => AwsInv'
<1> SUFFICES ASSUME AwsInv, GateTypeOK', [Next]_vars PROVE AwsInv'
  OBVIOUS
<1>1. [GateNext]_gateVars
  BY AwsStepImplementsGate
<1>2. ASSUME NEW r \in Runs, AwsStep(r) PROVE AwsInv'
  BY <1>1, <1>2, HookStep
<1>3. ASSUME NEW r \in Runs, KillRun(r) PROVE AwsInv'
  BY <1>1, <1>3, KillStep
<1>4. CASE UNCHANGED awsVars
  BY <1>1, <1>4, QuietStep
<1>5. ASSUME NEW e \in Environments, ApplyByHand(e) PROVE AwsInv'
  BY <1>1, <1>5, ApplyingStep, PartlyIsCutOff DEF ApplyByHand
<1> QED BY <1>2, <1>3, <1>4, <1>5 DEF Next, ElsewhereStep, vars

\* The initial states satisfy it.
LEMMA AwsInvInit == Init /\ GateTypeOK => AwsInv
BY GateAssumption
DEF Init, AwsInv, TypeOK, UnderWay, InstancesAreNamed

-----------------------------------------------------------------------------
(***************************************************************************)
(* The theorems.                                                           *)
(***************************************************************************)

\* The inductive invariant of AWS mode, for any number of runs and requests.
THEOREM AwsInvariant == Spec => []AwsInv
<1>1. GateInv => GateTypeOK
  BY DEF GateInv
<1> QED
  BY <1>1, AwsInvInit, AwsInvStep, AwsImplementsGate, GateInvariant, PTL DEF Spec

\* The files, the state and the instances of AWS mode are well typed.
THEOREM AwsTypeCorrect == Spec => []TypeOK
<1>1. AwsInv => TypeOK
  BY DEF AwsInv
<1> QED BY <1>1, AwsInvariant, PTL

\* No run of AwsRdsProvisioner, no interrupted apply and no apply by hand
\* takes a production instance down: the protection prod/main.tf hardcodes
\* stands in the way of every plan that replaces one.
THEOREM ProdStaysUpHolds == Spec => ProdStaysUp
<1> DEFINE Stays == \A f \in FullNames : f[2] = "prod" /\ rds[f] # None => rds'[f] # None
<1>1. AwsInv /\ [Next]_vars => Stays
  <2> SUFFICES ASSUME AwsInv, [Next]_vars PROVE Stays
    OBVIOUS
  <2>1. CASE UNCHANGED rds
    BY <2>1
  <2>2. ASSUME NEW e \in Environments, Applied(e) \/ CutOff(e) PROVE Stays
    BY <2>2, ApplyKeeps
  <2>3. ASSUME NEW r \in Runs, At(r, "apply"), Applied(Env(r)) \/ CutOff(Env(r)) PROVE Stays
    <3>1. Env(r) \in Environments
      BY <2>3, InHook
    <3> QED BY <2>2, <2>3, <3>1
  <2> QED
    BY <2>1, <2>2, <2>3, PartlyIsCutOff
    DEF Next, AwsStep, WriteTfvars, TerraformInit, Plan, SavePlan, Apply, ApplyFails,
        ApplyTimesOut, StepFails, ElsewhereStep, KillRun, ApplyByHand, awsVars, aws, vars
<1>2. AwsInv /\ [Next]_vars => [Stays]_vars
  BY <1>1
<1> QED BY <1>2, AwsInvariant, PTL DEF Spec, ProdStaysUp

-----------------------------------------------------------------------------
(***************************************************************************)
(* Who made what: the invariant of the directories and of AWS.             *)
(***************************************************************************)

\* The hook of r returns, in this step.
Returns(r) == stage[r] = "hook" /\ stage'[r] = "provisioned"

\* The kinds of step, by what they do to the files, the state and AWS.
StepQuiet ==
  /\ UNCHANGED <<tfvars, tfplan, aws>>
  /\ \A r \in Runs : step'[r] = "apply" => step[r] = "apply"
  /\ \A r \in Approving : Returns(r) => Backend(r) # "aws"

StepPlans(r) ==
  /\ At(r, "plan") /\ SavePlan(r)
  /\ UNCHANGED <<tfvars, aws>>
  /\ \A o \in Runs : step'[o] = "apply" => step[o] = "apply" \/ (o = r /\ r \in Approving)
  /\ \A o \in Approving : ~Returns(o)

StepApplies(e) ==
  /\ Applied(e)
  /\ UNCHANGED <<step, tfvars>>
  /\ \A r \in Runs : Returns(r) => Env(r) = e /\ step[r] = "apply"

StepCutsOff(r) ==
  /\ At(r, "apply") /\ CutOff(Env(r))
  /\ UNCHANGED <<step, tfvars>>
  /\ stage'[r] \in {"failed", "killed"}
  /\ \A o \in Runs : ~Returns(o)

StepFailsByHand(e) ==
  /\ PartlyApplied(e)
  /\ UNCHANGED <<step, tfvars>>
  /\ \A o \in Runs : ~Returns(o)

\* Every step is of one of these kinds, or writes a tfvars file.
LEMMA StepKinds ==
  ASSUME AwsInv, [Next]_vars
  PROVE  \/ StepQuiet
         \/ \E r \in Runs : WriteTfvars(r) \/ StepPlans(r) \/ StepCutsOff(r)
         \/ \E e \in Environments : StepApplies(e) \/ StepFailsByHand(e)
<1> USE AwsAssumption DEF AwsInv, TypeOK, GateTypeOK
<1>1. ASSUME NEW r \in Runs, Start(r) \/ GateStep(r), UNCHANGED awsVars PROVE StepQuiet
  BY <1>1 DEF Start, GateStep, EvaluatePolicy, AssessReadiness, GateRaises, RecordOutcome,
              RecordRaises, Advance, Returns, StepQuiet, awsVars, aws, Outcome
<1>2. ASSUME NEW r \in Runs, TerraformInit(r) PROVE StepQuiet
  BY <1>2 DEF TerraformInit, At, Go, gateVars, Returns, StepQuiet, aws
<1>3. ASSUME NEW r \in Runs, ApplyFails(r) \/ StepFails(r) PROVE StepQuiet \/ StepCutsOff(r)
  <2>1. CASE ApplyFails(r) /\ PartlyApplied(Env(r))
    BY <2>1, PartlyIsCutOff DEF ApplyFails, At, Raise, HookRaises, Advance, Returns, StepCutsOff
  <2>2. CASE (ApplyFails(r) /\ UNCHANGED <<tfplan, aws>>) \/ StepFails(r)
    BY <2>2 DEF ApplyFails, StepFails, Raise, HookRaises, Advance, Returns, StepQuiet, aws
  <2> QED BY <1>3, <2>1, <2>2 DEF ApplyFails
<1>4. ASSUME NEW r \in Runs, ElsewhereStep(r) PROVE StepQuiet
  BY <1>4 DEF ElsewhereStep, HookReturns, HookRaises, Advance, Returns, StepQuiet, awsVars, aws
<1>5. ASSUME NEW r \in Runs, Plan(r) PROVE StepPlans(r)
  <2>1. At(r, "plan") /\ SavePlan(r) /\ UNCHANGED <<tfvars, aws>>
    BY <1>5 DEF Plan, SavePlan
  <2>2. \A o \in Runs : step'[o] = "apply" => step[o] = "apply" \/ (o = r /\ r \in Approving)
    <3>1. step' = step \/ (r \in Approving /\ step' = [step EXCEPT ![r] = "apply"])
      BY <1>5 DEF Plan, Go, Return, Raise
    <3> QED BY <3>1
  <2>3. \A o \in Approving : ~Returns(o)
    BY <1>5, AwsAssumption
    DEF Plan, Go, Return, Raise, HookReturns, HookRaises, Advance, gateVars, Returns
  <2> QED BY <2>1, <2>2, <2>3 DEF StepPlans
<1>6. ASSUME NEW r \in Runs, Apply(r) PROVE Env(r) \in Environments /\ StepApplies(Env(r))
  <2>1. Env(r) \in Environments
    BY <1>6, InHook DEF Apply
  <2>2. Applied(Env(r)) /\ UNCHANGED <<step, tfvars>>
    BY <1>6 DEF Apply, Return, Raise
  <2>3. step[r] = "apply" /\ \A o \in Runs : Returns(o) => o = r
    BY <1>6 DEF Apply, At, Return, Raise, HookReturns, HookRaises, Advance, Returns
  <2> QED BY <2>1, <2>2, <2>3 DEF StepApplies
<1>7. ASSUME NEW r \in Runs, ApplyTimesOut(r) PROVE StepCutsOff(r)
  BY <1>7 DEF ApplyTimesOut, At, Raise, HookRaises, Advance, Returns, StepCutsOff
<1>8. ASSUME NEW r \in Runs, KillRun(r)
      PROVE  StepQuiet \/ StepCutsOff(r) \/ \E e \in Environments : StepApplies(e)
  <2>1. /\ stage'[r] = "killed" /\ \A o \in Runs : ~Returns(o)
        /\ UNCHANGED <<step, tfvars>>
    BY <1>8 DEF KillRun, Kill, Returns
  <2>2. CASE UNCHANGED <<tfplan, aws>>
    BY <2>1, <2>2, AwsAssumption DEF StepQuiet, aws
  <2>3. CASE At(r, "apply") /\ Applied(Env(r))
    <3>1. Env(r) \in Environments
      BY <2>3, InHook
    <3> QED BY <2>1, <2>3, <3>1 DEF StepApplies
  <2>4. CASE At(r, "apply") /\ CutOff(Env(r))
    BY <2>1, <2>4 DEF StepCutsOff
  <2> QED BY <1>8, <2>2, <2>3, <2>4 DEF KillRun
<1>9. ASSUME NEW e \in Environments, ApplyByHand(e) PROVE StepApplies(e) \/ StepFailsByHand(e)
  BY <1>9 DEF ApplyByHand, StepApplies, StepFailsByHand, Returns, gateVars
<1>10. CASE UNCHANGED vars
  BY <1>10, AwsAssumption DEF vars, gateVars, awsVars, aws, StepQuiet, Returns
<1> QED
  BY <1>1, <1>2, <1>3, <1>4, <1>5, <1>6, <1>7, <1>8, <1>9, <1>10 DEF Next, AwsStep

\* An apply, complete or not, reaches into its own environment only, and what
\* it makes there is what the plan says.
LEMMA ApplyStaysInside ==
  ASSUME AwsInv, FilesAreNamed, NEW e \in Environments, Applied(e) \/ CutOff(e)
  PROVE  /\ tfplan[e] \in PlanFile /\ tfplan[e].req.env = e
         /\ \A f \in FullNames :
              \/ rds'[f] = rds[f]
              \/ f[2] = e /\ rds'[f] = None
              \/ f = FullName(tfplan[e].req) /\ f[2] = e /\ rds'[f] = tfplan[e].req
<1> DEFINE new == tfplan[e].req
<1>1. Applicable(e) /\ rds' \in {rds, WithoutOld(e), WithNew(e)}
  BY ApplyLeaves DEF AwsInv
<1>2. tfplan[e] \in PlanFile /\ new.env = e /\ new \in Requests /\ FullName(new)[2] = e
  BY <1>1 DEF Applicable, AwsInv, TypeOK, FilesAreNamed, PlanFile, FullName
<1>3. /\ WithoutOld(e) \in [FullNames -> Requests \cup {None}]
      /\ \A f \in FullNames : WithoutOld(e)[f] = rds[f] \/ (f[2] = e /\ WithoutOld(e)[f] = None)
  <2> DEFINE old == FullName(state[e])
  <2>1. rds \in [FullNames -> Requests \cup {None}]
    BY DEF AwsInv, TypeOK
  <2>2. CASE Replaces(e)
    <3>1. old[2] = e
      BY <2>2 DEF Replaces, FilesAreNamed, FullName
    <3>2. WithoutOld(e) = [rds EXCEPT ![old] = None]
      BY <2>2 DEF WithoutOld
    <3> HIDE DEF old
    <3> QED BY <2>1, <3>1, <3>2
  <2>3. CASE ~Replaces(e)
    BY <2>1, <2>3 DEF WithoutOld
  <2> QED BY <2>2, <2>3
<1>4. \A f \in FullNames :
        WithNew(e)[f] = IF f = FullName(new) THEN new ELSE WithoutOld(e)[f]
  BY <1>3 DEF WithNew
<1> QED BY <1>1, <1>2, <1>3, <1>4

\* The files keep to their environment, and only approving runs get to apply.
LEMMA FilesAreNamedStep ==
  ASSUME AwsInv, AwsInv', FilesAreNamed, OnlyApprovingApply, [Next]_vars
  PROVE  FilesAreNamed' /\ OnlyApprovingApply'
<1>1. CASE StepQuiet
  BY <1>1 DEF StepQuiet, aws, FilesAreNamed, OnlyApprovingApply
<1>2. ASSUME NEW r \in Runs, WriteTfvars(r) PROVE FilesAreNamed' /\ OnlyApprovingApply'
  BY <1>2, InHook
  DEF WriteTfvars, Go, Raise, aws, AwsInv, TypeOK, FilesAreNamed, OnlyApprovingApply
<1>3. ASSUME NEW r \in Runs, StepPlans(r) PROVE FilesAreNamed' /\ OnlyApprovingApply'
  <2> DEFINE f == FullName(job[r].req)
             q == tfvars[f]
  <2>1. f \in FullNames /\ q \in Requests /\ Env(r) \in Environments /\ None \notin Requests
    BY <1>3, InHook, GateAssumption DEF StepPlans
  <2>2. q.env = Env(r)
    BY <2>1 DEF FilesAreNamed, FullName, Env
  <2>3. \A e \in Environments : tfplan'[e] = IF e = Env(r) THEN [req |-> q, fresh |-> TRUE] ELSE tfplan[e]
    BY <1>3, <2>1 DEF StepPlans, SavePlan, AwsInv, TypeOK
  <2>4. FilesAreNamed'
    BY <1>3, <2>2, <2>3 DEF StepPlans, aws, FilesAreNamed
  <2> QED BY <1>3, <2>4 DEF StepPlans, OnlyApprovingApply
<1>4. ASSUME NEW e \in Environments, Applied(e) \/ CutOff(e), UNCHANGED <<step, tfvars>>
      PROVE  FilesAreNamed' /\ OnlyApprovingApply'
  <2>1. tfplan[e] \in PlanFile /\ tfplan[e].req.env = e
    BY <1>4, ApplyStaysInside
  <2>2. \A d \in Environments :
          /\ tfplan'[d] = tfplan[d] \/ (d = e /\ tfplan'[d].req = tfplan[e].req)
          /\ state'[d] = state[d] \/ (d = e /\ state'[d] \in {tfplan[e].req, None})
    BY <1>4, ApplyLeaves DEF AwsInv
  <2>3. tfplan[e] # None
    BY <1>4, ApplyLeaves DEF Applicable, AwsInv
  <2> QED BY <1>4, <2>1, <2>2, <2>3 DEF FilesAreNamed, OnlyApprovingApply
<1>5. ASSUME NEW r \in Runs, StepCutsOff(r) PROVE FilesAreNamed' /\ OnlyApprovingApply'
  BY <1>4, <1>5, InHook DEF StepCutsOff
<1> QED
  BY <1>1, <1>2, <1>3, <1>4, <1>5, StepKinds, PartlyIsCutOff DEF StepApplies, StepFailsByHand

\* What is found anywhere was asked for by a run.
LEMMA TracesHaveRunsStep ==
  ASSUME AwsInv, FilesAreNamed, TracesHaveRuns, [Next]_vars
  PROVE  TracesHaveRuns'
<1>1. \A q : Asked(q) => Asked(q)'
  BY AwsStepImplementsGate, StartedKeepsJob DEF Asked, AwsInv, TypeOK
<1>2. ASSUME \A f \in FullNames :
               /\ tfvars'[f] = tfvars[f] \/ Asked(tfvars'[f])
               /\ rds'[f] = rds[f] \/ rds'[f] = None \/ Asked(rds'[f]),
             \A e \in Environments :
               /\ tfplan'[e] = tfplan[e] \/ Asked(tfplan'[e].req)
               /\ state'[e] = state[e] \/ state'[e] = None \/ Asked(state'[e])
      PROVE  TracesHaveRuns'
  <2>1. \A f \in FullNames : /\ tfvars'[f] # None => Asked(tfvars'[f])
                             /\ rds'[f] # None => Asked(rds'[f])
    BY <1>2 DEF TracesHaveRuns
  <2>2. \A e \in Environments : /\ tfplan'[e] # None => Asked(tfplan'[e].req)
                                /\ state'[e] # None => Asked(state'[e])
    BY <1>2 DEF TracesHaveRuns
  <2>3. \A q : Asked(q) => \E r \in Runs : job'[r] # None /\ job'[r].req = q
    BY <1>1 DEF Asked
  <2> QED BY <2>1, <2>2, <2>3 DEF TracesHaveRuns, Asked
<1>3. CASE StepQuiet
  BY <1>2, <1>3 DEF StepQuiet, aws
<1>4. ASSUME NEW r \in Runs, WriteTfvars(r) PROVE TracesHaveRuns'
  <2>1. Asked(job[r].req)
    BY <1>4, InHook DEF WriteTfvars, Asked
  <2>2. \A f \in FullNames : tfvars'[f] = tfvars[f] \/ tfvars'[f] = job[r].req
    BY <1>4 DEF WriteTfvars, AwsInv, TypeOK
  <2> QED BY <1>2, <1>4, <2>1, <2>2 DEF WriteTfvars, aws
<1>5. ASSUME NEW r \in Runs, StepPlans(r) PROVE TracesHaveRuns'
  <2> DEFINE q == tfvars[FullName(job[r].req)]
  <2>1. Asked(q)
    BY <1>5, InHook, GateAssumption DEF StepPlans, TracesHaveRuns
  <2>2. \A e \in Environments : tfplan'[e] = tfplan[e] \/ tfplan'[e].req = q
    BY <1>5 DEF StepPlans, SavePlan, AwsInv, TypeOK
  <2> QED BY <1>2, <1>5, <2>1, <2>2 DEF StepPlans, aws
<1>6. ASSUME NEW e \in Environments, Applied(e) \/ CutOff(e), UNCHANGED <<step, tfvars>>
      PROVE  TracesHaveRuns'
  <2>1. Asked(tfplan[e].req)
    BY <1>6, ApplyLeaves DEF Applicable, TracesHaveRuns, AwsInv
  <2>2. \A d \in Environments :
          /\ tfplan'[d] = tfplan[d] \/ tfplan'[d].req = tfplan[e].req
          /\ state'[d] = state[d] \/ state'[d] \in {tfplan[e].req, None}
    BY <1>6, ApplyLeaves DEF AwsInv
  <2>3. \A f \in FullNames : rds'[f] = rds[f] \/ rds'[f] = None \/ rds'[f] = tfplan[e].req
    BY <1>6, ApplyStaysInside
  <2> QED BY <1>2, <1>6, <2>1, <2>2, <2>3
<1>7. ASSUME NEW r \in Runs, StepCutsOff(r) PROVE TracesHaveRuns'
  BY <1>6, <1>7, InHook DEF StepCutsOff
<1> QED
  BY <1>3, <1>4, <1>5, <1>6, <1>7, StepKinds, PartlyIsCutOff DEF StepApplies, StepFailsByHand

\* Nobody's hook returns while a tfvars file is written.
LEMMA WritingReturnsNone ==
  ASSUME AwsInv, NEW r \in Runs, NEW o \in Runs, Returns(r)
  PROVE  ~WriteTfvars(o)
BY DEF WriteTfvars, Go, Raise, HookRaises, Advance, gateVars, Returns, AwsInv, TypeOK, GateTypeOK

\* A run moves between the steps of _provision in its hook only.
LEMMA StepsInHook ==
  ASSUME AwsInv, [Next]_vars, NEW r \in Runs, stage[r] # "hook"
  PROVE  step'[r] = step[r]
BY DEF Next, AwsStep, WriteTfvars, TerraformInit, Plan, SavePlan, Apply, ApplyFails,
       ApplyTimesOut, StepFails, ElsewhereStep, KillRun, ApplyByHand, awsVars, vars,
       Go, Return, Raise, At, AwsInv, TypeOK

\* What follows from a success in the next state: the run has its request and
\* its directory to itself in this one too.
LEMMA SuccessBefore ==
  ASSUME AwsInv, GateInv, [Next]_vars, NEW r \in Runs, Succeeded(r)'
  PROVE  /\ job[r] # None /\ job'[r] = job[r] /\ job[r].req \in Requests
         /\ Env(r)' = Env(r) /\ Backend(r)' = Backend(r)
         /\ Alone(r)' => Alone(r)
         /\ \/ Succeeded(r) /\ stage[r] \in {"provisioned", "recorded"}
            \/ Returns(r)
<1>1. GateTypeOK /\ [GateNext]_gateVars
  BY AwsStepImplementsGate DEF AwsInv, TypeOK
<1>2. \/ Succeeded(r) /\ stage[r] \in {"provisioned", "recorded"}
      \/ Returns(r)
  BY <1>1, SuccessArises, SucceededStarted DEF HookReturns, Advance, Returns, GateTypeOK
<1>3. job[r] # None /\ job'[r] = job[r]
  BY <1>1, <1>2, StartedKeepsJob DEF GateTypeOK, Returns
<1>4. job[r].req \in Requests
  BY <1>1, <1>3 DEF GateTypeOK
<1>5. Env(r)' = Env(r) /\ Backend(r)' = Backend(r)
  BY <1>3 DEF Env, Backend
<1>6. Alone(r)' => Alone(r)
  <2>1. \A o \in Runs : job[o] # None => job'[o] = job[o]
    BY <1>1, StartedKeepsJob
  <2> QED BY <1>3, <2>1 DEF Alone, Env
<1> QED BY <1>2, <1>3, <1>4, <1>5, <1>6

\* A success is the work of the apply that the run itself made.
LEMMA SuccessesAppliedStep ==
  ASSUME AwsInv, GateInv, SuccessesApplied, [Next]_vars
  PROVE  SuccessesApplied'
<1> SUFFICES ASSUME NEW r \in Approving, Succeeded(r)', Backend(r)' = "aws"
             PROVE  step'[r] = "apply"
  BY DEF SuccessesApplied
<1>1. r \in Runs
  BY AwsAssumption
<1>2. Backend(r) = "aws" /\ ((Succeeded(r) /\ stage[r] # "hook") \/ Returns(r))
  BY <1>1, SuccessBefore
<1>3. CASE Succeeded(r) /\ stage[r] # "hook"
  BY <1>1, <1>2, <1>3, StepsInHook DEF SuccessesApplied
<1>4. CASE Returns(r)
  <2>1. \A o \in Runs : ~WriteTfvars(o)
    BY <1>1, <1>4, WritingReturnsNone
  <2>2. PICK e \in Environments : StepApplies(e)
    BY <1>1, <1>2, <1>4, <2>1, StepKinds DEF StepQuiet, StepPlans, StepCutsOff, StepFailsByHand
  <2> QED BY <1>1, <1>4, <2>2 DEF StepApplies
<1> QED BY <1>2, <1>3, <1>4

\* A run that has its directory to itself finds there what itself has left, so
\* an apply leaves what it asked for, and no later step takes it away.
LEMMA SoleRunIsLiveStep ==
  ASSUME AwsInv, GateInv, FilesAreNamed, TracesHaveRuns, SuccessesApplied, SoleRunIsLive,
         [Next]_vars
  PROVE  SoleRunIsLive'
<1> SUFFICES ASSUME NEW r \in Approving, Succeeded(r)', Backend(r)' = "aws", Alone(r)'
             PROVE  rds'[FullName(job'[r].req)] = job'[r].req /\ state'[Env(r)'] = job'[r].req
  BY DEF SoleRunIsLive
<1> DEFINE q == job[r].req
           e == Env(r)
           f == FullName(q)
<1>1. /\ r \in Runs /\ job[r] # None /\ job'[r] = job[r] /\ Env(r)' = e /\ q \in Requests
      /\ Backend(r) = "aws" /\ Alone(r)
      /\ (Succeeded(r) /\ stage[r] \in {"provisioned", "recorded"}) \/ Returns(r)
  BY AwsAssumption, SuccessBefore
<1>2. f \in FullNames /\ f[2] = e /\ q.env = e
  BY <1>1 DEF FullNames, FullName, Env
<1>3. \A x : Asked(x) /\ x.env = e => x = q
  BY <1>1 DEF Asked, Alone, Env
<1>4. ASSUME e \in Environments, StepApplies(e) PROVE rds'[f] = q /\ state'[e] = q
  <2>1. Applied(e) /\ tfplan[e] \in PlanFile /\ tfplan[e] # None /\ tfplan[e].req.env = e
    BY <1>4, ApplyStaysInside DEF StepApplies, Applied, Applicable
  <2>2. tfplan[e].req = q
    BY <1>3, <1>4, <2>1 DEF TracesHaveRuns
  <2>3. WithoutOld(e) \in [FullNames -> Requests \cup {None}]
    <3>1. rds \in [FullNames -> Requests \cup {None}]
      BY DEF AwsInv, TypeOK
    <3> QED BY <3>1 DEF WithoutOld
  <2>4. rds' = [WithoutOld(e) EXCEPT ![f] = q]
    BY <2>1, <2>2 DEF Applied, WithNew
  <2>5. state'[e] = q
    BY <1>4, <2>1, <2>2 DEF Applied, AwsInv, TypeOK
  <2> HIDE DEF f, q
  <2> QED BY <1>2, <2>3, <2>4, <2>5
<1>5. ASSUME NEW d \in Environments, d # e, e \in Environments, Applied(d) \/ CutOff(d)
      PROVE  rds'[f] = rds[f] /\ state'[e] = state[e]
  <2>1. rds'[f] = rds[f]
    BY <1>2, <1>5, ApplyStaysInside
  <2>2. state'[e] = state[e]
    BY <1>5, ApplyLeaves DEF AwsInv
  <2> QED BY <2>1, <2>2
<1>6. CASE Succeeded(r) /\ stage[r] \in {"provisioned", "recorded"}
  <2>1. rds[f] = q /\ state[e] = q
    BY <1>1, <1>6 DEF SoleRunIsLive
  <2>2. e \in Environments
    BY <1>1, <1>6 DEF SuccessesApplied, AwsInv, UnderWay
  <2>3. CASE UNCHANGED aws
    BY <1>1, <2>1, <2>3 DEF aws
  <2>4. ASSUME NEW d \in Environments, StepApplies(d) PROVE rds'[f] = q /\ state'[e] = q
    BY <1>4, <1>5, <2>1, <2>2, <2>4 DEF StepApplies
  <2>5. ASSUME NEW o \in Runs, StepCutsOff(o) PROVE rds'[f] = q /\ state'[e] = q
    <3>1. job[o] # None /\ stage[o] = "hook" /\ Env(o) \in Environments
      BY <2>5, InHook DEF StepCutsOff
    <3>2. Env(o) # e
      BY <1>1, <1>6, <3>1 DEF Alone
    <3> QED BY <1>5, <2>1, <2>2, <2>5, <3>1, <3>2 DEF StepCutsOff
  <2>6. ASSUME NEW d \in Environments, StepFailsByHand(d) PROVE rds'[f] = q /\ state'[e] = q
    <3>1. CASE d = e
      <4>1. Replaces(e) /\ tfplan[e] # None
        BY <2>6, <3>1 DEF StepFailsByHand, PartlyApplied, OldIsGone, Applicable
      <4>2. tfplan[e].req = q
        BY <1>3, <2>2, <4>1 DEF FilesAreNamed, TracesHaveRuns
      <4> QED BY <2>1, <4>1, <4>2 DEF Replaces
    <3>2. CASE d # e
      BY <1>5, <2>1, <2>2, <2>6, <3>2, PartlyIsCutOff DEF StepFailsByHand
    <3> QED BY <3>1, <3>2
  <2> QED
    BY <1>1, <2>3, <2>4, <2>5, <2>6, StepKinds DEF StepQuiet, StepPlans, WriteTfvars
<1>7. CASE Returns(r)
  <2>1. \A o \in Runs : ~WriteTfvars(o)
    BY <1>1, <1>7, WritingReturnsNone
  <2>2. PICK d \in Environments : StepApplies(d)
    BY <1>1, <1>7, <2>1, StepKinds DEF StepQuiet, StepPlans, StepCutsOff, StepFailsByHand
  <2>3. d = e
    BY <1>1, <1>7, <2>2 DEF StepApplies
  <2> QED BY <1>1, <1>4, <2>2, <2>3
<1> QED BY <1>1, <1>6, <1>7

\* An instance that Terraform has known of and that is there after an apply,
\* cut off or not, is known after it: the state forgets what is gone.
LEMMA OnlyTheGoneIsForgotten ==
  ASSUME AwsInv, FilesAreNamed, NEW e \in Environments, CutOff(e),
         NEW f \in FullNames, rds'[f] # None, Managed(f)
  PROVE  Managed(f)'
<1>1. PICK d \in Environments : state[d] # None /\ FullName(state[d]) = f
  BY DEF Managed
<1>2. CASE state'[d] = state[d]
  BY <1>1, <1>2 DEF Managed
<1>3. CASE state'[d] # state[d]
  <2>1. d = e /\ OldIsGone(e) /\ Replaces(e) /\ rds' \in {WithoutOld(e), WithNew(e)}
    BY <1>3, ApplyLeaves DEF CutOff, OldIsGone, AwsInv
  <2>2. WithoutOld(e) = [rds EXCEPT ![f] = None] /\ rds \in [FullNames -> Requests \cup {None}]
    BY <1>1, <2>1 DEF WithoutOld, AwsInv, TypeOK
  <2>3. FullName(tfplan[e].req) # f
    BY <1>1, <2>1 DEF Replaces, FullName
  <2>4. rds'[f] = None
    BY <2>1, <2>2, <2>3 DEF WithNew
  <2> QED BY <2>4
<1> QED BY <1>2, <1>3

\* An instance escapes Terraform's state when an apply is cut off; the run
\* that made it then ends without a success, which it stays without.
LEMMA OrphansAreReportedStep ==
  ASSUME AwsInv, GateInv, FilesAreNamed, OnlyApprovingApply, OrphansAreReported, [Next]_vars
  PROVE  OrphansAreReported'
<1>1. GateTypeOK /\ [GateNext]_gateVars
  BY AwsStepImplementsGate DEF AwsInv, TypeOK
<1> SUFFICES ASSUME NEW f \in FullNames, rds'[f] # None, ~Managed(f)'
             PROVE  \E r \in Approving :
                      /\ job'[r] # None /\ Env(r)' = f[2]
                      /\ stage'[r] \notin InFlight \ {"failed"} /\ ~Succeeded(r)'
  BY DEF OrphansAreReported
<1>2. ASSUME rds[f] # None, ~Managed(f)
      PROVE  \E r \in Approving :
               /\ job'[r] # None /\ Env(r)' = f[2]
               /\ stage'[r] \notin InFlight \ {"failed"} /\ ~Succeeded(r)'
  <2>1. PICK r \in Approving :
               /\ job[r] # None /\ Env(r) = f[2]
               /\ stage[r] \notin InFlight \ {"failed"} /\ ~Succeeded(r)
    BY <1>2 DEF OrphansAreReported
  <2>2. r \in Runs /\ stage[r] \in {"failed", "recorded", "unrecorded", "killed"}
    BY <1>1, <2>1, AwsAssumption DEF GateTypeOK, Stages, InFlight
  <2>3. job'[r] = job[r] /\ Env(r)' = Env(r)
    BY <1>1, <2>1, <2>2, StartedKeepsJob DEF Env
  <2>4. ~Succeeded(r)'
    BY <2>1, <2>2, SuccessBefore DEF Returns
  <2>5. stage'[r] \in {"failed", "recorded", "unrecorded", "killed"}
    BY <1>1, <2>2
    DEF GateNext, gateVars, Start, GateStep, EvaluatePolicy, AssessReadiness, GateRaises,
        RecordOutcome, RecordRaises, HookReturns, HookRaises, Kill, Advance, GateTypeOK
  <2> QED BY <2>1, <2>3, <2>4, <2>5 DEF InFlight
<1>3. ASSUME UNCHANGED aws PROVE rds[f] # None /\ ~Managed(f)
  BY <1>3 DEF Managed, aws
<1>4. ASSUME NEW e \in Environments, StepApplies(e) PROVE rds[f] # None /\ ~Managed(f)
  <2> DEFINE new == tfplan[e].req
             old == FullName(state[e])
  <2>1. Applied(e) /\ tfplan[e] \in PlanFile /\ new.env = e /\ new # None
    BY <1>4, ApplyStaysInside, GateAssumption DEF StepApplies, PlanFile
  <2>2. /\ state'[e] = new
        /\ \A d \in Environments : d # e => state'[d] = state[d]
    BY <2>1 DEF Applied, AwsInv, TypeOK
  <2>3. f # FullName(new)
    BY <2>1, <2>2 DEF Managed
  <2>4. /\ WithoutOld(e) \in [FullNames -> Requests \cup {None}]
        /\ rds \in [FullNames -> Requests \cup {None}]
    BY DEF AwsInv, TypeOK, WithoutOld
  <2>5. rds'[f] = WithoutOld(e)[f]
    BY <2>1, <2>3, <2>4 DEF Applied, WithNew
  <2>6. ~(Replaces(e) /\ f = old)
    <3>1. CASE Replaces(e)
      <4>1. WithoutOld(e) = [rds EXCEPT ![old] = None]
        BY <3>1 DEF WithoutOld
      <4> HIDE DEF old
      <4> QED BY <2>4, <2>5, <4>1
    <3> QED BY <3>1
  <2>7. rds[f] # None
    <3>1. CASE Replaces(e)
      <4>1. WithoutOld(e) = [rds EXCEPT ![old] = None]
        BY <3>1 DEF WithoutOld
      <4>2. f # old
        BY <2>6, <3>1
      <4> HIDE DEF old
      <4> QED BY <2>4, <2>5, <4>1, <4>2
    <3> QED BY <2>5, <3>1 DEF WithoutOld
  <2>8. state[e] # None => old # f
    <3>1. ASSUME state[e] # None, ~Replaces(e) PROVE old = FullName(new)
      BY <2>1, <3>1 DEF Replaces, FilesAreNamed, FullName
    <3> QED BY <2>3, <2>6, <3>1
  <2> QED BY <2>2, <2>7, <2>8 DEF Managed
<1>5. ASSUME NEW o \in Runs, StepCutsOff(o), ~(rds[f] # None /\ ~Managed(f))
      PROVE  \E r \in Approving :
               /\ job'[r] # None /\ Env(r)' = f[2]
               /\ stage'[r] \notin InFlight \ {"failed"} /\ ~Succeeded(r)'
  <2>1. /\ job[o] # None /\ stage[o] = "hook" /\ step[o] = "apply"
        /\ Env(o) \in Environments /\ CutOff(Env(o))
    BY <1>5, InHook DEF StepCutsOff
  <2>2. o \in Approving
    BY <2>1 DEF OnlyApprovingApply
  <2>3. ~Managed(f)
    BY <2>1, OnlyTheGoneIsForgotten
  <2>4. Env(o) = f[2]
    BY <1>5, <2>1, <2>3, ApplyStaysInside
  <2>5. job'[o] # None /\ Env(o)' = Env(o)
    BY <1>1, <2>1, StartedKeepsJob DEF Env
  <2>6. stage'[o] \in {"failed", "killed"} /\ ~Succeeded(o)'
    BY <1>5, <2>1, SuccessBefore DEF StepCutsOff, Returns
  <2> QED BY <2>2, <2>4, <2>5, <2>6 DEF InFlight
<1>6. ASSUME NEW e \in Environments, StepFailsByHand(e) PROVE rds[f] # None /\ ~Managed(f)
  <2>1. PartlyApplied(e) /\ CutOff(e) /\ rds' = WithoutOld(e)
    BY <1>6, PartlyIsCutOff DEF StepFailsByHand, PartlyApplied
  <2>2. ~Managed(f)
    BY <2>1, OnlyTheGoneIsForgotten
  <2>3. WithoutOld(e)[f] \in {rds[f], None}
    <3>1. rds \in [FullNames -> Requests \cup {None}]
      BY DEF AwsInv, TypeOK
    <3> QED BY <3>1 DEF WithoutOld
  <2> QED BY <2>1, <2>2, <2>3
<1> QED
  BY <1>2, <1>3, <1>4, <1>5, <1>6, StepKinds DEF StepQuiet, StepPlans, WriteTfvars

\* Who made what, in every reachable state.
THEOREM AwsTraceInvariant == Spec => []AwsTraceInv
<1>1. Init /\ GateInv => AwsTraceInv
  <2> SUFFICES ASSUME Init, GateInv PROVE AwsTraceInv
    OBVIOUS
  <2>1. \A r \in Runs : ~Succeeded(r)
    BY SucceededStarted DEF Init, GateInit
  <2> QED
    BY <2>1, AwsAssumption
    DEF Init, AwsTraceInv, FilesAreNamed, TracesHaveRuns, OnlyApprovingApply,
        SuccessesApplied, SoleRunIsLive, OrphansAreReported
<1>2. AwsInv /\ AwsInv' /\ GateInv /\ AwsTraceInv /\ [Next]_vars => AwsTraceInv'
  BY FilesAreNamedStep, TracesHaveRunsStep, SuccessesAppliedStep, SoleRunIsLiveStep,
     OrphansAreReportedStep DEF AwsTraceInv
<1> QED
  BY <1>1, <1>2, AwsInvariant, AwsImplementsGate, GateInvariant, PTL DEF Spec

\* The success of an approving run that is alone in its environment stays
\* backed by an instance with its own settings, for any number of runs in the
\* other environments.
THEOREM SoleRunIsLiveHolds == Spec => []SoleRunIsLive
BY AwsTraceInvariant, PTL DEF AwsTraceInv

\* An instance that Terraform does not know of can always be put down to an
\* approving run of its environment that ended without reporting success.
THEOREM OrphansAreReportedHolds == Spec => []OrphansAreReported
BY AwsTraceInvariant, PTL DEF AwsTraceInv

=============================================================================
