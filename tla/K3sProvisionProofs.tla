------------------------- MODULE K3sProvisionProofs -------------------------
(***************************************************************************)
(* Theorems about K3sProvision, for every set of runs, of requests and any *)
(* number of attempts: it implements the gate, its state is well typed,    *)
(* and its safety properties follow from the invariant K3sInv.             *)
(***************************************************************************)
EXTENDS K3sProvision, ProvisionGateProofs

\* The steps of a run outside a k3s hook, which leave Kubernetes, the servers
\* and the files alone.
Away(r) == (GateStep(r) \/ ElsewhereStep(r) \/ Start(r)) /\ UNCHANGED k3sVars

\* Each step is one run's, or the operator's.
LEMMA OneMoves ==
  ASSUME Next
  PROVE  \/ \E r \in Runs : K3sStep(r) \/ Away(r) \/ KillRun(r)
         \/ \E c \in Clusters : Reconcile(c)
BY DEF Next, Progress, ElsewhereStep, Away

\* A step of a k3s hook goes on, returns or raises.
LEMMA HookMoves ==
  ASSUME NEW r \in Runs, K3sStep(r)
  PROVE  UNCHANGED gateVars \/ HookReturns(r) \/ HookRaises(r)
BY DEF K3sStep, RequireOperator, FindNamespace, CreateNamespace, Apply, BecomesHealthy,
       SpawnForward, Succeeds, Drops, PsqlTimesOut, PersistCredentials, StepFails, Go, Raise, gateVars

\* Every step of the k3s provisioner is a step of the gate, or invisible to it.
LEMMA StepImplementsGate == [Next]_vars => [GateNext]_gateVars
<1> SUFFICES ASSUME [Next]_vars PROVE GateNext \/ UNCHANGED gateVars
  OBVIOUS
<1>1. ASSUME NEW r \in Runs, K3sStep(r) PROVE GateNext \/ UNCHANGED gateVars
  BY <1>1, HookMoves DEF GateNext
<1>2. ASSUME NEW r \in Runs, Away(r) \/ KillRun(r) PROVE GateNext
  BY <1>2 DEF GateNext, Away, ElsewhereStep, KillRun
<1>3. ASSUME NEW c \in Clusters, Reconcile(c) PROVE UNCHANGED gateVars
  BY <1>3 DEF Reconcile
<1>4. CASE UNCHANGED vars
  BY <1>4 DEF vars
<1> QED
  BY <1>1, <1>2, <1>3, <1>4, OneMoves

\* The k3s provisioner implements the gate.
THEOREM K3sImplementsGate == Spec => GateSpec
<1>1. Init => GateInit
  BY DEF Init
<1> QED
  BY <1>1, StepImplementsGate, PTL DEF Spec, GateSpec

-----------------------------------------------------------------------------
(***************************************************************************)
(* What a step leaves alone.                                               *)
(***************************************************************************)

\* Nothing that exists is taken away, and the login roles keep the passwords
\* they were created with.
Kept ==
  /\ \A o \in Runs : stage[o] # "idle" => job'[o] = job[o]
  /\ namespaces \subseteq namespaces'
  /\ \A c \in Clusters : manifest[c] # None => manifest'[c] # None
  /\ \A c \in Clusters : serving[c] # None => serving'[c] # None
  /\ databases \subseteq databases'
  /\ \A c \in Clusters : settings[c] # None => settings'[c] # None
  /\ \A c \in Clusters : rolepw[c] # None => rolepw'[c] = rolepw[c]
  /\ \A f \in FullNames : credFile[f] # None => credFile'[f] # None

OthersUntouched(r) ==
  \A o \in Runs \ {r} :
    stage'[o] = stage[o] /\ step'[o] = step[o] /\ forward'[o] = forward[o] /\ job'[o] = job[o]

\* A started run has a request, which names its Cluster and its file.
LEMMA RunningHasRequest ==
  ASSUME TypeOK, NEW r \in Runs, stage[r] # "idle"
  PROVE  /\ job[r] # None /\ job[r].req \in Requests /\ job[r].req.ns \in Namespaces
         /\ Cluster(r) \in Clusters /\ FullName(r) \in FullNames
BY DEF TypeOK, GateTypeOK, Namespaces, Cluster, Clusters, FullName, FullNames

\* None is no run, no request and no manifest.
LEMMA NoneIsNone == None \notin Runs /\ None \notin Requests
BY GateAssumption

\* Every step of a k3s hook leaves its request, the trail and the other runs
\* alone, and goes on or ends the hook.
LEMMA HookFrame ==
  ASSUME TypeOK, NEW r \in Runs, K3sStep(r)
  PROVE  /\ stage[r] = "hook" /\ Backend(r) = "k3s"
         /\ job' = job /\ trail' = trail
         /\ stage'[r] \in {"hook", "provisioned", "failed"}
         /\ OthersUntouched(r)
<1> USE DEF TypeOK, GateTypeOK
<1>1. stage[r] = "hook" /\ Backend(r) = "k3s"
  BY DEF K3sStep, RequireOperator, FindNamespace, CreateNamespace, Apply, BecomesHealthy,
         SpawnForward, Succeeds, Drops, PsqlTimesOut, PersistCredentials, StepFails, AtStatement,
         At, Raise, HookRaises, Advance
<1>2. \A o \in Runs \ {r} : step'[o] = step[o] /\ forward'[o] = forward[o]
  BY DEF K3sStep, RequireOperator, FindNamespace, CreateNamespace, Apply, BecomesHealthy,
         SpawnForward, Succeeds, Drops, PsqlTimesOut, PersistCredentials, StepFails, Go, Raise
<1> QED
  BY <1>1, <1>2, HookMoves DEF gateVars, OthersUntouched, HookReturns, HookRaises, Advance

\* The steps away from a k3s hook move their run only.
LEMMA AwayFrame ==
  ASSUME TypeOK, NEW r \in Runs, Away(r) \/ KillRun(r)
  PROVE  OthersUntouched(r) /\ (stage[r] # "idle" => job'[r] = job[r])
<1> USE DEF TypeOK, GateTypeOK
<1>1. /\ \A o \in Runs \ {r} : stage'[o] = stage[o] /\ job'[o] = job[o]
      /\ stage[r] # "idle" => job'[r] = job[r]
  BY DEF Away, KillRun, GateStep, ElsewhereStep, Start, Kill, EvaluatePolicy, AssessReadiness,
         GateRaises, RecordOutcome, RecordRaises, HookReturns, HookRaises, Advance
<1>2. \A o \in Runs \ {r} : step'[o] = step[o] /\ forward'[o] = forward[o]
  BY DEF Away, KillRun, k3sVars
<1> QED
  BY <1>1, <1>2 DEF OthersUntouched

\* What the statement of a step changes.
LEMMA EffectKeeps ==
  ASSUME TypeOK, NEW r \in Runs, stage[r] = "hook", Effect(r) \/ UNCHANGED postgres
  PROVE  /\ databases \subseteq databases' /\ databases' \subseteq databases \cup {Cluster(r)}
         /\ settings' \in [Clusters -> Requests \cup {None}]
         /\ rolepw' \in [Clusters -> Password]
         /\ \A c \in Clusters : settings'[c] \in {settings[c], job[r].req}
         /\ \A c \in Clusters : settings[c] # None => settings'[c] # None
         /\ \A c \in Clusters : rolepw[c] # None => rolepw'[c] = rolepw[c]
         /\ \A c \in Clusters : rolepw'[c] = rolepw[c] \/ (rolepw'[c] = r /\ c = Cluster(r))
<1>1. job[r].req \in Requests /\ Cluster(r) \in Clusters /\ r \in Password
  BY RunningHasRequest DEF Password
<1> QED
  BY <1>1, NoneIsNone DEF TypeOK, Effect, RolesAfter, postgres

\* What a step of a k3s hook writes: it adds to what is there, and whatever it
\* adds is of its own run and request.
LEMMA HookWrites ==
  ASSUME TypeOK, NEW r \in Runs, K3sStep(r)
  PROVE  /\ namespaces \subseteq namespaces' /\ namespaces' \subseteq namespaces \cup {job[r].req.ns}
         /\ manifest' \in {manifest, [manifest EXCEPT ![Cluster(r)] = job[r].req]}
         /\ serving' = serving
         /\ databases \subseteq databases' /\ databases' \subseteq databases \cup {Cluster(r)}
         /\ settings' \in [Clusters -> Requests \cup {None}]
         /\ rolepw' \in [Clusters -> Password]
         /\ \A c \in Clusters : settings'[c] \in {settings[c], job[r].req}
         /\ \A c \in Clusters : settings[c] # None => settings'[c] # None
         /\ \A c \in Clusters : rolepw[c] # None => rolepw'[c] = rolepw[c]
         /\ \A c \in Clusters : rolepw'[c] = rolepw[c] \/ (rolepw'[c] = r /\ c = Cluster(r))
         /\ credFile' \in {credFile, [credFile EXCEPT ![FullName(r)] = r]}
<1>1. stage[r] = "hook"
  BY HookFrame
<1>2. CASE Succeeds(r) \/ Drops(r) \/ PsqlTimesOut(r)
  <2>1. UNCHANGED <<kubernetes, credFile>> /\ (Effect(r) \/ UNCHANGED postgres)
    BY <1>2 DEF Succeeds, Drops, PsqlTimesOut
  <2> QED
    BY <1>1, <2>1, EffectKeeps DEF kubernetes
<1>3. CASE RequireOperator(r) \/ FindNamespace(r) \/ CreateNamespace(r) \/ Apply(r)
           \/ BecomesHealthy(r) \/ SpawnForward(r) \/ PersistCredentials(r) \/ StepFails(r)
  <2>1. UNCHANGED postgres /\ serving' = serving
    BY <1>3
    DEF RequireOperator, FindNamespace, CreateNamespace, Apply, BecomesHealthy, SpawnForward,
        PersistCredentials, StepFails, kubernetes
  <2>2. /\ namespaces' = namespaces \/ namespaces' = namespaces \cup {job[r].req.ns}
        /\ manifest' \in {manifest, [manifest EXCEPT ![Cluster(r)] = job[r].req]}
        /\ credFile' \in {credFile, [credFile EXCEPT ![FullName(r)] = r]}
    BY <1>3
    DEF RequireOperator, FindNamespace, CreateNamespace, Apply, BecomesHealthy, SpawnForward,
        PersistCredentials, StepFails, kubernetes
  <2> QED
    BY <1>1, <2>1, <2>2, EffectKeeps
<1> QED
  BY <1>2, <1>3 DEF K3sStep

\* A step of a k3s hook takes nothing away.
LEMMA HookKeeps ==
  ASSUME TypeOK, NEW r \in Runs, K3sStep(r)
  PROVE  Kept
<1>1. job' = job /\ job[r].req # None /\ r # None
  BY HookFrame, RunningHasRequest, NoneIsNone
<1>2. \A c \in Clusters : manifest[c] # None => manifest'[c] # None
  BY <1>1, HookWrites DEF TypeOK
<1>3. \A f \in FullNames : credFile[f] # None => credFile'[f] # None
  BY <1>1, HookWrites DEF TypeOK
<1> QED
  BY <1>1, <1>2, <1>3, HookWrites DEF Kept

\* Nor do the steps away from a hook.
LEMMA AwayKeeps ==
  ASSUME TypeOK, NEW r \in Runs, Away(r) \/ KillRun(r)
  PROVE  Kept
<1>1. UNCHANGED <<kubernetes, postgres, credFile>>
  BY DEF Away, KillRun, k3sVars
<1> QED
  BY <1>1, AwayFrame DEF Kept, OthersUntouched, kubernetes, postgres

\* Nor does the operator, because a Cluster that serves has a manifest.
LEMMA ReconcileKeeps ==
  ASSUME TypeOK, ManifestFirst, NEW c \in Clusters, Reconcile(c)
  PROVE  Kept
<1>1. \A d \in Clusters : serving[d] # None => serving'[d] # None
  BY DEF Reconcile, ManifestFirst, TypeOK
<1> QED
  BY <1>1 DEF Kept, Reconcile, gateVars

-----------------------------------------------------------------------------
(***************************************************************************)
(* Type correctness                                                        *)
(***************************************************************************)

\* How far attempts are counted.
LEMMA AttemptRange ==
  /\ 0 \in 0..Attempts - 1
  /\ \A n \in 0..Attempts - 1 : n + 1 < Attempts => n + 1 \in 0..Attempts - 1
BY K3sAssumption

\* A step of a k3s hook stays among the steps of the hook, and counts its
\* attempts below the limit.
LEMMA HookCounters ==
  ASSUME TypeOK, NEW r \in Runs, K3sStep(r)
  PROVE  /\ step' \in [Runs -> {"operator", "namespace", "create namespace", "apply", "wait",
                                "persist"} \cup Statements]
         /\ attempt' \in [Runs -> 0..Attempts - 1]
         /\ forward' \in [Runs -> BOOLEAN]
<1> USE DEF TypeOK, Go, Raise, Statements
<1>1. CASE RequireOperator(r) \/ FindNamespace(r) \/ CreateNamespace(r) \/ Apply(r)
           \/ BecomesHealthy(r)
  BY <1>1 DEF RequireOperator, FindNamespace, CreateNamespace, Apply, BecomesHealthy
<1>2. CASE SpawnForward(r) \/ PsqlTimesOut(r) \/ PersistCredentials(r) \/ StepFails(r)
  BY <1>2 DEF SpawnForward, PsqlTimesOut, PersistCredentials, StepFails
<1>3. CASE Succeeds(r)
  <2>1. step[r] \in Statements
    BY <1>3 DEF Succeeds, AtStatement, At
  <2>2. AfterStatement(r) \in {"persist"} \cup Statements
    BY <2>1 DEF AfterStatement
  <2> QED
    BY <1>3, <2>2, AttemptRange DEF Succeeds
<1>4. CASE Drops(r)
  <2>1. CASE attempt[r] + 1 < Attempts
    <3>1. attempt[r] + 1 \in 0..Attempts - 1
      BY <2>1, AttemptRange
    <3> QED
      BY <1>4, <2>1, <3>1 DEF Drops, gateVars
  <2>2. CASE ~(attempt[r] + 1 < Attempts)
    BY <1>4, <2>2 DEF Drops
  <2> QED
    BY <2>1, <2>2
<1> QED
  BY <1>1, <1>2, <1>3, <1>4 DEF K3sStep

\* Every step keeps the types.
LEMMA TypesStep ==
  ASSUME TypeOK, GateTypeOK', [Next]_vars
  PROVE  TypeOK'
<1>1. ASSUME NEW r \in Runs, K3sStep(r) PROVE TypeOK'
  <2>1. /\ job[r].req \in Requests /\ job[r].req.ns \in Namespaces
        /\ Cluster(r) \in Clusters /\ FullName(r) \in FullNames /\ r \in Password
    BY <1>1, HookFrame, RunningHasRequest DEF Password
  <2>2. namespaces' \subseteq Namespaces /\ databases' \subseteq Clusters
    BY <1>1, <2>1, HookWrites DEF TypeOK
  <2>3. manifest' \in [Clusters -> Manifest] /\ serving' \in [Clusters -> Manifest]
    BY <1>1, <2>1, HookWrites DEF TypeOK, Manifest
  <2>4. credFile' \in [FullNames -> Password]
    BY <1>1, <2>1, HookWrites DEF TypeOK
  <2> QED
    BY <1>1, <2>2, <2>3, <2>4, HookWrites, HookCounters DEF TypeOK
<1>2. ASSUME NEW r \in Runs, Away(r) \/ KillRun(r) PROVE TypeOK'
  BY <1>2 DEF TypeOK, Away, KillRun, k3sVars, kubernetes, postgres
<1>3. ASSUME NEW c \in Clusters, Reconcile(c) PROVE TypeOK'
  BY <1>3 DEF TypeOK, Reconcile
<1>4. CASE UNCHANGED vars
  BY <1>4 DEF TypeOK, vars, k3sVars, kubernetes, postgres
<1> QED
  BY <1>1, <1>2, <1>3, <1>4, OneMoves

\* The initial states are well typed.
LEMMA TypesInit == Init => TypeOK
<1> SUFFICES ASSUME Init PROVE TypeOK
  OBVIOUS
<1>1. GateTypeOK
  BY GateInvInit DEF Init, GateInv
<1>2. namespaces \subseteq Namespaces
  BY DEF Init, Clusters, Namespaces
<1>3. manifest \in [Clusters -> Manifest] /\ serving \in [Clusters -> Manifest]
  BY DEF Init, Manifest
<1> QED
  BY <1>1, <1>2, <1>3, AttemptRange DEF Init, TypeOK, Password

\* The variables always have their types; in particular no statement is tried
\* more than Attempts times.
THEOREM K3sTypeCorrect == Spec => []TypeOK
<1>1. TypeOK /\ GateTypeOK' /\ [Next]_vars => TypeOK'
  BY TypesStep
<1>2. GateInv => GateTypeOK
  BY DEF GateInv
<1> QED
  BY <1>1, <1>2, TypesInit, K3sImplementsGate, GateInvariant, PTL DEF Spec

-----------------------------------------------------------------------------
(***************************************************************************)
(* StepIsBacked and ManifestFirst                                          *)
(***************************************************************************)

\* The steps of a hook, by what they rely on.
LEMMA Levels ==
  /\ WithSettings = {"roles", "persist"}
  /\ WithDatabase = {"settings", "roles", "persist"}
  /\ WithServer = {"lookup", "create", "settings", "roles", "persist"}
  /\ WithManifest = {"wait", "lookup", "create", "settings", "roles", "persist"}
  /\ WithNamespace = {"apply", "wait", "lookup", "create", "settings", "roles", "persist"}
BY DEF WithSettings, WithDatabase, WithServer, WithManifest, WithNamespace

\* What a run relies on survives the steps in which it does not move.
LEMMA StaysBacked ==
  ASSUME TypeOK, Kept, NEW o \in Runs, Backed(o),
         stage'[o] = stage[o], step'[o] = step[o], forward'[o] = forward[o], job'[o] = job[o]
  PROVE  Backed(o)'
<1>1. Cluster(o)' = Cluster(o) /\ Backend(o)' = Backend(o)
  BY DEF Cluster, Backend
<1>2. stage[o] = "hook" => Cluster(o) \in Clusters
  BY RunningHasRequest
<1> QED
  BY <1>1, <1>2, Levels DEF Kept, Backed

\* A statement that the server has run leaves the run with what the next one
\* relies on.
LEMMA StatementStaysBacked ==
  ASSUME TypeOK, NEW r \in Runs, Succeeds(r), Backed(r), Kept
  PROVE  Backed(r)'
<1>1. /\ stage[r] = "hook" /\ Backend(r) = "k3s" /\ job' = job /\ stage' = stage
      /\ step[r] \in Statements /\ step'[r] = AfterStatement(r) /\ forward[r]
  BY DEF Succeeds, AtStatement, At, gateVars, TypeOK
<1>2. /\ Cluster(r)' = Cluster(r) /\ Backend(r)' = "k3s"
      /\ Cluster(r) \in Clusters /\ job[r].req # None /\ r # None
  BY <1>1, RunningHasRequest, NoneIsNone DEF Cluster, Backend
<1>3. /\ job[r].req.ns \in namespaces' /\ manifest'[Cluster(r)] # None /\ serving'[Cluster(r)] # None
      /\ step[r] \in WithDatabase => Cluster(r) \in databases'
      /\ step[r] \in WithSettings => settings'[Cluster(r)] # None
  BY <1>1, <1>2, Levels DEF Backed, Kept, Statements
<1>4. step[r] = "lookup" => step'[r] = "create" \/ (step'[r] = "settings" /\ Cluster(r) \in databases')
  BY <1>1 DEF AfterStatement, Kept
<1>5. step[r] = "create" => step'[r] = "settings" /\ Cluster(r) \in databases'
  BY <1>1 DEF AfterStatement, Succeeds, Effect
<1>6. step[r] = "settings" => step'[r] = "roles" /\ settings'[Cluster(r)] # None
  BY <1>1, <1>2 DEF AfterStatement, Succeeds, Effect, TypeOK
<1>7. step[r] = "roles" => step'[r] = "persist" /\ rolepw'[Cluster(r)] # None
  BY <1>1, <1>2 DEF AfterStatement, Succeeds, Effect, RolesAfter, TypeOK
<1> QED
  BY <1>1, <1>2, <1>3, <1>4, <1>5, <1>6, <1>7, Levels DEF Backed, Statements

\* So does every other step of a k3s hook.
LEMMA HookStaysBacked ==
  ASSUME TypeOK, NEW r \in Runs, K3sStep(r), Backed(r), Kept
  PROVE  Backed(r)'
<1>1. /\ stage[r] = "hook" /\ Backend(r) = "k3s" /\ job' = job
      /\ stage'[r] \in {"hook", "provisioned", "failed"}
      /\ Cluster(r) \in Clusters /\ job[r].req # None
  BY HookFrame, RunningHasRequest, NoneIsNone
<1>2. Cluster(r)' = Cluster(r) /\ Backend(r)' = "k3s"
  BY <1>1 DEF Cluster, Backend
<1>3. CASE stage'[r] # "hook"
  BY <1>1, <1>3 DEF Backed
<1>4. CASE step'[r] = step[r] /\ stage'[r] = "hook"
  BY <1>1, <1>2, <1>4, Levels DEF Backed, Kept
<1>5. CASE RequireOperator(r)
  <2>1. step'[r] = "namespace"
    BY <1>5 DEF RequireOperator, Go, TypeOK
  <2> QED
    BY <1>1, <1>2, <2>1, Levels DEF Backed
<1>6. CASE FindNamespace(r)
  <2>1. step'[r] = "create namespace" \/ (step'[r] = "apply" /\ job[r].req.ns \in namespaces')
    BY <1>6 DEF FindNamespace, Go, kubernetes, TypeOK
  <2> QED
    BY <1>1, <1>2, <2>1, Levels DEF Backed
<1>7. CASE CreateNamespace(r) /\ stage'[r] = "hook"
  <2>1. step'[r] = "apply" /\ job[r].req.ns \in namespaces'
    BY <1>1, <1>7 DEF CreateNamespace, Go, Raise, HookRaises, Advance, TypeOK, GateTypeOK
  <2> QED
    BY <1>1, <1>2, <2>1, Levels DEF Backed
<1>8. CASE Apply(r) /\ stage'[r] = "hook"
  <2>1. step[r] = "apply" /\ step'[r] = "wait"
    BY <1>1, <1>8 DEF Apply, At, Go, Raise, HookRaises, Advance, TypeOK, GateTypeOK
  <2>2. manifest'[Cluster(r)] # None
    BY <1>1, <1>8 DEF Apply, TypeOK
  <2> QED
    BY <1>1, <1>2, <2>1, <2>2, Levels DEF Backed, Kept
<1>9. CASE BecomesHealthy(r)
  <2>1. step[r] = "wait" /\ step'[r] = "lookup" /\ serving'[Cluster(r)] # None
    BY <1>1, <1>9 DEF BecomesHealthy, At, Go, kubernetes, TypeOK
  <2> QED
    BY <1>1, <1>2, <2>1, Levels DEF Backed, Kept
<1>10. CASE SpawnForward(r) \/ Drops(r)
  BY <1>1, <1>3, <1>4, <1>10 DEF SpawnForward, Drops, Raise, gateVars
<1>11. CASE PsqlTimesOut(r) \/ StepFails(r) \/ PersistCredentials(r)
  <2>1. stage'[r] # "hook"
    BY <1>11
    DEF PsqlTimesOut, StepFails, PersistCredentials, Raise, HookRaises, HookReturns, Advance,
        TypeOK, GateTypeOK
  <2> QED
    BY <1>3, <2>1
<1> QED
  BY <1>3, <1>5, <1>6, <1>7, <1>8, <1>9, <1>10, <1>11, StatementStaysBacked, <1>1 DEF K3sStep

\* A run that is not in a k3s hook still has to take its first step, and has no
\* port-forward.
LEMMA AwayStaysBacked ==
  ASSUME TypeOK, GateTypeOK', ForwardsClosed, NEW r \in Runs, Backed(r), Away(r) \/ KillRun(r)
  PROVE  Backed(r)'
<1>1. stage'[r] # "idle" /\ step' = step
  BY DEF Away, KillRun, k3sVars, GateStep, ElsewhereStep, Start, Kill, EvaluatePolicy,
         AssessReadiness, GateRaises, RecordOutcome, RecordRaises, HookReturns, HookRaises, Advance,
         TypeOK, GateTypeOK
<1>2. CASE stage'[r] \in {"policy", "readiness", "hook"}
  <2>1. stage[r] \in {"idle", "policy", "readiness"} /\ Away(r)
    BY <1>2
    DEF Away, KillRun, GateStep, ElsewhereStep, Start, Kill, EvaluatePolicy, AssessReadiness,
        GateRaises, RecordOutcome, RecordRaises, HookReturns, HookRaises, Advance, TypeOK, GateTypeOK
  <2>2. step[r] = "operator" /\ ~forward[r] /\ forward' = forward
    BY <2>1 DEF Backed, ForwardsClosed, Away, k3sVars
  <2> QED
    BY <1>1, <2>2, Levels DEF Backed
<1>3. CASE stage'[r] \notin {"policy", "readiness", "hook"}
  BY <1>1, <1>3 DEF Backed
<1> QED
  BY <1>2, <1>3

\* Every step keeps StepIsBacked and ManifestFirst, and takes nothing away.
LEMMA BackedStep ==
  ASSUME TypeOK, TypeOK', ForwardsClosed, ManifestFirst, StepIsBacked, Next
  PROVE  StepIsBacked' /\ ManifestFirst' /\ Kept
<1>1. \A o \in Runs : Backed(o)
  BY DEF StepIsBacked
<1>2. ASSUME NEW r \in Runs, K3sStep(r) PROVE StepIsBacked' /\ ManifestFirst' /\ Kept
  <2>1. Kept /\ OthersUntouched(r)
    BY <1>2, HookKeeps, HookFrame
  <2>2. Backed(r)'
    BY <1>1, <1>2, <2>1, HookStaysBacked
  <2>3. \A o \in Runs \ {r} : Backed(o)'
    BY <1>1, <2>1, StaysBacked DEF OthersUntouched
  <2>4. ManifestFirst'
    BY <1>2, <2>1, HookWrites DEF ManifestFirst, Kept
  <2> QED
    BY <2>1, <2>2, <2>3, <2>4 DEF StepIsBacked
<1>3. ASSUME NEW r \in Runs, Away(r) \/ KillRun(r) PROVE StepIsBacked' /\ ManifestFirst' /\ Kept
  <2>1. Kept /\ OthersUntouched(r)
    BY <1>3, AwayKeeps, AwayFrame
  <2>2. Backed(r)'
    BY <1>1, <1>3, AwayStaysBacked DEF TypeOK
  <2>3. \A o \in Runs \ {r} : Backed(o)'
    BY <1>1, <2>1, StaysBacked DEF OthersUntouched
  <2>4. ManifestFirst'
    BY <1>3 DEF ManifestFirst, Away, KillRun, k3sVars, kubernetes
  <2> QED
    BY <2>1, <2>2, <2>3, <2>4 DEF StepIsBacked
<1>4. ASSUME NEW c \in Clusters, Reconcile(c) PROVE StepIsBacked' /\ ManifestFirst' /\ Kept
  <2>1. Kept
    BY <1>4, ReconcileKeeps
  <2>2. StepIsBacked'
    BY <1>1, <1>4, <2>1, StaysBacked DEF Reconcile, gateVars, StepIsBacked
  <2>3. ManifestFirst'
    BY <1>4 DEF ManifestFirst, Reconcile, TypeOK
  <2> QED
    BY <2>1, <2>2, <2>3
<1> QED
  BY <1>2, <1>3, <1>4, OneMoves

-----------------------------------------------------------------------------
(***************************************************************************)
(* ForwardsClosed                                                          *)
(***************************************************************************)

\* Whatever ends a hook ends its port-forward.
LEMMA ForwardsStep ==
  ASSUME TypeOK, StepIsBacked, ForwardsClosed, Next
  PROVE  ForwardsClosed'
<1>1. ASSUME NEW r \in Runs, K3sStep(r) PROVE ForwardsClosed'
  <2>1. OthersUntouched(r)
    BY <1>1, HookFrame
  <2>2. forward'[r] => stage'[r] = "hook"
    <3>1. stage[r] = "hook"
      BY <1>1, HookFrame
    <3>2. stage' = stage \/ ~forward'[r]
      BY <1>1
      DEF K3sStep, RequireOperator, FindNamespace, CreateNamespace, Apply, BecomesHealthy,
          SpawnForward, Succeeds, Drops, PsqlTimesOut, PersistCredentials, StepFails, Go, Raise,
          gateVars, TypeOK
    <3> QED
      BY <3>1, <3>2
  <2> QED
    BY <2>1, <2>2 DEF ForwardsClosed, OthersUntouched
<1>2. ASSUME NEW r \in Runs, Away(r) PROVE ForwardsClosed'
  <2>1. OthersUntouched(r) /\ forward' = forward
    BY <1>2, AwayFrame DEF Away, k3sVars
  <2>2. ~forward[r] \/ stage[r] = "killed"
    BY <1>2
    DEF Away, GateStep, ElsewhereStep, Start, EvaluatePolicy, AssessReadiness, GateRaises, Outcome,
        RecordOutcome, RecordRaises, HookReturns, HookRaises, Advance, ForwardsClosed, StepIsBacked, Backed
  <2>3. stage[r] # "killed"
    BY <1>2
    DEF Away, GateStep, ElsewhereStep, Start, EvaluatePolicy, AssessReadiness, GateRaises, Outcome,
        RecordOutcome, RecordRaises, HookReturns, HookRaises, Advance
  <2> QED
    BY <2>1, <2>2, <2>3 DEF ForwardsClosed, OthersUntouched
<1>3. ASSUME NEW r \in Runs, KillRun(r) PROVE ForwardsClosed'
  <2>1. OthersUntouched(r) /\ stage'[r] = "killed"
    BY <1>3, AwayFrame DEF KillRun, Kill, TypeOK, GateTypeOK
  <2> QED
    BY <2>1 DEF ForwardsClosed, OthersUntouched
<1>4. ASSUME NEW c \in Clusters, Reconcile(c) PROVE ForwardsClosed'
  BY <1>4 DEF ForwardsClosed, Reconcile, gateVars
<1> QED
  BY <1>1, <1>2, <1>3, <1>4, OneMoves

-----------------------------------------------------------------------------
(***************************************************************************)
(* SuccessIsBacked                                                         *)
(***************************************************************************)

\* A k3s hook returns only from its last step.
LEMMA ReturnPersists ==
  ASSUME TypeOK, NEW r \in Runs, HookReturns(r), Backend(r) = "k3s", Next
  PROVE  PersistCredentials(r)
<1>1. stage[r] = "hook" /\ stage'[r] = "provisioned"
  BY DEF HookReturns, Advance, TypeOK, GateTypeOK
<1>2. ASSUME NEW o \in Runs, K3sStep(o) PROVE K3sStep(r)
  BY <1>1, <1>2, HookFrame DEF OthersUntouched
<1>3. ASSUME NEW o \in Runs, Away(o) \/ KillRun(o) PROVE FALSE
  <2>1. o = r
    BY <1>1, <1>3, AwayFrame DEF OthersUntouched
  <2> QED
    BY <1>1, <1>3, <2>1
    DEF Away, KillRun, GateStep, ElsewhereStep, Start, Kill, EvaluatePolicy, AssessReadiness,
        GateRaises, RecordOutcome, RecordRaises, Outcome, Advance, TypeOK, GateTypeOK
<1>4. ASSUME NEW c \in Clusters, Reconcile(c) PROVE FALSE
  BY <1>1, <1>4 DEF Reconcile, gateVars
<1>5. K3sStep(r)
  BY <1>2, <1>3, <1>4, OneMoves
<1> QED
  BY <1>1, <1>5
  DEF K3sStep, RequireOperator, FindNamespace, CreateNamespace, Apply, BecomesHealthy, SpawnForward,
      Succeeds, Drops, PsqlTimesOut, StepFails, Go, Raise, HookRaises, Advance, gateVars,
      TypeOK, GateTypeOK

\* What a success relies on survives every step.
LEMMA SuccessStep ==
  ASSUME TypeOK, GateInv, StepIsBacked, SuccessIsBacked, Kept, Next
  PROVE  SuccessIsBacked'
<1> SUFFICES ASSUME NEW r \in Runs, Succeeded(r)', Backend(r)' = "k3s" PROVE Equipped(r)'
  BY DEF SuccessIsBacked
<1>1. CASE Succeeded(r)
  <2>1. stage[r] # "idle"
    BY <1>1, SucceededStarted
  <2>2. Cluster(r)' = Cluster(r) /\ FullName(r)' = FullName(r) /\ Backend(r)' = Backend(r)
    BY <2>1 DEF Kept, Cluster, FullName, Backend
  <2>3. Cluster(r) \in Clusters /\ FullName(r) \in FullNames /\ job'[r] = job[r]
    BY <2>1, RunningHasRequest DEF Kept
  <2>4. Equipped(r)
    BY <1>1, <2>2 DEF SuccessIsBacked
  <2>5. rolepw'[Cluster(r)] # None
    BY <2>3, <2>4 DEF Kept, Equipped
  <2> QED
    BY <2>2, <2>3, <2>4, <2>5 DEF Kept, Equipped
<1>2. CASE HookReturns(r)
  <2>1. stage[r] = "hook" /\ job' = job
    BY <1>2 DEF HookReturns, Advance
  <2>2. Backend(r) = "k3s" /\ Cluster(r)' = Cluster(r) /\ FullName(r)' = FullName(r)
    BY <2>1 DEF Backend, Cluster, FullName
  <2>3. PersistCredentials(r)
    BY <1>2, <2>2, ReturnPersists
  <2>4. FullName(r) \in FullNames /\ r # None
    BY <2>1, RunningHasRequest, NoneIsNone
  <2>5. step[r] = "persist" /\ credFile'[FullName(r)] # None /\ UNCHANGED <<kubernetes, postgres>>
    BY <2>3, <2>4 DEF PersistCredentials, At, TypeOK
  <2>6. Backed(r)
    BY DEF StepIsBacked
  <2> QED
    BY <2>1, <2>2, <2>5, <2>6, Levels DEF Backed, Equipped, kubernetes, postgres
<1> QED
  BY <1>1, <1>2, StepImplementsGate, SuccessArises DEF TypeOK

-----------------------------------------------------------------------------
(***************************************************************************)
(* OnlyGatedLeaveTraces and OwnNames                                       *)
(***************************************************************************)

\* Nothing is applied or written for a run that did not pass the gate.
LEMMA TracesStep ==
  ASSUME TypeOK, GateInv, Kept, OnlyGatedLeaveTraces, Next
  PROVE  OnlyGatedLeaveTraces'
<1>1. \A o \in Traces : Gated(o)' /\ Backend(o)' = "k3s"
  <2> TAKE o \in Traces
  <2>1. o \in Runs
    <3>1. o # None
      BY DEF Traces
    <3>2. \A c \in Clusters : rolepw[c] \in Password
      BY DEF TypeOK
    <3>3. \A f \in FullNames : credFile[f] \in Password
      BY DEF TypeOK
    <3> QED
      BY <3>1, <3>2, <3>3 DEF Traces, Password
  <2>2. Gated(o) /\ Backend(o) = "k3s"
    BY DEF OnlyGatedLeaveTraces
  <2>3. job'[o] = job[o]
    BY <2>1, <2>2 DEF Gated, TypeOK, GateTypeOK, Kept
  <2> QED
    BY <2>2, <2>3 DEF Gated, Backend
<1>2. ASSUME NEW r \in Runs, K3sStep(r) PROVE OnlyGatedLeaveTraces'
  <2>1. stage[r] = "hook" /\ Backend(r) = "k3s" /\ job' = job
    BY <1>2, HookFrame
  <2>2. Gated(r)
    BY <2>1 DEF GateInv, GateFailsClosed
  <2>3. Gated(r)' /\ Backend(r)' = "k3s"
    BY <2>1, <2>2 DEF Gated, Backend
  <2>4. \A f \in FullNames : credFile'[f] \in {credFile[f], r}
    BY <1>2, HookWrites DEF TypeOK
  <2>5. Traces' \subseteq Traces \cup {r}
    BY <1>2, <2>4, HookWrites DEF Traces
  <2>6. \A c \in Clusters : manifest'[c] \in {manifest[c], job[r].req}
    BY <1>2, HookWrites DEF TypeOK
  <2>7. Applied' \subseteq Applied \cup {job[r].req}
    BY <1>2, <2>6, HookWrites DEF Applied
  <2>8. job[r].req \in Compliant \cap Ready
    BY <2>2 DEF Gated
  <2>9. Applied' \subseteq Compliant \cap Ready
    BY <2>7, <2>8 DEF OnlyGatedLeaveTraces
  <2> QED
    BY <1>1, <2>3, <2>5, <2>9 DEF OnlyGatedLeaveTraces
<1>3. ASSUME NEW r \in Runs, Away(r) \/ KillRun(r) PROVE OnlyGatedLeaveTraces'
  <2>1. UNCHANGED <<manifest, serving, settings, rolepw, credFile>>
    BY <1>3 DEF Away, KillRun, k3sVars, kubernetes, postgres
  <2>2. Traces' = Traces /\ Applied' = Applied
    BY <2>1 DEF Traces, Applied
  <2> QED
    BY <1>1, <2>2 DEF OnlyGatedLeaveTraces
<1>4. ASSUME NEW c \in Clusters, Reconcile(c) PROVE OnlyGatedLeaveTraces'
  <2>1. UNCHANGED <<manifest, settings, rolepw, credFile>> /\ \A d \in Clusters : serving'[d] \in {serving[d], manifest[d]}
    BY <1>4 DEF Reconcile, TypeOK
  <2>2. Traces' = Traces /\ Applied' \subseteq Applied
    BY <2>1 DEF Traces, Applied
  <2> QED
    BY <1>1, <2>2 DEF OnlyGatedLeaveTraces
<1> QED
  BY <1>2, <1>3, <1>4, OneMoves

\* Passwords stay where the run they come from works.
LEMMA NamesStep ==
  ASSUME TypeOK, Kept, OwnNames, Next
  PROVE  OwnNames'
<1>1. \A o \in Runs :
        job[o] # None => job'[o] # None /\ Cluster(o)' = Cluster(o) /\ FullName(o)' = FullName(o)
  BY DEF TypeOK, GateTypeOK, Kept, Cluster, FullName
<1>2. \A c \in Clusters : rolepw[c] # None => rolepw[c] \in Runs
  BY DEF TypeOK, Password
<1>3. \A f \in FullNames : credFile[f] # None => credFile[f] \in Runs
  BY DEF TypeOK, Password
<1>4. ASSUME NEW r \in Runs, K3sStep(r) PROVE OwnNames'
  <2>1. job[r] # None
    BY <1>4, HookFrame, RunningHasRequest
  <2>2. \A f \in FullNames : credFile'[f] = credFile[f] \/ (credFile'[f] = r /\ f = FullName(r))
    <3>1. credFile \in [FullNames -> Password]
      BY DEF TypeOK
    <3>2. credFile' = credFile \/ credFile' = [credFile EXCEPT ![FullName(r)] = r]
      BY <1>4, HookWrites
    <3> QED
      BY <3>1, <3>2
  <2>3. ASSUME NEW c \in Clusters, rolepw'[c] # None
        PROVE  job'[rolepw'[c]] # None /\ Cluster(rolepw[c])' = c
    <3>1. CASE rolepw'[c] = rolepw[c]
      BY <1>1, <1>2, <2>3, <3>1 DEF OwnNames, Cluster
    <3>2. CASE rolepw'[c] = r /\ c = Cluster(r)
      BY <1>1, <2>1, <3>2 DEF Cluster
    <3> QED
      BY <1>4, <3>1, <3>2, HookWrites
  <2>4. ASSUME NEW f \in FullNames, credFile'[f] # None
        PROVE  job'[credFile'[f]] # None /\ FullName(credFile[f])' = f
    <3>1. CASE credFile'[f] = credFile[f]
      BY <1>1, <1>3, <2>4, <3>1 DEF OwnNames, FullName
    <3>2. CASE credFile'[f] = r /\ f = FullName(r)
      BY <1>1, <2>1, <3>2 DEF FullName
    <3> QED
      BY <2>2, <3>1, <3>2
  <2> QED
    BY <2>3, <2>4 DEF OwnNames, Cluster, FullName
<1>5. ASSUME rolepw' = rolepw, credFile' = credFile PROVE OwnNames'
  BY <1>1, <1>2, <1>3, <1>5 DEF OwnNames, Cluster, FullName
<1>6. ASSUME NEW r \in Runs, Away(r) \/ KillRun(r) PROVE OwnNames'
  BY <1>5, <1>6 DEF Away, KillRun, k3sVars, postgres
<1>7. ASSUME NEW c \in Clusters, Reconcile(c) PROVE OwnNames'
  BY <1>5, <1>7 DEF Reconcile
<1> QED
  BY <1>4, <1>6, <1>7, OneMoves

-----------------------------------------------------------------------------
(***************************************************************************)
(* The theorems                                                            *)
(***************************************************************************)

\* The initial states satisfy the invariant.
LEMMA K3sInvInit == Init => K3sInv
<1> SUFFICES ASSUME Init PROVE K3sInv
  OBVIOUS
<1>1. GateInv
  BY GateInvInit DEF Init
<1>2. \A r \in Runs : stage[r] = "idle" /\ step[r] = "operator" /\ ~forward[r]
  BY DEF Init, GateInit
<1>3. StepIsBacked /\ ForwardsClosed
  BY <1>2 DEF StepIsBacked, Backed, ForwardsClosed
<1>4. ManifestFirst
  BY DEF Init, ManifestFirst
<1>5. SuccessIsBacked
  BY <1>2 DEF Init, GateInit, SuccessIsBacked, Succeeded
<1>6. Traces = {} /\ Applied = {}
  BY DEF Init, Traces, Applied
<1>7. OnlyGatedLeaveTraces /\ OwnNames
  BY <1>6 DEF Init, OnlyGatedLeaveTraces, OwnNames
<1> QED
  BY <1>1, TypesInit, <1>3, <1>4, <1>5, <1>7 DEF K3sInv

\* Every step keeps it.
LEMMA K3sInvStep == K3sInv /\ [Next]_vars => K3sInv'
<1> SUFFICES ASSUME K3sInv, [Next]_vars PROVE K3sInv'
  OBVIOUS
<1> USE DEF K3sInv
<1>1. GateInv'
  BY StepImplementsGate, GateInvStep
<1>2. TypeOK'
  BY <1>1, TypesStep DEF GateInv
<1>3. CASE Next
  <2>1. StepIsBacked' /\ ManifestFirst' /\ Kept
    BY <1>2, <1>3, BackedStep
  <2>2. SuccessIsBacked' /\ ForwardsClosed'
    BY <1>3, <2>1, SuccessStep, ForwardsStep
  <2>3. OnlyGatedLeaveTraces' /\ OwnNames'
    BY <1>3, <2>1, TracesStep, NamesStep
  <2> QED
    BY <1>1, <1>2, <2>1, <2>2, <2>3
<1>4. CASE UNCHANGED vars
  <2>1. StepIsBacked' /\ ManifestFirst' /\ SuccessIsBacked' /\ ForwardsClosed'
    BY <1>4
    DEF vars, gateVars, k3sVars, kubernetes, postgres, StepIsBacked, Backed, ManifestFirst,
        SuccessIsBacked, Equipped, Succeeded, ForwardsClosed, Backend, Cluster, FullName
  <2>2. OnlyGatedLeaveTraces' /\ OwnNames'
    BY <1>4
    DEF vars, gateVars, k3sVars, kubernetes, postgres, OnlyGatedLeaveTraces, Traces, Applied, Gated,
        OwnNames, Backend, Cluster, FullName
  <2> QED
    BY <1>1, <1>2, <2>1, <2>2
<1> QED
  BY <1>3, <1>4

\* The inductive invariant of k3s mode.
THEOREM K3sInvariant == Spec => []K3sInv
BY K3sInvInit, K3sInvStep, PTL DEF Spec

\* A run that the gate refused, or whose backend is not k3s, leaves nothing in
\* Kubernetes, on a server or in the credentials files, nor does its request.
THEOREM OnlyGatedLeaveTracesHolds == Spec => []OnlyGatedLeaveTraces
BY K3sInvariant, PTL DEF K3sInv

\* A success has a serving Cluster, the database, its settings, its roles and
\* the credentials file behind it, whatever the tunnel and other runs did.
THEOREM SuccessIsBackedHolds == Spec => []SuccessIsBacked
BY K3sInvariant, PTL DEF K3sInv

\* No run that has ended, unless it was killed, has left a port-forward behind.
THEOREM ForwardsClosedHolds == Spec => []ForwardsClosed
BY K3sInvariant, PTL DEF K3sInv

\* The credentials saved by a run that is alone are those of the login roles,
\* however often the role script was sent.
THEOREM SoleRunCredentialsWorkHolds == Spec => []SoleRunCredentialsWork
<1>1. K3sInv => SoleRunCredentialsWork
  <2> SUFFICES ASSUME K3sInv, NEW r \in Runs, Succeeded(r), Backend(r) = "k3s", Alone(r)
               PROVE  credFile[FullName(r)] = rolepw[Cluster(r)]
    BY DEF SoleRunCredentialsWork
  <2> USE DEF K3sInv
  <2>1. Equipped(r)
    BY DEF SuccessIsBacked
  <2>2. Cluster(r) \in Clusters /\ FullName(r) \in FullNames
    BY SucceededStarted, RunningHasRequest
  <2>3. rolepw[Cluster(r)] \in Runs /\ credFile[FullName(r)] \in Runs
    BY <2>1, <2>2 DEF Equipped, TypeOK, Password
  <2>4. rolepw[Cluster(r)] = r
    BY <2>1, <2>2, <2>3 DEF Equipped, OwnNames, Alone
  <2>5. credFile[FullName(r)] = r
    BY <2>1, <2>2, <2>3 DEF Equipped, OwnNames, FullName, Alone
  <2> QED
    BY <2>4, <2>5
<1> QED
  BY <1>1, K3sInvariant, PTL

=============================================================================
