------------------------ MODULE LocalProvisionProofs ------------------------
(***************************************************************************)
(* Theorems about LocalProvision, for every set of runs and of requests:   *)
(* it implements the gate, its state is well typed, and the safety         *)
(* properties of the local mode follow from the invariant LocalInv.        *)
(***************************************************************************)
EXTENDS LocalProvision, ProvisionGateProofs

\* Every step of the local provisioner is a step of the gate, or invisible to it.
LEMMA StepImplementsGate == [Next]_vars => [GateNext]_gateVars
<1> SUFFICES ASSUME [Next]_vars PROVE GateNext \/ UNCHANGED gateVars
  OBVIOUS
<1>1. ASSUME NEW r \in Runs, LocalStep(r) PROVE GateNext \/ UNCHANGED gateVars
  <2>1. HookReturns(r) \/ HookRaises(r) \/ UNCHANGED gateVars
    BY <1>1
    DEF LocalStep, ReadSuperuser, WriteSuperuser, WriteOverride, ComposeUp, BecomesReady,
        WaitTimesOut, LookupDatabase, CreateDatabase, ApplySettings, ApplyRoles,
        PersistCredentials, StepFails, Go, Raise
  <2> QED
    BY <2>1 DEF GateNext
<1>2. ASSUME NEW r \in Runs, GateStep(r) \/ RemoteStep(r) \/ Start(r) \/ Kill(r)
      PROVE  GateNext
  BY <1>2 DEF GateNext, RemoteStep
<1>3. CASE UNCHANGED vars
  BY <1>3 DEF vars
<1> QED
  BY <1>1, <1>2, <1>3 DEF Next, Progress

\* The local provisioner implements the gate.
THEOREM LocalImplementsGate == Spec => GateSpec
<1>1. Init => GateInit
  BY DEF Init
<1> QED
  BY <1>1, StepImplementsGate, PTL DEF Spec, GateSpec

-----------------------------------------------------------------------------
(***************************************************************************)
(* What a step leaves alone: the state of the other runs, and whatever is  *)
(* there already.                                                          *)
(***************************************************************************)

\* Nothing that exists is taken away, and the passwords that the server and
\* its login roles were created with stay.
Kept ==
  /\ \A o \in Runs : stage[o] # "idle" => job'[o] = job[o]
  /\ superFile # None => superFile' # None
  /\ override # None => override' # None
  /\ container # None => container' # None
  /\ serverpw # None => serverpw' = serverpw
  /\ databases \subseteq databases'
  /\ \A n \in Names : settings[n] # None => settings'[n] # None
  /\ \A n \in Names : rolepw[n] # None => rolepw'[n] = rolepw[n]
  /\ \A f \in FullNames : credFile[f] # None => credFile'[f] # None

OthersUntouched(r) ==
  \A o \in Runs \ {r} :
    stage'[o] = stage[o] /\ step'[o] = step[o] /\ superpw'[o] = superpw[o] /\ job'[o] = job[o]

\* A started run has a request, which has a name.
LEMMA RunningHasRequest ==
  ASSUME TypeOK, NEW r \in Runs, stage[r] # "idle"
  PROVE  /\ job[r] # None /\ job[r] \in [req : Requests, mode : Modes]
         /\ job[r].req \in Requests /\ Name(r) \in Names /\ FullName(r) \in FullNames
BY DEF TypeOK, GateTypeOK, Name, Names, FullName, FullNames

\* The runs, the requests and None are different things.
LEMMA NoneIsNone == None \notin Runs /\ None \notin Requests
BY GateAssumption

\* The steps outside a local hook change no more than the run's stage and the
\* trail, and the request of a run that starts.
LEMMA RemoteLeavesMachine ==
  ASSUME TypeOK, NEW r \in Runs,
         (GateStep(r) \/ RemoteStep(r) \/ Start(r) \/ Kill(r)), UNCHANGED localVars
  PROVE  Kept /\ OthersUntouched(r)
<1>1. \A o \in Runs \ {r} : stage'[o] = stage[o]
  BY DEF GateStep, RemoteStep, Start, Kill, EvaluatePolicy, AssessReadiness, GateRaises,
         RecordOutcome, RecordRaises, HookReturns, HookRaises, Advance, TypeOK, GateTypeOK
<1>2. CASE Start(r)
  <2>1. stage[r] = "idle" /\ \A o \in Runs \ {r} : job'[o] = job[o]
    BY <1>2 DEF Start, Advance, TypeOK, GateTypeOK
  <2> QED
    BY <1>1, <2>1 DEF Kept, OthersUntouched, localVars, server, files
<1>3. CASE GateStep(r) \/ RemoteStep(r) \/ Kill(r)
  <2>1. job' = job
    BY <1>3
    DEF GateStep, RemoteStep, Kill, EvaluatePolicy, AssessReadiness, GateRaises,
        RecordOutcome, RecordRaises, HookReturns, HookRaises
  <2> QED
    BY <1>1, <2>1 DEF Kept, OthersUntouched, localVars, server, files
<1> QED
  BY <1>2, <1>3

\* Every step of a local hook leaves the request, the trail and the other runs
\* alone, and either goes on or ends the hook.
LEMMA LocalFrame ==
  ASSUME TypeOK, NEW r \in Runs, LocalStep(r)
  PROVE  /\ stage[r] = "hook" /\ Backend(r) = "local"
         /\ job' = job /\ trail' = trail
         /\ stage'[r] \in {"hook", "provisioned", "failed"}
         /\ OthersUntouched(r)
<1> USE DEF TypeOK, GateTypeOK
<1>1. At(r, step[r])
  BY DEF LocalStep, ReadSuperuser, WriteSuperuser, WriteOverride, ComposeUp, BecomesReady,
         WaitTimesOut, LookupDatabase, CreateDatabase, ApplySettings, ApplyRoles,
         PersistCredentials, StepFails, At
<1>2. stage[r] = "hook" /\ Backend(r) = "local"
  BY <1>1 DEF At
<1>3. UNCHANGED gateVars \/ HookReturns(r) \/ HookRaises(r)
  BY DEF LocalStep, ReadSuperuser, WriteSuperuser, WriteOverride, ComposeUp, BecomesReady,
         WaitTimesOut, LookupDatabase, CreateDatabase, ApplySettings, ApplyRoles,
         PersistCredentials, StepFails, Go, Raise
<1>4. \A o \in Runs \ {r} : step'[o] = step[o]
  BY DEF LocalStep, ReadSuperuser, WriteSuperuser, WriteOverride, ComposeUp, BecomesReady,
         WaitTimesOut, LookupDatabase, CreateDatabase, ApplySettings, ApplyRoles,
         PersistCredentials, StepFails, Go, Raise
<1>5. \A o \in Runs \ {r} : superpw'[o] = superpw[o]
  BY DEF LocalStep, ReadSuperuser, WriteSuperuser, WriteOverride, ComposeUp, BecomesReady,
         WaitTimesOut, LookupDatabase, CreateDatabase, ApplySettings, ApplyRoles,
         PersistCredentials, StepFails
<1> QED
  BY <1>2, <1>3, <1>4, <1>5 DEF gateVars, OthersUntouched, HookReturns, HookRaises, Advance

\* A step of a local hook takes nothing away.
LEMMA LocalKeeps ==
  ASSUME TypeOK, NEW r \in Runs, LocalStep(r), Backed(r)
  PROVE  Kept
<1>1. job' = job /\ stage[r] = "hook" /\ r # None
  BY LocalFrame, NoneIsNone
<1>2. CASE ReadSuperuser(r) \/ BecomesReady(r) \/ WaitTimesOut(r) \/ LookupDatabase(r) \/ StepFails(r)
  BY <1>1, <1>2
  DEF Kept, ReadSuperuser, BecomesReady, WaitTimesOut, LookupDatabase, StepFails, server, files
<1>3. CASE WriteSuperuser(r) \/ WriteOverride(r)
  <2>1. job[r].req # None
    BY <1>1, RunningHasRequest, NoneIsNone
  <2> QED
    BY <1>1, <1>3, <2>1 DEF Kept, WriteSuperuser, WriteOverride, server
<1>4. CASE ComposeUp(r)
  <2>1. override # None
    BY <1>1, <1>4 DEF ComposeUp, At, Backed
  <2> QED
    BY <1>1, <1>4, <2>1 DEF Kept, ComposeUp, files
<1>5. CASE CreateDatabase(r)
  BY <1>1, <1>5 DEF Kept, CreateDatabase, files
<1>6. CASE ApplySettings(r)
  <2>1. job[r].req # None
    BY <1>1, RunningHasRequest, NoneIsNone
  <2>2. \A n \in Names : settings[n] # None => settings'[n] # None
    BY <1>6, <2>1 DEF ApplySettings, TypeOK
  <2> QED
    BY <1>1, <1>6, <2>2 DEF Kept, ApplySettings, files
<1>7. CASE ApplyRoles(r)
  <2>1. \A n \in Names : rolepw[n] # None => rolepw'[n] = rolepw[n]
    BY <1>7 DEF ApplyRoles, TypeOK
  <2> QED
    BY <1>1, <1>7, <2>1 DEF Kept, ApplyRoles, files
<1>8. CASE PersistCredentials(r)
  <2>1. \A f \in FullNames : credFile[f] # None => credFile'[f] # None
    BY <1>1, <1>8 DEF PersistCredentials, TypeOK
  <2> QED
    BY <1>1, <1>8, <2>1 DEF Kept, PersistCredentials, server
<1> QED
  BY <1>2, <1>3, <1>4, <1>5, <1>6, <1>7, <1>8 DEF LocalStep

\* Each step of the specification is one run's: a step of its local hook, or a
\* step that does not touch the machine.
LEMMA OneRunMoves ==
  ASSUME Next
  PROVE  \E r \in Runs :
           \/ LocalStep(r)
           \/ (GateStep(r) \/ RemoteStep(r) \/ Start(r) \/ Kill(r)) /\ UNCHANGED localVars
BY DEF Next, Progress, RemoteStep

-----------------------------------------------------------------------------
(***************************************************************************)
(* Type correctness                                                        *)
(***************************************************************************)

\* A step of a local hook keeps the types of what it writes.
LEMMA LocalTypes ==
  ASSUME TypeOK, GateTypeOK', NEW r \in Runs, LocalStep(r)
  PROVE  TypeOK'
<1>1. /\ job[r].req \in Requests /\ Name(r) \in Names /\ FullName(r) \in FullNames
      /\ r \in Password
  BY LocalFrame, RunningHasRequest DEF Password
<1> USE DEF TypeOK, Go, Raise
<1>2. CASE ReadSuperuser(r) \/ WriteSuperuser(r)
  BY <1>1, <1>2 DEF ReadSuperuser, WriteSuperuser, server, files
<1>3. CASE WriteOverride(r) \/ ComposeUp(r)
  BY <1>1, <1>3 DEF WriteOverride, ComposeUp, server, files
<1>4. CASE BecomesReady(r) \/ WaitTimesOut(r) \/ LookupDatabase(r) \/ StepFails(r)
  BY <1>4 DEF BecomesReady, WaitTimesOut, LookupDatabase, StepFails, server, files
<1>5. CASE CreateDatabase(r) \/ ApplySettings(r)
  BY <1>1, <1>5 DEF CreateDatabase, ApplySettings, files
<1>6. CASE ApplyRoles(r) \/ PersistCredentials(r)
  BY <1>1, <1>6 DEF ApplyRoles, PersistCredentials, server, files
<1> QED
  BY <1>2, <1>3, <1>4, <1>5, <1>6 DEF LocalStep

\* Every step keeps the types.
LEMMA TypesStep ==
  ASSUME TypeOK, GateTypeOK', [Next]_vars
  PROVE  TypeOK'
<1>1. CASE UNCHANGED localVars
  BY <1>1 DEF TypeOK, localVars, server, files
<1>2. ASSUME NEW r \in Runs, LocalStep(r) PROVE TypeOK'
  BY <1>2, LocalTypes
<1> QED
  BY <1>1, <1>2, OneRunMoves DEF vars

\* The variables always have their types.
THEOREM LocalTypeCorrect == Spec => []TypeOK
<1>1. Init => TypeOK
  BY GateInvInit DEF Init, GateInv, TypeOK, Password
<1>2. TypeOK /\ GateTypeOK' /\ [Next]_vars => TypeOK'
  BY TypesStep
<1>3. GateInv => GateTypeOK
  BY DEF GateInv
<1> QED
  BY <1>1, <1>2, <1>3, LocalImplementsGate, GateInvariant, PTL DEF Spec

-----------------------------------------------------------------------------
(***************************************************************************)
(* StepIsBacked                                                            *)
(***************************************************************************)

\* The steps of a hook, by what they rely on.
LEMMA Levels ==
  /\ WithPassword = {"override", "compose", "wait", "lookup", "create", "settings", "roles", "persist"}
  /\ WithContainer = {"wait", "lookup", "create", "settings", "roles", "persist"}
  /\ WithServer = {"lookup", "create", "settings", "roles", "persist"}
  /\ WithDatabase = {"settings", "roles", "persist"}
  /\ WithSettings = {"roles", "persist"}
BY DEF WithPassword, WithContainer, WithServer, WithDatabase, WithSettings

\* What a run relies on survives the steps of the others.
LEMMA OthersStayBacked ==
  ASSUME TypeOK, Kept, NEW r \in Runs, OthersUntouched(r), NEW o \in Runs \ {r}, Backed(o)
  PROVE  Backed(o)'
<1>1. /\ stage'[o] = stage[o] /\ step'[o] = step[o] /\ superpw'[o] = superpw[o]
      /\ Name(o)' = Name(o) /\ Backend(o)' = Backend(o)
  BY DEF OthersUntouched, Name, Backend
<1>2. stage[o] = "hook" => Name(o) \in Names
  BY RunningHasRequest
<1> QED
  BY <1>1, <1>2, Levels DEF Kept, Backed

\* A step of a local hook leaves its run with what the next step relies on.
LEMMA LocalStaysBacked ==
  ASSUME TypeOK, TypeOK', NEW r \in Runs, LocalStep(r), Backed(r), Kept
  PROVE  Backed(r)'
<1>1. /\ stage[r] = "hook" /\ Backend(r) = "local" /\ job' = job
      /\ stage'[r] \in {"hook", "provisioned", "failed"}
      /\ Name(r) \in Names /\ r # None /\ job[r].req # None
  BY LocalFrame, RunningHasRequest, NoneIsNone
<1>2. Name(r)' = Name(r) /\ Backend(r)' = "local"
  BY <1>1 DEF Name, Backend
<1>3. CASE stage'[r] # "hook"
  BY <1>1, <1>3 DEF Backed
<1>4. CASE ReadSuperuser(r)
  <2>1. step'[r] \in {"override", "generate"} /\ (step'[r] = "override" => superpw'[r] = superFile)
    BY <1>4 DEF ReadSuperuser, Go, TypeOK
  <2>2. step'[r] = "override" => superFile # None
    BY <1>4 DEF ReadSuperuser, Go, TypeOK
  <2> QED
    BY <1>1, <1>2, <2>1, <2>2, Levels DEF Backed, Kept
<1>5. CASE WriteSuperuser(r)
  <2>1. step'[r] = "override" /\ superpw'[r] = r /\ superFile' = r
    BY <1>5 DEF WriteSuperuser, Go, TypeOK
  <2> QED
    BY <1>1, <1>2, <2>1, Levels DEF Backed
<1>6. CASE WriteOverride(r)
  <2>1. step[r] = "override" /\ step'[r] = "compose" /\ override' = job[r].req /\ superpw' = superpw
    BY <1>6 DEF WriteOverride, At, Go, TypeOK
  <2> QED
    BY <1>1, <1>2, <2>1, Levels DEF Backed, Kept
<1>7. CASE ComposeUp(r) /\ stage'[r] = "hook"
  <2>1. step[r] = "compose" /\ step'[r] = "wait" /\ superpw' = superpw
    BY <1>1, <1>7 DEF ComposeUp, At, Go, Raise, HookRaises, Advance, TypeOK, GateTypeOK
  <2>2. container' = override /\ serverpw' \in {serverpw, superFile} /\ (serverpw = None => serverpw' = superFile)
    BY <1>7 DEF ComposeUp
  <2> QED
    BY <1>1, <1>2, <2>1, <2>2, Levels DEF Backed, Kept
<1>8. CASE BecomesReady(r)
  <2>1. /\ step[r] = "wait" /\ step'[r] = "lookup" /\ superpw' = superpw
        /\ superpw[r] = serverpw
    BY <1>8 DEF BecomesReady, At, Go, TypeOK
  <2> QED
    BY <1>1, <1>2, <2>1, Levels DEF Backed, Kept
<1>9. CASE LookupDatabase(r)
  <2>1. /\ step[r] = "lookup" /\ superpw' = superpw
        /\ step'[r] \in {"settings", "create"} /\ (step'[r] = "settings" => Name(r) \in databases)
    BY <1>9 DEF LookupDatabase, At, Go, TypeOK
  <2> QED
    BY <1>1, <1>2, <2>1, Levels DEF Backed, Kept
<1>10. CASE CreateDatabase(r) /\ stage'[r] = "hook"
  <2>1. /\ step[r] = "create" /\ superpw' = superpw
        /\ step'[r] = "settings" /\ Name(r) \in databases'
    BY <1>1, <1>10 DEF CreateDatabase, At, Go, Raise, HookRaises, Advance, TypeOK, GateTypeOK
  <2> QED
    BY <1>1, <1>2, <2>1, Levels DEF Backed, Kept
<1>11. CASE ApplySettings(r) /\ stage'[r] = "hook"
  <2>1. /\ step[r] = "settings" /\ superpw' = superpw
        /\ step'[r] = "roles" /\ settings'[Name(r)] = job[r].req
    BY <1>1, <1>11 DEF ApplySettings, At, Go, Raise, HookRaises, Advance, TypeOK, GateTypeOK
  <2> QED
    BY <1>1, <1>2, <2>1, Levels DEF Backed, Kept
<1>12. CASE ApplyRoles(r) /\ stage'[r] = "hook"
  <2>1. /\ step[r] = "roles" /\ superpw' = superpw
        /\ step'[r] = "persist" /\ rolepw'[Name(r)] # None
    BY <1>1, <1>12 DEF ApplyRoles, At, Go, Raise, HookRaises, Advance, TypeOK, GateTypeOK
  <2> QED
    BY <1>1, <1>2, <2>1, Levels DEF Backed, Kept
<1>13. CASE WaitTimesOut(r) \/ PersistCredentials(r) \/ StepFails(r)
  <2>1. stage'[r] # "hook"
    BY <1>13
    DEF WaitTimesOut, PersistCredentials, StepFails, Raise, HookRaises, HookReturns, Advance,
        TypeOK, GateTypeOK
  <2> QED
    BY <1>3, <2>1
<1> QED
  BY <1>3, <1>4, <1>5, <1>6, <1>7, <1>8, <1>9, <1>10, <1>11, <1>12, <1>13 DEF LocalStep

\* A run that is not in a local hook still has to take its first step.
LEMMA RemoteStaysBacked ==
  ASSUME TypeOK, GateTypeOK', NEW r \in Runs, Backed(r),
         (GateStep(r) \/ RemoteStep(r) \/ Start(r) \/ Kill(r)), UNCHANGED localVars
  PROVE  Backed(r)'
<1>1. stage'[r] \in {"policy", "readiness", "hook"} => step[r] = "superuser"
  <2>1. stage'[r] \in {"policy", "readiness", "hook"} => stage[r] \in {"idle", "policy", "readiness"}
    BY DEF GateStep, RemoteStep, Start, Kill, EvaluatePolicy, AssessReadiness, GateRaises,
           RecordOutcome, RecordRaises, HookReturns, HookRaises, Advance, TypeOK, GateTypeOK
  <2> QED
    BY <2>1 DEF Backed
<1>2. stage'[r] # "idle"
  BY DEF GateStep, RemoteStep, Start, Kill, EvaluatePolicy, AssessReadiness, GateRaises,
         RecordOutcome, RecordRaises, HookReturns, HookRaises, Advance, TypeOK, GateTypeOK
<1> QED
  BY <1>1, <1>2, Levels DEF Backed, localVars

\* Every step keeps StepIsBacked, and takes nothing away.
LEMMA BackedStep ==
  ASSUME TypeOK, TypeOK', StepIsBacked, Next
  PROVE  StepIsBacked' /\ Kept
<1>1. ASSUME NEW r \in Runs, LocalStep(r) PROVE StepIsBacked' /\ Kept
  <2>1. Backed(r) /\ \A o \in Runs : Backed(o)
    BY DEF StepIsBacked
  <2>2. Kept
    BY <1>1, <2>1, LocalKeeps
  <2>3. OthersUntouched(r)
    BY <1>1, LocalFrame
  <2>4. Backed(r)'
    BY <1>1, <2>1, <2>2, LocalStaysBacked
  <2>5. \A o \in Runs \ {r} : Backed(o)'
    BY <2>1, <2>2, <2>3, OthersStayBacked
  <2> QED
    BY <2>2, <2>4, <2>5 DEF StepIsBacked
<1>2. ASSUME NEW r \in Runs, (GateStep(r) \/ RemoteStep(r) \/ Start(r) \/ Kill(r)), UNCHANGED localVars
      PROVE  StepIsBacked' /\ Kept
  <2>1. Backed(r) /\ \A o \in Runs : Backed(o)
    BY DEF StepIsBacked
  <2>2. Kept /\ OthersUntouched(r)
    BY <1>2, RemoteLeavesMachine
  <2>3. Backed(r)'
    BY <1>2, <2>1, RemoteStaysBacked DEF TypeOK
  <2>4. \A o \in Runs \ {r} : Backed(o)'
    BY <2>1, <2>2, OthersStayBacked
  <2> QED
    BY <2>2, <2>3, <2>4 DEF StepIsBacked
<1> QED
  BY <1>1, <1>2, OneRunMoves

-----------------------------------------------------------------------------
(***************************************************************************)
(* SuccessIsBacked                                                         *)
(***************************************************************************)

\* What a success relies on survives every step.
LEMMA SuccessStep ==
  ASSUME TypeOK, TypeOK', GateInv, StepIsBacked, SuccessIsBacked, Kept, Next
  PROVE  SuccessIsBacked'
<1> SUFFICES ASSUME NEW r \in Runs, Succeeded(r)', Backend(r)' = "local" PROVE Equipped(r)'
  BY DEF SuccessIsBacked
<1>1. PICK o \in Runs :
        \/ LocalStep(o)
        \/ (GateStep(o) \/ RemoteStep(o) \/ Start(o) \/ Kill(o)) /\ UNCHANGED localVars
  BY OneRunMoves
<1>2. CASE Succeeded(r)
  <2>1. stage[r] \in {"provisioned", "recorded"}
    BY <1>2, SucceededStarted
  <2>2. superpw'[r] = superpw[r]
    <3>1. CASE LocalStep(o)
      BY <2>1, <3>1, LocalFrame DEF OthersUntouched
    <3> QED
      BY <1>1, <3>1 DEF localVars
  <2>3. Name(r)' = Name(r) /\ FullName(r)' = FullName(r) /\ Backend(r)' = Backend(r)
    BY <2>1 DEF Kept, Name, FullName, Backend
  <2>4. Name(r) \in Names /\ FullName(r) \in FullNames
    BY <2>1, RunningHasRequest
  <2>5. Equipped(r)
    BY <1>2, <2>3 DEF SuccessIsBacked
  <2> QED
    BY <2>2, <2>3, <2>4, <2>5 DEF Kept, Equipped
<1>3. CASE HookReturns(r)
  <2>1. stage[r] = "hook" /\ stage'[r] = "provisioned" /\ job' = job
    BY <1>3 DEF HookReturns, Advance, TypeOK, GateTypeOK
  <2>2. Backend(r) = "local" /\ Name(r)' = Name(r) /\ FullName(r)' = FullName(r)
    BY <2>1 DEF Backend, Name, FullName
  <2>3. LocalStep(r)
    <3>1. o = r
      <4>1. CASE LocalStep(o)
        BY <2>1, <4>1, LocalFrame DEF OthersUntouched
      <4>2. CASE (GateStep(o) \/ RemoteStep(o) \/ Start(o) \/ Kill(o)) /\ UNCHANGED localVars
        BY <2>1, <4>2, RemoteLeavesMachine DEF OthersUntouched
      <4> QED
        BY <1>1, <4>1, <4>2
    <3>2. ~(GateStep(r) \/ RemoteStep(r) \/ Start(r) \/ Kill(r))
      BY <2>1, <2>2
      DEF GateStep, RemoteStep, Start, Kill, EvaluatePolicy, AssessReadiness, GateRaises,
          RecordOutcome, RecordRaises, Advance, Outcome, TypeOK, GateTypeOK
    <3> QED
      BY <1>1, <3>1, <3>2
  <2>4. PersistCredentials(r)
    BY <2>1, <2>3
    DEF LocalStep, ReadSuperuser, WriteSuperuser, WriteOverride, ComposeUp, BecomesReady,
        WaitTimesOut, LookupDatabase, CreateDatabase, ApplySettings, ApplyRoles, StepFails,
        Go, Raise, HookRaises, Advance, gateVars, TypeOK, GateTypeOK
  <2>5. FullName(r) \in FullNames /\ r # None
    BY <2>1, RunningHasRequest, NoneIsNone
  <2>6. step[r] = "persist" /\ credFile'[FullName(r)] # None /\ superpw' = superpw /\ server' = server
    BY <2>4, <2>5 DEF PersistCredentials, At, TypeOK
  <2>7. Backed(r)
    BY DEF StepIsBacked
  <2> QED
    BY <2>1, <2>2, <2>6, <2>7, Levels DEF Backed, Equipped, server
<1> QED
  BY <1>2, <1>3, StepImplementsGate, SuccessArises DEF TypeOK

-----------------------------------------------------------------------------
(***************************************************************************)
(* FirstRun                                                                *)
(***************************************************************************)

\* A run comes to write the superuser file only from having read it.
LEMMA GeneratingArises ==
  ASSUME TypeOK, StepIsBacked, Next, NEW o \in Runs, Generating(o)'
  PROVE  Generating(o) \/ ReadSuperuser(o)
<1>1. ASSUME NEW r \in Runs, LocalStep(r) PROVE Generating(o) \/ ReadSuperuser(o)
  <2>1. CASE o # r
    BY <1>1, <2>1, LocalFrame DEF OthersUntouched, Generating
  <2>2. CASE o = r
    BY <1>1, <2>2
    DEF LocalStep, WriteSuperuser, WriteOverride, ComposeUp, BecomesReady, WaitTimesOut,
        LookupDatabase, CreateDatabase, ApplySettings, ApplyRoles, PersistCredentials, StepFails,
        Go, Raise, HookRaises, HookReturns, Advance, gateVars, Generating, TypeOK, GateTypeOK
  <2> QED
    BY <2>1, <2>2
<1>2. ASSUME NEW r \in Runs, (GateStep(r) \/ RemoteStep(r) \/ Start(r) \/ Kill(r)), UNCHANGED localVars
      PROVE  Generating(o)
  <2>1. stage'[o] = "hook" => stage[o] \in {"readiness", "hook"}
    BY <1>2
    DEF GateStep, RemoteStep, Start, Kill, EvaluatePolicy, AssessReadiness, GateRaises,
        RecordOutcome, RecordRaises, HookReturns, HookRaises, Advance, TypeOK, GateTypeOK
  <2>2. Backed(o)
    BY DEF StepIsBacked
  <2> QED
    BY <1>2, <2>1, <2>2 DEF Generating, Backed, localVars
<1> QED
  BY <1>1, <1>2, OneRunMoves

\* Only the first run writes the superuser file, before the server reads it.
LEMMA FirstRunStep ==
  ASSUME TypeOK, StepIsBacked, FirstRun, Next
  PROVE  FirstRun'
<1> USE DEF FirstRun
<1>1. \A o \in Runs : Generating(o)' => Generating(o) \/ ReadSuperuser(o)
  BY GeneratingArises
<1>2. ASSUME NEW r \in Runs, ReadSuperuser(r) PROVE FirstRun'
  <2>1. /\ serverpw' = serverpw /\ superFile' = superFile
        /\ raced' = (raced \/ (superFile = None /\ \E o \in Runs : Generating(o)))
    BY <1>2 DEF ReadSuperuser, server, files
  <2>2. \A o \in Runs : ReadSuperuser(o) => o = r
    BY <1>2 DEF ReadSuperuser, Go, At, TypeOK
  <2>3. Generating(r)' => superFile = None
    BY <1>2 DEF ReadSuperuser, Go, Generating, At, TypeOK
  <2> QED
    BY <1>1, <2>1, <2>2, <2>3
<1>3. ASSUME NEW r \in Runs, WriteSuperuser(r) PROVE FirstRun'
  <2>1. /\ serverpw' = serverpw /\ superFile' = r /\ r # None /\ raced' = raced
        /\ Generating(r) /\ step' = [step EXCEPT ![r] = "override"]
    BY <1>3, NoneIsNone DEF WriteSuperuser, server, At, Go, Generating
  <2>2. ~Generating(r)' /\ \A o \in Runs : ~ReadSuperuser(o)
    BY <1>3, <2>1 DEF Generating, TypeOK, ReadSuperuser, WriteSuperuser, At, Go
  <2> QED
    BY <1>1, <2>1, <2>2
<1>4. ASSUME NEW r \in Runs, ComposeUp(r) PROVE FirstRun'
  <2>1. Backed(r) /\ step[r] = "compose" /\ stage[r] = "hook"
    BY <1>4 DEF StepIsBacked, ComposeUp, At
  <2>2. superFile # None
    BY <2>1, Levels DEF Backed
  <2>3. serverpw' = (IF serverpw = None THEN superFile ELSE serverpw) /\ superFile' = superFile /\ raced' = raced
    BY <1>4 DEF ComposeUp, files
  <2>4. \A o \in Runs : ~ReadSuperuser(o)
    <3> SUFFICES ASSUME NEW o \in Runs, ReadSuperuser(o) PROVE FALSE
      OBVIOUS
    <3>1. container' = container /\ serverpw' = serverpw /\ stage' = stage /\ step[o] = "superuser" /\ step'[o] # "superuser"
      BY DEF ReadSuperuser, server, Go, gateVars, At, TypeOK
    <3>2. o # r
      BY <2>1, <3>1
    <3> QED
      BY <1>4, <3>1, <3>2, LocalFrame DEF LocalStep, OthersUntouched
  <2> QED
    BY <1>1, <2>2, <2>3, <2>4
<1>5. ASSUME UNCHANGED <<serverpw, superFile, raced>>, \A o \in Runs : ~ReadSuperuser(o)
      PROVE  FirstRun'
  BY <1>1, <1>5
<1>6. ASSUME NEW r \in Runs,
             \/ WriteOverride(r) \/ BecomesReady(r) \/ WaitTimesOut(r) \/ LookupDatabase(r)
             \/ CreateDatabase(r) \/ ApplySettings(r) \/ ApplyRoles(r)
             \/ PersistCredentials(r) \/ StepFails(r)
      PROVE  UNCHANGED <<serverpw, superFile, raced>>
  BY <1>6
  DEF WriteOverride, BecomesReady, WaitTimesOut, LookupDatabase, CreateDatabase, ApplySettings,
      ApplyRoles, PersistCredentials, StepFails, server, files
<1>7. ASSUME \E o \in Runs : ReadSuperuser(o) PROVE FirstRun'
  BY <1>2, <1>7
<1>8. CASE \A o \in Runs : ~ReadSuperuser(o)
  BY <1>3, <1>4, <1>5, <1>6, <1>8, OneRunMoves DEF LocalStep, localVars, server, files
<1> QED
  BY <1>7, <1>8

-----------------------------------------------------------------------------
(***************************************************************************)
(* OnlyGatedLeaveTraces and OwnNames                                       *)
(***************************************************************************)

\* What a step of a local hook writes is from its own run and request.
LEMMA LocalWrites ==
  ASSUME TypeOK, NEW r \in Runs, LocalStep(r)
  PROVE  /\ superFile' \in {superFile, r} /\ serverpw' \in {serverpw, superFile}
         /\ \A n \in Names : rolepw'[n] = rolepw[n] \/ (rolepw'[n] = r /\ n = Name(r))
         /\ \A f \in FullNames : credFile'[f] = credFile[f] \/ (credFile'[f] = r /\ f = FullName(r))
         /\ override' \in {override, job[r].req} /\ container' \in {container, override}
         /\ \A n \in Names : settings'[n] \in {settings[n], job[r].req}
<1> USE DEF TypeOK
<1>1. CASE ReadSuperuser(r) \/ BecomesReady(r) \/ WaitTimesOut(r) \/ LookupDatabase(r) \/ StepFails(r)
  BY <1>1 DEF ReadSuperuser, BecomesReady, WaitTimesOut, LookupDatabase, StepFails, server, files
<1>2. CASE WriteSuperuser(r) \/ WriteOverride(r)
  BY <1>2 DEF WriteSuperuser, WriteOverride, server
<1>3. CASE ComposeUp(r) \/ CreateDatabase(r)
  BY <1>3 DEF ComposeUp, CreateDatabase, files
<1>4. CASE ApplySettings(r)
  BY <1>4 DEF ApplySettings, files
<1>5. CASE ApplyRoles(r)
  BY <1>5 DEF ApplyRoles, files
<1>6. CASE PersistCredentials(r)
  BY <1>6 DEF PersistCredentials, server
<1> QED
  BY <1>1, <1>2, <1>3, <1>4, <1>5, <1>6 DEF LocalStep

\* Nothing is written for a run that did not pass the gate.
LEMMA TracesStep ==
  ASSUME TypeOK, TypeOK', GateInv, Kept, OnlyGatedLeaveTraces, Next
  PROVE  OnlyGatedLeaveTraces'
<1>1. \A o \in Traces : Gated(o)' /\ Backend(o)' = "local"
  <2> TAKE o \in Traces
  <2>1. o \in Runs
    BY DEF Traces, TypeOK, Password
  <2>2. Gated(o) /\ Backend(o) = "local"
    BY DEF OnlyGatedLeaveTraces
  <2>3. stage[o] # "idle"
    BY <2>1, <2>2 DEF Gated, TypeOK, GateTypeOK
  <2>4. job'[o] = job[o]
    BY <2>1, <2>3 DEF Kept
  <2> QED
    BY <2>2, <2>4 DEF Gated, Backend
<1>2. ASSUME NEW r \in Runs, LocalStep(r) PROVE OnlyGatedLeaveTraces'
  <2>1. stage[r] = "hook" /\ Backend(r) = "local" /\ job' = job
    BY <1>2, LocalFrame
  <2>2. Gated(r)
    BY <2>1 DEF GateInv, GateFailsClosed
  <2>3. Gated(r)' /\ Backend(r)' = "local"
    BY <2>1, <2>2 DEF Gated, Backend
  <2>4. Traces' \subseteq Traces \cup {r}
    BY <1>2, LocalWrites DEF Traces
  <2>5. Applied' \subseteq Applied \cup {job[r].req}
    BY <1>2, LocalWrites DEF Applied
  <2>6. job[r].req \in Compliant \cap Ready
    BY <2>2 DEF Gated
  <2>7. Applied' \subseteq Compliant \cap Ready
    BY <2>5, <2>6 DEF OnlyGatedLeaveTraces
  <2> QED
    BY <1>1, <2>3, <2>4, <2>7 DEF OnlyGatedLeaveTraces
<1>3. CASE UNCHANGED localVars
  <2>1. Traces' = Traces /\ Applied' = Applied
    BY <1>3 DEF Traces, Applied, localVars, server, files
  <2> QED
    BY <1>1, <2>1 DEF OnlyGatedLeaveTraces
<1> QED
  BY <1>2, <1>3, OneRunMoves

\* Passwords stay under the name of the run they come from.
LEMMA NamesStep ==
  ASSUME TypeOK, Kept, OwnNames, Next
  PROVE  OwnNames'
<1>1. \A o \in Runs :
        job[o] # None => job'[o] # None /\ Name(o)' = Name(o) /\ FullName(o)' = FullName(o)
  BY DEF TypeOK, GateTypeOK, Kept, Name, FullName
<1>2. ASSUME NEW r \in Runs, LocalStep(r) PROVE OwnNames'
  <2>1. job[r] # None
    BY <1>2, LocalFrame, RunningHasRequest
  <2>2. ASSUME NEW n \in Names, rolepw'[n] # None
        PROVE  job'[rolepw'[n]] # None /\ Name(rolepw[n])' = n
    <3>1. rolepw[n] \in Runs \cup {None}
      BY DEF TypeOK, Password
    <3>2. CASE rolepw'[n] = rolepw[n]
      BY <1>1, <2>2, <3>1, <3>2 DEF OwnNames, Name
    <3>3. CASE rolepw'[n] = r /\ n = Name(r)
      BY <1>1, <2>1, <3>3 DEF Name
    <3> QED
      BY <1>2, <3>2, <3>3, LocalWrites
  <2>3. ASSUME NEW f \in FullNames, credFile'[f] # None
        PROVE  job'[credFile'[f]] # None /\ FullName(credFile[f])' = f
    <3>1. credFile[f] \in Runs \cup {None}
      BY DEF TypeOK, Password
    <3>2. CASE credFile'[f] = credFile[f]
      BY <1>1, <2>3, <3>1, <3>2 DEF OwnNames, FullName
    <3>3. CASE credFile'[f] = r /\ f = FullName(r)
      BY <1>1, <2>1, <3>3 DEF FullName
    <3> QED
      BY <1>2, <3>2, <3>3, LocalWrites
  <2> QED
    BY <2>2, <2>3 DEF OwnNames, Name, FullName
<1>3. CASE UNCHANGED localVars
  <2>1. rolepw' = rolepw /\ credFile' = credFile
    BY <1>3 DEF localVars, server, files
  <2>2. \A n \in Names : rolepw[n] # None => rolepw[n] \in Runs
    BY DEF TypeOK, Password
  <2>3. \A f \in FullNames : credFile[f] # None => credFile[f] \in Runs
    BY DEF TypeOK, Password
  <2> QED
    BY <1>1, <2>1, <2>2, <2>3 DEF OwnNames, Name, FullName
<1> QED
  BY <1>2, <1>3, OneRunMoves

-----------------------------------------------------------------------------
(***************************************************************************)
(* The theorems                                                            *)
(***************************************************************************)

\* The initial states satisfy the invariant.
LEMMA LocalInvInit == Init => LocalInv
<1> SUFFICES ASSUME Init PROVE LocalInv
  OBVIOUS
<1>1. GateInv
  BY GateInvInit DEF Init
<1>2. TypeOK
  BY <1>1 DEF Init, GateInv, TypeOK, Password
<1>3. \A r \in Runs : stage[r] = "idle"
  BY DEF Init, GateInit
<1>4. StepIsBacked /\ FirstRun
  BY <1>3 DEF Init, StepIsBacked, Backed, FirstRun, Generating
<1>5. SuccessIsBacked
  BY <1>3 DEF Init, GateInit, SuccessIsBacked, Succeeded
<1>6. OnlyGatedLeaveTraces /\ OwnNames
  BY DEF Init, OnlyGatedLeaveTraces, Traces, Applied, OwnNames
<1> QED
  BY <1>1, <1>2, <1>4, <1>5, <1>6 DEF LocalInv

\* Every step keeps it.
LEMMA LocalInvStep == LocalInv /\ [Next]_vars => LocalInv'
<1> SUFFICES ASSUME LocalInv, [Next]_vars PROVE LocalInv'
  OBVIOUS
<1> USE DEF LocalInv
<1>1. GateInv'
  BY StepImplementsGate, GateInvStep
<1>2. TypeOK'
  BY <1>1, TypesStep DEF GateInv
<1>3. CASE Next
  <2>1. StepIsBacked' /\ Kept
    BY <1>2, <1>3, BackedStep
  <2>2. SuccessIsBacked'
    BY <1>2, <1>3, <2>1, SuccessStep
  <2>3. FirstRun'
    BY <1>3, FirstRunStep
  <2>4. OnlyGatedLeaveTraces' /\ OwnNames'
    BY <1>2, <1>3, <2>1, TracesStep, NamesStep
  <2> QED
    BY <1>1, <1>2, <2>1, <2>2, <2>3, <2>4
<1>4. CASE UNCHANGED vars
  <2>1. StepIsBacked' /\ SuccessIsBacked' /\ FirstRun'
    BY <1>4
    DEF vars, gateVars, localVars, server, files, StepIsBacked, Backed, SuccessIsBacked, Equipped,
        Succeeded, FirstRun, Generating, Backend, Name, FullName
  <2>2. OnlyGatedLeaveTraces' /\ OwnNames'
    BY <1>4
    DEF vars, gateVars, localVars, server, files, OnlyGatedLeaveTraces, Traces, Applied, Gated,
        OwnNames, Backend, Name, FullName
  <2> QED
    BY <1>1, <1>2, <2>1, <2>2
<1> QED
  BY <1>3, <1>4

\* The inductive invariant of local mode.
THEOREM LocalInvariant == Spec => []LocalInv
BY LocalInvInit, LocalInvStep, PTL DEF Spec

\* A run that the gate refused, or whose backend is not local, leaves nothing
\* in the files, the container or the server.
THEOREM OnlyGatedLeaveTracesHolds == Spec => []OnlyGatedLeaveTraces
BY LocalInvariant, PTL DEF LocalInv

\* A success has a reachable server, the database, its settings, its roles and
\* the credentials file behind it, whatever other runs do.
THEOREM SuccessIsBackedHolds == Spec => []SuccessIsBacked
BY LocalInvariant, PTL DEF LocalInv

\* Unless two first runs raced, the cached superuser password is the server's.
THEOREM SuperuserFileMatchesHolds == Spec => []SuperuserFileMatches
<1>1. LocalInv => SuperuserFileMatches
  BY DEF LocalInv, FirstRun, SuperuserFileMatches
<1> QED
  BY <1>1, LocalInvariant, PTL

\* As long as one run only has worked on a name, its saved credentials are
\* those of the login roles.
THEOREM SoleRunCredentialsWorkHolds == Spec => []SoleRunCredentialsWork
<1>1. LocalInv => SoleRunCredentialsWork
  <2> SUFFICES ASSUME LocalInv, NEW r \in Runs, Succeeded(r), Backend(r) = "local",
                      \A o \in Runs \ {r} : job[o] # None => Name(o) # Name(r)
               PROVE  credFile[FullName(r)] = rolepw[Name(r)]
    BY DEF SoleRunCredentialsWork
  <2> USE DEF LocalInv
  <2>1. Equipped(r)
    BY DEF SuccessIsBacked
  <2>2. Name(r) \in Names /\ FullName(r) \in FullNames
    BY SucceededStarted, RunningHasRequest
  <2>3. rolepw[Name(r)] \in Runs /\ credFile[FullName(r)] \in Runs
    BY <2>1, <2>2 DEF Equipped, TypeOK, Password
  <2>4. rolepw[Name(r)] = r
    BY <2>1, <2>2, <2>3 DEF Equipped, OwnNames
  <2>5. credFile[FullName(r)] = r
    BY <2>1, <2>2, <2>3 DEF Equipped, OwnNames, FullName, Name
  <2> QED
    BY <2>4, <2>5
<1> QED
  BY <1>1, LocalInvariant, PTL

=============================================================================
