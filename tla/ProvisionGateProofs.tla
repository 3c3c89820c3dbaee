------------------------ MODULE ProvisionGateProofs -------------------------
(***************************************************************************)
(* Theorems about ProvisionGate, for every set of runs and of requests.    *)
(***************************************************************************)
EXTENDS ProvisionGate, SequenceTheorems, TLAPS

\* Every event of the trail is about a run.
LEMMA EventsHaveRuns ==
  ASSUME GateTypeOK
  PROVE  \A i \in 1..Len(trail) : trail[i].run \in Runs
<1> TAKE i \in 1..Len(trail)
<1>1. trail[i] \in Event
  BY ElementOfSeq DEF GateTypeOK
<1> QED
  BY <1>1 DEF Event

\* A step that moves one run to another stage and records nothing keeps the
\* invariant when the new stage is neither "idle" nor "recorded" and agrees
\* with the verdicts on the run's request.
LEMMA MoveKeepsInv ==
  ASSUME GateInv, NEW r \in Runs, NEW to \in InFlight \cup {"unrecorded", "killed"},
         stage[r] \notin {"idle", "recorded"},
         stage' = [stage EXCEPT ![r] = to], UNCHANGED <<job, trail>>,
         to \in {"hook", "provisioned", "failed"} => Gated(r),
         to = "readiness" => job[r].req \in Compliant,
         to = "blocked" => ~Gated(r)
  PROVE  GateInv'
<1> USE DEF GateInv
<1>1. stage'[r] = to /\ \A o \in Runs : o # r => stage'[o] = stage[o]
  BY DEF GateTypeOK
<1>2. to \notin {"idle", "recorded"}
  BY DEF InFlight
<1>3. \A o \in Runs : Gated(o)' <=> Gated(o)
  BY DEF Gated
<1>4. GateTypeOK'
  BY <1>1, <1>2 DEF GateTypeOK, Stages
<1>5. GateFailsClosed'
  BY <1>1, <1>3 DEF GateFailsClosed
<1>6. StageMatchesVerdicts'
  BY <1>1, <1>3 DEF StageMatchesVerdicts
<1>7. TrailFaithful'
  <2>1. \A o \in Runs : stage'[o] = "recorded" <=> stage[o] = "recorded"
    BY <1>1, <1>2
  <2> QED
    BY <1>3, <2>1, ElementOfSeq DEF TrailFaithful, GateTypeOK, Event, Gated
<1> QED
  BY <1>4, <1>5, <1>6, <1>7

\* Recording adds the one event of a run that has none yet.
LEMMA RecordKeepsInv ==
  ASSUME GateInv, NEW r \in Runs, RecordOutcome(r)
  PROVE  GateInv'
<1> USE DEF GateInv, RecordOutcome
<1> DEFINE e == [run |-> r, outcome |-> Outcome[stage[r]]]
<1>1. stage[r] \in {"blocked", "provisioned", "failed"}
  BY DEF Outcome
<1>2. /\ stage'[r] = "recorded" /\ \A o \in Runs : o # r => stage'[o] = stage[o]
      /\ job' = job
  BY DEF GateTypeOK
<1>3. \A o \in Runs : Gated(o)' <=> Gated(o)
  BY <1>2 DEF Gated
<1>4. e \in Event /\ (e.outcome = "blocked" <=> stage[r] = "blocked")
  BY <1>1 DEF Event, Outcome
<1>5. /\ trail' \in Seq(Event) /\ Len(trail') = Len(trail) + 1
      /\ \A i \in 1..Len(trail) : trail'[i] = trail[i]
      /\ trail'[Len(trail) + 1] = e
      /\ Len(trail) \in Nat
  BY <1>4 DEF GateTypeOK
<1>6. 1..Len(trail') = (1..Len(trail)) \cup {Len(trail) + 1}
  BY <1>5
<1>7. GateTypeOK'
  BY <1>1, <1>2, <1>5 DEF GateTypeOK, Stages
<1>8. GateFailsClosed' /\ StageMatchesVerdicts'
  BY <1>2, <1>3 DEF GateFailsClosed, StageMatchesVerdicts
<1>9. TrailFaithful'
  <2>1. \A i \in 1..Len(trail) : trail[i].run \in Runs /\ trail[i].run # r
    <3> TAKE i \in 1..Len(trail)
    <3>1. trail[i].run \in Runs
      BY EventsHaveRuns
    <3>2. trail[i].run # r
      BY <1>1 DEF TrailFaithful
    <3> QED
      BY <3>1, <3>2
  <2>2. \A o \in Runs : stage'[o] = "recorded" <=> \E i \in 1..Len(trail') : trail'[i].run = o
    <3> TAKE o \in Runs
    <3>1. CASE o = r
      BY <1>2, <1>5, <1>6, <3>1
    <3>2. CASE o # r
      <4>1. stage'[o] = "recorded" <=> stage[o] = "recorded"
        BY <1>2, <3>2
      <4>2. (\E i \in 1..Len(trail') : trail'[i].run = o) <=> \E i \in 1..Len(trail) : trail[i].run = o
        BY <1>5, <1>6, <3>2
      <4> QED
        BY <4>1, <4>2 DEF TrailFaithful
    <3> QED
      BY <3>1, <3>2
  <2>3. \A i, j \in 1..Len(trail') : trail'[i].run = trail'[j].run => i = j
    BY <1>5, <1>6, <2>1 DEF TrailFaithful
  <2>4. e.outcome = "blocked" <=> ~Gated(r)
    BY <1>1, <1>4 DEF GateFailsClosed, StageMatchesVerdicts
  <2>5. \A i \in 1..Len(trail') : trail'[i].outcome = "blocked" <=> ~Gated(trail'[i].run)
    BY <1>5, <1>6, <2>4 DEF TrailFaithful
  <2>6. \A i \in 1..Len(trail') : trail'[i].outcome = "blocked" <=> ~Gated(trail[i].run)'
    BY <1>2, <2>5 DEF Gated
  <2> QED
    BY <1>2, <2>2, <2>3, <2>5 DEF TrailFaithful, Gated
<1> QED
  BY <1>7, <1>8, <1>9

\* A run starts.
LEMMA StartKeepsInv ==
  ASSUME GateInv, NEW r \in Runs, Start(r)
  PROVE  GateInv'
<1> USE DEF GateInv
<1>1. PICK q \in Requests, m \in Modes : job' = [job EXCEPT ![r] = [req |-> q, mode |-> m]]
  BY DEF Start
<1>2. /\ stage[r] = "idle" /\ stage' = [stage EXCEPT ![r] = "policy"] /\ trail' = trail
  BY DEF Start, Advance
<1>3. /\ stage'[r] = "policy" /\ job'[r] = [req |-> q, mode |-> m]
      /\ \A o \in Runs : o # r => stage'[o] = stage[o] /\ job'[o] = job[o]
  BY <1>1, <1>2 DEF GateTypeOK
<1>4. \A o \in Runs : o # r => (Gated(o)' <=> Gated(o))
  BY <1>3 DEF Gated
<1>5. GateTypeOK'
  <2>1. job' \in [Runs -> [req : Requests, mode : Modes] \cup {None}]
    BY <1>1 DEF GateTypeOK
  <2>2. stage' \in [Runs -> Stages]
    BY <1>2 DEF GateTypeOK, Stages, InFlight
  <2>3. job'[r] # None
    <3> DEFINE Picked == [req |-> q, mode |-> m]
    <3>1. Picked \in [req : Requests, mode : Modes]
      OBVIOUS
    <3> QED
      BY <1>3, <3>1, GateAssumption
  <2> QED
    BY <1>2, <1>3, <2>1, <2>2, <2>3 DEF GateTypeOK
<1>6. GateFailsClosed' /\ StageMatchesVerdicts'
  BY <1>3, <1>4 DEF GateFailsClosed, StageMatchesVerdicts
<1>7. TrailFaithful'
  <2>1. \A i \in 1..Len(trail) : trail[i].run \in Runs /\ trail[i].run # r
    <3> TAKE i \in 1..Len(trail)
    <3>1. trail[i].run \in Runs
      BY EventsHaveRuns
    <3>2. trail[i].run # r
      BY <1>2 DEF TrailFaithful
    <3> QED
      BY <3>1, <3>2
  <2>2. \A o \in Runs : stage'[o] = "recorded" <=> stage[o] = "recorded"
    BY <1>2, <1>3
  <2>3. \A i \in 1..Len(trail) : Gated(trail[i].run)' <=> Gated(trail[i].run)
    BY <1>2, <1>3, <2>1 DEF Gated
  <2> QED
    BY <1>2, <2>2, <2>3 DEF TrailFaithful
<1> QED
  BY <1>5, <1>6, <1>7

\* The steps of the specification keep the invariant.
LEMMA GateInvStep == GateInv /\ [GateNext]_gateVars => GateInv'
<1> SUFFICES ASSUME GateInv, [GateNext]_gateVars PROVE GateInv'
  OBVIOUS
<1>1. ASSUME NEW r \in Runs, Start(r) PROVE GateInv'
  BY <1>1, StartKeepsInv
<1>2. ASSUME NEW r \in Runs, EvaluatePolicy(r) PROVE GateInv'
  <2>1. CASE job[r].req \in Compliant
    BY <1>2, <2>1, MoveKeepsInv DEF EvaluatePolicy, Advance, InFlight
  <2>2. CASE job[r].req \notin Compliant
    <3>1. ~Gated(r)
      BY <2>2 DEF Gated
    <3> QED
      BY <1>2, <2>2, <3>1, MoveKeepsInv DEF EvaluatePolicy, Advance, InFlight
  <2> QED
    BY <2>1, <2>2
<1>3. ASSUME NEW r \in Runs, AssessReadiness(r) PROVE GateInv'
  <2>1. job[r].req \in Compliant /\ job[r] # None
    BY <1>3 DEF AssessReadiness, Advance, GateInv, StageMatchesVerdicts, GateTypeOK
  <2>2. CASE job[r].req \in Ready
    <3>1. Gated(r)
      BY <2>1, <2>2 DEF Gated
    <3> QED
      BY <1>3, <2>2, <3>1, MoveKeepsInv DEF AssessReadiness, Advance, InFlight
  <2>3. CASE job[r].req \notin Ready
    <3>1. ~Gated(r)
      BY <2>3 DEF Gated
    <3> QED
      BY <1>3, <2>3, <3>1, MoveKeepsInv DEF AssessReadiness, Advance, InFlight
  <2> QED
    BY <2>2, <2>3
<1>4. ASSUME NEW r \in Runs, GateRaises(r) PROVE GateInv'
  BY <1>4, MoveKeepsInv DEF GateRaises, Advance
<1>5. ASSUME NEW r \in Runs, HookReturns(r) \/ HookRaises(r) PROVE GateInv'
  <2>1. Gated(r)
    BY <1>5 DEF HookReturns, HookRaises, Advance, GateInv, GateFailsClosed
  <2> QED
    BY <1>5, <2>1, MoveKeepsInv DEF HookReturns, HookRaises, Advance, InFlight
<1>6. ASSUME NEW r \in Runs, RecordOutcome(r) PROVE GateInv'
  BY <1>6, RecordKeepsInv
<1>7. ASSUME NEW r \in Runs, RecordRaises(r) \/ Kill(r) PROVE GateInv'
  BY <1>7, MoveKeepsInv DEF RecordRaises, Kill, Outcome, InFlight
<1>8. CASE UNCHANGED gateVars
  BY <1>8
  DEF gateVars, GateInv, GateTypeOK, GateFailsClosed, StageMatchesVerdicts, TrailFaithful, Gated
<1> QED
  BY <1>1, <1>2, <1>3, <1>4, <1>5, <1>6, <1>7, <1>8 DEF GateNext, GateStep

\* The initial states satisfy it.
LEMMA GateInvInit == GateInit => GateInv
BY EmptySeq, GateAssumption
DEF GateInit, GateInv, GateTypeOK, GateFailsClosed, StageMatchesVerdicts, TrailFaithful, Stages, Gated

\* The inductive invariant of the gate, for any provisioner behind it.
THEOREM GateInvariant == GateSpec => []GateInv
BY GateInvInit, GateInvStep, PTL DEF GateSpec

\* No run reaches its provisioner unless it passed policy and readiness.
THEOREM GateFailsClosedHolds == GateSpec => []GateFailsClosed
BY GateInvariant, PTL DEF GateInv

\* A run has exactly one event when it ended normally, none otherwise, and the
\* event says "blocked" exactly when the gate refused the request.
THEOREM TrailFaithfulHolds == GateSpec => []TrailFaithful
BY GateInvariant, PTL DEF GateInv

-----------------------------------------------------------------------------
(***************************************************************************)
(* Successes                                                               *)
(***************************************************************************)

\* A run has succeeded once its hook has returned, whatever happens next to it
\* but being killed or failing to record; no other step is a success.
LEMMA SuccessArises ==
  ASSUME GateTypeOK, [GateNext]_gateVars, NEW r \in Runs, Succeeded(r)'
  PROVE  Succeeded(r) \/ HookReturns(r)
<1>1. CASE stage'[r] = "provisioned"
  <2>1. ASSUME NEW o \in Runs, Start(o) \/ GateStep(o) \/ HookReturns(o) \/ HookRaises(o) \/ Kill(o)
        PROVE  stage[r] = "provisioned" \/ HookReturns(r)
    BY <1>1, <2>1
    DEF Start, GateStep, EvaluatePolicy, AssessReadiness, GateRaises, RecordOutcome,
        RecordRaises, HookReturns, HookRaises, Kill, Advance, GateTypeOK
  <2> QED
    BY <1>1, <2>1 DEF GateNext, gateVars, Succeeded
<1>2. CASE \E i \in 1..Len(trail') : trail'[i] = [run |-> r, outcome |-> "success"]
  <2>1. CASE trail' = trail
    BY <1>2, <2>1 DEF Succeeded
  <2>2. ASSUME NEW o \in Runs, RecordOutcome(o) PROVE Succeeded(r)
    <3>1. PICK i \in 1..Len(trail') : trail'[i] = [run |-> r, outcome |-> "success"]
      BY <1>2
    <3> DEFINE e == [run |-> o, outcome |-> Outcome[stage[o]]]
    <3>2. trail' = Append(trail, e) /\ trail \in Seq(Event)
      BY <2>2 DEF RecordOutcome, GateTypeOK
    <3>3. CASE i \in 1..Len(trail)
      <4>1. trail'[i] = trail[i]
        BY <3>2, <3>3
      <4> QED
        BY <3>1, <3>3, <4>1 DEF Succeeded
    <3>4. CASE i = Len(trail) + 1
      <4>1. trail'[i] = e
        BY <3>2, <3>4
      <4>2. o = r /\ Outcome[stage[o]] = "success"
        BY <3>1, <4>1
      <4>3. stage[o] = "provisioned"
        BY <2>2, <4>2 DEF RecordOutcome, Outcome
      <4> QED
        BY <4>2, <4>3 DEF Succeeded
    <3> QED
      BY <3>2, <3>3, <3>4
  <2>3. trail' = trail \/ \E o \in Runs : RecordOutcome(o)
    BY DEF GateNext, gateVars, Start, GateStep, EvaluatePolicy, AssessReadiness, GateRaises,
        RecordRaises, HookReturns, HookRaises, Kill
  <2> QED
    BY <2>1, <2>2, <2>3
<1> QED
  BY <1>1, <1>2 DEF Succeeded

\* A run that succeeded is over, and is not started again.
LEMMA SucceededStarted ==
  ASSUME GateInv, NEW r \in Runs, Succeeded(r)
  PROVE  stage[r] \in {"provisioned", "recorded"}
BY DEF GateInv, TrailFaithful, Succeeded

=============================================================================
