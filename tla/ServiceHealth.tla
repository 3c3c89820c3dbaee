--------------------------- MODULE ServiceHealth ----------------------------
(***************************************************************************)
(* What `dbre slo report` and `dbre capacity forecast` say of a service    *)
(* while its counters, ages and samples change.                            *)
(*                                                                         *)
(* A behaviour follows one of the two, named by watched; they share no     *)
(* input.                                                                  *)
(***************************************************************************)
EXTENDS SloReport, CapacityForecast

CONSTANTS
  Objectives,  \* the objectives of the requests
  Windows,     \* the days that metrics are collected in
  MaxTotal,    \* bound: requests counted
  Waits,       \* hours that may pass between two reports
  MaxAge,      \* bound: hours since a backup or drill
  Dates,       \* dates of samples
  Sizes,       \* values of samples
  MaxRows,     \* bound: samples
  Limit        \* the capacity limit

ASSUME HealthAssumption ==
  /\ Objectives # {}
  /\ \A o \in Objectives : o.availability \in 1..Whole /\ o.rpo \in Nat \ {0} /\ o.rto \in Nat \ {0}
  /\ Windows \subseteq Nat \ {0} /\ Limit \in Nat \ {0}
  /\ MaxTotal \in Nat \ {0} /\ MaxAge \in Nat /\ Waits \subseteq 0..MaxAge /\ MaxRows \in Nat

VARIABLES watched, slo, metrics, rows

healthVars == <<watched, slo, metrics, rows>>

HealthInit ==
  /\ watched \in {"service", "capacity"}
  /\ slo \in IF watched = "service" THEN Objectives ELSE {CHOOSE o \in Objectives : TRUE}
  /\ \E w \in Windows :
       metrics = [requests |-> NoData, latency |-> NoData, backup |-> NoData, drill |-> NoData, window |-> w]
  /\ rows = <<>>

Counters == {"requests", "latency"}
Ages == {"backup", "drill"}

Service == watched = "service" /\ UNCHANGED <<watched, slo, rows>>

-----------------------------------------------------------------------------
\* A pillar gets its first data.
Collect(pillar) ==
  /\ Service
  /\ metrics[pillar] = NoData
  /\ \E first \in IF pillar \in Ages THEN Waits ELSE [good : 0..1, total : {1}] :
       metrics' = [metrics EXCEPT ![pillar] = first]

Counted(counter) ==
  Service /\ metrics[counter] # NoData /\ metrics[counter].total < MaxTotal

GoodRequest(counter) ==
  /\ Counted(counter)
  /\ metrics' = [metrics EXCEPT ![counter].good = @ + 1, ![counter].total = @ + 1]

BadRequest(counter) ==
  /\ Counted(counter)
  /\ metrics' = [metrics EXCEPT ![counter].total = @ + 1]

Aged(age, hours) == IF age = NoData \/ age + hours > MaxAge THEN age ELSE age + hours

TimePasses ==
  /\ Service
  /\ \E hours \in Waits :
       metrics' = [metrics EXCEPT !.backup = Aged(@, hours), !.drill = Aged(@, hours)]

\* A backup is made, or a recovery drill.
Renew(age) ==
  /\ Service
  /\ metrics[age] # NoData
  /\ metrics' = [metrics EXCEPT ![age] = 0]

\* A row is added to the history file, of any date.
AddRow ==
  /\ watched = "capacity"
  /\ Len(rows) < MaxRows
  /\ \E d \in Dates, v \in Sizes : rows' = Append(rows, [day |-> d, value |-> v])
  /\ UNCHANGED <<watched, slo, metrics>>

HealthNext ==
  \/ \E p \in Counters \cup Ages : Collect(p)
  \/ \E c \in Counters : GoodRequest(c) \/ BadRequest(c)
  \/ \E a \in Ages : Renew(a)
  \/ TimePasses \/ AddRow

HealthSpec == HealthInit /\ [][HealthNext]_healthVars

-----------------------------------------------------------------------------
(***************************************************************************)
(* Properties                                                              *)
(***************************************************************************)

Counts == {c \in [good : 0..MaxTotal, total : 1..MaxTotal] : c.good <= c.total}

HealthTypeOK ==
  /\ watched \in {"service", "capacity"} /\ slo \in Objectives
  /\ metrics \in [requests : Counts \cup {NoData}, latency : Counts \cup {NoData},
                  backup : 0..MaxAge \cup {NoData}, drill : 0..MaxAge \cup {NoData},
                  window : Windows]
  /\ rows \in Seq([day : Dates, value : Sizes]) /\ Len(rows) <= MaxRows

ReportRank == SeverityRank(WorstSeverity(slo, metrics))

Worse ==
  TimePasses \/ (\E c \in Counters : BadRequest(c)) \/ (\E p \in Counters \cup Ages : Collect(p))

Better == (\E c \in Counters : GoodRequest(c)) \/ (\E a \in Ages : Renew(a))

\* The overall severity follows the service: a failed request, time without a
\* backup or drill, or a pillar that is assessed for the first time never
\* lowers it, a request that is served, a backup or a drill never raises it,
\* whatever the other pillars say.
SeverityFollowsService ==
  [][(Worse => ReportRank' >= ReportRank) /\ (Better => ReportRank' <= ReportRank)]_healthVars

\* The new row is the latest, not below the row before it, nor below the trend.
Growth ==
  LET new == Last(rows') IN
    /\ rows # <<>> /\ rows' # rows
    /\ \A i \in DOMAIN rows : rows[i].day < new.day
    /\ Last(LoadHistory(rows)).value <= new.value
    /\ HasTrend(rows) => AtOrAboveLine(rows, new)

\* A sample that goes on with the growth of a resource never lowers its risk:
\* the line gets steeper, and the two conditions on time and on utilization
\* must not undo each other.
GrowthNeverCalms ==
  [][Growth => RiskRank[ForecastCapacity(rows', Limit)] >= RiskRank[ForecastCapacity(rows, Limit)]]_healthVars

=============================================================================
