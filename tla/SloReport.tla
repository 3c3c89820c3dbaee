----------------------------- MODULE SloReport ------------------------------
(***************************************************************************)
(* `dbre slo report`: slo/calculator.py.                                   *)
(*                                                                         *)
(* An objective is [availability, rpo, rto], in hundredths of a percent    *)
(* and hours.  Metrics are [requests, latency, backup, drill, window]: two *)
(* counters [good, total], two ages in hours, each of them NoData without    *)
(* data, and the days they were collected in.  Fractions are compared      *)
(* exactly, as integers multiplied out, where the code uses floats.        *)
(***************************************************************************)
EXTENDS Integers

CONSTANT NoData

ASSUME NoDataAssumption == NoData \notin Nat /\ NoData \notin [good : Nat, total : Nat]

Whole == 10000  \* an availability of 100 %

PeriodDays == 30

Bad(counter) == counter.total - counter.good

\* The burn rate of a counter is at least tenths / 10, for the default period
\* of 30 days and a window of whole days, where the code takes any floats.
BurnsAtLeast(counter, target, window, tenths) ==
  Bad(counter) * Whole * PeriodDays * 10 >= tenths * counter.total * (Whole - target) * window

\* An error budget of zero divides; so does a counter that counts nothing.
Divides(counter, target) ==
  target = Whole \/ counter.total <= 0 \/ counter.good \notin 0..counter.total

\* _availability_status and _latency_status, with classify_burn_rate.
CounterSeverity(counter, target, window) ==
  IF Divides(counter, target) THEN "error"
  ELSE IF BurnsAtLeast(counter, target, window, 144) THEN "page"
  ELSE IF BurnsAtLeast(counter, target, window, 30) THEN "ticket"
  ELSE "ok"

\* _backup_status.
BackupSeverity(age, rpo) ==
  IF age > rpo THEN "page" ELSE IF 4 * age >= 3 * rpo THEN "ticket" ELSE "ok"

\* _recovery_status: a drill a month, or every 24 times the RTO.
ReviewInterval(rto) == IF 24 * rto < 720 THEN 24 * rto ELSE 720

DrillSeverity(age, rto) == IF age > ReviewInterval(rto) THEN "ticket" ELSE "ok"

\* assess_slo: the severities of the pillars that have data.
Severities(slo, m) ==
  (IF m.requests = NoData THEN {} ELSE {CounterSeverity(m.requests, slo.availability, m.window)})
    \cup (IF m.latency = NoData THEN {} ELSE {CounterSeverity(m.latency, slo.availability, m.window)})
    \cup (IF m.backup = NoData THEN {} ELSE {BackupSeverity(m.backup, slo.rpo)})
    \cup (IF m.drill = NoData THEN {} ELSE {DrillSeverity(m.drill, slo.rto)})

Severity == <<"ok", "ticket", "page", "error">>

SeverityRank(severity) == CHOOSE i \in 1..4 : Severity[i] = severity

\* Mutant: the severities are compared as strings.
LastByName(slo, m) ==
  LET names == <<"error", "ok", "page", "ticket">>
      position(s) == CHOOSE i \in 1..4 : names[i] = s
  IN IF Severities(slo, m) = {} THEN "ok"
     ELSE CHOOSE s \in Severities(slo, m) :
            \A t \in Severities(slo, m) : position(t) <= position(s)

\* worst_severity; no pillar, no problem.  "error" is a report that raises.
WorstSeverity(slo, m) ==
  IF Severities(slo, m) = {} THEN "ok"
  ELSE CHOOSE s \in Severities(slo, m) :
         \A t \in Severities(slo, m) : SeverityRank(t) <= SeverityRank(s)

=============================================================================
