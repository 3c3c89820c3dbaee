-------------------------- MODULE CapacityForecast --------------------------
(***************************************************************************)
(* `dbre capacity forecast`: capacity/forecasting.py.                      *)
(*                                                                         *)
(* A history is a sequence of samples [day, value].  The fitted line is    *)
(* kept as its two fractions: with n samples, slope = Rise / Run and       *)
(* intercept = (SumY * Run - Rise * SumX) / (n * Run), where Run > 0.      *)
(***************************************************************************)
EXTENDS Integers, SequencesExt

Days(h) == [i \in DOMAIN h |-> h[i].day]
Values(h) == [i \in DOMAIN h |-> h[i].value]

Total(numbers) == FoldLeft(LAMBDA a, b : a + b, 0, numbers)

Products(s, t) == [i \in DOMAIN s |-> s[i] * t[i]]

Rise(h) == Len(h) * Total(Products(Days(h), Values(h))) - Total(Days(h)) * Total(Values(h))

Run(h) == Len(h) * Total(Products(Days(h), Days(h))) - Total(Days(h)) * Total(Days(h))

\* linear_regression raises for fewer than two days.
HasTrend(h) == Len(h) >= 2 /\ Run(h) > 0

\* The line, at a day, is at most (at least) a value.
LineTimes(h, day) ==  \* Len(h) * Run(h) times the value of the line
  Total(Values(h)) * Run(h) - Rise(h) * Total(Days(h)) + Len(h) * Rise(h) * day

AtOrAboveLine(h, sample) == sample.value * Len(h) * Run(h) >= LineTimes(h, sample.day)

\* load_history_csv: rows sorted by date (a stable sort), days counted from
\* the first one.
Earlier(rows, i, j) == rows[i].day < rows[j].day \/ (rows[i].day = rows[j].day /\ i < j)

LoadHistory(rows) ==
  LET order == SortSeq([i \in DOMAIN rows |-> i], LAMBDA i, j : Earlier(rows, i, j))
  IN [k \in DOMAIN rows |->
        [day |-> rows[order[k]].day - rows[order[1]].day, value |-> rows[order[k]].value]]

\* The line grows, and reaches the limit at most d days after the last sample.
ExhaustedWithin(h, limit, d) ==
  Rise(h) > 0 /\ LineTimes(h, Last(h).day + d) >= limit * Len(h) * Run(h)

Utilized(h, limit, percent) == 100 * Last(h).value >= percent * limit

\* Mutant: a full disk is only looked at for how full it is.
FullnessFirst(h, limit) ==
  IF Utilized(h, limit, 90) THEN "critical"
  ELSE IF Utilized(h, limit, 75) THEN "warning"
  ELSE IF ExhaustedWithin(h, limit, 30) THEN "critical"
  ELSE IF ExhaustedWithin(h, limit, 90) THEN "warning"
  ELSE "ok"

\* classify_risk, with its default limits in days.
ClassifyRisk(h, limit) ==
  IF Utilized(h, limit, 90) \/ ExhaustedWithin(h, limit, 30) THEN "critical"
  ELSE IF Utilized(h, limit, 75) \/ ExhaustedWithin(h, limit, 90) THEN "warning"
  ELSE "ok"

\* forecast_capacity, for a limit above zero.
ForecastCapacity(rows, limit) ==
  LET h == LoadHistory(rows)
  IN IF HasTrend(h) THEN ClassifyRisk(h, limit) ELSE "error"

RiskRank == [error |-> 0, ok |-> 0, warning |-> 1, critical |-> 2]

=============================================================================
