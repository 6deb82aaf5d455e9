------------------------------ MODULE Reputation -------------------------------
(***************************************************************************)
(* The arithmetic of ReputationService and of the two adjustments that     *)
(* feed it.  Metrics are kept in tenths of a point, scores in hundredths   *)
(* (toFixed(2)); a half is rounded up.  perfScore, networkScore and        *)
(* policyScore keep the values initHost inserts, as nothing updates them.  *)
(***************************************************************************)
EXTENDS Integers

Clamp(x, low, high) == IF x < low THEN low ELSE IF x > high THEN high ELSE x

UptimeRange == 600..1000
CompletionRange == 500..1000
Metrics == [uptime : UptimeRange, completion : CompletionRange]

\* The scores such metrics give.
Scores == 6500..9150

\* What initHost inserts.
NewMetrics == [uptime |-> 950, completion |-> 950]

\* The share of the three constant metrics: 20% of 75, 10% of 75, 10% of 90.
ConstantShare == 31500

\* Never out of 0..100 points, so that the clamp of the code has no effect.
ComputeScore(m) == (35 * m.uptime + 25 * m.completion + ConstantShare + 5) \div 10

\* adjustUptime: every loop of a daemon counts as healthy, no caller ever
\* reports the contrary.
Healthy(m) ==
    [uptime |-> Clamp(m.uptime + 1, 600, 1000), completion |-> m.completion]

\* adjustCompletion: +0.8 for an assignment that succeeds, -2.5 for a failure.
Concluded(m, success) ==
    [uptime |-> m.uptime,
     completion |-> Clamp(m.completion + (IF success THEN 8 ELSE -25), 500, 1000)]

================================================================================
