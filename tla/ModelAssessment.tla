---------------------------- MODULE ModelAssessment ----------------------------
(***************************************************************************)
(* What the evaluation of a model concludes from its evidence: how severe  *)
(* a drift is (evaluation/drift_detection.py), the health state of the     *)
(* model (evaluation/model_health.py), whether it is promoted              *)
(* (evaluation/promotion_gates.py) and whether it is retrained             *)
(* (evaluation/retraining_policy.py).  Statistics are integers: PSI, KS    *)
(* statistic and the calibration error in hundredths, a p-value in         *)
(* hundred-thousandths.                                                    *)
(***************************************************************************)
EXTENDS Integers, Sequences, FiniteSets, SequencesExt

Severities == <<"NONE", "LOW", "MODERATE", "HIGH">>
Grave(s) == CHOOSE i \in 1 .. 4 : Severities[i] = s

\* evaluate_distribution_drift, the classification
Severity(psi, p, ks) ==
    IF psi > 25 \/ (p < 10 /\ ks > 30) THEN "HIGH"
    ELSE IF psi > 10 \/ (p < 1000 /\ ks > 15) THEN "MODERATE"
    ELSE IF p < 1000 THEN "LOW"
    ELSE "NONE"

-----------------------------------------------------------------------------
HealthStates == <<"HEALTHY", "DEGRADED", "DRIFTING", "UNRELIABLE", "SUSPENDED">>
Ill(s) == CHOOSE i \in 1 .. 5 : HealthStates[i] = s

\* What assess_health is given: the calibration error (0 without a calibration)
\* and whether its slope is off, how many features drift highly and moderately,
\* the severity of the prediction drift, and the rolling hit rate (100 for none).
Evidence == [ece : Nat, slopeOff : BOOLEAN, high : Nat, moderate : Nat,
             prediction : {"NONE", "LOW", "MODERATE", "HIGH"}, hits : 0 .. 100]

Calibration(e) == 25 - (IF e.ece > 15 THEN 15 ELSE IF e.ece > 8 THEN 8 ELSE 0)
                     - (IF e.slopeOff THEN 5 ELSE 0)

Features(e) == 25 - (IF e.high >= 3 THEN 18
                     ELSE IF e.high >= 1 \/ e.moderate >= 4 THEN 10
                     ELSE IF e.moderate >= 1 THEN 4
                     ELSE 0)
Prediction(e) == 25 - (IF e.prediction = "HIGH" THEN 18
                       ELSE IF e.prediction = "MODERATE" THEN 10 ELSE 0)
Performance(e) == 25 - (IF e.hits < 40 THEN 18 ELSE IF e.hits < 48 THEN 8 ELSE 0)

Score(e) == Calibration(e) + Features(e) + Prediction(e) + Performance(e)
Alerts(e) == Cardinality({x \in {"calibration", "features", "prediction", "hits"} :
                             CASE x = "calibration" -> e.ece > 15
                               [] x = "features"    -> e.high >= 3
                               [] x = "prediction"  -> e.prediction = "HIGH"
                               [] x = "hits"        -> e.hits < 40})

\* assess_health
Health(e) ==
    IF Alerts(e) >= 3 \/ Score(e) < 40 THEN "SUSPENDED"
    ELSE IF Alerts(e) >= 2 \/ Score(e) < 60 THEN "UNRELIABLE"
    ELSE IF Prediction(e) <= 15 \/ Features(e) <= 15 \/ Score(e) < 75 THEN "DRIFTING"
    ELSE IF Score(e) < 90 THEN "DEGRADED"
    ELSE "HEALTHY"

\* Evidence that is worse than e in one respect.
Worse(e) ==
    LET prediction == [e EXCEPT !.prediction = Severities[IF @ = "HIGH" THEN 4 ELSE Grave(@) + 1]]
    IN  {[e EXCEPT !.ece = @ + 1], [e EXCEPT !.slopeOff = TRUE], [e EXCEPT !.high = @ + 1],
         [e EXCEPT !.moderate = @ + 1], prediction}
        \cup {[e EXCEPT !.high = @ + 1, !.moderate = @ - 1] : x \in {y \in {1} : e.moderate > 0}}
        \cup {[e EXCEPT !.hits = @ - 1] : x \in {y \in {1} : e.hits > 0}}

-----------------------------------------------------------------------------

\* The gates of evaluate_all_gates a candidate fails
FailedGates(d, health) ==
    {g \in 1 .. 10 :
        CASE g = 1 -> ~d.artifact
          [] g = 2 -> ~d.leakFree
          [] g = 3 -> d.ece > 8 \/ d.brierGap > 2
          [] g = 4 -> ~d.monotonic
          [] g = 5 -> health \notin {"HEALTHY", "DEGRADED", "DRIFTING"}
          [] g = 6 -> d.sharpeGap < -20 \/ d.returnGap < -10
          [] g = 7 -> d.meanDrawdown > 170 \/ d.worstDrawdown > 200
          [] g = 8 -> d.latency > 50 \/ d.failing
          [] g = 9 -> FALSE
          [] g = 10 -> ~d.approved}

Pending(d) == d.shadow < 20

\* evaluate_all_gates
Decision(d, health) ==
    IF FailedGates(d, health) # {} THEN "REJECT"
    ELSE IF Pending(d) THEN "NOT_READY"
    ELSE "PROMOTE"

-----------------------------------------------------------------------------
\* The engine of the retraining policy: evaluations without a HEALTHY one, when
\* it last allowed a retraining (-1 for never), and when it ever did.
Fresh == [alerts |-> 0, last |-> -1, allowed |-> <<>>]

Eligible(health, alerts, Persistence) ==
    \/ health = "DRIFTING" /\ alerts >= Persistence
    \/ health \in {"UNRELIABLE", "SUSPENDED"}

\* The time of a retraining is noted when it is eligible, allowed or not.
EvaluatedStamping(s, health, now, Persistence, Cooldown) ==
    LET alerts == IF health = "HEALTHY" THEN 0 ELSE s.alerts + 1
        cooling == s.last >= 0 /\ now - s.last < Cooldown
        eligible == Eligible(health, alerts, Persistence)
    IN  [alerts |-> alerts,
         last |-> IF eligible THEN now ELSE s.last,
         allowed |-> IF eligible /\ ~cooling THEN Append(s.allowed, now) ELSE s.allowed]

\* evaluate_retraining_eligibility
Evaluated(s, health, now, Persistence, Cooldown) ==
    LET alerts == IF health = "HEALTHY" THEN 0 ELSE s.alerts + 1
        cooling == s.last >= 0 /\ now - s.last < Cooldown
        allowed == Eligible(health, alerts, Persistence) /\ ~cooling
    IN  [alerts |-> alerts,
         last |-> IF allowed THEN now ELSE s.last,
         allowed |-> IF allowed THEN Append(s.allowed, now) ELSE s.allowed]

\* The engine after a history of evaluations [health, at]
Policy(history, Persistence, Cooldown) ==
    FoldLeft(LAMBDA s, v : Evaluated(s, v.health, v.at, Persistence, Cooldown), Fresh, history)
=============================================================================
