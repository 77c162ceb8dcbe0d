--------------------------- MODULE RouteDecisions ---------------------------
(***************************************************************************)
(* What telemetry.service.ts concludes from the hourly counts of one       *)
(* profile and route.  The decision, its reason and its rank are read off  *)
(* all of them; the monitor matrix has a row for every classification.     *)
(* Samples come in and the profile's status changes.  A failure and a      *)
(* timeout count alike everywhere and are one result here, "issue"; rates  *)
(* are in tenths of a per cent, rounded as Math.round does.                *)
(***************************************************************************)
EXTENDS Integers

CONSTANTS MaxSamples  \* bound: samples in the window

ASSUME SamplesAssumption == MaxSamples \in Nat

VARIABLES
  routeStatus,  \* transport_profiles.status
  tally         \* samples in the window, by classification and result

decisionVars == <<routeStatus, tally>>

Statuses == {"active", "degraded", "draft", "blocked"}
Results == {"success", "issue", "skipped"}
Classes == {"none", "dns_suspected", "protocol_suspected"}
Tallies == [Classes -> [Results -> 0 .. MaxSamples]]

(* What devices report; a device may name the classification itself.       *)
Samples ==
  {[type |-> type, result |-> result, given |-> "none"] :
      type \in {"dns_resolution", "vpn_handshake"}, result \in {"success", "issue"}} \cup
  {[type |-> "route_probe", result |-> "skipped", given |-> "none"],
   [type |-> "dns_resolution", result |-> "success", given |-> "dns_suspected"]}

DecisionTypeOK ==
  /\ routeStatus \in Statuses
  /\ tally \in Tallies

DecisionInit ==
  /\ routeStatus \in Statuses
  /\ tally = [c \in Classes |-> [r \in Results |-> 0]]
-----------------------------------------------------------------------------
(* Faulty variant of a definition below, for mutation of the runs.         *)
ReasonWithoutDegraded(status, total, success, issues, rate) ==
  IF status = "blocked" THEN "manually blocked"
  ELSE IF total < 3 THEN "not enough samples"
  ELSE IF issues >= 3 /\ rate >= 600 THEN "repeated failures"
  ELSE IF issues >= 2 /\ rate >= 250 THEN "elevated failure rate"
  ELSE IF success >= 3 /\ rate <= 100 /\ status = "active" THEN "stable samples"
  ELSE "no clean signal"
-----------------------------------------------------------------------------
(* classify: what a failed or timed out event is taken for.                *)
Classify(type, result) ==
  CASE result # "issue" -> "none"
    [] result = "issue" /\ type = "dns_resolution" -> "dns_suspected"
    [] result = "issue" /\ type = "vpn_handshake" -> "protocol_suspected"

(* record: classification ?? classify.                                     *)
ClassOf(sample) ==
  IF sample.given # "none" THEN sample.given ELSE Classify(sample.type, sample.result)

WithSample(t, sample) == [t EXCEPT ![ClassOf(sample)][sample.result] = @ + 1]

(* The counts a decision is made from: all classifications together.       *)
All(t, result) ==
  t["none"][result] + t["dns_suspected"][result] + t["protocol_suspected"][result]
TotalOf(t) == All(t, "success") + All(t, "issue") + All(t, "skipped")

(* Math.round((part / total) * 1000) / 10.                                 *)
Rate(part, total) == IF total = 0 THEN 0 ELSE (2000 * part + total) \div (2 * total)

ProfileDecision(status, total, success, issues, rate) ==
  IF status = "blocked" THEN "avoid"
  ELSE IF total < 3 THEN "learning"
  ELSE IF issues >= 3 /\ rate >= 600 THEN "avoid"
  ELSE IF status = "degraded" \/ (issues >= 2 /\ rate >= 250) THEN "watch"
  ELSE IF success >= 3 /\ rate <= 100 /\ status = "active" THEN "preferred"
  ELSE "usable"

DecisionReason(status, total, success, issues, rate) ==
  IF status = "blocked" THEN "manually blocked"
  ELSE IF total < 3 THEN "not enough samples"
  ELSE IF issues >= 3 /\ rate >= 600 THEN "repeated failures"
  ELSE IF status = "degraded" THEN "marked degraded"
  ELSE IF issues >= 2 /\ rate >= 250 THEN "elevated failure rate"
  ELSE IF success >= 3 /\ rate <= 100 /\ status = "active" THEN "stable samples"
  ELSE "no clean signal"

MatrixStatus(total, issues, rate) ==
  IF total < 3 THEN "learning"
  ELSE IF issues >= 3 /\ rate >= 600 THEN "blocked_suspected"
  ELSE IF issues >= 2 /\ rate >= 250 THEN "degraded"
  ELSE "ok"

DecisionRank(decision) ==
  [preferred |-> 5, usable |-> 4, learning |-> 3, watch |-> 2, avoid |-> 1][decision]

(* decisionRow: what both readings of the whole window are given.          *)
Decision(t) ==
  ProfileDecision(routeStatus, TotalOf(t), All(t, "success"), All(t, "issue"),
                  Rate(All(t, "issue"), TotalOf(t)))
Reason(t) ==
  DecisionReason(routeStatus, TotalOf(t), All(t, "success"), All(t, "issue"),
                 Rate(All(t, "issue"), TotalOf(t)))

(* matrix: one row per classification that has samples.                    *)
MatrixRow(t, c) ==
  LET total == t[c]["success"] + t[c]["issue"] + t[c]["skipped"]
  IN  MatrixStatus(total, t[c]["issue"], Rate(t[c]["issue"], total))
MatrixClasses(t) == {c \in Classes : \E r \in Results : t[c][r] > 0}

(* decisions: the order of the list, by rank, then success rate, then      *)
(* failure rate, as one number.                                            *)
Standing(t) ==
  DecisionRank(Decision(t)) * 2000000
    + Rate(All(t, "success"), TotalOf(t)) * 1001
    + (1000 - Rate(All(t, "issue"), TotalOf(t)))

RecordSample(sample) ==
  /\ TotalOf(tally) < MaxSamples
  /\ tally' = WithSample(tally, sample)
  /\ UNCHANGED routeStatus

Mark(status) ==
  /\ routeStatus' = status
  /\ UNCHANGED tally

DecisionNext ==
  \/ \E sample \in Samples : RecordSample(sample)
  \/ \E status \in Statuses : Mark(status)

DecisionSpec == DecisionInit /\ [][DecisionNext]_decisionVars
-----------------------------------------------------------------------------
(* The readings of the same counts, computed in three places, never        *)
(* contradict each other: the reason shown belongs to the decision, and a  *)
(* route the counts make one to avoid does not have a matrix of ok rows    *)
(* only; and once there are enough samples, one more failure never moves a *)
(* route up the list of decisions nor one more success down, at any        *)
(* threshold and through the rounding (profileDecision,                    *)
(* profileDecisionReason, matrixStatus, decisionRank).                     *)
DecisionsAgree ==
  /\ Decision(tally) = "avoid" <=> Reason(tally) \in {"manually blocked", "repeated failures"}
  /\ Decision(tally) = "watch" <=> Reason(tally) \in {"marked degraded", "elevated failure rate"}
  /\ Decision(tally) = "preferred" <=> Reason(tally) = "stable samples"
  /\ Reason(tally) = "repeated failures" =>
       \E c \in MatrixClasses(tally) : MatrixRow(tally, c) # "ok"
  /\ TotalOf(tally) >= 3 => \A sample \in Samples :
       LET more == Standing(WithSample(tally, sample)) IN
       /\ sample.result = "issue" => more <= Standing(tally)
       /\ sample.result = "success" => more >= Standing(tally)
=============================================================================
