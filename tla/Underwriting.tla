---------------------------- MODULE Underwriting ----------------------------
(***************************************************************************)
(* The deterministic decision of credence/underwriting: the history        *)
(* features (features.py), the scorecard (scorecard.py) and decide         *)
(* (decision.py).  Rates and probabilities are parts per million.          *)
(* Products that exceed 32 bits are reduced: 60000 * r // 10^6 is          *)
(* 6 * r \div 100, and a loss given default of 550000 ppm is 11 / 20.      *)
(*                                                                         *)
(* A history h has the features the score reads; policy_violation_count is *)
(* left out, since nothing emits the event it counts.  A request i has the *)
(* fields of DecisionInputs, i.history among them.                         *)
(***************************************************************************)
EXTENDS Integers, FiniteSetsExt

PPM == 1000000
AutoApproveMaxPdPpm == 350000
AutoApproveMaxElRatioPpm == 60000

RatePpm(part, whole) == IF whole <= 0 THEN 0 ELSE (part * PPM) \div whole

AtMost(n, bound) == IF n > bound THEN bound ELSE n

TrackRecordPpm(h) ==
  IF h.first
    THEN 80000
    ELSE -((6 * RatePpm(h.succeeded, h.ended)) \div 100)
           - ((5 * RatePpm(h.repaid_in_full, h.repayments)) \div 100)

\* mutated form: the count of blocked attempts wraps instead of saturating
IncidentsWrapped(h) ==
  (IF h.defaulted > 0 THEN 150000 ELSE 0)
    + (h.blocked % 6) * 20000
    + (IF h.age_days < 7 THEN 40000 ELSE 0)

IncidentsPpm(h) ==
  (IF h.defaulted > 0 THEN 150000 ELSE 0)
    + AtMost(h.blocked, 5) * 20000
    + (IF h.age_days < 7 THEN 40000 ELSE 0)

CoveragePpm(i) == IF i.requested > 0 THEN (i.revenue * PPM) \div i.requested ELSE 0

EconomicsPpm(coverage) ==
  IF coverage >= 1500000 THEN -40000 ELSE IF coverage < PPM THEN 120000 ELSE 0

ScorePdPpm(h, coverage) ==
  LET pd == 120000 + TrackRecordPpm(h) + IncidentsPpm(h) + EconomicsPpm(coverage)
  IN  IF pd < 5000 THEN 5000 ELSE AtMost(pd, 950000)

\* the five caps; the smallest is the limit
Caps(i) ==
  [requested |-> i.requested,
   exposure  |-> IF i.outstanding \in 0 .. i.exposure_cap
                   THEN i.exposure_cap - i.outstanding ELSE 0,
   revenue   |-> (i.revenue * 7) \div 10,
   cost      |-> i.cost,
   authority |-> i.authority]

Limit(i) == Min({Caps(i)[c] : c \in DOMAIN Caps(i)})

\* mutated form: the division comes before the exposure
ExpectedLossDividedFirst(pd, limit) == ((pd * 11) \div (20 * PPM)) * limit

ExpectedLoss(pd, limit) == (pd * limit * 11) \div (20 * PPM)

\* what sends a request to a person; each disjunct is a reason code of its own
NeedsReview(i) ==
  LET pd == ScorePdPpm(i.history, CoveragePpm(i))
  IN  \/ ~i.mandate                       \* REVENUE_MANDATE_MISSING_OR_INVALID
      \/ i.analysis = "unavailable"       \* AI_EVIDENCE_CHECKS_UNAVAILABLE
      \/ i.analysis = "injection"         \* PROMPT_INJECTION_SUSPECTED
      \/ i.analysis = "uncorroborated"    \* PROMPT_INJECTION_SUSPECTED_UNCORROBORATED
      \/ i.history.first                  \* FIRST_CREDIT_FOR_AGENT
      \/ pd > AutoApproveMaxPdPpm                   \* PD_ABOVE_AUTO_APPROVE_THRESHOLD
      \/ (ExpectedLoss(pd, Limit(i)) * PPM) \div Limit(i) > AutoApproveMaxElRatioPpm
                                          \* EXPECTED_LOSS_ABOVE_THRESHOLD

Decide(i) ==
  IF Limit(i) <= 0
    THEN [decision |-> "REJECTED", limit |-> 0]
    ELSE [decision |-> IF NeedsReview(i) THEN "HUMAN_REVIEW_REQUIRED" ELSE "APPROVED",
          limit    |-> Limit(i)]
=============================================================================
