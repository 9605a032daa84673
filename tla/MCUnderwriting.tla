--------------------------- MODULE MCUnderwriting ---------------------------
(***************************************************************************)
(* Decide over bounded requests: every history of up to MaxEnded vaults, and  *)
(* limits small enough for the truncation of the expected loss to matter.  *)
(* A step makes the history, or what is known of the task, worse.          *)
(***************************************************************************)
EXTENDS Underwriting

CONSTANTS Amounts,     \* amounts requested
          Coverages,   \* expected revenue, in halves of the amount requested
          MaxEnded,    \* vaults of the agent that have ended
          MaxBlocked   \* blocked spend attempts

ASSUME RequestsAssumption ==
  /\ Amounts \subseteq Nat \ {0} /\ Coverages \subseteq Nat
  /\ MaxEnded \in Nat /\ MaxBlocked \in Nat

VARIABLE request

Histories ==
  {h \in [ended : 0 .. MaxEnded, succeeded : 0 .. MaxEnded, repayments : {MaxEnded},
          repaid_in_full : 0 .. MaxEnded, defaulted : {0}, blocked : {0},
          age_days : {7}, first : {FALSE}] : h.succeeded <= h.ended}

Init ==
  \E h \in Histories, amount \in Amounts, coverage \in Coverages :
    request = [requested |-> amount, exposure_cap |-> amount, outstanding |-> 0,
               revenue |-> (amount * coverage) \div 2, cost |-> amount, authority |-> amount,
               history |-> h, mandate |-> TRUE, analysis |-> "clean"]

WorseHistory ==
  \E h \in {[request.history EXCEPT !.ended = @ + 1],
            [request.history EXCEPT !.succeeded = @ - 1],
            [request.history EXCEPT !.repaid_in_full = @ - 1],
            [request.history EXCEPT !.defaulted = 1],
            [request.history EXCEPT !.blocked = @ + 1],
            [request.history EXCEPT !.age_days = 6]} :
    /\ h.ended <= MaxEnded /\ h.blocked <= MaxBlocked
    /\ 0 <= h.succeeded /\ 0 <= h.repaid_in_full
    /\ request' = [request EXCEPT !.history = h]

WorseTask ==
  \E r \in {[request EXCEPT !.mandate = FALSE],
            [request EXCEPT !.analysis = "unavailable"],
            [request EXCEPT !.analysis = "injection"],
            [request EXCEPT !.analysis = "uncorroborated"]} :
    request' = r

Next == WorseHistory \/ WorseTask

Spec == Init /\ [][Next]_request

Rank(verdict) ==
  CASE verdict.decision = "REJECTED"              -> 0
    [] verdict.decision = "HUMAN_REVIEW_REQUIRED" -> 1
    [] verdict.decision = "APPROVED"              -> 2

\* A worse history, a missing mandate or a finding of the model never turns a
\* review into an approval, and never changes the limit: the caps and clamps of
\* the scorecard (scorecard.py) keep the direction of every factor.
WorseNeverHelps ==
  [][/\ Rank(Decide(request')) <= Rank(Decide(request))
     /\ Decide(request').limit = Decide(request).limit]_request

\* "EL must be <= 6% of approved limit" (decision.py:26) up to its truncation:
\* an approval without review exceeds six percent by less than one minor unit
\* and one part per million of the limit.
ApprovedLossBounded ==
  LET pd    == ScorePdPpm(request.history, CoveragePpm(request))
      limit == Decide(request).limit
  IN  Decide(request).decision = "APPROVED" =>
        (pd * 11) \div 20 <= 60001 + PPM \div limit
=============================================================================
