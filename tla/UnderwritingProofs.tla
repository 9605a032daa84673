------------------------- MODULE UnderwritingProofs -------------------------
(***************************************************************************)
(* What decide promises of every request, whatever the amounts, coverages  *)
(* and histories: the truncated divisions of the scorecard and of the      *)
(* expected loss keep the direction of every factor, and lose less than    *)
(* one unit each.                                                          *)
(***************************************************************************)
EXTENDS MCUnderwriting, TLAPS

(***************************************************************************)
(* Products and truncated quotients of natural numbers.                    *)
(***************************************************************************)
\* A factor that grows makes the product grow.
LEMMA ProductGrows ==
  ASSUME NEW a \in Nat, NEW b \in Nat, NEW c \in Nat, a <= b
  PROVE  a * c \in Nat /\ b * c \in Nat /\ a * c <= b * c
  OBVIOUS

\* A product that grows has a factor that grows.
LEMMA FactorGrows ==
  ASSUME NEW a \in Nat, NEW b \in Nat, NEW c \in Nat, a * c < b * c
  PROVE  a < b
<1>1. CASE b <= a
  <2>1. b * c <= a * c /\ b * c \in Nat /\ a * c \in Nat
    BY <1>1, ProductGrows
  <2>2. QED
    BY <2>1
<1>2. QED
  BY <1>1

\* The quotient is the greatest number whose product fits.
LEMMA Quotient ==
  ASSUME NEW a \in Nat, NEW b \in Nat \ {0}
  PROVE  /\ a \div b \in Nat
         /\ (a \div b) * b <= a
         /\ a < (a \div b + 1) * b
  OBVIOUS

\* A dividend that grows makes the quotient grow.
LEMMA QuotientGrows ==
  ASSUME NEW a \in Nat, NEW b \in Nat, NEW c \in Nat \ {0}, a <= b
  PROVE  a \div c <= b \div c
<1> DEFINE x == a \div c
           y == b \div c
<1>1. x \in Nat /\ y \in Nat /\ x * c <= a /\ b < (y + 1) * c
  BY Quotient
<1> HIDE DEF x, y
<1>2. x * c \in Nat /\ (y + 1) * c \in Nat
  BY <1>1
<1>3. x * c < (y + 1) * c
  BY <1>1, <1>2
<1>4. x < y + 1
  BY <1>1, <1>3, FactorGrows
<1>5. QED
  BY <1>1, <1>4 DEF x, y

\* A divisor that grows makes the quotient shrink.
LEMMA QuotientShrinks ==
  ASSUME NEW a \in Nat, NEW b \in Nat \ {0}, NEW c \in Nat \ {0}, b <= c
  PROVE  a \div c <= a \div b
<1> DEFINE x == a \div c
           y == a \div b
<1>1. x \in Nat /\ y \in Nat /\ x * c <= a /\ a < (y + 1) * b
  BY Quotient
<1> HIDE DEF x, y
<1>2. x * b \in Nat /\ x * c \in Nat /\ (y + 1) * b \in Nat
  BY <1>1
<1>3. x * b <= x * c
  BY <1>1, ProductGrows
<1>4. x * b < (y + 1) * b
  BY <1>1, <1>2, <1>3
<1>5. x < y + 1
  BY <1>1, <1>4, FactorGrows
<1>6. QED
  BY <1>1, <1>5 DEF x, y

(***************************************************************************)
(* The limit: the least of five caps.                                      *)
(***************************************************************************)
\* Min is the least of five natural numbers.
LEMMA LeastOfFive ==
  ASSUME NEW a \in Nat, NEW b \in Nat, NEW c \in Nat, NEW d \in Nat, NEW e \in Nat
  PROVE  Min({a, b, c, d, e}) \in Nat
<1> DEFINE S == {a, b, c, d, e}
<1>1. \E x \in S : \A y \in S : x <= y
  <2>1. PICK u \in {a, b} : u <= a /\ u <= b
    OBVIOUS
  <2>2. PICK w \in {c, d} : w <= c /\ w <= d
    OBVIOUS
  <2>3. PICK x \in {u, w} : x <= u /\ x <= w
    BY <2>1, <2>2
  <2>4. PICK z \in {x, e} : z <= x /\ z <= e
    BY <2>1, <2>2, <2>3
  <2>5. z \in S /\ \A y \in S : z <= y
    BY <2>1, <2>2, <2>3, <2>4
  <2>6. QED
    BY <2>5
<1>2. Min(S) = CHOOSE x \in S : \A y \in S : x <= y
  BY DEF Min
<1>3. Min(S) \in S
  BY <1>1, <1>2
<1>4. QED
  BY <1>3

(***************************************************************************)
(* Requests as the types of DecisionInputs have them.                      *)
(***************************************************************************)
HistoryRows ==
  [ended : Nat, succeeded : Nat, repayments : Nat, repaid_in_full : Nat, defaulted : Nat,
   blocked : Nat, age_days : Nat, first : {FALSE}]

RequestRows ==
  [requested : Nat \ {0}, exposure_cap : Nat, outstanding : {0}, revenue : Nat, cost : Nat,
   authority : Nat, history : HistoryRows, mandate : BOOLEAN,
   analysis : {"clean", "unavailable", "injection", "uncorroborated"}]

\* The limit of a request is a natural number.
LEMMA LimitType ==
  ASSUME NEW i \in RequestRows
  PROVE  Limit(i) \in Nat
<1>1. /\ i.requested \in Nat /\ i.exposure_cap \in Nat /\ i.outstanding = 0
      /\ i.revenue \in Nat /\ i.cost \in Nat /\ i.authority \in Nat
  BY DEF RequestRows
<1>2. {Caps(i)[c] : c \in DOMAIN Caps(i)}
        = {Caps(i).requested, Caps(i).exposure, Caps(i).revenue, Caps(i).cost,
           Caps(i).authority}
  BY DEF Caps
<1>3. /\ Caps(i).requested \in Nat /\ Caps(i).exposure \in Nat /\ Caps(i).revenue \in Nat
      /\ Caps(i).cost \in Nat /\ Caps(i).authority \in Nat
  <2>1. (i.revenue * 7) \div 10 \in Nat
    BY <1>1
  <2>2. QED
    BY <1>1, <2>1 DEF Caps
<1>4. QED
  BY <1>2, <1>3, LeastOfFive DEF Limit

\* Requests that agree on the amounts have the same limit and coverage.
LEMMA SameAmounts ==
  ASSUME NEW i, NEW j, j.requested = i.requested, j.exposure_cap = i.exposure_cap,
         j.outstanding = i.outstanding, j.revenue = i.revenue, j.cost = i.cost,
         j.authority = i.authority
  PROVE  Limit(j) = Limit(i) /\ CoveragePpm(j) = CoveragePpm(i)
<1>1. Caps(j) = Caps(i)
  BY DEF Caps
<1>2. QED
  BY <1>1 DEF Limit, CoveragePpm

(***************************************************************************)
(* The score.                                                              *)
(***************************************************************************)
\* A rate is natural, and falls when its part does or its whole grows.
LEMMA RateType ==
  ASSUME NEW part \in Nat, NEW whole \in Nat
  PROVE  RatePpm(part, whole) \in Nat
<1>1. PPM \in Nat /\ part * PPM \in Nat
  BY DEF PPM
<1>2. QED
  BY <1>1, Quotient DEF RatePpm

\* Fewer of the same whole is no greater a rate.
LEMMA RateOfLess ==
  ASSUME NEW part \in Nat, NEW more \in Nat, NEW whole \in Nat, part <= more
  PROVE  RatePpm(part, whole) <= RatePpm(more, whole)
<1>1. part * PPM \in Nat /\ more * PPM \in Nat /\ part * PPM <= more * PPM
  BY DEF PPM
<1>2. CASE whole = 0
  BY <1>2 DEF RatePpm
<1>3. CASE whole # 0
  BY <1>1, <1>3, QuotientGrows DEF RatePpm
<1>4. QED
  BY <1>2, <1>3

\* The same part of a greater whole is no greater a rate.
LEMMA RateOfWider ==
  ASSUME NEW part \in Nat, NEW whole \in Nat, part <= whole
  PROVE  RatePpm(part, whole + 1) <= RatePpm(part, whole)
<1>1. part * PPM \in Nat
  BY DEF PPM
<1>2. CASE whole = 0
  <2>1. part * PPM = 0 /\ whole + 1 = 1 /\ 0 \div 1 = 0
    BY <1>2 DEF PPM
  <2>2. QED
    BY <1>2, <2>1 DEF RatePpm
<1>3. CASE whole # 0
  BY <1>1, <1>3, QuotientShrinks DEF RatePpm
<1>4. QED
  BY <1>2, <1>3

\* One history is no better than another: no greater rates, no fewer incidents.
NoBetter(h, g) ==
  /\ RatePpm(h.succeeded, h.ended) <= RatePpm(g.succeeded, g.ended)
  /\ RatePpm(h.repaid_in_full, h.repayments) <= RatePpm(g.repaid_in_full, g.repayments)
  /\ g.defaulted > 0 => h.defaulted > 0
  /\ g.blocked <= h.blocked
  /\ g.age_days < 7 => h.age_days < 7

\* The probability of default is a natural number.
LEMMA ScoreType ==
  ASSUME NEW h \in HistoryRows, NEW coverage
  PROVE  ScorePdPpm(h, coverage) \in Nat
<1>1. TrackRecordPpm(h) \in Int
  <2>1. RatePpm(h.succeeded, h.ended) \in Nat /\ RatePpm(h.repaid_in_full, h.repayments) \in Nat
    BY RateType DEF HistoryRows
  <2>2. QED
    BY <2>1 DEF TrackRecordPpm
<1>2. IncidentsPpm(h) \in Int
  BY DEF IncidentsPpm, AtMost, HistoryRows
<1>3. EconomicsPpm(coverage) \in Int
  BY DEF EconomicsPpm
<1>4. QED
  BY <1>1, <1>2, <1>3 DEF ScorePdPpm, AtMost

\* A history that is no better does not lower the probability of default.
LEMMA ScoreKeepsDirection ==
  ASSUME NEW h \in HistoryRows, NEW g \in HistoryRows, NoBetter(h, g), NEW coverage
  PROVE  ScorePdPpm(g, coverage) <= ScorePdPpm(h, coverage)
<1>1. TrackRecordPpm(h) \in Int /\ TrackRecordPpm(g) \in Int
        /\ TrackRecordPpm(g) <= TrackRecordPpm(h)
  <2>1. h.first = FALSE /\ g.first = FALSE
    BY DEF HistoryRows
  <2> DEFINE hs == RatePpm(h.succeeded, h.ended)
             hr == RatePpm(h.repaid_in_full, h.repayments)
             gs == RatePpm(g.succeeded, g.ended)
             gr == RatePpm(g.repaid_in_full, g.repayments)
  <2>2. hs \in Nat /\ hr \in Nat /\ gs \in Nat /\ gr \in Nat
    BY RateType DEF HistoryRows
  <2>3. hs <= gs /\ hr <= gr
    BY DEF NoBetter
  <2>4. /\ TrackRecordPpm(h) = -((6 * hs) \div 100) - ((5 * hr) \div 100)
        /\ TrackRecordPpm(g) = -((6 * gs) \div 100) - ((5 * gr) \div 100)
    BY <2>1, <2>2 DEF TrackRecordPpm
  <2> HIDE DEF hs, hr, gs, gr
  <2>5. (6 * hs) \div 100 <= (6 * gs) \div 100 /\ (5 * hr) \div 100 <= (5 * gr) \div 100
    BY <2>2, <2>3
  <2>6. QED
    BY <2>2, <2>4, <2>5
<1>2. IncidentsPpm(h) \in Int /\ IncidentsPpm(g) \in Int /\ IncidentsPpm(g) <= IncidentsPpm(h)
  BY DEF IncidentsPpm, AtMost, HistoryRows, NoBetter
<1>3. EconomicsPpm(coverage) \in Int
  BY DEF EconomicsPpm
<1>4. QED
  BY <1>1, <1>2, <1>3 DEF ScorePdPpm, AtMost

(***************************************************************************)
(* The expected loss.                                                      *)
(***************************************************************************)
\* The share of the limit that is expected to be lost, in parts per million.
LossRatio(pd, limit) == (ExpectedLoss(pd, limit) * PPM) \div limit

\* Expected losses are natural and grow with the probability of default.
LEMMA LossGrows ==
  ASSUME NEW p \in Nat, NEW q \in Nat, NEW limit \in Nat \ {0}, p <= q
  PROVE  /\ ExpectedLoss(p, limit) \in Nat /\ LossRatio(p, limit) \in Nat
         /\ LossRatio(p, limit) <= LossRatio(q, limit)
<1>1. PPM \in Nat \ {0} /\ 20 * PPM \in Nat \ {0}
  BY DEF PPM
<1>2. p * limit \in Nat /\ q * limit \in Nat /\ p * limit <= q * limit
  BY ProductGrows
<1>3. p * limit * 11 \in Nat /\ q * limit * 11 \in Nat /\ p * limit * 11 <= q * limit * 11
  BY <1>2
<1>4. /\ ExpectedLoss(p, limit) \in Nat /\ ExpectedLoss(q, limit) \in Nat
      /\ ExpectedLoss(p, limit) <= ExpectedLoss(q, limit)
  BY <1>1, <1>3, Quotient, QuotientGrows DEF ExpectedLoss
<1>5. /\ ExpectedLoss(p, limit) * PPM \in Nat /\ ExpectedLoss(q, limit) * PPM \in Nat
      /\ ExpectedLoss(p, limit) * PPM <= ExpectedLoss(q, limit) * PPM
  BY <1>1, <1>4, ProductGrows
<1>6. QED
  BY <1>4, <1>5, Quotient, QuotientGrows DEF LossRatio

\* When the truncated ratio is within six percent, the exact one is less than
\* one minor unit and one part per million beyond it.
LEMMA TruncatedLoss ==
  ASSUME NEW pd \in Nat, NEW limit \in Nat \ {0},
         LossRatio(pd, limit) <= AutoApproveMaxElRatioPpm
  PROVE  (pd * 11) \div 20 <= 60001 + PPM \div limit
<1> DEFINE loss == ExpectedLoss(pd, limit)
           x == pd * limit
           ratio == LossRatio(pd, limit)
           d == (pd * 11) \div 20
           r == PPM \div limit
<1>1. loss \in Nat /\ ratio \in Nat
  BY LossGrows
<1>2. x \in Nat /\ x * 11 \in Nat
  BY ProductGrows
<1>3. x * 11 < (loss + 1) * (20 * PPM)
  <2>1. loss = (x * 11) \div (20 * PPM)
    BY DEF ExpectedLoss
  <2>2. 20 * PPM \in Nat \ {0}
    BY DEF PPM
  <2> HIDE DEF x, loss
  <2>3. QED
    BY <1>2, <2>1, <2>2, Quotient
<1>4. loss * PPM < 60001 * limit
  <2>1. ratio = (loss * PPM) \div limit /\ loss * PPM \in Nat
    BY <1>1 DEF LossRatio, PPM
  <2> HIDE DEF ratio, loss
  <2>2. loss * PPM < (ratio + 1) * limit
    BY <2>1, Quotient
  <2>3. ratio + 1 \in Nat /\ ratio + 1 <= 60001
    BY <1>1 DEF AutoApproveMaxElRatioPpm, ratio
  <2>4. (ratio + 1) * limit \in Nat /\ (ratio + 1) * limit <= 60001 * limit
    BY <2>3, ProductGrows
  <2>5. QED
    BY <2>1, <2>2, <2>4
<1>5. r \in Nat /\ PPM < (r + 1) * limit
  BY Quotient DEF PPM
<1>6. d \in Nat /\ d * 20 <= pd * 11
  BY Quotient
<1>7. d * limit * 20 <= x * 11
  <2> HIDE DEF d
  <2>1. (d * 20) * limit <= (pd * 11) * limit
    BY <1>6, ProductGrows
  <2>2. (d * 20) * limit = d * limit * 20 /\ (pd * 11) * limit = x * 11
    BY <1>6
  <2>3. QED
    BY <2>1, <2>2
<1> HIDE DEF loss, x, ratio, d, r
<1>8. d * limit < (60002 + r) * limit
  <2> DEFINE l == d * limit
             m == (r + 1) * limit
  <2>1. l \in Nat /\ m \in Nat /\ (60002 + r) * limit = 60001 * limit + m
    BY <1>5, <1>6
  <2> HIDE DEF l, m
  <2>2. l * 20 <= x * 11 /\ PPM < m
    BY <1>5, <1>7 DEF l, m
  <2>3. l < 60001 * limit + PPM
    BY <1>1, <1>2, <1>3, <1>4, <2>1, <2>2 DEF PPM
  <2>4. l < 60001 * limit + m
    BY <2>1, <2>2, <2>3 DEF PPM
  <2>5. QED
    BY <2>1, <2>4 DEF l
<1>9. d < 60002 + r
  BY <1>5, <1>6, <1>8, FactorGrows
<1>10. QED
  BY <1>5, <1>6, <1>9 DEF d, r

(***************************************************************************)
(* What decide does of any request.                                        *)
(***************************************************************************)
\* An approved request has a positive limit and needs no review.
LEMMA Approved ==
  ASSUME NEW i \in RequestRows, Decide(i).decision = "APPROVED"
  PROVE  /\ Limit(i) \in Nat \ {0} /\ Decide(i).limit = Limit(i)
         /\ LossRatio(ScorePdPpm(i.history, CoveragePpm(i)), Limit(i))
              <= AutoApproveMaxElRatioPpm
<1>1. ~(Limit(i) <= 0)
  BY DEF Decide
<1>2. Limit(i) \in Nat \ {0}
  BY <1>1, LimitType
<1>3. ~NeedsReview(i) /\ Decide(i).limit = Limit(i)
  BY <1>1 DEF Decide
<1>4. i.history \in HistoryRows
  BY DEF RequestRows
<1>5. LossRatio(ScorePdPpm(i.history, CoveragePpm(i)), Limit(i)) \in Nat
  BY <1>2, <1>4, ScoreType, LossGrows
<1>6. ~(LossRatio(ScorePdPpm(i.history, CoveragePpm(i)), Limit(i)) > AutoApproveMaxElRatioPpm)
  BY <1>3 DEF NeedsReview, LossRatio
<1>7. QED
  BY <1>2, <1>3, <1>5, <1>6 DEF AutoApproveMaxElRatioPpm

\* A worse request has the same amounts and no better history, and is not
\* cleared of what sent it to a person.
Worse(j, i) ==
  /\ j.requested = i.requested /\ j.exposure_cap = i.exposure_cap
  /\ j.outstanding = i.outstanding /\ j.revenue = i.revenue /\ j.cost = i.cost
  /\ j.authority = i.authority
  /\ NoBetter(j.history, i.history)
  /\ ~i.mandate => ~j.mandate
  /\ i.analysis # "clean" => j.analysis # "clean"

\* A worse request is reviewed whenever the request is.
LEMMA ReviewStays ==
  ASSUME NEW i \in RequestRows, NEW j \in RequestRows, Worse(j, i), Limit(i) \in Nat \ {0},
         NeedsReview(i)
  PROVE  NeedsReview(j)
<1> DEFINE pi == ScorePdPpm(i.history, CoveragePpm(i))
           pj == ScorePdPpm(j.history, CoveragePpm(j))
<1>1. Limit(j) = Limit(i) /\ CoveragePpm(j) = CoveragePpm(i)
  BY SameAmounts DEF Worse
<1>2. i.history \in HistoryRows /\ j.history \in HistoryRows
  BY DEF RequestRows
<1>3. pi \in Nat /\ pj \in Nat /\ pi <= pj
  BY <1>1, <1>2, ScoreType, ScoreKeepsDirection DEF Worse
<1>4. /\ LossRatio(pi, Limit(i)) \in Nat /\ LossRatio(pj, Limit(i)) \in Nat
      /\ LossRatio(pi, Limit(i)) <= LossRatio(pj, Limit(i))
  BY <1>3, LossGrows
<1>5. \/ ~i.mandate
      \/ i.analysis # "clean"
      \/ pi > AutoApproveMaxPdPpm
      \/ LossRatio(pi, Limit(i)) > AutoApproveMaxElRatioPpm
  <2>1. i.history.first = FALSE
    BY <1>2 DEF HistoryRows
  <2>2. QED
    BY <2>1 DEF NeedsReview, LossRatio
<1>6. \/ ~j.mandate
      \/ j.analysis # "clean"
      \/ pj > AutoApproveMaxPdPpm
      \/ LossRatio(pj, Limit(j)) > AutoApproveMaxElRatioPpm
  <2> HIDE DEF pi, pj
  <2>1. pi > AutoApproveMaxPdPpm => pj > AutoApproveMaxPdPpm
    BY <1>3 DEF AutoApproveMaxPdPpm
  <2>2. LossRatio(pi, Limit(i)) > AutoApproveMaxElRatioPpm
          => LossRatio(pj, Limit(j)) > AutoApproveMaxElRatioPpm
    BY <1>1, <1>4 DEF AutoApproveMaxElRatioPpm
  <2>3. QED
    BY <1>5, <2>1, <2>2 DEF Worse
<1>7. j.analysis # "clean" => j.analysis \in {"unavailable", "injection", "uncorroborated"}
  BY DEF RequestRows
<1>8. QED
  BY <1>6, <1>7 DEF NeedsReview, LossRatio

\* A worse request gets no better a decision and the same limit.
LEMMA WorseDecision ==
  ASSUME NEW i \in RequestRows, NEW j \in RequestRows, Worse(j, i)
  PROVE  /\ Rank(Decide(j)) <= Rank(Decide(i))
         /\ Decide(j).limit = Decide(i).limit
<1>1. Limit(j) = Limit(i) /\ Limit(i) \in Nat
  BY SameAmounts, LimitType DEF Worse
<1>2. CASE Limit(i) = 0
  BY <1>1, <1>2 DEF Decide, Rank
<1>3. CASE Limit(i) # 0
  <2>1. NeedsReview(i) => NeedsReview(j)
    BY <1>1, <1>3, ReviewStays
  <2>2. ~(Limit(i) <= 0) /\ ~(Limit(j) <= 0)
    BY <1>1, <1>3
  <2>3. QED
    BY <1>1, <2>1, <2>2 DEF Decide, Rank
<1>4. QED
  BY <1>2, <1>3

(***************************************************************************)
(* The explored requests.                                                  *)
(***************************************************************************)
RequestInv ==
  /\ request \in RequestRows
  /\ request.history.succeeded <= request.history.ended

\* The requests start as decide's inputs.
LEMMA RequestInit == Init => RequestInv
<1> SUFFICES ASSUME Init PROVE RequestInv
  OBVIOUS
<1>1. PICK h \in Histories, amount \in Amounts, coverage \in Coverages :
        request = [requested |-> amount, exposure_cap |-> amount, outstanding |-> 0,
                   revenue |-> (amount * coverage) \div 2, cost |-> amount,
                   authority |-> amount, history |-> h, mandate |-> TRUE,
                   analysis |-> "clean"]
  BY DEF Init
<1>2. h \in HistoryRows /\ h.succeeded <= h.ended
  <2> DEFINE ranges == [ended : 0 .. MaxEnded, succeeded : 0 .. MaxEnded,
                        repayments : {MaxEnded}, repaid_in_full : 0 .. MaxEnded,
                        defaulted : {0}, blocked : {0}, age_days : {7}, first : {FALSE}]
  <2>1. h \in ranges /\ h.succeeded <= h.ended
    BY DEF Histories
  <2>2. MaxEnded \in Nat /\ 0 .. MaxEnded \subseteq Nat
    BY RequestsAssumption
  <2>3. ASSUME NEW x \in ranges
        PROVE  x \in HistoryRows
    <3> DEFINE D == 0 .. MaxEnded
    <3>1. /\ x = [ended |-> x.ended, succeeded |-> x.succeeded, repayments |-> x.repayments,
                  repaid_in_full |-> x.repaid_in_full, defaulted |-> x.defaulted,
                  blocked |-> x.blocked, age_days |-> x.age_days, first |-> x.first]
      OBVIOUS
    <3>2. /\ x.ended \in D /\ x.succeeded \in D /\ x.repayments = MaxEnded
          /\ x.repaid_in_full \in D /\ x.defaulted = 0 /\ x.blocked = 0
          /\ x.age_days = 7
      OBVIOUS
    <3>3. /\ x.ended \in Nat /\ x.succeeded \in Nat /\ x.repayments \in Nat
          /\ x.repaid_in_full \in Nat /\ x.defaulted \in Nat /\ x.blocked \in Nat
          /\ x.age_days \in Nat
      <4> HIDE DEF ranges
      <4>1. QED
        BY <2>2, <3>2
    <3>4. x.first \in {FALSE}
      OBVIOUS
    <3> HIDE DEF ranges
    <3>5. [ended |-> x.ended, succeeded |-> x.succeeded, repayments |-> x.repayments,
           repaid_in_full |-> x.repaid_in_full, defaulted |-> x.defaulted,
           blocked |-> x.blocked, age_days |-> x.age_days, first |-> x.first] \in HistoryRows
      BY <3>3, <3>4, Zenon DEF HistoryRows
    <3>6. QED
      BY <3>1, <3>5
  <2>4. QED
    BY <2>1, <2>3
<1>3. amount \in Nat \ {0} /\ (amount * coverage) \div 2 \in Nat
  <2>1. amount \in Nat \ {0} /\ coverage \in Nat
    BY RequestsAssumption
  <2>2. amount * coverage \in Nat
    BY <2>1
  <2>3. QED
    BY <2>1, <2>2, Quotient
<1>4. QED
  BY <1>1, <1>2, <1>3 DEF RequestInv, RequestRows

(***************************************************************************)
(* A history with one of its features replaced.                            *)
(***************************************************************************)
Feature == {"ended", "succeeded", "repayments", "repaid_in_full", "defaulted", "blocked",
            "age_days"}

\* h is g with feature f replaced by n
Changed(h, g, f, n) ==
  /\ h \in HistoryRows
  /\ h.ended = IF f = "ended" THEN n ELSE g.ended
  /\ h.succeeded = IF f = "succeeded" THEN n ELSE g.succeeded
  /\ h.repayments = IF f = "repayments" THEN n ELSE g.repayments
  /\ h.repaid_in_full = IF f = "repaid_in_full" THEN n ELSE g.repaid_in_full
  /\ h.defaulted = IF f = "defaulted" THEN n ELSE g.defaulted
  /\ h.blocked = IF f = "blocked" THEN n ELSE g.blocked
  /\ h.age_days = IF f = "age_days" THEN n ELSE g.age_days

\* Replacing a feature leaves a history and the other features.
LEMMA OneFeature ==
  ASSUME NEW g \in HistoryRows, NEW f \in Feature, NEW n \in Nat
  PROVE  Changed([g EXCEPT ![f] = n], g, f, n)
  BY DEF HistoryRows, Feature, Changed

\* A worse history is a history, and is no better.
LEMMA HistoryWorsens ==
  ASSUME RequestInv, WorseHistory
  PROVE  RequestInv' /\ Worse(request', request)
<1> DEFINE g == request.history
<1>1. PICK h \in {[g EXCEPT !.ended = @ + 1], [g EXCEPT !.succeeded = @ - 1],
                  [g EXCEPT !.repaid_in_full = @ - 1], [g EXCEPT !.defaulted = 1],
                  [g EXCEPT !.blocked = @ + 1], [g EXCEPT !.age_days = 6]} :
        /\ 0 <= h.succeeded /\ 0 <= h.repaid_in_full
        /\ request' = [request EXCEPT !.history = h]
  BY DEF WorseHistory
<1>2. g \in HistoryRows /\ g.succeeded <= g.ended /\ request \in RequestRows
  BY DEF RequestInv, RequestRows
<1> HIDE DEF g
<1>3. /\ h \in HistoryRows /\ h.succeeded <= h.ended
      /\ NoBetter(h, g)
  <2>1. /\ g.ended \in Nat /\ g.succeeded \in Nat /\ g.repayments \in Nat
        /\ g.repaid_in_full \in Nat /\ g.defaulted \in Nat /\ g.blocked \in Nat
        /\ g.age_days \in Nat
    BY <1>2 DEF HistoryRows
  <2>2. \/ h = [g EXCEPT !["ended"] = g.ended + 1]
        \/ h = [g EXCEPT !["succeeded"] = g.succeeded - 1]
        \/ h = [g EXCEPT !["repaid_in_full"] = g.repaid_in_full - 1]
        \/ h = [g EXCEPT !["defaulted"] = 1]
        \/ h = [g EXCEPT !["blocked"] = g.blocked + 1]
        \/ h = [g EXCEPT !["age_days"] = 6]
    OBVIOUS
  <2>3. CASE h = [g EXCEPT !["ended"] = g.ended + 1]
    <3>1. Changed(h, g, "ended", g.ended + 1)
      BY <1>2, <2>1, <2>3, OneFeature DEF Feature
    <3>2. QED
      BY <1>2, <2>1, <3>1, RateOfWider, RateType DEF NoBetter, Changed
  <2>4. CASE h = [g EXCEPT !["succeeded"] = g.succeeded - 1]
    <3>1. g.succeeded - 1 \in Nat
      <4>1. h["succeeded"] = g.succeeded - 1
        BY <1>2, <2>4 DEF HistoryRows
      <4>2. QED
        BY <1>1, <2>1, <4>1
    <3>2. Changed(h, g, "succeeded", g.succeeded - 1)
      BY <1>2, <2>4, <3>1, OneFeature DEF Feature
    <3>3. RatePpm(g.succeeded - 1, g.ended) <= RatePpm(g.succeeded, g.ended)
      BY <2>1, <3>1, RateOfLess
    <3>4. QED
      BY <1>2, <2>1, <3>1, <3>2, <3>3, RateType DEF NoBetter, Changed
  <2>5. CASE h = [g EXCEPT !["repaid_in_full"] = g.repaid_in_full - 1]
    <3>1. g.repaid_in_full - 1 \in Nat
      <4>1. h["repaid_in_full"] = g.repaid_in_full - 1
        BY <1>2, <2>5 DEF HistoryRows
      <4>2. QED
        BY <1>1, <2>1, <4>1
    <3>2. Changed(h, g, "repaid_in_full", g.repaid_in_full - 1)
      BY <1>2, <2>5, <3>1, OneFeature DEF Feature
    <3>3. RatePpm(g.repaid_in_full - 1, g.repayments)
            <= RatePpm(g.repaid_in_full, g.repayments)
      BY <2>1, <3>1, RateOfLess
    <3>4. QED
      BY <1>2, <2>1, <3>1, <3>2, <3>3, RateType DEF NoBetter, Changed
  <2>6. CASE h = [g EXCEPT !["defaulted"] = 1]
    <3>1. Changed(h, g, "defaulted", 1)
      BY <1>2, <2>6, OneFeature DEF Feature
    <3>2. QED
      BY <1>2, <2>1, <3>1, RateType DEF NoBetter, Changed
  <2>7. CASE h = [g EXCEPT !["blocked"] = g.blocked + 1]
    <3>1. Changed(h, g, "blocked", g.blocked + 1)
      BY <1>2, <2>1, <2>7, OneFeature DEF Feature
    <3>2. QED
      BY <1>2, <2>1, <3>1, RateType DEF NoBetter, Changed
  <2>8. CASE h = [g EXCEPT !["age_days"] = 6]
    <3>1. Changed(h, g, "age_days", 6)
      BY <1>2, <2>8, OneFeature DEF Feature
    <3>2. QED
      BY <1>2, <2>1, <3>1, RateType DEF NoBetter, Changed
  <2>9. QED
    BY <2>2, <2>3, <2>4, <2>5, <2>6, <2>7, <2>8
<1>4. /\ request' \in RequestRows /\ request'.history = h
      /\ request'.mandate = request.mandate /\ request'.analysis = request.analysis
      /\ request'.requested = request.requested /\ request'.revenue = request.revenue
      /\ request'.exposure_cap = request.exposure_cap
      /\ request'.outstanding = request.outstanding
      /\ request'.cost = request.cost /\ request'.authority = request.authority
  BY <1>1, <1>2, <1>3 DEF RequestRows
<1>5. QED
  BY <1>3, <1>4 DEF RequestInv, Worse, g

\* A missing mandate or a finding is worse, and leaves the history.
LEMMA TaskWorsens ==
  ASSUME RequestInv, WorseTask
  PROVE  RequestInv' /\ Worse(request', request)
<1>1. request \in RequestRows /\ request.history \in HistoryRows
  BY DEF RequestInv, RequestRows
<1>2. \/ request' = [request EXCEPT !.mandate = FALSE]
      \/ \E a \in {"unavailable", "injection", "uncorroborated"} :
           request' = [request EXCEPT !.analysis = a]
  BY DEF WorseTask
<1>3. /\ request' \in RequestRows /\ request'.history = request.history
      /\ request'.requested = request.requested /\ request'.revenue = request.revenue
      /\ request'.exposure_cap = request.exposure_cap
      /\ request'.outstanding = request.outstanding
      /\ request'.cost = request.cost /\ request'.authority = request.authority
      /\ request'.mandate = request.mandate \/ request'.mandate = FALSE
      /\ request'.analysis = request.analysis \/ request'.analysis # "clean"
  <2>1. CASE request' = [request EXCEPT !.mandate = FALSE]
    BY <1>1, <2>1 DEF RequestRows
  <2>2. ASSUME NEW a \in {"unavailable", "injection", "uncorroborated"},
               request' = [request EXCEPT !.analysis = a]
        PROVE  <1>3!:
    BY <1>1, <2>2 DEF RequestRows
  <2>3. QED
    BY <1>2, <2>1, <2>2
<1>4. NoBetter(request'.history, request.history)
  <2>1. /\ RatePpm(request.history.succeeded, request.history.ended) \in Nat
        /\ RatePpm(request.history.repaid_in_full, request.history.repayments) \in Nat
        /\ request.history.blocked \in Nat
    BY <1>1, RateType DEF HistoryRows
  <2>2. QED
    BY <1>3, <2>1 DEF NoBetter
<1>5. QED
  BY <1>3, <1>4 DEF RequestInv, Worse

\* Every step makes the request worse.
LEMMA RequestNext ==
  ASSUME RequestInv, Next
  PROVE  RequestInv' /\ Worse(request', request)
  BY HistoryWorsens, TaskWorsens DEF Next
-----------------------------------------------------------------------------
(***************************************************************************)
(* Theorems.                                                               *)
(***************************************************************************)

\* The requests stay inputs of decide, with no more successes than vaults ended.
THEOREM RequestsAreInputs == Spec => []RequestInv
<1>1. Init => RequestInv
  BY RequestInit
<1>2. RequestInv /\ [Next]_request => RequestInv'
  BY RequestNext DEF RequestInv
<1>3. QED
  BY <1>1, <1>2, PTL DEF Spec

\* An approval without review exceeds six percent of the limit by less than one
\* minor unit and one part per million.
THEOREM ApprovalsBoundLoss == Spec => []ApprovedLossBounded
<1>1. RequestInv => ApprovedLossBounded
  <2> SUFFICES ASSUME RequestInv, Decide(request).decision = "APPROVED"
               PROVE  (ScorePdPpm(request.history, CoveragePpm(request)) * 11) \div 20
                        <= 60001 + PPM \div Decide(request).limit
    BY DEF ApprovedLossBounded
  <2>1. request \in RequestRows /\ request.history \in HistoryRows
    BY DEF RequestInv, RequestRows
  <2>2. QED
    BY <2>1, Approved, ScoreType, TruncatedLoss
<1>2. QED
  BY <1>1, RequestsAreInputs, PTL

\* Worse facts never help an applicant.
THEOREM WorseFactsNeverHelp == Spec => WorseNeverHelps
<1>1. RequestInv /\ [Next]_request =>
        [/\ Rank(Decide(request')) <= Rank(Decide(request))
         /\ Decide(request').limit = Decide(request).limit]_request
  BY RequestNext, WorseDecision DEF RequestInv
<1>2. QED
  BY <1>1, RequestsAreInputs, PTL DEF Spec, WorseNeverHelps
=============================================================================
