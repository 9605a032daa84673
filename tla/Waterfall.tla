------------------------------ MODULE Waterfall ------------------------------
(***************************************************************************)
(* The two pure allocation functions of credence/vault/waterfall.py.       *)
(* Amounts are integer minor units.  The lists of labelled steps the code  *)
(* keeps for display repeat the amounts and are left out.                  *)
(***************************************************************************)
EXTENDS Integers

Least(a, b) == IF a <= b THEN a ELSE b

\* mutated form: the fee is charged in full whatever is left of the revenue
RepaymentFullFee(revenue, principalDue, feeDue, reserveDrawn) ==
  LET principal == Least(revenue, principalDue)
      reserve   == Least(revenue - principal - feeDue, reserveDrawn)
  IN  [principal |-> principal,
       fee       |-> feeDue,
       reserve   |-> reserve,
       owner     |-> revenue - principal - feeDue - reserve]

\* mutated form: the owner is paid before the fee
RepaymentOwnerFirst(revenue, principalDue, feeDue, reserveDrawn) ==
  LET principal == Least(revenue, principalDue)
      reserve   == Least(revenue - principal, reserveDrawn)
  IN  [principal |-> principal,
       fee       |-> 0,
       reserve   |-> reserve,
       owner     |-> revenue - principal - reserve]

\* mutated form: what the fee takes is not deducted from what is left
RepaymentFeeTwice(revenue, principalDue, feeDue, reserveDrawn) ==
  LET principal == Least(revenue, principalDue)
      fee       == Least(revenue - principal, feeDue)
      reserve   == Least(revenue - principal, reserveDrawn)
  IN  [principal |-> principal,
       fee       |-> fee,
       reserve   |-> reserve,
       owner     |-> revenue - principal - reserve]

\* principal, then fee, then the drawn reserve, then the owner
RepaymentWaterfall(revenue, principalDue, feeDue, reserveDrawn) ==
  LET principal == Least(revenue, principalDue)
      fee       == Least(revenue - principal, feeDue)
      reserve   == Least(revenue - principal - fee, reserveDrawn)
  IN  [principal |-> principal,
       fee       |-> fee,
       reserve   |-> reserve,
       owner     |-> revenue - principal - fee - reserve]

\* mutated form: the reserve covers the whole shortfall
RecoveryUncappedReserve(owed, unspent, revenueReceived, reserveAvailable, reserveCap) ==
  LET swept   == Least(owed, unspent)
      revenue == Least(owed - swept, revenueReceived)
  IN  [swept   |-> swept,
       revenue |-> revenue,
       reserve |-> owed - swept - revenue,
       loss    |-> 0]

\* mutated form: the loss is booked without drawing the reserve
RecoveryWithoutReserve(owed, unspent, revenueReceived, reserveAvailable, reserveCap) ==
  LET swept   == Least(owed, unspent)
      revenue == Least(owed - swept, revenueReceived)
  IN  [swept   |-> swept,
       revenue |-> revenue,
       reserve |-> 0,
       loss    |-> owed - swept - revenue]

\* unspent vault balance, then revenue, then the reserve up to its signed cap;
\* what is left is the simulated loss
RecoveryWaterfall(owed, unspent, revenueReceived, reserveAvailable, reserveCap) ==
  LET swept   == Least(owed, unspent)
      revenue == Least(owed - swept, revenueReceived)
      reserve == Least(owed - swept - revenue, Least(reserveAvailable, reserveCap))
  IN  [swept   |-> swept,
       revenue |-> revenue,
       reserve |-> reserve,
       loss    |-> owed - swept - revenue - reserve]
=============================================================================
