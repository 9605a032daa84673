--------------------------- MODULE MCCreditClaims ---------------------------
(***************************************************************************)
(* What the repository says of credit and the code does not do.  Each      *)
(* claim has a configuration of its own, which refutes it.                 *)
(***************************************************************************)
EXTENDS MCCreditApplication

\* "Outstanding credit consumes the same cap as a new request."
\* (evaluation/cases.py:227): what an agent owes on its vaults stays within the
\* exposure its owner allows.  Two applications evaluated before either has its
\* vault each find the whole cap free.
OutstandingWithinCap ==
  \A v \in Vaults : Exists(v) =>
    Outstanding(vault[v].agent) <= application[v].exposure_cap

\* "Credit cannot be disbursed without a locked revenue mandate." (the
\* application page): the mandate of a financed task exists and is locked.  A
\* reviewer may approve an application without one, and a mandate signed after
\* the disbursement is never locked.
DisbursedUnderMandate ==
  \A v \in Vaults : Exists(v) => vault[v].task \in locked
=============================================================================
