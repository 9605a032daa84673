------------------------- MODULE MCCreditApplication -------------------------
(***************************************************************************)
(* Small instances of CreditApplication: one agent and two applications.   *)
(* The agent is a week old, so that after one reviewed credit its next     *)
(* request may be approved without a person; 60 of revenue covers a        *)
(* request of 40 one and a half times and advances 42.                     *)
(***************************************************************************)
EXTENDS CreditApplication, TLC

CONSTANTS a1, v1, v2, compute, k1

MCVendorPurposes == compute :> {"COMPUTE"}
MCAllowLists     == {{compute}}
MCAgeAtStart     == a1 :> 7
MCLimits         == 1 .. 60

VaultSymmetry == Permutations(Vaults)
=============================================================================
