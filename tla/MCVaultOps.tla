----------------------------- MODULE MCVaultOps -----------------------------
(***************************************************************************)
(* Small instances of VaultOps.  compute serves one purpose and image      *)
(* another; the limit of 40 carries a fee of 2 at five percent, so the     *)
(* revenues below end inside the principal, inside the fee and beyond it.  *)
(***************************************************************************)
EXTENDS VaultOps, TLC

CONSTANTS compute, image, k1, k2, k3, k4

MCVendorPurposes == (compute :> {"COMPUTE"}) @@ (image :> {"IMAGE"})

BothVendors == {{compute, image}}
OneVendor   == {{compute}}

KeySymmetry == Permutations(Keys)
=============================================================================
