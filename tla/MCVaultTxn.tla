----------------------------- MODULE MCVaultTxn ------------------------------
(***************************************************************************)
(* Three requests that overlap, of any kinds, on two vaults of one agent:  *)
(* one vault with two proposals of which the limit allows one, and one     *)
(* that is still to be created.                                            *)
(***************************************************************************)
EXTENDS VaultTxn, TLC

CONSTANTS r1, r2, r3, v1, v2, p1, p2

MCRequests == {r1, r2, r3}
MCVaults == {v1, v2}
MCProposals == {p1, p2}
MCVaultOf == p1 :> v1 @@ p2 :> v1
MCAmount == p1 :> 1 @@ p2 :> 2
MCLimit == 2
MCFounded == {v1}
=============================================================================
