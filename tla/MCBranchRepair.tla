--------------------------- MODULE MCBranchRepair ---------------------------
(***************************************************************************)
(* BranchRepair for TLC: one union of two branches.                        *)
(***************************************************************************)
EXTENDS BranchRepair

CONSTANTS u1, b1, b2

MCVolumes  == {u1}
MCBranches == {b1, b2}

=============================================================================
