----------------------------- MODULE MCProgram -----------------------------
(***************************************************************************)
(* One pod with one union and one view of it.                              *)
(***************************************************************************)
EXTENDS Program

CONSTANTS u1, v1

MCUnions     == {u1}
MCViews      == {v1}
MCSharedFrom == [v \in MCViews |-> u1]

=============================================================================
