------------------------- MODULE MCMergerfsBackend -------------------------
(***************************************************************************)
(* The instance of MergerfsBackend for TLC: one pod that declares its      *)
(* union twice, so that the second volume is a view of the first.          *)
(***************************************************************************)
EXTENDS MergerfsBackend, TLC

CONSTANTS u1, v1, p1

OneUnions     == {u1}
OneViews      == {v1}
OneSharedFrom == v1 :> u1
OnePods       == {p1}
OnePodOf      == u1 :> p1 @@ v1 :> p1

=============================================================================
