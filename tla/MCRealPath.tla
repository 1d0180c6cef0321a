----------------------------- MODULE MCRealPath -----------------------------
(***************************************************************************)
(* RealPath for TLC.                                                       *)
(***************************************************************************)
EXTENDS RealPath

MCPolicies  == {[allowed |-> {<<"srv">>, <<"data">>}, denied |-> {<<"srv", "secret">>}]}
MCStarts    == {<<"srv", "x">>, <<"srv", "x", "y">>}
MCSlots     == {<<"srv", "x">>, <<"data", "y">>}
MCFixedDirs == {<<"srv", "secret">>, <<"data", "z">>, <<"data", "z", "w">>, <<"data", "q">>}

Absolute(names) == [absolute |-> TRUE, names |-> names]
Relative(names) == [absolute |-> FALSE, names |-> names]

MCTargets == {Absolute(<<"data">>), Absolute(<<"data", "y">>), Absolute(<<"etc">>),
              Absolute(<<"data", "z", "w">>), Relative(<<"secret">>), Absolute(<<"srv", "x">>),
              Relative(<<"..", "data", ".", "z">>),
              Relative(<<"..", "data", "y", "..", "..", "q">>)}

=============================================================================
