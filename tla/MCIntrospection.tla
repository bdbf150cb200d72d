-------------------------- MODULE MCIntrospection ---------------------------
(* Small instances of Introspection for TLC.                                  *)
EXTENDS Introspection

\* Paths of one, two and three names; "/a" and "/ab" share a beginning that is not a
\* common node, "/a/b" and "/a/c" one that is.
MCPaths ==
  { Root,
    <<Slash, "a">>, <<Slash, "a", "b">>, <<Slash, "b">>,
    <<Slash, "a", Slash, "b">>, <<Slash, "a", Slash, "c">>,
    <<Slash, "a", "b", Slash, "c">>,
    <<Slash, "a", Slash, "b", Slash, "a", "c">> }

MCMethods ==
  { [name |-> "m", in |-> <<"u">>, out |-> <<"i">>, tuple |-> TRUE,
     in_names |-> <<>>, out_names |-> <<>>],
    [name |-> "m", in |-> <<"s", "u">>, out |-> <<"u">>, tuple |-> FALSE,
     in_names |-> <<"x">>, out_names |-> <<>>] }
=============================================================================
