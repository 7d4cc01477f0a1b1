--------------------------- MODULE MCGraphBuffer ---------------------------
(* A name that a header and a source both define, with different labels, and another that   *)
(* calls it; the database knows both.                                                       *)
EXTENDS GraphBuffer

MCDatabases ==
  {[rows |-> <<<<"x", "Class", "h">>, <<"y", "Function", "c">>>>, edges |-> {<<2, "CALLS", 1>>}]}

MCDefinitions ==
  {<<"x", "Class", "h">>, <<"x", "Function", "c">>, <<"y", "Function", "c">>}
MCUsages == {<<"y", "CALLS", "x">>}
=============================================================================
