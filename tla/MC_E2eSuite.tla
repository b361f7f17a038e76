---------------------------- MODULE MC_E2eSuite ----------------------------
(* Instantiates E2eSuite for TLC.                                         *)
EXTENDS E2eSuite

\* A case listing m1 twice and the memleak check, and a case with the same
\* description whose first model has no test vector ('Not supported') and
\* whose second shares the report name basic_m2 with the first case.
MCCases ==
    <<[description |-> "basic", model |-> <<"m1", "m2", "m1">>,
       check_memleak |-> TRUE],
      [description |-> "basic", model |-> <<"m3", "m2">>,
       check_memleak |-> FALSE]>>

MCModels == {"m1", "m2", "m3"}
MCVectorModels == {"m1", "m2"}

\* '--run e2e' and '--e2e_tc [1,0,1,3]'.
MCRequests == {ALL, <<1, 0, 1, 3>>}

=============================================================================
