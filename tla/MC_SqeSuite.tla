---------------------------- MODULE MC_SqeSuite ----------------------------
(* Instantiates SqeSuite for TLC: two SQE cases from sqe_test.yaml shapes. *)
EXTENDS SqeSuite

\* A 'multi_stress' case with two detached result-file subcommands and the
\* memleak check, and an 'anr' case whose second subcommand is ANR-flagged.
MCCases ==
    <<[type |-> "multi_stress",
       subcmds |-> <<[is_anr |-> FALSE], [is_anr |-> FALSE]>>,
       check_memleak |-> TRUE],
      [type |-> "anr",
       subcmds |-> <<[is_anr |-> FALSE], [is_anr |-> TRUE]>>,
       check_memleak |-> FALSE]>>

\* '--run sqe', and '--sqe_tc [1,0,1,3]' (a repeat, a skipped 0, a number
\* above tc_num).
MCRequests == {ALL, <<1, 0, 1, 3>>}

\* '--sqe_tc [1,2,1]': case 1's detached jobs can outlive its call and
\* overlap case 2 and the second call of case 1.
MCOverlapRequests == {<<1, 2, 1>>}

\* '--sqe_tc [1,1]': the second call of case 1 overlaps the first one's jobs.
MCRepeatRequests == {<<1, 1>>}

\* A single case, run once ('--sqe_tc 1').
MCOneRequest == {<<1>>}

\* result/ret of a fresh checkout.
MCFreshDir == {[st |-> "absent", run |-> 0]}

=============================================================================
