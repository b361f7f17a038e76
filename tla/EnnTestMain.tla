----------------------------- MODULE EnnTestMain -----------------------------
(***************************************************************************)
(* enn_test.py: init_test builds both suites and points them at their     *)
(* board directory, main sets the shuffle flags, takes the first branch   *)
(* of its option chain, and exits with the sum of the suites' fail        *)
(* counts.  A suite run is abstracted to the fail count it leaves, any    *)
(* number up to FailBound (SqeSuite and E2eSuite model the runs).         *)
(***************************************************************************)
EXTENDS Integers, FiniteSets

CONSTANTS
    Boards,        \* values of --board; "" when it is not given
    DefaultBoard,  \* config_dir set in the suites' __init__
    Names,         \* values --show / --run may give, besides ""
    FailBound      \* most failures one suite run can count

ASSUME "" \in Boards /\ DefaultBoard \notin Boards
ASSUME FailBound \in Nat

Suites == {"e2e", "sqe"}

VARIABLES
    args,       \* the parsed command line
    stage,      \* "init", "shuffle", "dispatch", "running", "exit", "done"
    configDir,  \* config_dir of each suite
    shuffle,    \* is_shuffle of each suite
    target,     \* the suite the chosen branch runs, or "none"
    ran,        \* suites whose cases were run
    failCnt,    \* fail_cnt of each suite
    exitStatus  \* the process exit status

mainVars == <<args, stage, configDir, shuffle, target, ran, failCnt,
              exitStatus>>

-----------------------------------------------------------------------------
Args ==
    [list_test : BOOLEAN, show : {""} \cup Names, run : {""} \cup Names,
     sqe_tc : BOOLEAN, e2e_tc : BOOLEAN, board : Boards, shuffle : BOOLEAN]

Init ==
    /\ args \in Args
    /\ stage = "init"
    /\ configDir = [s \in Suites |-> DefaultBoard]
    /\ shuffle = [s \in Suites |-> FALSE]
    /\ target = "none"
    /\ ran = {}
    /\ failCnt = [s \in Suites |-> 0]
    /\ exitStatus = 0

\* Mutant: set_config_file without its 'if board:' guard.
SetConfigFileUnguarded(dir, board) == board

\* set_config_file(board, ..): config_dir = board when one is given.
SetConfigFile(dir, board) == IF board # "" THEN board ELSE dir

\* init_test: e2e.set_config_file(board, ..), then, for the SQE suite,
\* e2e.set_config_file(board, None) once more.
InitTest ==
    /\ stage = "init"
    /\ configDir' = [configDir EXCEPT
                       !["e2e"] = SetConfigFile(SetConfigFile(@, args.board),
                                                args.board)]
    /\ stage' = "shuffle"
    /\ UNCHANGED <<args, shuffle, target, ran, failCnt, exitStatus>>

\* if args.shuffle: set_shuffle_test on every suite.
SetShuffle ==
    /\ stage = "shuffle"
    /\ shuffle' = [s \in Suites |-> args.shuffle]
    /\ stage' = "dispatch"
    /\ UNCHANGED <<args, configDir, target, ran, failCnt, exitStatus>>

\* The option chain of main: list_test, show, run, sqe_tc, e2e_tc.
ChosenSuite ==
    CASE args.list_test        -> "none"
      [] args.show # ""        -> "none"
      [] args.run \in Suites   -> args.run
      [] args.run # ""         -> "none"
      [] args.sqe_tc           -> "sqe"
      [] args.e2e_tc           -> "e2e"
      [] OTHER                 -> "none"

Dispatch ==
    /\ stage = "dispatch"
    /\ target' = ChosenSuite
    /\ stage' = IF ChosenSuite = "none" THEN "exit" ELSE "running"
    /\ UNCHANGED <<args, configDir, shuffle, ran, failCnt, exitStatus>>

\* run_test(0) or run_test_list(..) of the chosen suite.
RunSuite ==
    /\ stage = "running"
    /\ ran' = ran \cup {target}
    /\ \E n \in 0..FailBound : failCnt' = [failCnt EXCEPT ![target] = n]
    /\ stage' = "exit"
    /\ UNCHANGED <<args, configDir, shuffle, target, exitStatus>>

\* sys.exit(ret): the status the shell sees is ret modulo 256.
Exit ==
    /\ stage = "exit"
    /\ exitStatus' = (failCnt["e2e"] + failCnt["sqe"]) % 256
    /\ stage' = "done"
    /\ UNCHANGED <<args, configDir, shuffle, target, ran, failCnt>>

Next == InitTest \/ SetShuffle \/ Dispatch \/ RunSuite \/ Exit

Spec == Init /\ [][Next]_mainVars

-----------------------------------------------------------------------------
(* Properties.                                                             *)

TypeOK ==
    /\ args \in Args
    /\ stage \in {"init", "shuffle", "dispatch", "running", "exit", "done"}
    /\ configDir \in [Suites -> (Boards \ {""}) \cup {DefaultBoard}]
    /\ shuffle \in [Suites -> BOOLEAN]
    /\ target \in Suites \cup {"none"}
    /\ ran \subseteq Suites
    /\ failCnt \in [Suites -> 0..FailBound]
    /\ exitStatus \in 0..255

=============================================================================
