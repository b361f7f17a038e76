----------------------------- MODULE SqeCommand -----------------------------
(***************************************************************************)
(* The command frames of test_module/parser.py (cmd_frame) and the arity  *)
(* check of SQETestcase.update_command, abstracted from their text to     *)
(* what the suite's behaviour depends on: which frames exist, how many    *)
(* subcommands each takes, which positions run as detached background     *)
(* jobs '( ... &)' and which run under 'timeout'.                         *)
(***************************************************************************)

\* The keys of cmd_frame.
Topologies == {"run", "open_close", "multi_stress", "anr", "stress_anr"}

\* The number of subcommands each frame is formatted with in update_command
\* ({cmd}, {cmd1}..{cmd3}); any other count falls to 'Not Supported'.
FrameArity ==
    [run |-> 1, open_close |-> 1, multi_stress |-> 2, anr |-> 2, stress_anr |-> 3]

\* update_command: the case gets a real command only when its type is a
\* frame and the number of subcommands matches that frame.
Supported(type, n) == type \in Topologies /\ FrameArity[type] = n

\* Positions launched as '({cmdK} &)': the shell does not wait for them.
Backgrounded ==
    [run |-> {}, open_close |-> {}, multi_stress |-> {1, 2},
     anr |-> {}, stress_anr |-> {1, 2}]

\* Positions looped under 'timeout 5s' / 'timeout 9s': bounded on the device.
TimeoutWrapped ==
    [run |-> {}, open_close |-> {}, multi_stress |-> {},
     anr |-> {2}, stress_anr |-> {3}]

=============================================================================
