----------------------------- MODULE SqeTestcase -----------------------------
(***************************************************************************)
(* SQETestcase construction (test_module/parser.py): update_subcmd_list   *)
(* resolves each subcommand's model against the list of test vectors      *)
(* (the first vector holding the model wins), names its report file, and  *)
(* update_command combines the subcommands into the topology's frame or   *)
(* 'Not Supported'.  The yaml input (type, subcommand models, vectors) is  *)
(* chosen in Init; the loops are stepped one iteration at a time.         *)
(***************************************************************************)
EXTENDS Integers, Sequences, FiniteSets, FiniteSetsExt

CONSTANTS
    ModelNames,     \* model names a subcommand may give
    VectorUniverse, \* model names a test vector may hold
    NumVectors,     \* length of the test_vector list
    MaxSubcmds,     \* most subcommands a case lists
    CaseTypes,      \* 'type' values the yaml may give
    TcId,           \* the case's tc_id
    Unbound         \* model value: test_cmd not yet assigned

INSTANCE SqeCommand

ASSUME NumVectors \in Nat /\ MaxSubcmds \in Nat
ASSUME Topologies \subseteq CaseTypes

VARIABLES
    type,        \* self.type
    info,        \* self.subcmds_info: the model of each subcommand
    vectors,     \* vector_list: the models each vector dict holds
    phase,       \* "sub", "vec", "append", "done" or "error"
    i,           \* index into subcmds_info
    v,           \* index into vector_list
    reportFile,  \* report_file of the current subcommand
    testCmd,     \* the local test_cmd, which survives loop iterations
    subcmdList,  \* self.subcmd_list
    command      \* self.command

tcVars == <<type, info, vectors, phase, i, v, reportFile, testCmd,
            subcmdList, command>>

-----------------------------------------------------------------------------
\* generate_command: the command string, abstracted to what tells commands
\* apart: the vector it was built from, the model and the --report file.
GenerateCommand(vec, model, report) ==
    [vector |-> vec, model |-> model, report |-> report]

\* self.command before update_command (''), and the 'Not Supported'
\* placeholder, as commands without subcommands.
NoCommand == [frame |-> "", cmds |-> <<>>]
NotSupported == [frame |-> "Not Supported", cmds |-> <<>>]

\* report_file = 'sqe_' + tc_id + '_' + len(subcmd_list)
ReportFile(n) == <<TcId, n>>

\* The if/elif chain of update_command over (type, number of subcommands).
CombineFrame(t, subs) ==
    LET n == Len(subs)
        cmds == [k \in 1..n |-> subs[k].subcommand]
    IN CASE t = "run" /\ n = 1          -> [frame |-> t, cmds |-> cmds]
         [] t = "open_close" /\ n = 1   -> [frame |-> t, cmds |-> cmds]
         [] t = "multi_stress" /\ n = 2 -> [frame |-> t, cmds |-> cmds]
         [] t = "anr" /\ n = 2          -> [frame |-> t, cmds |-> cmds]
         [] t = "stress_anr" /\ n = 3   -> [frame |-> t, cmds |-> cmds]
         [] OTHER                       -> NotSupported

Inputs ==
    [type : CaseTypes,
     info : UNION {[1..n -> ModelNames] : n \in 0..MaxSubcmds},
     vectors : [1..NumVectors -> SUBSET VectorUniverse]]

Init ==
    /\ \E in \in Inputs :
         /\ type = in.type
         /\ info = in.info
         /\ vectors = in.vectors
    /\ phase = "sub"
    /\ i = 1
    /\ v = 1
    /\ reportFile = ReportFile(0)
    /\ testCmd = Unbound
    /\ subcmdList = <<>>
    /\ command = NoCommand

\* 'for subcmd in self.subcmds_info': name the report, start the vector loop.
StartSubcmd ==
    /\ phase = "sub"
    /\ i <= Len(info)
    /\ reportFile' = ReportFile(Len(subcmdList))
    /\ v' = 1
    /\ phase' = "vec"
    /\ UNCHANGED <<type, info, vectors, i, testCmd, subcmdList, command>>

\* A vector without the model: go on to the next one.
VectorMiss ==
    /\ phase = "vec"
    /\ v <= Len(vectors)
    /\ info[i] \notin vectors[v]
    /\ v' = v + 1
    /\ UNCHANGED <<type, info, vectors, phase, i, reportFile, testCmd,
                   subcmdList, command>>

\* Mutant: the loop does not break on the first vector holding the model.
VectorHitNoBreak ==
    /\ phase = "vec"
    /\ v <= Len(vectors)
    /\ info[i] \in vectors[v]
    /\ testCmd' = GenerateCommand(v, info[i], reportFile)
    /\ v' = v + 1
    /\ UNCHANGED <<type, info, vectors, phase, i, reportFile, subcmdList,
                   command>>

\* 'if subcmd['model'] in vector': build test_cmd, break.
VectorHit ==
    /\ phase = "vec"
    /\ v <= Len(vectors)
    /\ info[i] \in vectors[v]
    /\ testCmd' = GenerateCommand(v, info[i], reportFile)
    /\ phase' = "append"
    /\ UNCHANGED <<type, info, vectors, i, v, reportFile, subcmdList, command>>

\* The vector loop ran out without a match; test_cmd keeps its old value.
VectorsExhausted ==
    /\ phase = "vec"
    /\ v > Len(vectors)
    /\ phase' = "append"
    /\ UNCHANGED <<type, info, vectors, i, v, reportFile, testCmd,
                   subcmdList, command>>

\* Mutant: an unassigned test_cmd is stored instead of raising.
AppendSubcmdNoRaise ==
    /\ phase = "append"
    /\ subcmdList' = Append(subcmdList,
                            [subcommand |-> testCmd, report_file |-> reportFile])
    /\ i' = i + 1
    /\ phase' = "sub"
    /\ UNCHANGED <<type, info, vectors, v, reportFile, testCmd, command>>

\* subcmd_dict['subcommand'] = test_cmd: UnboundLocalError if it was never
\* assigned, otherwise the dict is appended.
AppendSubcmd ==
    /\ phase = "append"
    /\ IF testCmd = Unbound
       THEN /\ phase' = "error"
            /\ UNCHANGED <<i, subcmdList>>
       ELSE /\ subcmdList' = Append(subcmdList,
                                    [subcommand |-> testCmd,
                                     report_file |-> reportFile])
            /\ i' = i + 1
            /\ phase' = "sub"
    /\ UNCHANGED <<type, info, vectors, v, reportFile, testCmd, command>>

\* update_command after update_subcmd_list.
UpdateCommand ==
    /\ phase = "sub"
    /\ i > Len(info)
    /\ command' = CombineFrame(type, subcmdList)
    /\ phase' = "done"
    /\ UNCHANGED <<type, info, vectors, i, v, reportFile, testCmd, subcmdList>>

Next ==
    \/ StartSubcmd \/ VectorMiss \/ VectorHit \/ VectorsExhausted
    \/ AppendSubcmd \/ UpdateCommand

Spec == Init /\ [][Next]_tcVars

-----------------------------------------------------------------------------
(* Properties.                                                             *)

Cmds == [vector : 1..NumVectors, model : ModelNames,
         report : {TcId} \X (0..MaxSubcmds)]

TypeOK ==
    /\ phase \in {"sub", "vec", "append", "done", "error"}
    /\ i \in 1..MaxSubcmds + 1
    /\ v \in 1..NumVectors + 1
    /\ testCmd \in Cmds \cup {Unbound}
    /\ subcmdList \in Seq([subcommand : Cmds,
                           report_file : {TcId} \X (0..MaxSubcmds)])
    /\ command \in {NoCommand, NotSupported}
                   \cup [frame : Topologies, cmds : Seq(Cmds)]

\* The reference lookup: the first vector of the list holding the model.
Known(m) == \E j \in 1..Len(vectors) : m \in vectors[j]
FirstVectorWith(m) == Min({j \in 1..Len(vectors) : m \in vectors[j]})

\* Every subcommand whose model has a vector gets the command built from
\* the first such vector, with report file sqe_<tc_id>_<its index>.
ResolvesToFirstVector ==
    \A k \in 1..Len(subcmdList) :
        Known(info[k]) =>
          subcmdList[k] =
            [subcommand |-> GenerateCommand(FirstVectorWith(info[k]), info[k],
                                            ReportFile(k - 1)),
             report_file |-> ReportFile(k - 1)]

\* update_subcmd_list fails with UnboundLocalError exactly for a case whose
\* first subcommand's model is in no vector.  An unknown model further down
\* the list silently reuses the previous test_cmd, so that case is built,
\* and update_command runs, without an error.
RaisesOnlyOnFirstUnknown ==
    /\ phase = "error" => i = 1 /\ ~Known(info[1])
    /\ phase = "done" => Len(info) = 0 \/ Known(info[1])

=============================================================================
