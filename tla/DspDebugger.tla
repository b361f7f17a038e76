----------------------------- MODULE DspDebugger -----------------------------
(***************************************************************************)
(* tools/dsp_debugger/dsp_debugger.py: run() loads an optional scenario    *)
(* yaml, pushes the materials, checks they are on the device, sets the     *)
(* layer boundary, and then runs execute_and_verify_test once per layer   *)
(* (or once for the whole range with --dbg_all).  Each iteration is one    *)
(* 'adb shell' line of six ';'-separated commands, which switches the      *)
(* DSP into layer-by-layer mode, runs EnnTest_v2_lib and switches back,    *)
(* followed by a diff of the two dump files on the device and, when they  *)
(* differ, a pull and a local rename.                                      *)
(*                                                                         *)
(* Every adb call may fail (the device drops off the bus); a shell line    *)
(* cut after k commands leaves the device with the first k applied.  The   *)
(* binary under test may match, differ or write no dump at all.           *)
(***************************************************************************)
EXTENDS Integers, Sequences, FiniteSets, SequencesExt

CONSTANTS
    DefaultFinish,  \* the --finish / --max_layer default (108 in main)
    MaxLayers,      \* max_layer values a scenario yaml may give
    MaxFiles,       \* longest input / golden list
    AdbMayFail      \* whether an adb call may fail

ASSUME DefaultFinish \in Nat /\ MaxLayers \subseteq Nat /\ MaxFiles \in Nat
ASSUME AdbMayFail \in BOOLEAN

VARIABLES
    stage,      \* where run() is
    a,          \* the argparse namespace, as run() rewrites it
    pushQueue,  \* target names of the adb pushes still to do
    idx,        \* the layer loop index
    dev,        \* device: selinux, vendor.enn.dsp.lbl, layer_range, dumps
    files,      \* target file names present on the device
    saved,      \* local dsp_intermediate_dump_<s>-<f>.bin files: <<layer, dump>>
    \* history, read only by the properties
    calls,      \* the <<start, finish>> of every execute_and_verify_test
    ranTests,   \* device state each time EnnTest_v2_lib ran
    verdicts,   \* per call: [layer, result, compared]
    lastCut     \* the last shell line was cut short

dspVars == <<stage, a, pushQueue, idx, dev, files, saved, calls, ranTests,
             verdicts, lastCut>>

-----------------------------------------------------------------------------
\* A max_layer value: an int from a yaml scenario, or the str that
\* '--max_layer' (type=str, default '108') gives.
IntLayer(n) == [kind |-> "int", n |-> n]
StrLayer(n) == [kind |-> "str", n |-> n]
Formats(v) == v.kind = "int"   \* '%d' % v does not raise TypeError

\* The two dump files /data/vendor/enn/{ref_,}dsp_intermediate.bin, written
\* together: the layer_range they were dumped under, and whether they agree.
\* Dump origins that are not a layer_range the tool wrote.
NoneFrom == <<-3, -3>>      \* no dump files on the device
OldFrom == <<-2, -2>>       \* files an earlier invocation left
DefaultRange == <<-4, -4>>  \* layer_range before the tool touched it
NoDump == [from |-> NoneFrom, same |-> FALSE]
OldDump(b) == [from |-> OldFrom, same |-> b]
Dumps == {NoDump, OldDump(TRUE), OldDump(FALSE)}
         \cup [from : (-1..DefaultFinish) \X (-1..DefaultFinish), same : BOOLEAN]
Outcomes == {"match", "differ", "nodump"}

TargetNames(nIn, nGold) ==
    {<<"in", k>> : k \in 0..nIn - 1} \cup {<<"gold", k>> : k \in 0..nGold - 1}
ModelName == <<"model", 0>>
NoTarget == <<"none", 0>>   \* an index past the end of a target list
AllNames == TargetNames(MaxFiles, MaxFiles) \cup {ModelName}

\* The command line: main's argparse defaults, and the values given.
CliArgs ==
    [scenario : BOOLEAN, model_file : BOOLEAN,
     n_input : 0..1, n_golden : 0..1, local_model_file : {FALSE},
     max_layer : {StrLayer(DefaultFinish)},
     start : {-1, 0}, finish : {-1, DefaultFinish},
     dbg_all : BOOLEAN, push : BOOLEAN, test_one_by_one : {TRUE},
     local_input : {0}, local_golden : {0}]

\* What a scenario yaml gives; ok = FALSE when a key is missing or the file
\* is absent.  Nothing ties the local lists' lengths to the target lists'.
Yaml ==
    [ok : BOOLEAN, local_model_file : BOOLEAN, max_layer : MaxLayers,
     n_input : 1..MaxFiles, n_golden : 1..MaxFiles,
     local_input : 0..MaxFiles + 1, local_golden : 0..MaxFiles + 1]

\* The results of one adb call.
AdbResults == IF AdbMayFail THEN BOOLEAN ELSE {TRUE}

Terminal == {"done", "failed", "crashed"}

-----------------------------------------------------------------------------
Init ==
    /\ a \in CliArgs
    /\ stage = IF a.scenario THEN "load" ELSE "push"
    /\ pushQueue = <<>>
    /\ idx = 0
    /\ \E d \in {NoDump, OldDump(TRUE), OldDump(FALSE)} :
         dev = [selinux |-> 1, lbl |-> 0, range |-> DefaultRange, dumps |-> d]
    /\ files \in {{}, AllNames}   \* a fresh device, or one an earlier run left
    /\ saved = {}
    /\ calls = <<>>
    /\ ranTests = <<>>
    /\ verdicts = <<>>
    /\ lastCut = FALSE

\* run(): 'if args.scenario': load_file_to_get overwrites the materials and
\* max_layer; any exception ends run() with False.
LoadFileToGet ==
    /\ stage = "load"
    /\ \E y \in Yaml :
         IF y.ok
         THEN /\ a' = [a EXCEPT !.model_file = TRUE,
                                !.local_model_file = y.local_model_file,
                                !.max_layer = IntLayer(y.max_layer),
                                !.n_input = y.n_input, !.n_golden = y.n_golden,
                                !.local_input = y.local_input,
                                !.local_golden = y.local_golden]
              /\ stage' = "push"
         ELSE /\ stage' = "failed"
              /\ UNCHANGED a
    /\ UNCHANGED <<pushQueue, idx, dev, files, saved, calls, ranTests,
                   verdicts, lastCut>>

\* adb_push_files: refused unless a local model and both lists are given;
\* otherwise the model, then local_input[i] to input[i], then local_golden[i]
\* to golden[i].  A target name missing from a shorter target list is
\* NoTarget: input[idx] raises IndexError there.
PushSteps ==
    <<ModelName>>
    \o [i \in 1..a.local_input |->
          IF i <= a.n_input THEN <<"in", i - 1>> ELSE NoTarget]
    \o [i \in 1..a.local_golden |->
          IF i <= a.n_golden THEN <<"gold", i - 1>> ELSE NoTarget]

StartPush ==
    /\ stage = "push"
    /\ IF ~a.push
       THEN stage' = "valid" /\ UNCHANGED pushQueue
       ELSE IF ~a.local_model_file \/ a.n_input = 0 \/ a.n_golden = 0
       THEN stage' = "failed" /\ UNCHANGED pushQueue
       ELSE stage' = "pushing" /\ pushQueue' = PushSteps
    /\ UNCHANGED <<a, idx, dev, files, saved, calls, ranTests, verdicts,
                   lastCut>>

\* Mutant: a push past the end of a target list is not an error.
PushFileNoIndexError ==
    /\ stage = "pushing"
    /\ pushQueue # <<>>
    /\ \E ok \in AdbResults :
         IF ok THEN /\ files' = files \cup {Head(pushQueue)}
                    /\ pushQueue' = Tail(pushQueue)
                    /\ UNCHANGED stage
               ELSE stage' = "failed" /\ UNCHANGED <<files, pushQueue>>
    /\ UNCHANGED <<a, idx, dev, saved, calls, ranTests, verdicts, lastCut>>

\* One 'adb push': a failed push ends run() with False.
PushFile ==
    /\ stage = "pushing"
    /\ pushQueue # <<>>
    /\ LET t == Head(pushQueue) IN
         IF t = NoTarget
         THEN stage' = "crashed" /\ UNCHANGED <<files, pushQueue>>
         ELSE \E ok \in AdbResults :
                IF ok THEN /\ files' = files \cup {t}
                           /\ pushQueue' = Tail(pushQueue)
                           /\ UNCHANGED stage
                      ELSE stage' = "failed" /\ UNCHANGED <<files, pushQueue>>
    /\ UNCHANGED <<a, idx, dev, saved, calls, ranTests, verdicts, lastCut>>

PushDone ==
    /\ stage = "pushing"
    /\ pushQueue = <<>>
    /\ stage' = "valid"
    /\ UNCHANGED <<a, pushQueue, idx, dev, files, saved, calls, ranTests,
                   verdicts, lastCut>>

\* check_validity: an empty input list fails; so does the first of the
\* inputs, goldens and model file that '[ -f .. ]' does not find (an
\* empty --model_file never is).
CheckValidity ==
    /\ stage = "valid"
    /\ \E ok \in AdbResults :
         stage' = IF /\ a.n_input > 0
                     /\ a.model_file
                     /\ TargetNames(a.n_input, a.n_golden) \cup {ModelName}
                          \subseteq files
                     /\ ok
                  THEN "boundary" ELSE "failed"
    /\ UNCHANGED <<a, pushQueue, idx, dev, files, saved, calls, ranTests,
                   verdicts, lastCut>>

\* set_boundary: --dbg_all runs the range in one call; start = finish = -1
\* means 0 .. max_layer, and its '%d' message raises TypeError for a str.
SetBoundary ==
    /\ stage = "boundary"
    /\ IF a.dbg_all
       THEN /\ a' = [a EXCEPT !.test_one_by_one = FALSE]
            /\ stage' = "loop"
       ELSE IF a.start = -1 /\ a.finish = -1
       THEN /\ a' = [a EXCEPT !.start = 0, !.finish = a.max_layer.n]
            /\ stage' = IF Formats(a.max_layer) THEN "loop" ELSE "crashed"
       ELSE /\ stage' = "loop" /\ UNCHANGED a
    /\ idx' = a'.start
    /\ UNCHANGED <<pushQueue, dev, files, saved, calls, ranTests, verdicts,
                   lastCut>>

-----------------------------------------------------------------------------
\* Mutant: the full layer_range is restored before the test runs.
MakeExecCommandRestoreFirst(s, f, m) ==
    << [op |-> "setenforce", val |-> 0],
       [op |-> "setprop", val |-> 1],
       [op |-> "range", val |-> <<s, f>>],
       [op |-> "range", val |-> <<0, m>>],
       [op |-> "test", val |-> 0],
       [op |-> "setprop", val |-> 0] >>

\* Mutant: the last command is set_debug_mode(True) again.
MakeExecCommandLblOn(s, f, m) ==
    << [op |-> "setenforce", val |-> 0],
       [op |-> "setprop", val |-> 1],
       [op |-> "range", val |-> <<s, f>>],
       [op |-> "test", val |-> 0],
       [op |-> "range", val |-> <<0, m>>],
       [op |-> "setprop", val |-> 1] >>

\* make_exec_command: the six commands joined by ';' into one shell line;
\* '%d' % max_layer raises TypeError when it is a str.
MakeExecCommand(s, f, m) ==
    << [op |-> "setenforce", val |-> 0],
       [op |-> "setprop", val |-> 1],
       [op |-> "range", val |-> <<s, f>>],
       [op |-> "test", val |-> 0],
       [op |-> "range", val |-> <<0, m>>],
       [op |-> "setprop", val |-> 0] >>

\* One command on the device.  EnnTest_v2_lib dumps the layers of
\* layer_range only in layer-by-layer mode (lbl = 1).
Exec(d, c, out) ==
    CASE c.op = "setenforce" -> [d EXCEPT !.selinux = c.val]
      [] c.op = "setprop"    -> [d EXCEPT !.lbl = c.val]
      [] c.op = "range"      -> [d EXCEPT !.range = c.val]
      [] c.op = "test"       ->
           IF out = "nodump" \/ d.lbl = 0 THEN d
           ELSE [d EXCEPT !.dumps = [from |-> d.range, same |-> out = "match"]]

\* The device after the first k commands of the line.
RunShell(d, cmds, k, out) ==
    FoldLeft(LAMBDA acc, c : Exec(acc, c, out), d, SubSeq(cmds, 1, k))

TestPos(cmds) == SelectInSeq(cmds, LAMBDA c : c.op = "test")

\* check_file_difference: 'adb shell diff ref cmp'; on a difference (or a
\* failed diff) both files are pulled and dsp_intermediate.bin is renamed
\* to dsp_intermediate_dump_<s>-<f>.bin, and shutil.move raises
\* FileNotFoundError when the pull brought nothing.
CheckFileDifference(s, f, dumps, after) ==
    \E diffOk \in AdbResults, pullOk \in AdbResults :
      LET equal == diffOk /\ dumps.from # NoneFrom /\ dumps.same
          v == [layer |-> <<s, f>>, compared |-> dumps.from,
                result |-> IF equal THEN "SUCCESS" ELSE "FAILED"]
      IN /\ verdicts' = Append(verdicts, v)
         /\ IF equal \/ (pullOk /\ dumps.from # NoneFrom)
            THEN /\ saved' = IF equal THEN saved
                             ELSE saved \cup {<<<<s, f>>, dumps.from>>}
                 /\ stage' = after
            ELSE /\ stage' = "crashed"
                 /\ UNCHANGED saved

\* execute_and_verify_test(args, s, f, ..): one 'adb shell' line, cut after
\* k commands when the adb call fails (then FAILED, no diff), else the
\* diff.  'after' is the stage run() goes on with.
ExecuteAndVerifyTest(s, f, after) ==
    LET cmds == MakeExecCommand(s, f, a.max_layer.n)
        full == Len(cmds)
    IN /\ calls' = Append(calls, <<s, f>>)
       /\ IF ~Formats(a.max_layer)
          THEN /\ stage' = "crashed"
               /\ UNCHANGED <<dev, saved, ranTests, verdicts, lastCut>>
          ELSE \E k \in (IF AdbMayFail THEN 0..full ELSE {full}),
                  out \in Outcomes :
                 /\ dev' = RunShell(dev, cmds, k, out)
                 /\ ranTests' =
                      IF k >= TestPos(cmds)
                      THEN LET d == RunShell(dev, cmds, TestPos(cmds) - 1, out)
                           IN Append(ranTests, [layer |-> <<s, f>>,
                                                lbl |-> d.lbl, range |-> d.range])
                      ELSE ranTests
                 /\ lastCut' = (k < full)
                 /\ IF k < full
                    THEN /\ verdicts' = Append(verdicts,
                                          [layer |-> <<s, f>>, compared |-> NoneFrom,
                                           result |-> "ADB_FAILED"])
                         /\ stage' = after
                         /\ UNCHANGED saved
                    ELSE CheckFileDifference(s, f, dev'.dumps, after)

\* 'for idx in range(args.start, args.finish + 1)': one layer per call.
TestLayer ==
    /\ stage = "loop"
    /\ a.test_one_by_one
    /\ idx <= a.finish
    /\ ExecuteAndVerifyTest(idx, idx, "loop")
    /\ idx' = idx + 1
    /\ UNCHANGED <<a, pushQueue, files>>

\* '--dbg_all': one call for the whole range.
TestOnce ==
    /\ stage = "loop"
    /\ ~a.test_one_by_one
    /\ ExecuteAndVerifyTest(a.start, a.finish, "done")
    /\ UNCHANGED <<a, pushQueue, idx, files>>

\* Mutant: the loop stops at range(start, finish).
LoopDoneEarly ==
    /\ stage = "loop"
    /\ a.test_one_by_one
    /\ idx >= a.finish
    /\ stage' = "done"
    /\ UNCHANGED <<a, pushQueue, idx, dev, files, saved, calls, ranTests,
                   verdicts, lastCut>>

\* The loop is over: 'Test finished', return True.
LoopDone ==
    /\ stage = "loop"
    /\ a.test_one_by_one
    /\ idx > a.finish
    /\ stage' = "done"
    /\ UNCHANGED <<a, pushQueue, idx, dev, files, saved, calls, ranTests,
                   verdicts, lastCut>>

Host ==
    \/ LoadFileToGet \/ StartPush \/ PushFile \/ PushDone \/ CheckValidity
    \/ SetBoundary \/ TestLayer \/ TestOnce \/ LoopDone

Next == Host

Spec == Init /\ [][Next]_dspVars

-----------------------------------------------------------------------------
(* Properties.                                                             *)

Layers == -1..DefaultFinish \cup MaxLayers
Pairs == (Layers \cup {-4, -3, -2}) \X (Layers \cup {-4, -3, -2})

TypeOK ==
    /\ stage \in {"load", "push", "pushing", "valid", "boundary", "loop"}
                 \cup Terminal
    /\ idx \in Layers \cup {DefaultFinish + 1} \cup {m + 1 : m \in MaxLayers}
    /\ dev \in [selinux : {0, 1}, lbl : {0, 1}, range : Pairs,
                dumps : [from : Pairs, same : BOOLEAN]]
    /\ files \subseteq AllNames
    /\ saved \subseteq Pairs \X Pairs
    /\ lastCut \in BOOLEAN

\* The EnnTest_v2_lib run of every call happened in layer-by-layer mode with
\* layer_range set to exactly that call's layers, whatever an earlier cut
\* shell line left behind.
TestRunsOnItsLayer ==
    \A i \in 1..Len(ranTests) :
        ranTests[i].lbl = 1 /\ ranTests[i].range = ranTests[i].layer

\* The calls a finished run() made: start .. finish one layer at a time,
\* or the whole range once with --dbg_all, each judged once, in order.
ExpectedCalls ==
    IF a.test_one_by_one
    THEN [k \in 1..(a.finish - a.start + 1) |-> <<a.start + k - 1,
                                                  a.start + k - 1>>]
    ELSE <<<<a.start, a.finish>>>>

LayersTested ==
    stage = "done" =>
        /\ calls = ExpectedCalls
        /\ Len(verdicts) = Len(calls)
        /\ \A i \in 1..Len(calls) : verdicts[i].layer = calls[i]

\* However run() ends (it finishes, returns False, or raises: the TypeError
\* of '%d' % a str max_layer, or shutil.move's FileNotFoundError after a
\* failed pull), it leaves the DSP in layer-by-layer mode, or with a
\* layer_range other than the one it found or 0 .. max_layer, only when its
\* last shell line was cut short.
DebugModeLeftOnlyAfterCut ==
    stage \in Terminal
    /\ (dev.lbl = 1 \/ dev.range \notin {DefaultRange, <<0, a.max_layer.n>>})
    => lastCut

\* The layer plan the debugger promises (DspLayerPlan): the boundary fixes
\* the plan, and execute_and_verify_test is called on its entries in
\* order, each once.  'Test finished' is printed only when all were called.
\* Once run() returned False or raised, nothing more is tested.
AbsPhase ==
    CASE stage = "loop"                -> "testing"
      [] stage = "done"                -> "finished"
      [] stage \in {"failed", "crashed"} -> "stopped"
      [] OTHER                         -> "setup"

\* The plan exists from the moment set_boundary returned into the loop.
AbsPlan ==
    IF stage \in {"loop", "done"} \/ calls # <<>> THEN ExpectedCalls ELSE <<>>

LayerPlan == INSTANCE DspLayerPlan
    WITH Layers <- Layers, phase <- AbsPhase, plan <- AbsPlan, tested <- calls

RefinesLayerPlan == LayerPlan!Spec

\* The spec of the check: a layer reported SUCCESS was judged on the dumps
\* its own EnnTest_v2_lib run wrote.
SuccessOnOwnDump ==
    \A i \in 1..Len(verdicts) :
        verdicts[i].result = "SUCCESS" => verdicts[i].compared = verdicts[i].layer

\* The restoring half of the shell line is meant to hand the device back as
\* it was found: when run() finishes and no line was cut, SELinux is
\* enforcing again and layer-by-layer mode is off.
DeviceRestored ==
    stage = "done" /\ ~lastCut => dev.selinux = 1 /\ dev.lbl = 0

====
