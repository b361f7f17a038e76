# TLA+ models of the ENN test harness

This directory holds TLA+ models of the Python scripts of the ENN
repository, checked with TLC:
- the test harness in `src/test/script`: `enn_test.py` and the
  `test_module` package;
- the DSP layer-by-layer debugger `src/tools/dsp_debugger/dsp_debugger.py`;
- the build, test and coverage script `src/src/coverage.py`;
- the HIDL-to-header converter `src/tools/hal_converter/types_to_header.py`.

## The system

`enn_test.py main` builds two suites, `E2E_Test` and `SQE_Test`. It runs all
cases of one suite (`--run`) or a list of case numbers (`--sqe_tc`,
`--e2e_tc`). Cases can be shuffled. The process exits with the sum of the
suites' fail counts.

The parts and how they interact:

| part | source | role |
|---|---|---|
| command grammar | `parser.py` `cmd_frame`, `generate_command` | Turns a test vector into an `EnnTest_v2` command. Combines 1-3 commands into one of five shell topologies. |
| test case construction | `parser.py` `SQETestcase`, `ENNTestcase`, `parse_test_case` | Freezes commands and report file names from the yaml. |
| SQE suite | `sqe_test.py` | Runs each case as one combined command and validates each subcommand. Checks dma-buf leaks and the ENN service pid. |
| E2E suite | `e2e_test.py` | Runs each model of a case as its own command and validates its report. |
| oracle and channel | `test_func.py` `TestUtil`, `ADBManager` | Handles adb calls, result pulls, parsing, memleak snapshots and the pid check that reboots the device. |
| CLI | `enn_test.py` | Parses arguments, sets up the suites and computes the exit status. |
| DSP debugger | `tools/dsp_debugger/dsp_debugger.py` | Pushes a model and its data, then runs it on the device one layer at a time with the DSP in layer-by-layer mode, and diffs the DSP's intermediate dump against the reference dump. |
| coverage script | `src/coverage.py` | Builds the unit tests with cmake and make, runs ctest, and turns the gcov data into an lcov/genhtml report. |
| HAL converter | `tools/hal_converter/types_to_header.py` | Writes `types.hal.h` from `types.hal`, a header and a footer file, rewriting HIDL types to C++ with `str.replace`. |

The Python side runs in a single thread. Concurrency lives on the device:
- `multi_stress` and `stress_anr` start `( cmd &)` background jobs.
- The ENN service can crash and be restarted under a new pid.
- Result files live on the device (`/data/vendor/enn/results`) and in a
  local `result/ret` directory. The local directory survives from one call,
  and one invocation, to the next.

## Modules

- **`SqeCommand`** models the five `cmd_frame` topologies as data, abstracted
  from their text:
  - the arity that `SQETestcase.update_command` accepts (anything else becomes
    `'Not Supported'`);
  - the positions that are backgrounded;
  - the positions that run under `timeout`.
- **`SqeSuite`** models the SQE suite against a device.
  - **Orchestrator variables:** `pc` (the position in `run_test` /
    `_run_sqe_tc`), `queue`, `cur`, `runNo`, `vidx`, `testResult`, `out`
    (the local stdout capture), `memBefore`, `pidBefore` and `failCnt`.
  - **Device variables:** `jobs`, `devReport` and `localReport` (report
    files), `leaked` (dma buffers held by the service), `svc` (its pid, 0 when
    down) and `reachable` (FALSE after `reboot bootloader`).
  - **History variables** (`requested`, `verdicts`, `svcTouched`, `pulls`)
    are read only by properties.
  - **Orchestrator actions**, one per step of `_run_sqe_tc` in code order:
    - `RemoveResults`
    - `PrepareMemleak`
    - `GetPid`
    - `RunCommand` (the `adb shell` starts the jobs)
    - `CommandReturns` (`proc.wait()` returns)
    - `ValidateByStdout` / `ValidateByResultFile` (one per subcommand, with
      the `break` on failure)
    - `ValidateMemleak` (with `_update_fail_cnt`)
    - `ServicePidUnchanged` / `RebootOnPidChange`
  - **Around the cases:** `StartSuite` (`run_test(0)` or `run_test_list`,
    shuffle, skipping of `n <= 0`), `RejectTc` (`n > tc_num`), `RunTc` and
    `Finish`.
  - **Device actions:**
    - `JobFinish` ends a job with pass, fail or crash. It writes its report
      and may leak a buffer.
    - `ServiceCrash` and `ServiceRestart` take the service down and bring it
      back under a new pid.
  - `adb` calls on an unreachable device return `''`, which `run_adb_cmd`
    suppresses. `get_pid` and `_check_dmabuf_cnt` then read 0, and
    `_get_mem_info` reads `[]`.
  - Data is abstracted:
    - a report is `[st, run]`, its verdict and the call whose job wrote it;
    - the out file is `empty`, `clean` or `fail`;
    - a memory snapshot is the number of held buffers.
- **`SqeTestcase`** models `SQETestcase` construction.
  - `Init` picks a whole yaml case: a type, up to three subcommand models
    and a two-vector `test_vector` list.
  - `StartSubcmd`, `VectorMiss`, `VectorHit` and `VectorsExhausted` step the
    vector loop of `update_subcmd_list` one iteration at a time.
  - `AppendSubcmd` appends the subcommand, or raises `UnboundLocalError`
    when `test_cmd` was never assigned. The Python local `test_cmd` is a
    variable that survives iterations, as it does in the code.
  - `UpdateCommand` applies `CombineFrame`, which is the `if/elif` chain of
    `update_command`.
  - `generate_command` is abstracted to the vector, model and report file it
    encodes.
- **`E2eSuite`** models `E2E_Test`.
  - `RunTc` and `OrderModels` handle `command_dict`'s keys: one per distinct
    model, first-occurrence order, shuffled when `--shuffle`.
  - Each model run goes through `StartModel` (remove),
    `PrepareMemleak`, `RunCommand`, `CommandReturns`, `ValidateResult`
    (pull and parse) and `ValidateMemleak` (with `_update_fail_cnt`).
  - A model without a vector gets `'Not supported'`, which starts no job.
  - The device runs one foreground job, holds report files named
    `description_model`, and has a service that can crash and restart.
- **`EnnTestMain`** models `enn_test.py`.
  - `InitTest` covers the board set-up of both suites, `SetShuffle` the
    shuffle flags, `Dispatch` / `ChosenSuite` the `elif` chain of `main`,
    and `Exit` the `sys.exit` of the summed fail counts, modulo 256.
  - `RunSuite` abstracts a suite run to the fail count it leaves, since
    `SqeSuite` and `E2eSuite` model the runs.
  - `Init` picks every combination of options.
- **`DspDebugger`** models `run()` of the DSP debugger.
  - `a` is the argparse namespace as `run()` rewrites it. `Init` picks
    every command line over the options that change control flow. A
    `--max_layer` from the command line is a `str` (`type=str`), while a
    scenario's is an `int`. `Formats` says whether `'%d' %` accepts it.
  - `LoadFileToGet` reads the scenario yaml, which may be broken, and
    overwrites the materials and `max_layer`.
  - `StartPush`, `PushFile` and `PushDone` are `adb_push_files`. The local
    lists' indices are used on the target lists, so a longer local list
    raises `IndexError`.
  - `CheckValidity` is the `[ -f ]` checks. `SetBoundary` is `set_boundary`.
  - `TestLayer` / `TestOnce` / `LoopDone` form the layer loop, or the
    `--dbg_all` call. Each call is `ExecuteAndVerifyTest`.
    `MakeExecCommand` builds the six commands. `RunShell` folds the first k
    of them over the device record `dev` (SELinux mode,
    `vendor.enn.dsp.lbl`, `layer_range`, the dump pair). k < 6 means the adb
    call failed part-way. `CheckFileDifference` diffs, pulls and renames;
    `shutil.move` raises when nothing was pulled.
  - The binary under test may match, differ or write no dump. It dumps
    only in layer-by-layer mode. A dump is abstracted to the `layer_range`
    it was written under and whether the pair agrees.
  - History variables: `calls`, `ranTests` (the device state when the
    binary ran), `verdicts` and `lastCut`.
- **`DspLayerPlan`** is the abstract spec of what the debugger promises
  about the layers it tests. It is independent of adb and of the device.
  - `FixPlan`: setting the boundary fixes a plan. The plan is the layers
    `start .. finish` one at a time, or the whole range in one call.
  - `TestNext`: the plan's entries are tested in order, each once.
  - `Finish`: 'Test finished' comes only after the whole plan was tested.
  - `Stop`: the tool may stop at any point, and then tests nothing more.
  - `DspDebugger` instantiates it as `LayerPlan`. The refinement mapping
    sends `stage` to the phase (`AbsPhase`), and the calls `run()` will
    make once `set_boundary` returned to the plan (`AbsPlan`). The ranges
    `execute_and_verify_test` was called with become the tested entries.
    `RefinesLayerPlan` checks `LayerPlan!Spec`.
- **`CoverageScript`** models `coverage.py` run again and again on one
  working tree.
  - `build` and `output` are what `build_dir` and `output_dir` hold.
    `reportOf` is the build state an html report came from.
  - `Main` is `--clean`, or the "build only if `build_dir` is absent"
    decision. `BuildCtest` is `validate_build_paths` and `build_ctest`.
    `CaptureCoverageAll` is the output-dir guard, `lcov` and `genhtml`.
  - Each external tool may fail and raise, and that ends the invocation.
- **`HalConverter`** models `convert()` of `types_to_header.py`.
  - `input`, `header` and `footer` are the files read, each missing or
    present as `[exists, decodes, lines]`. `decodes` is FALSE for a file
    that `readlines()` cannot decode. `outDir` says whether the output's
    directory exists. `out` is `types.hal.h`, `pc` is the point reached in
    `convert()`, and `exitCode` is the process exit status.
  - A line is a sequence of tokens, and each pattern's text is made of
    whole tokens (`handle fd` is `handle` then ` fd`). So `str.replace` on
    the text is `Replace` on the tokens, and a pattern still matches inside
    a longer word, as in the code.
  - The `with` block is four actions in code order:
    - `Open`: `open(out_f, 'w')` comes first, so a missing footer, header
      or input leaves an empty output and `exit(2)`. A missing directory
      raises the same error before anything is written.
    - `WriteHeader`: the banner and the header.
    - `ConvertInput`: every line through `ConvertLine`, which applies the
      patterns one after the other.
    - `WriteFooter`: `"\r\n\r\n"` and the footer, then exit status 0.
  - Each file is read just before its part is written. A file that does
    not decode raises `UnicodeDecodeError` there. The `except` clause does
    not catch it, so the `with` closes the output holding what was written
    so far, and the traceback exits 1 (`Raise`, `ExitOnError`).
  - `MC_HalConverter` gives lines of up to three tokens over seven words,
    including `std::` and a word that is not a pattern.
- **`MC_SqeSuite`** gives the cases and requests:
  - a `multi_stress` case with two result-file subcommands and the memleak
    check;
  - an `anr` case whose second subcommand is ANR-flagged;
  - requests `ALL`, `[1,0,1,3]`, `[1,1]` and `[1]`.

## Runs

| run | expect | what it shows |
|---|---|---|
| `sqe_wait` | pass | See the bullets below. |
| `stale_local` | violation of `VerdictSound` | `--sqe_tc [1,1]`: the second run's job crashes without a report. `pull_file` fails silently, the first run's `result/ret` file is judged, and the case prints PASS. |
| `lingering_report` | violation of `DevicePullFresh` | When `adb shell` does not wait for `( cmd &)` jobs, the repeated case pulls the report written by the previous call's job. |
| `service_crash` | violation of `ServiceFailureRecovered` | The service crashes before the pid read and is still down at the check. `'' == ''` and there is no reboot. |

More runs:

| run | expect | what it shows |
|---|---|---|
| `e2e` | pass | The E2E suite runs each valid requested case and each distinct model once, in yaml order or shuffled (`RunsMatchRequest`). It only pulls the current model run's report (`DevicePullFresh`), does not fail a truly passing model run on a stable service (`VerdictComplete`), and finishes (`Termination`). |
| `sqe_testcase` | pass | Over every case of up to three subcommands: a subcommand whose model has a vector gets the first matching vector's command and report `sqe_<tc_id>_<k>` (`ResolvesToFirstVector`, checked against the reference `FirstVectorWith`). The `UnboundLocalError` of line 72 happens exactly when the first subcommand's model has no vector. A later unknown model is built silently (`RaisesOnlyOnFirstUnknown`). |
| `enn_main` | pass | Over every command line, `init_test` leaves each suite's `config_dir` a board name, and the exit status stays within 0..255 (`TypeOK`). The run mainly exercises every branch of `main`'s option chain. |
| `dsp` | pass | Every adb call may fail and every shell line may be cut short. Under that, each `EnnTest_v2_lib` run happens with `lbl = 1` and `layer_range` equal to its own call's layers (`TestRunsOnItsLayer`). A finished run called each layer of its boundary once, in order, and judged it (`LayersTested`). However `run()` ends, the DSP is left in debug mode only when the last line was cut (`DebugModeLeftOnlyAfterCut`). This includes a `return False`, the `TypeError` of a `str` `max_layer`, and `shutil.move`'s `FileNotFoundError`. The run refines the abstract layer plan (`RefinesLayerPlan`): at every step, the calls made so far are a prefix of the plan, and 'Test finished' comes only after the last entry. |
| `stale_dump` | violation of `SuccessOnOwnDump` | The dump files are never removed. A layer whose run writes no dump is printed SUCCESS on the dumps an earlier invocation left. |
| `selinux_left` | violation of `DeviceRestored` | Every run leaves the device permissive: the line undoes `lbl` and `layer_range` but never runs `setenforce 1`. |
| `stale_build` | violation of `ReportFromPassingTests` | ctest fails and raises, leaving `build_dir`. The next invocation skips the build and publishes the coverage of the failed test run. |
| `hal` | pass | Over every input of up to two lines: a finished conversion equals a reference one-pass substitution of the patterns (`OutputIsReference`). This shows that the order of `pattern` does not matter, since no replacement creates a later pattern, and that every occurrence on a line is replaced. Once the script ends, its exit status is 0 exactly when `types.hal.h` holds the whole conversion (`ExitStatusTellsOutcome`). This covers each early stop: no output directory, a missing file after the truncation, and an undecodable header, input or footer after part of the output was written. The property does not claim the earlier `types.hal.h` survives a failure. It does not: the code truncates it first. |

Some bugs found in earlier work are listed as hazards in `PROJECT.json`
without a run of their own, because each shows in one step of the model:
- `--board` is ignored for SQE (`init_test` line 51, `InitTest`);
- 256 failures exit 0 (`Exit`);
- E2E counts a failure per model (`UpdateFailCnt`);
- a case without subcommands passes;
- a subcommand whose model has no vector silently gets the previous
  subcommand's command (`parser.py` line 72). `RaisesOnlyOnFirstUnknown` in
  `sqe_testcase` pins this behaviour down.

The first model of a case without a vector makes `SqeTestcase` reach
`phase = "error"`. This is the `UnboundLocalError` that aborts the suite
load. It is listed as a hazard rather than spent on a run.

The `sqe_wait` run uses `adb shell` waiting for the background jobs. Every
job may crash, fail or leak, and the service may crash and restart once.
Under these conditions:
- the cases run are exactly the valid requested ones (`RunsMatchRequest`);
- `fail_cnt` counts failed cases, not failed oracles
  (`FailCntMatchesVerdicts`);
- every pulled report is from the current call (`DevicePullFresh`);
- a case that truly passed while the service kept its identity is not failed
  (`VerdictComplete`);
- the suite ends (`Termination`).

Each of these properties is broken by a mutant of the code listed in
`PROJECT.json`. The mutants are:
- off-by-one range checks;
- skipping `remove_result_form_device`;
- not resetting `test_result`;
- a validation loop that does not advance;
- a fail count per oracle.

`VerdictSound` is not in `sqe_wait`, because it fails there for the
`stale_local` reason.

Bounds:
- two cases, one of each shape with subcommands (`anr` covers the stdout
  oracle, `multi_stress` the result-file oracle, the memleak check and the
  background jobs);
- requests with a repeat, a skipped 0 and an out-of-range number;
- one leak;
- one crash and two pids, so the service can change identity once.

Every finding needs only one repeated case or one crash, so larger bounds add
states without adding cases.

Bounds of the other runs:
- `e2e` uses a case listing `m1, m2, m1`. This exercises the dict's
  deduplication and shuffling of two models. A second case has the same
  description, a model without a vector, and `m2`. So both cases write
  the report `basic_m2` (`e2e_test.py:77`).
- `sqe_testcase` enumerates all 3840 yaml cases over three models, two
  vectors, up to three subcommands and six types. Every branch of the chain,
  the `break`, and the stale and unbound `test_cmd` are all reached.
- `enn_main` enumerates all 640 command lines over its option values.
- `dsp` scales the default finish layer (108) down to 2 and gives a
  scenario `max_layer` of 1. That allows three one-layer calls, a range past
  `max_layer`, and `-1` boundaries. Target lists hold one file and local
  lists up to two, so a longer local list overruns. The device starts with
  or without an earlier run's materials and dumps. All six cut points of a
  shell line are explored. Properties that relate consecutive calls need
  two layers, and the loop reaches three.
- `stale_build` allows three invocations: a failing one, a rerun, and
  room for a `--clean`.
- `hal` enumerates every input file that is empty, one line, or the package
  line and one line. A line has up to three tokens over
  `handle`, ` fd`, ` hd`, `string`, `vec<`, `std::` and ` x`. This covers
  two patterns on one line, the same pattern twice, `handle` without a
  name, and an already-qualified `std::string`. Each of the three files may
  be missing or undecodable, the output directory may be missing, and an
  earlier output may exist. So every exit point of `convert()` is reached. A line never holds the
  package text in its middle, since HIDL puts it on its own first line.

Fairness is weak fairness of the orchestrator, since the Python thread always
takes its next step. Each running job also eventually ends under weak
fairness. This holds for the ANR ones because they run under `timeout`. For
the others it is an assumption on the binary, because `proc.wait()` has no
timeout. Service crashes are not fair, since they need not happen.

`CHECK_DEADLOCK FALSE` is set because the process really stops at
`finished`. `Termination` checks that it gets there. `DspDebugger` and
`CoverageScript` and `HalConverter` are straight-line scripts with bounded loops and assume no
fairness. Their processes stop in `done`, `failed` or `crashed`, or after
the last invocation.

## Not modelled yet, and the plan

Done:
1. `SqeSuite`
2. `SqeTestcase`
3. `E2eSuite`
4. `EnnTestMain`
5. `DspDebugger`
6. `CoverageScript`
7. `DspLayerPlan`, refined by `DspDebugger`.
8. `HalConverter`.

Still to do:
9. An abstract suite-run spec that `SqeSuite` refines under the fixes the
   findings suggest.
10. `make_list_from_str` and the duplicate-`tc_id` report collision of
   `SqeTestcase` across cases.

Not modelled:
- `print_util` and `list_test`, which only format output;
- `testsuite.py`, which is abstract;
- `cpu_op_test.py`, an I/O script;
- in `types_to_header.py`, `--output` naming the input file itself. It
  truncates the input before the read, so the result is an empty body.
  This is listed as a hazard. The model keeps the files apart.
- `dsp_debugger/print_util.py`, which only colours console output.
