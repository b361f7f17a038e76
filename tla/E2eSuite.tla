------------------------------ MODULE E2eSuite ------------------------------
(***************************************************************************)
(* E2E_Test (test_module/e2e_test.py) over ENNTestcase (parser.py) and    *)
(* TestUtil / ADBManager (test_func.py).                                  *)
(*                                                                         *)
(* Every case holds one command per model (command_dict); _run_e2e_tc     *)
(* runs them one after the other, in shuffled order when set_shuffle_test *)
(* was called, each through remove, memleak snapshot, the blocking adb    *)
(* shell call, validate_result and the memleak comparison, and counts a   *)
(* failure per model.  The device runs one foreground EnnTest job at a    *)
(* time; the ENN service may crash and be restarted, which frees the dma  *)
(* buffers it held.  There is no pid check in this suite.                 *)
(***************************************************************************)
EXTENDS Integers, Sequences, FiniteSets, SequencesExt

CONSTANTS
    Cases,          \* tc_list: 1..N -> [description, model, check_memleak]
    Models,         \* model names the yaml may mention
    VectorModels,   \* the models test_vector.yaml has a vector for
    Requests,       \* ALL (run_test(0)) or a list of case numbers
    ALL,
    MaxLeaks, MaxCrashes, MaxPid

ASSUME VectorModels \subseteq Models
ASSUME MaxLeaks \in Nat /\ MaxCrashes \in Nat /\ MaxPid \in Nat \ {0}

VARIABLES
    pc,           \* where the thread is in run_test / _run_e2e_tc
    queue,        \* case numbers still to run
    cur,          \* the case being run
    keys,         \* models of the case still to run
    model,        \* the model being run
    runNo,        \* model runs started so far
    testResult,   \* test_result of this model run
    memBefore,    \* memory_info of prepare_memleak_test
    failCnt,      \* self.fail_cnt
    job,          \* the EnnTest job of this model run, or NoJob
    devReport,    \* /data/vendor/enn/results/<report_file>
    localReport,  \* result/ret/<report_file>
    leaked, leaks, svc, nextPid, crashes,
    \* history, read only by the properties
    requested,    \* the cases asked for and the shuffle flag
    caseRuns,     \* per _run_e2e_tc call: <<case, models in the order run>>
    verdicts,     \* per model run: [tc, pass, truth, stable]
    svcTouched,   \* the service crashed or restarted during this model run
    pulls         \* <<run, run of the report>> for every successful pull

e2eVars == <<pc, queue, cur, keys, model, runNo, testResult, memBefore,
             failCnt, job, devReport, localReport, leaked, leaks, svc,
             nextPid, crashes, requested, caseRuns, verdicts, svcTouched,
             pulls>>

-----------------------------------------------------------------------------
NumCases == Len(Cases)

\* update_command_dict: command_dict is keyed by model, so a model listed
\* twice gets one entry, at the place of its first occurrence.
CommandKeys(c) ==
    FoldLeft(LAMBDA acc, m : IF Contains(acc, m) THEN acc ELSE Append(acc, m),
             <<>>, Cases[c].model)

\* report_file = description + '_' + model.
ReportName(c, m) == <<Cases[c].description, m>>
Names == {ReportName(c, m) : c \in 1..NumCases, m \in Models}

\* update_command_dict: a model without a vector gets 'Not supported'.
HasCommand(m) == m \in VectorModels

NoFile == [st |-> "absent", run |-> 0]
ReportVal == {NoFile} \cup [st : {"pass", "fail"}, run : Nat]
NoJob == [st |-> "none", run |-> 0, leak |-> FALSE]
NoSnapshot == [meminfo |-> -2, dma_cnt |-> -2]

Shuffles(s) ==
    {[i \in 1..Len(s) |-> s[p[i]]] : p \in Bijection(1..Len(s), 1..Len(s))}

\* print_test_result: PASS only when both results hold.
PrintedPass(testRes, memleakRes) == testRes /\ memleakRes

Held == leaked + (IF job.st = "running" THEN 1 ELSE 0)
Snapshot == [meminfo |-> Held, dma_cnt |-> IF svc # 0 THEN Held ELSE 0]

-----------------------------------------------------------------------------
Init ==
    /\ pc = "start"
    /\ queue = <<>>
    /\ cur = 1
    /\ keys = <<>>
    /\ model = CHOOSE m \in Models : TRUE
    /\ runNo = 0
    /\ testResult = TRUE
    /\ memBefore = NoSnapshot
    /\ failCnt = 0
    /\ job = NoJob
    /\ devReport = [n \in Names |-> NoFile]
    /\ localReport = [n \in Names |-> NoFile]
    /\ leaked = 0 /\ leaks = 0
    /\ svc = 1 /\ nextPid = 2 /\ crashes = 0
    /\ requested = [order |-> <<>>, shuffled |-> FALSE]
    /\ caseRuns = <<>>
    /\ verdicts = <<>>
    /\ svcTouched = FALSE
    /\ pulls = {}

\* main(): '--run e2e' (run_test(0)) or '--e2e_tc [..]' (run_test_list,
\* which shuffles the list and skips numbers <= 0).
StartSuite ==
    /\ pc = "start"
    /\ \E r \in Requests, shuffled \in BOOLEAN :
         LET base == IF r = ALL THEN [i \in 1..NumCases |-> i]
                     ELSE SelectSeq(r, LAMBDA i : i > 0)
         IN /\ queue' \in (IF shuffled THEN Shuffles(base) ELSE {base})
            /\ requested' = [order |-> base, shuffled |-> shuffled]
    /\ pc' = "next"
    /\ UNCHANGED <<cur, keys, model, runNo, testResult, memBefore, failCnt,
                   job, devReport, localReport, leaked, leaks, svc, nextPid,
                   crashes, caseRuns, verdicts, svcTouched, pulls>>

\* Mutant: tc_num itself is rejected.
RejectTcOffByOne ==
    /\ pc = "next"
    /\ queue # <<>>
    /\ Head(queue) >= NumCases
    /\ queue' = Tail(queue)
    /\ UNCHANGED <<pc, cur, keys, model, runNo, testResult, memBefore,
                   failCnt, job, devReport, localReport, leaked, leaks, svc,
                   nextPid, crashes, requested, caseRuns, verdicts,
                   svcTouched, pulls>>

\* run_test(tc) with tc > tc_num: reported, nothing run.
RejectTc ==
    /\ pc = "next"
    /\ queue # <<>>
    /\ Head(queue) > NumCases
    /\ queue' = Tail(queue)
    /\ UNCHANGED <<pc, cur, keys, model, runNo, testResult, memBefore,
                   failCnt, job, devReport, localReport, leaked, leaks, svc,
                   nextPid, crashes, requested, caseRuns, verdicts,
                   svcTouched, pulls>>

\* Mutant: tc_num + 1 gets past the range check.
RunTcOffByOne ==
    /\ pc = "next"
    /\ queue # <<>>
    /\ Head(queue) <= NumCases + 1
    /\ cur' = Head(queue)
    /\ queue' = Tail(queue)
    /\ caseRuns' = Append(caseRuns, <<Head(queue), <<>>>>)
    /\ pc' = "order"
    /\ UNCHANGED <<keys, model, runNo, testResult, memBefore, failCnt, job,
                   devReport, localReport, leaked, leaks, svc, nextPid,
                   crashes, requested, verdicts, svcTouched, pulls>>

\* run_test(tc) -> _run_e2e_tc(tc, tc_list[tc]).
RunTc ==
    /\ pc = "next"
    /\ queue # <<>>
    /\ Head(queue) <= NumCases
    /\ cur' = Head(queue)
    /\ queue' = Tail(queue)
    /\ caseRuns' = Append(caseRuns, <<Head(queue), <<>>>>)
    /\ pc' = "order"
    /\ UNCHANGED <<keys, model, runNo, testResult, memBefore, failCnt, job,
                   devReport, localReport, leaked, leaks, svc, nextPid,
                   crashes, requested, verdicts, svcTouched, pulls>>

\* keys = list(command_dict.keys()), shuffled when is_shuffle.
OrderModels ==
    /\ pc = "order"
    /\ keys' \in (IF requested.shuffled THEN Shuffles(CommandKeys(cur))
                  ELSE {CommandKeys(cur)})
    /\ pc' = "model"
    /\ UNCHANGED <<queue, cur, model, runNo, testResult, memBefore, failCnt,
                   job, devReport, localReport, leaked, leaks, svc, nextPid,
                   crashes, requested, caseRuns, verdicts, svcTouched, pulls>>

\* Mutant: the model's stale device result is not removed.
StartModelNoRemove ==
    /\ pc = "model"
    /\ keys # <<>>
    /\ model' = Head(keys)
    /\ keys' = Tail(keys)
    /\ runNo' = runNo + 1
    /\ svcTouched' = FALSE
    /\ caseRuns' = [caseRuns EXCEPT ![Len(caseRuns)][2] = Append(@, Head(keys))]
    /\ pc' = "prepare"
    /\ UNCHANGED <<queue, cur, testResult, memBefore, failCnt, job, devReport,
                   localReport, leaked, leaks, svc, nextPid, crashes,
                   requested, verdicts, pulls>>

\* The loop body starts: remove_result_form_device(report_file).
StartModel ==
    /\ pc = "model"
    /\ keys # <<>>
    /\ model' = Head(keys)
    /\ keys' = Tail(keys)
    /\ runNo' = runNo + 1
    /\ svcTouched' = FALSE
    /\ devReport' = [devReport EXCEPT ![ReportName(cur, Head(keys))] = NoFile]
    /\ caseRuns' = [caseRuns EXCEPT ![Len(caseRuns)][2] = Append(@, Head(keys))]
    /\ pc' = "prepare"
    /\ UNCHANGED <<queue, cur, testResult, memBefore, failCnt, job,
                   localReport, leaked, leaks, svc, nextPid, crashes,
                   requested, verdicts, pulls>>

\* All models of the case are done.
CaseDone ==
    /\ pc = "model"
    /\ keys = <<>>
    /\ pc' = "next"
    /\ UNCHANGED <<queue, cur, keys, model, runNo, testResult, memBefore,
                   failCnt, job, devReport, localReport, leaked, leaks, svc,
                   nextPid, crashes, requested, caseRuns, verdicts,
                   svcTouched, pulls>>

\* prepare_memleak_test.
PrepareMemleak ==
    /\ pc = "prepare"
    /\ memBefore' = IF Cases[cur].check_memleak THEN Snapshot ELSE NoSnapshot
    /\ pc' = "run"
    /\ UNCHANGED <<queue, cur, keys, model, runNo, testResult, failCnt, job,
                   devReport, localReport, leaked, leaks, svc, nextPid,
                   crashes, requested, caseRuns, verdicts, svcTouched, pulls>>

\* run_test_command: 'Not supported' is no program; anything else starts
\* the EnnTest job in the foreground.
RunCommand ==
    /\ pc = "run"
    /\ job' = IF HasCommand(model)
              THEN [st |-> "running", run |-> runNo, leak |-> FALSE]
              ELSE NoJob
    /\ pc' = "running"
    /\ UNCHANGED <<queue, cur, keys, model, runNo, testResult, memBefore,
                   failCnt, devReport, localReport, leaked, leaks, svc,
                   nextPid, crashes, requested, caseRuns, verdicts,
                   svcTouched, pulls>>

\* Mutant: the call is taken as finished only once the report exists.
CommandReturnsAwaitReport ==
    /\ pc = "running"
    /\ job.st # "running"
    /\ devReport[ReportName(cur, model)] # NoFile
    /\ pc' = "validate"
    /\ UNCHANGED <<queue, cur, keys, model, runNo, testResult, memBefore,
                   failCnt, job, devReport, localReport, leaked, leaks, svc,
                   nextPid, crashes, requested, caseRuns, verdicts,
                   svcTouched, pulls>>

\* proc.wait() returns once the foreground job has ended.
CommandReturns ==
    /\ pc = "running"
    /\ job.st # "running"
    /\ pc' = "validate"
    /\ UNCHANGED <<queue, cur, keys, model, runNo, testResult, memBefore,
                   failCnt, job, devReport, localReport, leaked, leaks, svc,
                   nextPid, crashes, requested, caseRuns, verdicts,
                   svcTouched, pulls>>

\* pull_file: a successful 'adb pull' overwrites result/ret/<report_file>.
PullFile(n) ==
    IF devReport[n] # NoFile THEN [localReport EXCEPT ![n] = devReport[n]]
    ELSE localReport

\* _is_test_pass_by_result_file with tc_cnt = 1.
ResultFilePasses(r) == r.st = "pass"

\* Mutant: the local file is judged as it was before the pull.
ValidateResultBeforePull ==
    /\ pc = "validate"
    /\ LET n == ReportName(cur, model) IN
       /\ localReport' = PullFile(n)
       /\ testResult' = ResultFilePasses(localReport[n])
       /\ pulls' = IF devReport[n] # NoFile
                   THEN pulls \cup {<<runNo, devReport[n].run>>} ELSE pulls
    /\ pc' = "memleak"
    /\ UNCHANGED <<queue, cur, keys, model, runNo, memBefore, failCnt, job,
                   devReport, leaked, leaks, svc, nextPid, crashes,
                   requested, caseRuns, verdicts, svcTouched>>

\* validate_result(ret_dir, report_file): pull, then judge the local file.
ValidateResult ==
    /\ pc = "validate"
    /\ LET n == ReportName(cur, model) IN
       /\ localReport' = PullFile(n)
       /\ testResult' = ResultFilePasses(localReport'[n])
       /\ pulls' = IF devReport[n] # NoFile
                   THEN pulls \cup {<<runNo, devReport[n].run>>} ELSE pulls
    /\ pc' = "memleak"
    /\ UNCHANGED <<queue, cur, keys, model, runNo, memBefore, failCnt, job,
                   devReport, leaked, leaks, svc, nextPid, crashes,
                   requested, caseRuns, verdicts, svcTouched>>

\* Ground truth of this model run: its job passed without a checked leak.
ModelTrulyPassed ==
    /\ job.run = runNo
    /\ job.st = "pass"
    /\ Cases[cur].check_memleak => ~job.leak

\* Mutant: a memleak failure is not counted.
UpdateFailCntTestOnly(testRes, memleakRes) ==
    IF testRes THEN failCnt ELSE failCnt + 1

\* _update_fail_cnt.
UpdateFailCnt(testRes, memleakRes) ==
    IF testRes /\ memleakRes THEN failCnt ELSE failCnt + 1

\* validate_memleak_test, _update_fail_cnt and print_test_result.
ValidateMemleak ==
    /\ pc = "memleak"
    /\ LET memleakResult == ~Cases[cur].check_memleak \/ Snapshot = memBefore
       IN /\ failCnt' = UpdateFailCnt(testResult, memleakResult)
          /\ verdicts' = Append(verdicts,
                            [tc |-> cur, call |-> Len(caseRuns),
                             pass |-> PrintedPass(testResult, memleakResult),
                             truth |-> ModelTrulyPassed,
                             stable |-> ~svcTouched])
    /\ pc' = "model"
    /\ UNCHANGED <<queue, cur, keys, model, runNo, testResult, memBefore, job,
                   devReport, localReport, leaked, leaks, svc, nextPid,
                   crashes, requested, caseRuns, svcTouched, pulls>>

Finish ==
    /\ pc = "next"
    /\ queue = <<>>
    /\ pc' = "finished"
    /\ UNCHANGED <<queue, cur, keys, model, runNo, testResult, memBefore,
                   failCnt, job, devReport, localReport, leaked, leaks, svc,
                   nextPid, crashes, requested, caseRuns, verdicts,
                   svcTouched, pulls>>

-----------------------------------------------------------------------------
(* The device.                                                             *)

\* The job ends: pass or fail writes --report, a crash writes nothing; it
\* may leak a dma buffer in the service.
JobFinish ==
    /\ job.st = "running"
    /\ \E st \in {"pass", "fail", "crash"},
          leak \in (IF leaks < MaxLeaks THEN BOOLEAN ELSE {FALSE}) :
         /\ job' = [job EXCEPT !.st = st, !.leak = leak]
         /\ devReport' = IF st = "crash" THEN devReport
                         ELSE [devReport EXCEPT ![ReportName(cur, model)] =
                                                   [st |-> st, run |-> job.run]]
         /\ leaked' = IF leak THEN leaked + 1 ELSE leaked
         /\ leaks' = IF leak THEN leaks + 1 ELSE leaks
    /\ UNCHANGED <<pc, queue, cur, keys, model, runNo, testResult, memBefore,
                   failCnt, localReport, svc, nextPid, crashes, requested,
                   caseRuns, verdicts, svcTouched, pulls>>

\* The ENN service dies and frees what it held; init restarts it.
ServiceCrash ==
    /\ pc # "finished"
    /\ svc # 0
    /\ crashes < MaxCrashes
    /\ svc' = 0 /\ leaked' = 0 /\ crashes' = crashes + 1
    /\ svcTouched' = TRUE
    /\ UNCHANGED <<pc, queue, cur, keys, model, runNo, testResult, memBefore,
                   failCnt, job, devReport, localReport, leaks, nextPid,
                   requested, caseRuns, verdicts, pulls>>

ServiceRestart ==
    /\ pc # "finished"
    /\ svc = 0
    /\ nextPid <= MaxPid
    /\ svc' = nextPid /\ nextPid' = nextPid + 1
    /\ svcTouched' = TRUE
    /\ UNCHANGED <<pc, queue, cur, keys, model, runNo, testResult, memBefore,
                   failCnt, job, devReport, localReport, leaked, leaks,
                   crashes, requested, caseRuns, verdicts, pulls>>

Thread ==
    \/ StartSuite \/ RejectTc \/ RunTc \/ OrderModels \/ StartModel \/ CaseDone
    \/ PrepareMemleak \/ RunCommand \/ CommandReturns \/ ValidateResult
    \/ ValidateMemleak \/ Finish

Next == Thread \/ JobFinish \/ ServiceCrash \/ ServiceRestart

\* The Python thread keeps going; the foreground job ends.
Spec == Init /\ [][Next]_e2eVars /\ WF_e2eVars(Thread) /\ WF_e2eVars(JobFinish)

-----------------------------------------------------------------------------
(* Properties.                                                             *)

TypeOK ==
    /\ pc \in {"start", "next", "order", "model", "prepare", "run", "running",
               "validate", "memleak", "finished"}
    /\ cur \in 1..NumCases
    /\ model \in Models
    /\ keys \in Seq(Models)
    /\ failCnt \in Nat
    /\ job \in {NoJob} \cup [st : {"running", "pass", "fail", "crash"},
                             run : Nat, leak : BOOLEAN]
    /\ devReport \in [Names -> ReportVal]
    /\ localReport \in [Names -> ReportVal]
    /\ leaked \in 0..MaxLeaks
    /\ svc \in 0..MaxPid

\* The suite ran the valid requested cases (in the order asked unless
\* shuffled) and every call of _run_e2e_tc ran each model of the case
\* exactly once, in the yaml's order unless shuffled.
RunsMatchRequest ==
    pc = "finished" =>
      LET ran == [i \in 1..Len(caseRuns) |-> caseRuns[i][1]]
          valid == SelectSeq(requested.order, LAMBDA i : i <= NumCases)
          Orders(s) == IF requested.shuffled THEN Shuffles(s) ELSE {s}
      IN /\ ran \in Orders(valid)
         /\ \A i \in 1..Len(caseRuns) :
              caseRuns[i][2] \in Orders(CommandKeys(caseRuns[i][1]))

\* validate_result only pulls a report written by this model run's job.
DevicePullFresh ==
    \A p \in pulls : p[1] = p[2]

\* A model run whose job truly passed, on a service that kept running, is
\* not counted as failed.
VerdictComplete ==
    \A k \in 1..Len(verdicts) :
        verdicts[k].truth /\ verdicts[k].stable => verdicts[k].pass

\* The suite run ends.
Termination == <>(pc = "finished")

=============================================================================
