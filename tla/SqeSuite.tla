------------------------------ MODULE SqeSuite ------------------------------
(***************************************************************************)
(* SQE_Test (test_module/sqe_test.py) running its cases through TestUtil  *)
(* and ADBManager (test_module/test_func.py) against one device.          *)
(*                                                                         *)
(* The orchestrator is the single Python thread: run_test / run_test_list *)
(* pick the cases, _run_sqe_tc takes each one through remove, memleak     *)
(* snapshot, pid read, the blocking adb shell call, per-subcommand        *)
(* validation, memleak comparison and the pid check.  The device is the   *)
(* environment: the subcommand jobs (EnnTest_v2 processes, some detached  *)
(* in the background), the result files in /data/vendor/enn/results, the  *)
(* ENN service process with its dma-buf usage, and the reboot into the    *)
(* bootloader that check_invalid_service_by_pid triggers.                 *)
(***************************************************************************)
EXTENDS Integers, Sequences, FiniteSets, SequencesExt

CONSTANTS
    Cases,            \* tc_list after update_tc_list: 1..N -> SQETestcase
    Requests,         \* what main() asks for: ALL (run_test(0)) or a list
    ALL,              \* model value for '--run sqe'
    AdbWaitsForJobs,  \* does 'adb shell' return only after '( .. &)' jobs end
    MaxLeaks,         \* bound on dma-buf leaks by the binary under test
    MaxCrashes,       \* bound on service crashes
    MaxPid,           \* bound on service pids (restarts)
    LocalLeftovers    \* what result/ret may hold from an earlier invocation

INSTANCE SqeCommand

ASSUME AdbWaitsForJobs \in BOOLEAN
ASSUME LocalLeftovers \subseteq [st : {"absent", "pass", "fail"}, run : {0}]
ASSUME MaxLeaks \in Nat /\ MaxCrashes \in Nat /\ MaxPid \in Nat \ {0}

VARIABLES
    pc,           \* where the orchestrator is in run_test / _run_sqe_tc
    queue,        \* case numbers still to go through run_test
    cur,          \* tc_id of the case being run
    runNo,        \* how many _run_sqe_tc calls have started
    vidx,         \* next subcommand of the validation loop
    testResult,   \* test_result of _run_sqe_tc
    out,          \* the local out file: "empty", "clean" or "fail" (tokens)
    memBefore,    \* memory_info returned by prepare_memleak_test
    pidBefore,    \* pid read before the run command ('' is 0)
    failCnt,      \* self.fail_cnt
    jobs,         \* EnnTest processes started on the device
    devReport,    \* result files on the device
    localReport,  \* result files in the local result/ret directory
    leaked,       \* dma buffers leaked and still held by the service
    leaks,        \* leaks so far (bounds the model)
    svc,          \* pid of the ENN service, 0 when it is not running
    nextPid,      \* pid the service gets when init restarts it
    crashes,      \* service crashes so far (bounds the model)
    reachable,    \* FALSE once 'reboot bootloader' has been sent
    \* history, read only by the properties
    requested,    \* the cases asked for, before shuffling, and the shuffle flag
    verdicts,     \* one record per finished _run_sqe_tc
    svcTouched,   \* the service crashed or restarted since the case started
    pulls         \* <<run, run of the report>> for every successful pull

orchestrator == <<pc, queue, cur, runNo, vidx, testResult, out, memBefore,
                  pidBefore, failCnt>>
device == <<jobs, devReport, localReport, leaked, leaks, svc, nextPid,
            crashes, reachable>>
history == <<requested, verdicts, svcTouched, pulls>>
vars == <<orchestrator, device, history>>

-----------------------------------------------------------------------------
(* Data.                                                                   *)

NumCases == Len(Cases)
Sub(c) == Cases[c].subcmds

\* report_file 'sqe_<tc_id>_<k>' of every subcommand of every case.
Slots == UNION {{<<c, k>> : k \in 1..Len(Sub(c))} : c \in 1..NumCases}

\* A result file: its verdict and the _run_sqe_tc call whose job wrote it
\* (0: left over from an earlier invocation of enn_test.py).
NoFile == [st |-> "absent", run |-> 0]
ReportVal == {NoFile} \cup [st : {"pass", "fail"}, run : Nat]

JobStates == {"running", "pass", "fail", "crash", "killed"}
Job == [slot : Slots, run : Nat, bg : BOOLEAN, anr : BOOLEAN,
        st : JobStates, leak : BOOLEAN]

NoSnapshot == [meminfo |-> -2, dma_cnt |-> -2]   \* the '[]' of no memleak

\* The permutations random.shuffle can produce.
Shuffles(s) ==
    {[i \in 1..Len(s) |-> s[p[i]]] : p \in Bijection(1..Len(s), 1..Len(s))}

-----------------------------------------------------------------------------
(* What TestUtil reads from the device.                                    *)

\* run_adb_cmd suppresses a failed adb call and returns ''; after the
\* reboot every call fails.
AdbAnswers == reachable

Running == {j \in jobs : j.st = "running"}

\* dma buffers in use: the running jobs' and the leaked ones.
Held == leaked + Cardinality(Running)

\* _get_mem_info: the numbers of bufinfo, [] when adb fails.
MemInfo == IF AdbAnswers THEN Held ELSE -1

\* _check_dmabuf_cnt: the service's dmabuf fds, 0 if it is not running.
DmabufCnt == IF AdbAnswers /\ svc # 0 THEN Held ELSE 0

Snapshot == [meminfo |-> MemInfo, dma_cnt |-> DmabufCnt]

\* get_service_pid: '' (0) when ps shows no service or adb fails.
ServicePid == IF AdbAnswers THEN svc ELSE 0

\* TestUtil.__init__ creates result/ret with exist_ok=True: files of an
\* earlier invocation stay.
KeptResults == [Slots -> LocalLeftovers]

\* print_test_result: PASS only when both results hold.
PrintedPass(testRes, memleakRes) == testRes /\ memleakRes

-----------------------------------------------------------------------------
(* The orchestrator.                                                       *)

Init ==
    /\ pc = "start"
    /\ queue = <<>>
    /\ cur = 1
    /\ runNo = 0
    /\ vidx = 1
    /\ testResult = TRUE
    /\ out = "empty"
    /\ memBefore = NoSnapshot
    /\ pidBefore = 0
    /\ failCnt = 0
    /\ jobs = {}
    /\ devReport = [s \in Slots |-> NoFile]
    \* result/ret survives between invocations (os.makedirs exist_ok=True)
    /\ localReport \in KeptResults
    /\ leaked = 0
    /\ leaks = 0
    /\ svc = 1
    /\ nextPid = 2
    /\ crashes = 0
    /\ reachable = TRUE
    /\ requested = [order |-> <<>>, shuffled |-> FALSE]
    /\ verdicts = <<>>
    /\ svcTouched = FALSE
    /\ pulls = {}

\* main(): set_shuffle_test, then run_test(0) or run_test_list(list);
\* run_test_list shuffles the list and drops numbers <= 0.
StartSuite ==
    /\ pc = "start"
    /\ \E r \in Requests, shuffled \in BOOLEAN :
         LET base == IF r = ALL THEN [i \in 1..NumCases |-> i] ELSE r
         IN \E order \in (IF shuffled THEN Shuffles(base) ELSE {base}) :
              /\ queue' = IF r = ALL THEN order
                          ELSE SelectSeq(order, LAMBDA i : i > 0)
              /\ requested' = [order |-> IF r = ALL THEN base
                                         ELSE SelectSeq(base, LAMBDA i : i > 0),
                                shuffled |-> shuffled]
    /\ pc' = "next"
    /\ UNCHANGED <<cur, runNo, vidx, testResult, out, memBefore, pidBefore,
                   failCnt, device, verdicts, svcTouched, pulls>>

\* Mutant: the range check rejects tc_num itself ('tc >= self.tc_num').
RejectTcOffByOne ==
    /\ pc = "next"
    /\ queue # <<>>
    /\ Head(queue) >= NumCases
    /\ queue' = Tail(queue)
    /\ UNCHANGED <<pc, cur, runNo, vidx, testResult, out, memBefore,
                   pidBefore, failCnt, device, history>>

\* run_test(tc): a number above tc_num is reported and skipped.
RejectTc ==
    /\ pc = "next"
    /\ queue # <<>>
    /\ Head(queue) > NumCases
    /\ queue' = Tail(queue)
    /\ UNCHANGED <<pc, cur, runNo, vidx, testResult, out, memBefore,
                   pidBefore, failCnt, device, history>>

\* Mutant: tc_num + 1 gets past the range check.
RunTcOffByOne ==
    /\ pc = "next"
    /\ queue # <<>>
    /\ Head(queue) <= NumCases + 1
    /\ cur' = Head(queue)
    /\ queue' = Tail(queue)
    /\ runNo' = runNo + 1
    /\ pc' = "remove"
    /\ svcTouched' = FALSE
    /\ UNCHANGED <<vidx, testResult, out, memBefore, pidBefore, failCnt,
                   device, requested, verdicts, pulls>>

\* run_test(tc) -> _run_sqe_tc(tc, tc_list[tc])
RunTc ==
    /\ pc = "next"
    /\ queue # <<>>
    /\ Head(queue) <= NumCases
    /\ cur' = Head(queue)
    /\ queue' = Tail(queue)
    /\ runNo' = runNo + 1
    /\ pc' = "remove"
    /\ svcTouched' = FALSE
    /\ UNCHANGED <<vidx, testResult, out, memBefore, pidBefore, failCnt,
                   device, requested, verdicts, pulls>>

\* Mutant: the stale device results are not removed.
RemoveResultsSkipped ==
    /\ pc = "remove"
    /\ pc' = "prepare"
    /\ UNCHANGED <<queue, cur, runNo, vidx, testResult, out, memBefore,
                   pidBefore, failCnt, device, history>>

\* remove_result_form_device for every subcommand's report_file.
RemoveResults ==
    /\ pc = "remove"
    /\ devReport' = IF AdbAnswers
                    THEN [s \in Slots |-> IF s[1] = cur THEN NoFile
                                          ELSE devReport[s]]
                    ELSE devReport
    /\ pc' = "prepare"
    /\ UNCHANGED <<queue, cur, runNo, vidx, testResult, out, memBefore,
                   pidBefore, failCnt, jobs, localReport, leaked, leaks, svc,
                   nextPid, crashes, reachable, history>>

\* prepare_memleak_test: the 'before' snapshot when check_memleak is set.
PrepareMemleak ==
    /\ pc = "prepare"
    /\ memBefore' = IF Cases[cur].check_memleak THEN Snapshot ELSE NoSnapshot
    /\ pc' = "getpid"
    /\ UNCHANGED <<queue, cur, runNo, vidx, testResult, out, pidBefore,
                   failCnt, device, history>>

\* pid = get_service_pid()
GetPid ==
    /\ pc = "getpid"
    /\ pidBefore' = ServicePid
    /\ pc' = "run"
    /\ UNCHANGED <<queue, cur, runNo, vidx, testResult, out, memBefore,
                   failCnt, device, history>>

\* run_test_command: adb shell "<command>" > out_file.  The out file is
\* truncated; on a reachable device a supported command starts one job per
\* subcommand ('Not Supported' starts none).  Finished jobs of earlier calls
\* are forgotten; detached ones still running are kept.
RunCommand ==
    /\ pc = "run"
    /\ out' = "empty"
    /\ LET type == Cases[cur].type
           new == {[slot |-> <<cur, k>>, run |-> runNo,
                    bg |-> k \in Backgrounded[type],
                    anr |-> Sub(cur)[k].is_anr,
                    st |-> "running", leak |-> FALSE] : k \in 1..Len(Sub(cur))}
       IN jobs' = {j \in jobs : j.st = "running"}
                  \cup (IF AdbAnswers /\ Supported(type, Len(Sub(cur)))
                        THEN new ELSE {})
    /\ pc' = "running"
    /\ UNCHANGED <<queue, cur, runNo, vidx, testResult, memBefore, pidBefore,
                   failCnt, devReport, localReport, leaked, leaks, svc,
                   nextPid, crashes, reachable, history>>

\* Mutant: test_result is not reset to True before the validation loop.
CommandReturnsNoReset ==
    /\ pc = "running"
    /\ \A j \in Running : j.run = runNo => (j.bg /\ ~AdbWaitsForJobs)
    /\ pc' = "validate"
    /\ vidx' = 1
    /\ UNCHANGED <<queue, cur, runNo, testResult, out, memBefore, pidBefore,
                   failCnt, device, history>>

\* proc.wait() returns when the shell does: after the foreground jobs, and
\* after the background ones too only if adb waits for them.
CommandReturns ==
    /\ pc = "running"
    /\ \A j \in Running : j.run = runNo => (j.bg /\ ~AdbWaitsForJobs)
    /\ pc' = "validate"
    /\ vidx' = 1
    /\ testResult' = TRUE
    /\ UNCHANGED <<queue, cur, runNo, out, memBefore, pidBefore, failCnt,
                   device, history>>

\* validate_sqe_result for an ANR subcommand: _is_test_pass_by_stdout_file
\* fails on an empty out file or one holding FAIL/fail/ERROR/... tokens.
ValidateByStdout ==
    /\ pc = "validate"
    /\ testResult
    /\ vidx <= Len(Sub(cur))
    /\ Sub(cur)[vidx].is_anr
    /\ testResult' = (out = "clean")
    /\ vidx' = vidx + 1
    /\ UNCHANGED <<pc, queue, cur, runNo, out, memBefore, pidBefore, failCnt,
                   device, history>>

\* pull_file: 'adb pull' copies the device file over the local one when the
\* device is reachable and has it; a failed pull leaves the local one.
PullFile(s) ==
    IF AdbAnswers /\ devReport[s] # NoFile
    THEN [localReport EXCEPT ![s] = devReport[s]]
    ELSE localReport

\* _is_test_pass_by_result_file over _parse_single_result: a missing file or
\* one without Total, with Total # Pass or with Fail > 0 fails.
ResultFilePasses(r) == r.st = "pass"

\* Mutant: the loop does not move on to the next subcommand.
ValidateByResultFileNoAdvance ==
    /\ pc = "validate"
    /\ testResult
    /\ vidx <= Len(Sub(cur))
    /\ ~Sub(cur)[vidx].is_anr
    /\ LET s == <<cur, vidx>> IN
       /\ localReport' = PullFile(s)
       /\ testResult' = ResultFilePasses(localReport'[s])
       /\ pulls' = IF AdbAnswers /\ devReport[s] # NoFile
                   THEN pulls \cup {<<runNo, devReport[s].run>>} ELSE pulls
    /\ UNCHANGED <<pc, queue, cur, runNo, vidx, out, memBefore, pidBefore,
                   failCnt, jobs, devReport, leaked, leaks, svc, nextPid,
                   crashes, reachable, requested, verdicts, svcTouched>>

\* validate_sqe_result -> validate_result for a result-file subcommand:
\* pull_file, then judge whatever file is now in result/ret.
ValidateByResultFile ==
    /\ pc = "validate"
    /\ testResult
    /\ vidx <= Len(Sub(cur))
    /\ ~Sub(cur)[vidx].is_anr
    /\ LET s == <<cur, vidx>> IN
       /\ localReport' = PullFile(s)
       /\ testResult' = ResultFilePasses(localReport'[s])
       /\ pulls' = IF AdbAnswers /\ devReport[s] # NoFile
                   THEN pulls \cup {<<runNo, devReport[s].run>>} ELSE pulls
    /\ vidx' = vidx + 1
    /\ UNCHANGED <<pc, queue, cur, runNo, out, memBefore, pidBefore, failCnt,
                   jobs, devReport, leaked, leaks, svc, nextPid, crashes,
                   reachable, requested, verdicts, svcTouched>>

\* The ground truth of this call, for the properties: a command was run and
\* every subcommand's job of this call ended well without a checked leak.
CaseTrulyPassed ==
    /\ Supported(Cases[cur].type, Len(Sub(cur)))
    /\ \A k \in 1..Len(Sub(cur)) :
         \E j \in jobs : /\ j.slot = <<cur, k>> /\ j.run = runNo
                         /\ j.st = "pass"
                         /\ Cases[cur].check_memleak => ~j.leak

\* Mutant: _update_fail_cnt counts each failing oracle.
UpdateFailCntPerOracle(testRes, memleakRes) ==
    failCnt + (IF testRes THEN 0 ELSE 1) + (IF memleakRes THEN 0 ELSE 1)

\* _update_fail_cnt: one more failure when either result is False.
UpdateFailCnt(testRes, memleakRes) ==
    IF testRes /\ memleakRes THEN failCnt ELSE failCnt + 1

\* After the loop (or its break): validate_memleak_test compares a new
\* snapshot with the old one, then _update_fail_cnt and print_test_result.
ValidateMemleak ==
    /\ pc = "validate"
    /\ ~testResult \/ vidx > Len(Sub(cur))
    /\ LET memleakResult == ~Cases[cur].check_memleak \/ Snapshot = memBefore
           passed == PrintedPass(testResult, memleakResult)
       IN /\ failCnt' = UpdateFailCnt(testResult, memleakResult)
          /\ verdicts' = Append(verdicts,
                            [tc |-> cur, pass |-> passed,
                             truth |-> CaseTrulyPassed, stable |-> ~svcTouched])
    /\ pc' = "checkpid"
    /\ UNCHANGED <<queue, cur, runNo, vidx, testResult, out, memBefore,
                   pidBefore, device, requested, svcTouched, pulls>>

\* check_invalid_service_by_pid: same pid, nothing happens ...
ServicePidUnchanged ==
    /\ pc = "checkpid"
    /\ ServicePid = pidBefore
    /\ pc' = "next"
    /\ UNCHANGED <<queue, cur, runNo, vidx, testResult, out, memBefore,
                   pidBefore, failCnt, device, history>>

\* ... a different one sends 'reboot bootloader': the device leaves adb,
\* its processes die, and every later adb call of the run fails.
RebootOnPidChange ==
    /\ pc = "checkpid"
    /\ ServicePid # pidBefore
    /\ reachable' = FALSE
    /\ jobs' = {IF j.st = "running" THEN [j EXCEPT !.st = "killed"] ELSE j :
                j \in jobs}
    /\ pc' = "next"
    /\ UNCHANGED <<queue, cur, runNo, vidx, testResult, out, memBefore,
                   pidBefore, failCnt, devReport, localReport, leaked, leaks,
                   svc, nextPid, crashes, history>>

\* The loop is over; main() sums the fail counts and the process exits.
Finish ==
    /\ pc = "next"
    /\ queue = <<>>
    /\ pc' = "finished"
    /\ UNCHANGED <<queue, cur, runNo, vidx, testResult, out, memBefore,
                   pidBefore, failCnt, device, history>>

-----------------------------------------------------------------------------
(* The device.                                                             *)

\* What a job's output does to the out file while adb still captures it.
AddOutput(o, st) ==
    CASE st = "fail" -> "fail"
      [] st = "pass" /\ o = "empty" -> "clean"
      [] OTHER -> o

\* An EnnTest job ends: passing, failing, or (not ANR) crashing without a
\* report.  A non-ANR job writes its --report file; the ANR one is killed by
\* timeout before it does.  It may leak a dma buffer in the service.
JobFinish(j) ==
    /\ pc # "finished"
    /\ reachable
    /\ j \in Running
    /\ \E st \in (IF j.anr THEN {"pass", "fail"} ELSE {"pass", "fail", "crash"}),
          leak \in (IF leaks < MaxLeaks THEN BOOLEAN ELSE {FALSE}) :
         /\ jobs' = (jobs \ {j}) \cup {[j EXCEPT !.st = st, !.leak = leak]}
         /\ devReport' = IF ~j.anr /\ st \in {"pass", "fail"}
                         THEN [devReport EXCEPT ![j.slot] = [st |-> st, run |-> j.run]]
                         ELSE devReport
         /\ out' = IF pc = "running" /\ j.run = runNo THEN AddOutput(out, st)
                   ELSE out
         /\ leaked' = IF leak THEN leaked + 1 ELSE leaked
         /\ leaks' = IF leak THEN leaks + 1 ELSE leaks
    /\ UNCHANGED <<pc, queue, cur, runNo, vidx, testResult, memBefore,
                   pidBefore, failCnt, localReport, svc, nextPid, crashes,
                   reachable, history>>

\* The ENN service dies; its leaked buffers are freed with it.
ServiceCrash ==
    /\ pc # "finished"
    /\ reachable
    /\ svc # 0
    /\ crashes < MaxCrashes
    /\ svc' = 0
    /\ leaked' = 0
    /\ crashes' = crashes + 1
    /\ svcTouched' = TRUE
    /\ UNCHANGED <<orchestrator, jobs, devReport, localReport, leaks, nextPid,
                   reachable, requested, verdicts, pulls>>

\* init restarts the service under a new pid.
ServiceRestart ==
    /\ pc # "finished"
    /\ reachable
    /\ svc = 0
    /\ nextPid <= MaxPid
    /\ svc' = nextPid
    /\ nextPid' = nextPid + 1
    /\ svcTouched' = TRUE
    /\ UNCHANGED <<orchestrator, jobs, devReport, localReport, leaked, leaks,
                   crashes, reachable, requested, verdicts, pulls>>

Orchestrator ==
    \/ StartSuite \/ RejectTc \/ RunTc \/ RemoveResults \/ PrepareMemleak
    \/ GetPid \/ RunCommand \/ CommandReturns \/ ValidateByStdout
    \/ ValidateByResultFile \/ ValidateMemleak \/ ServicePidUnchanged
    \/ RebootOnPidChange \/ Finish

Next ==
    \/ Orchestrator
    \/ \E j \in jobs : JobFinish(j)
    \/ ServiceCrash
    \/ ServiceRestart

\* The Python thread always takes its next step; every EnnTest job ends
\* (the ANR ones under timeout, the others by assumption on the binary).
Fairness ==
    /\ WF_vars(Orchestrator)
    /\ WF_vars(\E j \in jobs : JobFinish(j))

Spec == Init /\ [][Next]_vars /\ Fairness

-----------------------------------------------------------------------------
(* Properties.                                                             *)

TypeOK ==
    /\ pc \in {"start", "next", "remove", "prepare", "getpid", "run",
               "running", "validate", "checkpid", "finished"}
    /\ queue \in Seq(Int)
    /\ cur \in 1..NumCases
    /\ runNo \in Nat
    /\ testResult \in BOOLEAN
    /\ out \in {"empty", "clean", "fail"}
    /\ failCnt \in Nat
    /\ jobs \subseteq Job
    /\ devReport \in [Slots -> ReportVal]
    /\ localReport \in [Slots -> ReportVal]
    /\ leaked \in 0..MaxLeaks
    /\ svc \in 0..MaxPid
    /\ reachable \in BOOLEAN
    /\ svcTouched \in BOOLEAN

\* The cases _run_sqe_tc ran are the valid numbers the caller asked for
\* (run_test_list drops n <= 0, run_test rejects n > tc_num), each as often
\* as asked, and in the order asked unless set_shuffle_test was called.
RunsMatchRequest ==
    pc = "finished" =>
      LET ran == [k \in 1..Len(verdicts) |-> verdicts[k].tc]
          valid == SelectSeq(requested.order, LAMBDA i : i <= NumCases)
      IN IF requested.shuffled THEN ran \in Shuffles(valid) ELSE ran = valid

\* self.fail_cnt, which enn_test.py reports to CI, counts the cases whose
\* test result or memleak check failed: one per failed case, not per oracle.
FailCntMatchesVerdicts ==
    failCnt = Cardinality({k \in 1..Len(verdicts) : ~verdicts[k].pass})

\* A result file that validate_result pulls from the device was written by
\* a job of the current _run_sqe_tc call, never one left by an earlier call
\* (remove_result_form_device runs before the command for this).
DevicePullFresh ==
    \A p \in pulls : p[1] = p[2]

\* A case printed PASS really passed: the command ran, every subcommand's
\* job of this call ended well, and no checked leak happened.
VerdictSound ==
    \A k \in 1..Len(verdicts) : verdicts[k].pass => verdicts[k].truth

\* A case that really passed, while the service kept its identity, is not
\* counted as failed.
VerdictComplete ==
    \A k \in 1..Len(verdicts) :
        verdicts[k].truth /\ verdicts[k].stable => verdicts[k].pass

\* If the service crashed or restarted while a case ran, the pid check at
\* its end (check_invalid_service_by_pid) reboots the device.
ServiceFailureRecovered ==
    [][pc = "checkpid" /\ pc' = "next" /\ svcTouched => ~reachable']_vars

\* The suite run ends: every requested case is run and judged.
Termination == <>(pc = "finished")

=============================================================================
