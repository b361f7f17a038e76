---------------------------- MODULE CoverageScript ----------------------------
(***************************************************************************)
(* src/coverage.py, invoked again and again on the same working tree.     *)
(* main() removes both directories with --clean; otherwise it builds and  *)
(* runs the unit tests only when build_dir does not exist yet, and then   *)
(* captures coverage into an output_dir that must not exist.  cmake,      *)
(* make, ctest, lcov and genhtml are external: each may fail, and a       *)
(* failure raises out of main() and ends the invocation, leaving both     *)
(* directories as the steps before it made them.                          *)
(***************************************************************************)
EXTENDS Naturals

CONSTANTS
    Sanitizers,      \* --sanitizer values that build_ctest accepts (None too)
    BadSanitizers,   \* values it rejects with ValueError
    MaxInvocations   \* invocations of the script in one behaviour

VARIABLES
    pc,          \* "idle" between invocations, "build", "capture"
    args,        \* the current invocation's arguments
    build,       \* what build_dir holds
    output,      \* what output_dir holds
    reportOf,    \* the build_dir state the html report was generated from
    invocations  \* invocations so far

covVars == <<pc, args, build, output, reportOf, invocations>>

-----------------------------------------------------------------------------
\* build_dir: absent; created but empty; configured by cmake (possibly
\* partly built); unit tests run, passing or failing (ctest leaves
\* the .gcda files either way).
BuildStates == {"absent", "made", "configured", "tested_fail", "tested_ok"}
HasGcda(b) == b \in {"tested_fail", "tested_ok"}

\* output_dir: absent; created; holding coverage.info; holding the html.
OutputStates == {"absent", "made", "info", "html"}

Args == [clean : BOOLEAN, sanitizer : Sanitizers \cup BadSanitizers,
         reachable : BOOLEAN]   \* CMakeLists.txt found from build_dir

Init ==
    /\ pc = "idle"
    /\ args \in Args
    /\ build = "absent"
    /\ output = "absent"
    /\ reportOf = "absent"
    /\ invocations = 0

\* main(): --clean removes both trees and returns; otherwise build_ctest
\* runs only when build_dir does not exist.
Main ==
    /\ pc = "idle"
    /\ invocations < MaxInvocations
    /\ invocations' = invocations + 1
    /\ \E arg \in Args :
         /\ args' = arg
         /\ IF arg.clean
            THEN /\ build' = "absent" /\ output' = "absent"
                 /\ reportOf' = "absent"
                 /\ UNCHANGED pc
            ELSE /\ pc' = IF build = "absent" THEN "build" ELSE "capture"
                 /\ UNCHANGED <<build, output, reportOf>>

\* build_ctest: validate_build_paths makes build_dir and removes it again
\* when CMakeLists.txt is unreachable; an unknown sanitizer raises after the
\* mkdir; then cmake, make and ctest, the first failure raising.
BuildCtest ==
    /\ pc = "build"
    /\ IF ~args.reachable
       THEN build' = "absent" /\ pc' = "idle"
       ELSE IF args.sanitizer \in BadSanitizers
       THEN build' = "made" /\ pc' = "idle"
       ELSE \E cmakeOk, makeOk, ctestOk \in BOOLEAN :
              /\ build' = CASE ~cmakeOk -> "made"
                            [] ~makeOk  -> "configured"
                            [] ~ctestOk -> "tested_fail"
                            [] OTHER    -> "tested_ok"
              /\ pc' = IF cmakeOk /\ makeOk /\ ctestOk THEN "capture" ELSE "idle"
    /\ UNCHANGED <<args, output, reportOf, invocations>>

\* capture_coverage_all: output_dir must not exist ('The output_dir
\* exists.'); it is made, then lcov --capture (which finds nothing to
\* capture without .gcda files), lcov --remove and genhtml, the first
\* failure raising.
CaptureCoverageAll ==
    /\ pc = "capture"
    /\ pc' = "idle"
    /\ IF output # "absent"
       THEN UNCHANGED <<output, reportOf>>
       ELSE \E captureOk, removeOk, genhtmlOk \in BOOLEAN :
              LET captured == captureOk /\ HasGcda(build)
              IN /\ output' = CASE ~captured  -> "made"
                                [] ~removeOk  -> "info"
                                [] ~genhtmlOk -> "info"
                                [] OTHER      -> "html"
                 /\ reportOf' = IF output' = "html" THEN build ELSE reportOf
    /\ UNCHANGED <<args, build, invocations>>

Next == Main \/ BuildCtest \/ CaptureCoverageAll

Spec == Init /\ [][Next]_covVars

-----------------------------------------------------------------------------
(* Properties.                                                             *)

\* What the script is for: an html coverage report is produced only from a
\* build whose unit tests passed.
ReportFromPassingTests ==
    output = "html" => reportOf = "tested_ok"

=============================================================================
