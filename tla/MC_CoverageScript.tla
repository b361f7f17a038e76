------------------------- MODULE MC_CoverageScript -------------------------
(* CoverageScript with --sanitizer None or 'address', a misspelt value,    *)
(* and three invocations: a failing one, a rerun, and one more.            *)
EXTENDS CoverageScript

MCSanitizers == {"none", "address"}
MCBadSanitizers == {"adress"}
=============================================================================
