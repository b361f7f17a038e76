--------------------------- MODULE MC_EnnTestMain ---------------------------
(* Instantiates EnnTestMain for TLC.                                      *)
EXTENDS EnnTestMain

\* No --board, and one board name.
MCBoards == {"", "exynos2100"}

\* Suite names for --show / --run: both suites, 'all' and an unknown one.
MCNames == {"e2e", "sqe", "all", "bogus"}

=============================================================================
