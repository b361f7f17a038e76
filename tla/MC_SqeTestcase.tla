--------------------------- MODULE MC_SqeTestcase ---------------------------
(* Instantiates SqeTestcase for TLC: every yaml case of up to three       *)
(* subcommands over three model names, against two test vectors.         *)
EXTENDS SqeTestcase

\* m3 is in no vector; m1 and m2 may be in both.
MCModelNames == {"m1", "m2", "m3"}
MCVectorUniverse == {"m1", "m2"}

\* The five frames and one type the grammar does not know.
MCCaseTypes == Topologies \cup {"stress"}

=============================================================================
