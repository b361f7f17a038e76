----------------------------- MODULE DspLayerPlan -----------------------------
(***************************************************************************)
(* What the DSP debugger promises about the layers it tests, whatever adb  *)
(* does.  Setting the boundary fixes a plan: the layers start .. finish    *)
(* one at a time, or the range start .. finish in a single call.  The plan *)
(* is then tested in order, each entry once.  'Test finished' comes only   *)
(* after the whole plan has been tested.  The tool may stop at any point   *)
(* (a refused argument, a failed adb call, an exception), and then it      *)
(* tests nothing more.                                                     *)
(***************************************************************************)
EXTENDS Integers, Sequences

CONSTANT Layers   \* layer numbers a boundary may name

VARIABLES
    phase,   \* "setup", "testing", "finished" or "stopped"
    plan,    \* the <<start, finish>> ranges to test, in order
    tested   \* the ranges tested so far

planVars == <<phase, plan, tested>>

OneByOne(s, f) == [k \in 1..(f - s + 1) |-> <<s + k - 1, s + k - 1>>]

Plans == {OneByOne(s, f) : s, f \in Layers} \cup {<<<<s, f>>>> : s, f \in Layers}

Init ==
    /\ phase = "setup"
    /\ plan = <<>>
    /\ tested = <<>>

\* The boundary is set.
FixPlan ==
    /\ phase = "setup"
    /\ phase' = "testing"
    /\ plan' \in Plans
    /\ UNCHANGED tested

\* The next entry of the plan is tested.  The step may end the run: the
\* tool stops during it, or it was the last entry.
TestNext ==
    /\ phase = "testing"
    /\ Len(tested) < Len(plan)
    /\ tested' = Append(tested, plan[Len(tested) + 1])
    /\ phase' \in {"testing", "stopped"}
                  \cup (IF Len(tested') = Len(plan) THEN {"finished"} ELSE {})
    /\ UNCHANGED plan

Finish ==
    /\ phase = "testing"
    /\ Len(tested) = Len(plan)
    /\ phase' = "finished"
    /\ UNCHANGED <<plan, tested>>

Stop ==
    /\ phase \in {"setup", "testing"}
    /\ phase' = "stopped"
    /\ UNCHANGED <<plan, tested>>

Next == FixPlan \/ TestNext \/ Finish \/ Stop

Spec == Init /\ [][Next]_planVars

=============================================================================
