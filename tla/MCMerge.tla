------------------------------- MODULE MCMerge -------------------------------
(* Three merge tasks, enough for one of them to be two steps ahead of        *)
(* another's wake-up.                                                        *)
EXTENDS ParallelMerge

\* Bound: the item inserted first has the lowest score.
FirstIsWorst == n > 0 => input[0].score = 1

MergeInit == Init /\ FirstIsWorst

MergeSpec ==
    /\ MergeInit /\ [][Next]_vars
    /\ \A t \in Tid : WF_vars(Step(t))
=============================================================================
