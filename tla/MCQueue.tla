------------------------------ MODULE MCQueue ------------------------------
(***************************************************************************)
(* Small instances of the run queue: two runs that share the worker, and   *)
(* one run that is stopped while the worker writes.                        *)
(***************************************************************************)
EXTENDS Queue

CONSTANTS r1, r2, c1

OneRun == {r1}
TwoRuns == {r1, r2}
OneCaller == {c1}
=============================================================================
