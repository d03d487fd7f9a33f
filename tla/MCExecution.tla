------------------------------ MODULE MCExecution ------------------------------
(* Execution: two executions on one VM, each limit at one. *)
EXTENDS Execution, TLC

CONSTANTS e1, e2, v1

TwoExecutions == {e1, e2}
OneExecution  == {e1}
OneVM         == {v1}
AllOnOne      == [e \in Executions |-> v1]

\* The executions are interchangeable.
Interchangeable == Permutations(TwoExecutions)
=============================================================================
