----------------------------- MODULE MCDeployment -----------------------------
(* Deployment on a small set of deployments. *)
EXTENDS Deployment, TLC

CONSTANTS d1, d2

TwoDeployments == {d1, d2}
OneDeployment  == {d1}

\* The deployments are interchangeable.
Interchangeable == Permutations(TwoDeployments)
=============================================================================
