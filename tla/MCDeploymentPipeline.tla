------------------------ MODULE MCDeploymentPipeline ------------------------
(***************************************************************************)
(* Small instances of DeploymentPipeline.                                  *)
(***************************************************************************)
EXTENDS DeploymentPipeline, TLC

Symmetry == Permutations(Requests) \cup Permutations(Apps)
=============================================================================
