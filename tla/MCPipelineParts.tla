--------------------------- MODULE MCPipelineParts ---------------------------
(***************************************************************************)
(* Small instances of DeploymentPipeline with two requests at a time and a     *)
(* second deployment behind the first, of PhaseRunner, whose calls a build     *)
(* consists of, and of TraefikFiles, whose files deployments and requests      *)
(* write.  They share no state and one run checks them side by side: a        *)
(* behaviour is one of one part, "overlapping", "runner" or "files", and the    *)
(* variables of the others stay at an initial state.                         *)
(***************************************************************************)
EXTENDS TraefikFiles, PhaseRunner

CONSTANTS a1, q1, q2, None

VARIABLES part, jobs, deployments, app, worker, req, stale, server, crashes

pipelineVars == <<jobs, deployments, app, worker, req, stale, server, crashes>>
vars == <<part, fileVars, phaseVars, pipelineVars>>

Overlapping == INSTANCE DeploymentPipeline WITH
    Apps <- {a1}, Requests <- {q1, q2}, rows <- deployments, Kinds <- {"deploy", "delete"},
    MaxJobs <- 2, MaxCrashes <- 1, Groups <- 1, Recoverable <- {}, Retain <- 1,
    Production <- FALSE, Watchdog <- FALSE, Faulty <- FALSE

PartsInit ==
    /\ part \in {"overlapping", "runner", "files"}
    /\ FilesInit /\ PhaseInit /\ Overlapping!Init
    /\ part # "files" => rows = {}

PartsNext ==
    /\ UNCHANGED part
    /\ \/ part = "overlapping" /\ Overlapping!Next /\ UNCHANGED <<fileVars, phaseVars>>
       \/ part = "runner" /\ PhaseNext /\ UNCHANGED <<fileVars, pipelineVars>>
       \/ part = "files" /\ FilesNext /\ UNCHANGED <<phaseVars, pipelineVars>>

\* The fairness of FairPhaseSpec, in its part.
RunnerFairness ==
    /\ WF_phaseVars(part = "runner" /\ Caller) /\ WF_phaseVars(part = "runner" /\ Canceller)
    /\ \A k \in RunIds : /\ WF_phaseVars(part = "runner" /\ Runner(k))
                         /\ WF_phaseVars(part = "runner" /\ ChildExits(k))

PartsSpec == PartsInit /\ [][PartsNext]_vars /\ RunnerFairness

-----------------------------------------------------------------------------
(* DeploymentPipeline's properties of overlapping requests; those of PhaseRunner *)
(* and of TraefikFiles go by their own names.                                *)

\* A deletion that has passed its checks has no job of its snapshot left to race
\* with (prepareDeploymentJobsForServiceDeletion).
DeletionGuard == part = "overlapping" => Overlapping!DeletionGuard

\* At most the newest row of an application is running (createDeployment closes
\* what an earlier run left open).
OnlyTheNewestRowRuns == part = "overlapping" => Overlapping!OnlyTheNewestRowRuns
=============================================================================
