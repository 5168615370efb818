------------------------------ MODULE MCLiveness ------------------------------
(***************************************************************************)
(* Small instances of RoutingLocks and of DeploymentPipeline with fairness,    *)
(* which share no state and which one run checks side by side.  A behaviour  *)
(* is one of one part, "locks" or "recovery" (a pipeline with cancellations   *)
(* and a crash); the variables of the other stay at an initial state.        *)
(***************************************************************************)
EXTENDS RoutingLocks

CONSTANTS a1, q1, None

VARIABLES part, jobs, rows, app, worker, req, stale, server, crashes

pipelineVars == <<jobs, rows, app, worker, req, stale, server, crashes>>
allVars == <<part, vars, pipelineVars>>

MCComposes == 1..2

Pipeline == INSTANCE DeploymentPipeline WITH
    Apps <- {a1}, Requests <- {q1},
    Kinds <- {"deploy", "cancelDeployment", "killProcess"},
    MaxJobs <- 1, Groups <- 2, MaxCrashes <- 1, Recoverable <- {1}, Retain <- 10,
    Production <- TRUE, Watchdog <- FALSE, Faulty <- FALSE

PartsInit ==
    /\ part \in {"locks", "recovery"}
    /\ Init /\ Pipeline!Init
    /\ part = "recovery" => \A d \in Domains : attached[d] = Fresh

PartsNext ==
    \/ part = "locks" /\ Next /\ UNCHANGED <<part, pipelineVars>>
    \/ part = "recovery" /\ Pipeline!Next /\ UNCHANGED <<part, vars>>

\* The fairness of the modules' own specifications, each in its part.
LocksFairness == \A c \in Clients : SF_vars(part = "locks" /\ Advance(c))

PipelineFairness ==
    /\ WF_pipelineVars(part = "recovery" /\ Pipeline!Worker)
    /\ WF_pipelineVars(part = "recovery" /\ Pipeline!Listen)
    /\ WF_pipelineVars(part = "recovery" /\ Pipeline!StartWorker)
    /\ WF_pipelineVars(part = "recovery" /\ Pipeline!Stall)
    /\ WF_pipelineVars(part = "recovery" /\ Pipeline!MarkOwnerErroredIfIdle)
    /\ WF_pipelineVars(part = "recovery" /\ Pipeline!Serve(q1))

PartsSpec == PartsInit /\ [][PartsNext]_allVars /\ LocksFairness /\ PipelineFairness

-----------------------------------------------------------------------------
(* The pipeline's liveness properties, which it promises with the fairness     *)
(* above; those of RoutingLocks go by their own names.                       *)

\* A cancel file that a runner can still see stops the run, and its row ends as
\* cancelled (the runner script's checks, cancelDeploymentProcess).
CancelHonoured == Pipeline!CancelHonoured

\* Every queued job leaves the queue, whatever crash, stall and redelivery it meets
\* (the queue's stalled-job check, the worker's error paths).
EveryJobEnds == Pipeline!EveryJobEnds

\* No application that is not deleted stays "running" for ever (the error paths of
\* the worker, initCancelDeployments).
ApplicationSettles == Pipeline!ApplicationSettles
=============================================================================
