----------------------------- MODULE PhaseRunner -----------------------------
(***************************************************************************)
(* One call of runDeploymentPhases on a build server, against one call of  *)
(* cancelDeploymentProcess: the attempts of each phase, the runner script   *)
(* that spawns the phase's process and records its pid, the cancel file,    *)
(* and the signals.  The two calls share nothing but files and processes.   *)
(* The connection that carries a runner may drop while the runner goes on.  *)
(***************************************************************************)
EXTENDS Integers

CONSTANTS
    Phases,        \* phases of the call
    Retryable,     \* those with retryPolicy "transient"
    MaxAttempts,   \* attempts such a phase has (3)
    MaxDrops       \* bound: lost connections

VARIABLES
    node,          \* the caller: program counter, phase, attempt, runner, the
                   \* cause of the attempt's failure, result
    runner,        \* every runner script started: its step, child and exit code
    pidFile,       \* active.pid: the runner whose child it names, or 0
    cancelFile,    \* whether the cancel file exists
    cancel,        \* the canceller: program counter and the pid it has read
    drops          \* connections lost so far

phaseVars == <<node, runner, pidFile, cancelFile, cancel, drops>>

ASSUME PhaseAssumption ==
    /\ Phases \in Nat \ {0} /\ Retryable \subseteq 1..Phases
    /\ MaxAttempts \in Nat \ {0} /\ MaxDrops \in Nat

RunIds == 1..(Phases * MaxAttempts)
Attempts(phase) == IF phase \in Retryable THEN MaxAttempts ELSE 1
Codes == {"ok", "transient", "fatal", "cancelled"}

PhaseInit ==
    /\ node = [pc |-> "preflight", phase |-> 1, attempt |-> 1, run |-> 0,
             cause |-> "none", result |-> "none"]
    /\ runner = [k \in RunIds |-> [pc |-> "none", child |-> "none", code |-> "none"]]
    /\ pidFile = 0
    /\ cancelFile = FALSE
    /\ cancel = [pc |-> "touch", target |-> 0]
    /\ drops = 0

-----------------------------------------------------------------------------
(* The runner script of attempt k.                                          *)

\* Any exit of the script removes the pid file (trap cleanup EXIT).
Exit(k, code) ==
    /\ runner' = [runner EXCEPT ![k].pc = "exited", ![k].code = code]
    /\ pidFile' = 0

RunnerCheck(k) ==
    /\ runner[k].pc = "check"
    /\ IF cancelFile
       THEN Exit(k, "cancelled")
       ELSE runner' = [runner EXCEPT ![k].pc = "spawn"] /\ UNCHANGED pidFile
    /\ UNCHANGED <<node, cancelFile, cancel, drops>>

Spawn(k) ==
    /\ runner[k].pc = "spawn"
    /\ runner' = [runner EXCEPT ![k].pc = "writePid", ![k].child = "alive"]
    /\ UNCHANGED <<node, pidFile, cancelFile, cancel, drops>>

\* Without the work directory the redirection fails and set -e ends the script.
WritePid(k) ==
    /\ runner[k].pc = "writePid"
    /\ IF node.pc = "returned" /\ ~ cancelFile
       THEN Exit(k, "fatal")
       ELSE runner' = [runner EXCEPT ![k].pc = "wait"] /\ pidFile' = k
    /\ UNCHANGED <<node, cancelFile, cancel, drops>>

\* The phase's process ends, at the latest at its timeout (exit 124, transient).
ChildExits(k) ==
    /\ runner[k].child = "alive"
    /\ \E code \in {"ok", "transient", "fatal"} : runner' = [runner EXCEPT ![k].child = code]
    /\ UNCHANGED <<node, pidFile, cancelFile, cancel, drops>>

\* Mutant: the exit code is the child's even when the cancel file appeared.
FinalCheckMissing(k) ==
    /\ runner[k].pc = "wait" /\ runner[k].child # "alive"
    /\ Exit(k, runner[k].child)
    /\ UNCHANGED <<node, cancelFile, cancel, drops>>

FinalCheck(k) ==
    /\ runner[k].pc = "wait" /\ runner[k].child # "alive"
    /\ Exit(k, IF cancelFile THEN "cancelled" ELSE runner[k].child)
    /\ UNCHANGED <<node, cancelFile, cancel, drops>>

-----------------------------------------------------------------------------
(* The caller.                                                              *)

Return(result) == node' = [node EXCEPT !.pc = "cleanup", !.result = result]
JudgeAttempt(cause) == node' = [node EXCEPT !.pc = "judge", !.cause = cause]

\* A connection is lost.
Lose == drops < MaxDrops /\ drops' = drops + 1

\* The capabilities of the servers are checked once, before the first phase.
Preflight ==
    /\ node.pc = "preflight"
    /\ node' = [node EXCEPT !.pc = "prepare"] \/ Return("failed")
    /\ UNCHANGED <<runner, pidFile, cancelFile, cancel, drops>>

\* Write the phase's script; a lost connection fails the call.
Prepare ==
    /\ node.pc = "prepare"
    /\ \/ node' = [node EXCEPT !.pc = "launch"] /\ UNCHANGED drops
       \/ Lose /\ Return("failed")
    /\ UNCHANGED <<runner, pidFile, cancelFile, cancel>>

\* Write the runner script, outside the try of the attempt, and start it.
Launch ==
    /\ node.pc = "launch"
    /\ \/ /\ node' = [node EXCEPT !.pc = "running", !.run = @ + 1]
          /\ runner' = [runner EXCEPT ![node.run + 1].pc = "check"]
          /\ UNCHANGED drops
       \/ Lose /\ Return("failed") /\ UNCHANGED runner
    /\ UNCHANGED <<pidFile, cancelFile, cancel>>

\* Mutant: the caller goes on when the process has been spawned.
CollectEarly ==
    /\ node.pc = "running" /\ runner[node.run].pc \in {"wait", "exited"}
    /\ IF runner[node.run].code \in {"none", "ok"}
       THEN IF node.phase = Phases
            THEN Return("ok")
            ELSE node' = [node EXCEPT !.pc = "prepare", !.phase = @ + 1, !.attempt = 1]
       ELSE JudgeAttempt(runner[node.run].code)
    /\ UNCHANGED <<runner, pidFile, cancelFile, cancel, drops>>

\* The exit code of the runner reaches the caller.
Collect ==
    /\ node.pc = "running" /\ runner[node.run].pc = "exited"
    /\ IF runner[node.run].code = "ok"
       THEN IF node.phase = Phases
            THEN Return("ok")
            ELSE node' = [node EXCEPT !.pc = "prepare", !.phase = @ + 1, !.attempt = 1]
       ELSE JudgeAttempt(runner[node.run].code)
    /\ UNCHANGED <<runner, pidFile, cancelFile, cancel, drops>>

\* The runner's connection is lost: to the caller the attempt has failed,
\* whatever becomes of the runner.
Drop ==
    /\ node.pc = "running"
    /\ Lose /\ JudgeAttempt("lost")
    /\ UNCHANGED <<runner, pidFile, cancelFile, cancel>>

\* Mutant: one attempt too many.
JudgeOffByOne ==
    /\ node.pc = "judge"
    /\ IF cancelFile
       THEN Return("cancelled")
       ELSE IF node.cause \in {"lost", "transient"} /\ node.attempt <= Attempts(node.phase)
       THEN node' = [node EXCEPT !.pc = "launch", !.attempt = @ + 1]
       ELSE Return("failed")
    /\ UNCHANGED <<runner, pidFile, cancelFile, cancel, drops>>

\* wasDeploymentCancelled, for which a lost connection means no; then the
\* attempt is repeated or the call fails.
Judge ==
    /\ node.pc = "judge"
    /\ \/ cancelFile /\ Return("cancelled") /\ UNCHANGED drops
       \/ /\ Lose \/ (~ cancelFile /\ UNCHANGED drops)
          /\ IF node.cause \in {"lost", "transient"} /\ node.attempt < Attempts(node.phase)
             THEN node' = [node EXCEPT !.pc = "launch", !.attempt = @ + 1]
             ELSE Return("failed")
    /\ UNCHANGED <<runner, pidFile, cancelFile, cancel>>

\* finally: rm -rf workDir; its failure is ignored.
Cleanup ==
    /\ node.pc = "cleanup"
    /\ \/ /\ node' = [node EXCEPT !.pc = "returned"]
          /\ cancelFile' = FALSE /\ pidFile' = 0
          /\ UNCHANGED drops
       \/ /\ Lose /\ node' = [node EXCEPT !.pc = "leftover"]
          /\ UNCHANGED <<pidFile, cancelFile>>
    /\ UNCHANGED <<runner, cancel>>

-----------------------------------------------------------------------------
(* cancelDeploymentProcess: touch the cancel file, then signal the process  *)
(* group the pid file names.                                                *)

Touch ==
    /\ cancel.pc = "touch"
    /\ cancelFile' = TRUE
    /\ cancel' = [cancel EXCEPT !.pc = "read"]
    /\ UNCHANGED <<node, runner, pidFile, drops>>

ReadPid ==
    /\ cancel.pc = "read"
    /\ cancel' = [pc |-> IF pidFile = 0 THEN "done" ELSE "term", target |-> pidFile]
    /\ UNCHANGED <<node, runner, pidFile, cancelFile, drops>>

\* SIGTERM, which the process may outlive, then SIGKILL, which it may not.
Signal ==
    /\ cancel.pc \in {"term", "kill"}
    /\ \E survives \in IF cancel.pc = "term" THEN BOOLEAN ELSE {FALSE} :
        runner' = [runner EXCEPT ![cancel.target].child =
                      IF @ = "alive" /\ ~ survives THEN "fatal" ELSE @]
    /\ cancel' = [cancel EXCEPT !.pc = IF @ = "term" THEN "kill" ELSE "rm"]
    /\ UNCHANGED <<node, pidFile, cancelFile, drops>>

RemovePid ==
    /\ cancel.pc = "rm"
    /\ cancel' = [cancel EXCEPT !.pc = "done"]
    /\ pidFile' = 0
    /\ UNCHANGED <<node, runner, cancelFile, drops>>

-----------------------------------------------------------------------------
Runner(k) == RunnerCheck(k) \/ Spawn(k) \/ WritePid(k) \/ FinalCheck(k)
Caller == Preflight \/ Prepare \/ Launch \/ Collect \/ Judge \/ Cleanup
Canceller == ReadPid \/ Signal \/ RemovePid

PhaseNext ==
    \/ Caller \/ Drop
    \/ Touch \/ Canceller
    \/ \E k \in RunIds : Runner(k) \/ ChildExits(k)

PhaseSpec == PhaseInit /\ [][PhaseNext]_phaseVars

\* Everybody who has begun goes on; nobody has to cancel, and no connection has
\* to drop.
FairPhaseSpec ==
    /\ PhaseSpec
    /\ WF_phaseVars(Caller) /\ WF_phaseVars(Canceller)
    /\ \A k \in RunIds : WF_phaseVars(Runner(k)) /\ WF_phaseVars(ChildExits(k))

-----------------------------------------------------------------------------
(* Properties.                                                              *)

PhaseTypeOK ==
    /\ node \in [pc : {"preflight", "prepare", "launch", "running", "judge", "cleanup",
                         "returned", "leftover"},
                 phase : 1..Phases, attempt : 1..MaxAttempts, run : 0..(Phases * MaxAttempts),
                 cause : {"none", "lost", "transient", "fatal", "cancelled"},
                 result : {"none", "ok", "failed", "cancelled"}]
    /\ runner \in [RunIds -> [pc : {"none", "check", "spawn", "writePid", "wait", "exited"},
                              child : {"none", "alive"} \cup Codes, code : {"none"} \cup Codes]]
    /\ pidFile \in 0..(Phases * MaxAttempts)
    /\ cancelFile \in BOOLEAN
    /\ cancel \in [pc : {"touch", "read", "term", "kill", "rm", "done"},
                   target : 0..(Phases * MaxAttempts)]
    /\ drops \in 0..MaxDrops

Alive == {k \in RunIds : runner[k].child = "alive"}

\* While no connection has dropped, the phases' processes do not overlap, and
\* none is left when the call returns: not after a retry, not after a cancel.
NoProcessLeftBehind ==
    drops = 0 =>
        /\ \A j, k \in Alive : j = k
        /\ node.result # "none" => Alive = {}

\* The last runner has not had its say yet.
Undecided ==
    \/ node.pc \in {"preflight", "prepare", "launch"}
    \/ node.pc = "running" /\ runner[node.run].pc # "exited"

\* A cancel file that appears before the last runner's final check stops the
\* call, whatever the process did and even if the connection drops.
CancelReachesPhases == cancelFile /\ Undecided ~> node.result \in {"cancelled", "failed"}
=============================================================================
