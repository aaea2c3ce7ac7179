------------------------------ MODULE SetupRun ------------------------------
(***************************************************************************)
(* The frame of `ts-bridge host setup` (cmd/cli/host.go, internal/host/    *)
(* step.go): one run after another, each a list of steps that read a       *)
(* state, act on a difference and report an outcome.  LinuxSetup and       *)
(* WindowsSetup are the steps; HostSetup dispatches on the OS.             *)
(*                                                                         *)
(* Every command a step runs may fail, and the process may be killed       *)
(* between two commands.                                                   *)
(***************************************************************************)
EXTENDS Integers

CONSTANTS
    MaxRuns,   \* bound: runs of host setup
    MaxFaults  \* bound: commands that fail and runs that are killed

ASSUME SetupBounds == MaxRuns \in Nat \ {0} /\ MaxFaults \in Nat

VARIABLES
    goos,     \* "linux" or "windows"
    cfg,      \* what host.Resolve returned: declared (the port) and noSleep
    pc,       \* the step that runs, or a point inside it; "off" between two runs
    outcome,  \* outcome[s]: what step s of this run reported; "none" before
    exit,     \* the exit status of the last run: "none", "ok", "failed", "killed"
    runs,
    faults

runVars == <<goos, cfg, pc, outcome, exit, runs, faults>>

Ports == {"default", "other"}
StepNames == {"xrdp", "xrdpPort", "firewall", "ip",
              "unattended", "services", "profile", "rdp", "rule", "power"}
Outcomes == {"ok", "changed", "failed", "manual", "unverified"}
NoSteps == [s \in StepNames |-> "none"]

Succeeded(o) == o \in {"ok", "changed"}
Configs == [declared : {"undeclared"} \cup Ports, noSleep : BOOLEAN]
Reported == {s \in StepNames : outcome[s] # "none"}

RunInit ==
    /\ pc = "off" /\ outcome = NoSteps /\ exit = "none"
    /\ runs = 0 /\ faults = 0

-----------------------------------------------------------------------------
(* What every action of a step is made of. *)

\* newStep appended to the list; next is where the run goes on.
Report(s, o, next) == pc' = next /\ outcome' = [outcome EXCEPT ![s] = o]

\* A command succeeded, or was not needed.
Works == UNCHANGED <<goos, cfg, exit, runs, faults>>

\* A command failed.
Breaks ==
    /\ faults < MaxFaults /\ faults' = faults + 1
    /\ UNCHANGED <<goos, cfg, exit, runs>>

-----------------------------------------------------------------------------

\* runHostSetup, as root: the file is valid and the flags resolve to cfg.
Begin(first) ==
    /\ pc = "off" /\ runs < MaxRuns
    /\ pc' = first /\ runs' = runs + 1
    /\ outcome' = NoSteps /\ exit' = "none"
    /\ UNCHANGED <<goos, cfg, faults>>

\* setupConvergence: 2 when a step failed; manual and changed are 0.
setupConvergence == IF \E s \in StepNames : outcome[s] = "failed" THEN "failed" ELSE "ok"

Finish ==
    /\ pc = "done"
    /\ pc' = "off" /\ exit' = setupConvergence
    /\ UNCHANGED <<goos, cfg, outcome, runs, faults>>

\* The process dies between two commands: no step list is printed.
Killed ==
    /\ pc # "off" /\ faults < MaxFaults
    /\ pc' = "off" /\ exit' = "killed" /\ outcome' = NoSteps /\ faults' = faults + 1
    /\ UNCHANGED <<goos, cfg, runs>>

\* The last run ended, with every step ok or changed: the host is converged.
Converged == pc = "off" /\ exit = "ok" /\ \A s \in Reported : Succeeded(outcome[s])
=============================================================================
