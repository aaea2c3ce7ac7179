----------------------------- MODULE BridgeRun ------------------------------
(***************************************************************************)
(* One `connect` run (cmd/cli/run.go): the main goroutine from run() to    *)
(* its exit status, the SSH bootstrap child and monitorBootstrap, the      *)
(* handleShutdown goroutine, the readiness flag of internal/health, and    *)
(* the lines written for programmatic callers.                             *)
(*                                                                         *)
(* Connections are counted only (modules AcceptLoop and Relay have them).  *)
(* tsnet, the SSH client and the filesystem are the environment: each call *)
(* of theirs succeeds or fails.                                            *)
(***************************************************************************)
EXTENDS Integers, Sequences

CONSTANTS
    MaxConns,       \* bound: connections in flight at once
    MaxCleanups     \* cleanupMaxAttempts

ASSUME BoundsAssumption == MaxConns \in Nat \ {0} /\ MaxCleanups \in Nat \ {0}

VARIABLES
    cfg,        \* the options of this run, see Configs
    mpc,        \* where the main goroutine is
    ret,        \* what run is going to return: "nil" or "err"
    cause,      \* context.Cause: the first cancel wins
    boot,       \* the SSH child: "none", "running", "exited", "closed"
    mon,        \* monitorBootstrap: "off", "watching", "done"
    node,       \* the tsnet server: "down", "up", "closed"
    lsn,        \* the listener: "none", "open", "closed"
    conns,      \* goroutines handling a connection
    shut,       \* handleShutdown: "off", "wait", "flag", "listener", "health", "done"
    health,     \* the health server answers probes: "off", "up", "closed"
    ready,      \* TunnelStatus.ready
    reason,     \* TunnelStatus.reason
    dir,        \* the state directory: "absent", "present", "removed", "left"
    tries,      \* RemoveAll calls made by cleanupEphemeralStateDir
    out         \* the READY and ERROR lines written, in order

vars == <<cfg, mpc, ret, cause, boot, mon, node, lsn, conns, shut,
          health, ready, reason, dir, tries, out>>

\* BootstrapSSH and SOCKS5Addr set, an onReady callback (the browser command),
\* DrainTimeout > 0, EphemeralState: any combination of them.
Configs == [bootstrap : BOOLEAN, socks : BOOLEAN, callback : BOOLEAN,
            drains : BOOLEAN, ephemeral : BOOLEAN]

\* "signal" is the cause of signal.NotifyContext, which names the signal and need
\* not be context.Canceled.
Causes == {"none", "canceled", "signal", "bootstrap", "terminal"}
MainPcs == {"start", "bootstrap", "node", "up", "nodefailed", "listen", "announce", "check",
            "emit", "callback", "health", "mark", "markflag", "resolve", "serve", "drain",
            "closenode", "report", "cancel", "closeboot", "cleanup", "exit"}
Reasons == {"", "signal", "bootstrap", "terminal"}

TypeOK ==
    /\ cfg \in Configs
    /\ mpc \in MainPcs
    /\ ret \in {"nil", "err"}
    /\ cause \in Causes
    /\ boot \in {"none", "running", "exited", "closed"}
    /\ mon \in {"off", "watching", "done"}
    /\ node \in {"down", "up", "closed"}
    /\ lsn \in {"none", "open", "closed"}
    /\ conns \in 0..MaxConns
    /\ shut \in {"off", "wait", "flag", "listener", "health", "done"}
    /\ health \in {"off", "up", "closed"}
    /\ ready \in BOOLEAN /\ reason \in Reasons
    /\ dir \in {"absent", "present", "removed", "left"}
    /\ tries \in 0..MaxCleanups
    /\ out \in Seq({"READY", "ERROR"})

Init ==
    /\ cfg \in Configs
    /\ mpc = "start" /\ ret = "nil" /\ cause = "none"
    /\ boot = "none" /\ mon = "off" /\ node = "down" /\ lsn = "none" /\ conns = 0
    /\ shut = "off" /\ health = "off" /\ ready = FALSE /\ reason = ""
    /\ dir \in {"absent", "present"} /\ tries = 0 /\ out = <<>>

(***************************************************************************)
(* Helpers.                                                                *)
(***************************************************************************)
Step(from, to) == mpc = from /\ mpc' = to
Fail(from, to) == Step(from, to) /\ ret' = "err"

\* emitRunCause: an ERROR line when the run was ended by the bootstrap's exit.
CauseLine == IF cause = "bootstrap" THEN <<"ERROR">> ELSE <<>>

bootVars == <<boot, mon>>
status == <<health, ready, reason>>
files == <<dir, tries>>

(***************************************************************************)
(* run and withBootstrapLifecycle: the start.                              *)
(***************************************************************************)
EnsureStateDir ==
    /\ Step("start", IF cfg.bootstrap THEN "bootstrap" ELSE "node")
    /\ dir' = "present"
    /\ UNCHANGED <<ret, cause, bootVars, node, lsn, conns, shut, status, tries, out>>

EnsureStateDirFails ==
    /\ Fail("start", "exit")
    /\ UNCHANGED <<cause, bootVars, node, lsn, conns, shut, status, files, out>>

StartBootstrap ==
    /\ Step("bootstrap", "node")
    /\ boot' = "running" /\ mon' = "watching"
    /\ UNCHANGED <<ret, cause, node, lsn, conns, shut, status, files, out>>

\* Faulty variant: the failure is reported and the start goes on without it.
StartBootstrapFailsOpen ==
    /\ Step("bootstrap", "node")
    /\ boot' = "closed"
    /\ out' = Append(out, "ERROR")
    /\ UNCHANGED <<ret, cause, mon, node, lsn, conns, shut, status, files>>

\* No ssh, a busy SOCKS port, an ssh that exits or is not ready in time, a
\* cancelled run, or a control proxy that cannot be configured; the child, if
\* any, is closed before the error returns.
StartBootstrapFails ==
    /\ Fail("bootstrap", "cleanup")
    /\ boot' = "closed"
    /\ out' = Append(out, "ERROR")
    /\ UNCHANGED <<cause, mon, node, lsn, conns, shut, status, files>>

(***************************************************************************)
(* initTailscale, and what runBridge makes of its error.                   *)
(***************************************************************************)
\* A run that is already over never reaches Up: tsnet would start its control
\* client before it looks at the context.
NodeBegin ==
    /\ cause = "none"
    /\ Step("node", "up")
    /\ UNCHANGED <<ret, cause, bootVars, node, lsn, conns, shut, status, files, out>>

NodeUp ==
    /\ Step("up", "listen")
    /\ node' = "up"
    /\ UNCHANGED <<ret, cause, bootVars, lsn, conns, shut, status, files, out>>

\* The run is over before Up, or by the time Up fails: the cause is returned and
\* emitRunCause reports it.
NodeCancelled ==
    /\ cause # "none"
    /\ mpc \in {"node", "up"}
    /\ mpc' = "cancel" /\ ret' = "err"
    /\ node' = IF mpc = "up" THEN "closed" ELSE "down"
    /\ out' = out \o CauseLine
    /\ UNCHANGED <<cause, bootVars, lsn, conns, shut, status, files>>

\* Up fails on its own: ERROR with the diagnosed reason, then server.Close.
NodeFails ==
    /\ cause = "none"
    /\ Step("up", "nodefailed")
    /\ node' = "closed"
    /\ out' = Append(out, "ERROR")
    /\ UNCHANGED <<ret, cause, bootVars, lsn, conns, shut, status, files>>

\* Back in runBridge: emitRunCause looks at the cause again.
NodeFailureReported ==
    /\ Fail("nodefailed", "cancel")
    /\ out' = out \o CauseLine
    /\ UNCHANGED <<cause, bootVars, node, lsn, conns, shut, status, files>>

(***************************************************************************)
(* The listener and announceReady.                                         *)
(***************************************************************************)
Listen ==
    /\ Step("listen", "announce")
    /\ lsn' = "open"
    /\ UNCHANGED <<ret, cause, bootVars, node, conns, shut, status, files, out>>

ListenFails ==
    /\ Fail("listen", "cancel")
    /\ node' = "closed"
    /\ UNCHANGED <<cause, bootVars, lsn, conns, shut, status, files, out>>

\* Both looks of announceReady at the cause: before the banner and in
\* emitReadyIfActive.
AnnounceCheck ==
    /\ mpc \in {"announce", "check"} /\ cause = "none"
    /\ mpc' = IF mpc = "announce" THEN "check" ELSE "emit"
    /\ UNCHANGED <<ret, cause, bootVars, node, lsn, conns, shut, status, files, out>>

CloseAndReturn ==
    /\ mpc' = "cancel" /\ ret' = "err"
    /\ lsn' = "closed" /\ node' = "closed"
    /\ UNCHANGED <<cause, bootVars, conns, shut, status, files>>

AnnounceCancelled ==
    /\ mpc \in {"announce", "check"} /\ cause # "none"
    /\ CloseAndReturn
    /\ out' = out \o CauseLine

EmitReady ==
    /\ Step("emit", IF cfg.callback THEN "callback" ELSE "health")
    /\ out' = Append(out, "READY")
    /\ UNCHANGED <<ret, cause, bootVars, node, lsn, conns, shut, status, files>>

CallbackSucceeds ==
    /\ Step("callback", "health")
    /\ UNCHANGED <<ret, cause, bootVars, node, lsn, conns, shut, status, files, out>>

CallbackFails ==
    /\ mpc = "callback"
    /\ CloseAndReturn
    /\ UNCHANGED out

(***************************************************************************)
(* Serving: the health server, `go handleShutdown`, MarkReady in its two   *)
(* stores, and the accept loop.                                            *)
(***************************************************************************)
\* StartServer, unless no address is set or it is in use, and `go handleShutdown`.
StartShutdownWatch ==
    /\ Step("health", "mark")
    /\ shut' = "wait"
    /\ health' \in {"off", "up"}
    /\ UNCHANGED <<ret, cause, bootVars, node, lsn, conns, ready, reason, files, out>>

MarkReason ==
    /\ Step("mark", "markflag")
    /\ reason' = ""
    /\ UNCHANGED <<ret, cause, bootVars, node, lsn, conns, shut, health, ready, files, out>>

MarkFlag ==
    /\ Step("markflag", IF cfg.socks THEN "resolve" ELSE "serve")
    /\ ready' = TRUE
    /\ UNCHANGED <<ret, cause, bootVars, node, lsn, conns, shut, health, reason, files, out>>

\* Only the SOCKS mode resolves routes, after readiness was announced.
ResolveRoutes ==
    /\ Step("resolve", "serve")
    /\ UNCHANGED <<ret, cause, bootVars, node, lsn, conns, shut, status, files, out>>

ResolveFails ==
    /\ mpc = "resolve"
    /\ CloseAndReturn
    /\ UNCHANGED out

ConnOpens ==
    /\ mpc = "serve" /\ lsn = "open" /\ conns < MaxConns
    /\ conns' = conns + 1
    /\ UNCHANGED <<mpc, ret, cause, bootVars, node, lsn, shut, status, files, out>>

ConnEnds ==
    /\ conns > 0
    /\ conns' = conns - 1
    /\ UNCHANGED <<mpc, ret, cause, bootVars, node, lsn, shut, status, files, out>>

\* handleConn's cancel(err) on a TerminalDialError.
TerminalDial ==
    /\ conns > 0 /\ cause = "none"
    /\ cause' = "terminal"
    /\ UNCHANGED <<mpc, ret, bootVars, node, lsn, conns, shut, status, files, out>>

LoopReturns ==
    /\ lsn = "closed"
    /\ Step("serve", IF cfg.drains THEN "drain" ELSE "closenode")
    /\ UNCHANGED <<ret, cause, bootVars, node, lsn, conns, shut, status, files, out>>

\* AcceptSOCKS5Loop returns any other accept error and leaves the listener open.
LoopFails ==
    /\ cfg.socks /\ lsn = "open"
    /\ Fail("serve", IF cfg.drains THEN "drain" ELSE "closenode")
    /\ UNCHANGED <<cause, bootVars, node, lsn, conns, shut, status, files, out>>

(***************************************************************************)
(* The end of runBridge.                                                   *)
(***************************************************************************)
Drained ==
    /\ conns = 0
    /\ Step("drain", "closenode")
    /\ UNCHANGED <<ret, cause, bootVars, node, lsn, conns, shut, status, files, out>>

\* Faulty variant: no timeout, the drain waits for every connection.
DrainExpiresNever ==
    /\ conns = 0
    /\ Step("drain", "closenode")
    /\ UNCHANGED <<ret, cause, bootVars, node, lsn, conns, shut, status, files, out>>

DrainExpires ==
    /\ Step("drain", "closenode")
    /\ UNCHANGED <<ret, cause, bootVars, node, lsn, conns, shut, status, files, out>>

CloseNode ==
    /\ Step("closenode", "report")
    /\ node' = "closed"
    /\ UNCHANGED <<ret, cause, bootVars, lsn, conns, shut, status, files, out>>

\* Faulty variant: the accept loop's result is returned whatever the cause.
ReportAcceptOnly ==
    /\ Step("report", "cancel")
    /\ out' = out \o CauseLine
    /\ UNCHANGED <<ret, cause, bootVars, node, lsn, conns, shut, status, files>>

\* emitRunCause; a cause other than context.Canceled is the result of the run.
Report ==
    /\ Step("report", "cancel")
    /\ out' = out \o CauseLine
    /\ ret' = IF cause \in {"none", "canceled"} THEN ret ELSE "err"
    /\ UNCHANGED <<cause, bootVars, node, lsn, conns, shut, status, files>>

(***************************************************************************)
(* The deferred calls of withBootstrapLifecycle and run.                   *)
(***************************************************************************)
CancelRun ==
    /\ Step("cancel", "closeboot")
    /\ cause' = IF cause = "none" THEN "canceled" ELSE cause
    /\ UNCHANGED <<ret, bootVars, node, lsn, conns, shut, status, files, out>>

\* Faulty variant: the bootstrap is left to itself.
CloseBootstrapSkipped ==
    /\ Step("closeboot", "cleanup")
    /\ UNCHANGED <<ret, cause, bootVars, node, lsn, conns, shut, status, files, out>>

\* Tunnel.Close waits for the child, however it ended.
CloseBootstrap ==
    /\ Step("closeboot", "cleanup")
    /\ boot' = IF boot = "none" THEN "none" ELSE "closed"
    /\ UNCHANGED <<ret, cause, mon, node, lsn, conns, shut, status, files, out>>

KeepStateDir ==
    /\ ~cfg.ephemeral
    /\ Step("cleanup", "exit")
    /\ UNCHANGED <<ret, cause, bootVars, node, lsn, conns, shut, status, files, out>>

RemoveStateDir ==
    /\ cfg.ephemeral
    /\ Step("cleanup", "exit")
    /\ dir' = "removed" /\ tries' = tries + 1
    /\ UNCHANGED <<ret, cause, bootVars, node, lsn, conns, shut, status, out>>

\* A busy file is retried, at most MaxCleanups times; any other error is final.
RemoveRetry ==
    /\ cfg.ephemeral /\ mpc = "cleanup" /\ tries + 1 < MaxCleanups
    /\ tries' = tries + 1
    /\ UNCHANGED <<mpc, ret, cause, bootVars, node, lsn, conns, shut, status, dir, out>>

RemoveGivesUp ==
    /\ cfg.ephemeral
    /\ Step("cleanup", "exit")
    /\ dir' = "left" /\ tries' = tries + 1
    /\ UNCHANGED <<ret, cause, bootVars, node, lsn, conns, shut, status, out>>

\* What main does next, but for an accept error of the listener.
MainGoes ==
    \/ EnsureStateDir \/ EnsureStateDirFails
    \/ StartBootstrap \/ StartBootstrapFails
    \/ NodeBegin \/ NodeUp \/ NodeCancelled \/ NodeFails \/ NodeFailureReported
    \/ Listen \/ ListenFails
    \/ AnnounceCheck \/ AnnounceCancelled \/ EmitReady
    \/ CallbackSucceeds \/ CallbackFails
    \/ StartShutdownWatch \/ MarkReason \/ MarkFlag
    \/ ResolveRoutes \/ ResolveFails \/ LoopReturns
    \/ Drained \/ DrainExpires \/ CloseNode \/ Report
    \/ CancelRun \/ CloseBootstrap
    \/ KeepStateDir \/ RemoveStateDir \/ RemoveRetry \/ RemoveGivesUp

MainStep == MainGoes \/ LoopFails

(***************************************************************************)
(* The other goroutines.                                                   *)
(***************************************************************************)
\* monitorBootstrap: the context ended, or the child did while it had not.
MonitorSeesCancel ==
    /\ mon = "watching" /\ cause # "none"
    /\ mon' = "done"
    /\ UNCHANGED <<mpc, ret, cause, boot, node, lsn, conns, shut, status, files, out>>

\* Faulty variant: an ssh that exits with status 0 is not a failure.
MonitorIgnoresExit ==
    /\ mon = "watching" /\ boot \in {"exited", "closed"}
    /\ mon' = "done"
    /\ UNCHANGED <<mpc, ret, cause, boot, node, lsn, conns, shut, status, files, out>>

MonitorSeesExit ==
    /\ mon = "watching" /\ boot \in {"exited", "closed"}
    /\ mon' = "done"
    /\ cause' = IF cause = "none" THEN "bootstrap" ELSE cause
    /\ UNCHANGED <<mpc, ret, boot, node, lsn, conns, shut, status, files, out>>

\* The reason handleShutdown records: the cause, unless it is a plain cancel.
ShutdownWhy == IF cause = "canceled" THEN "" ELSE cause

\* handleShutdown: the two stores of status.Store(false, ...), listener.Close,
\* healthServer.Shutdown.
ShutdownReason ==
    /\ shut = "wait" /\ cause # "none"
    /\ shut' = "flag"
    /\ reason' = ShutdownWhy
    /\ UNCHANGED <<mpc, ret, cause, bootVars, node, lsn, conns, health, ready, files, out>>

ShutdownFlag ==
    /\ shut = "flag"
    /\ shut' = "listener"
    /\ ready' = FALSE
    /\ UNCHANGED <<mpc, ret, cause, bootVars, node, lsn, conns, health, reason, files, out>>

\* Faulty variant: the listener stays open.
ShutdownListenerSkipped ==
    /\ shut = "listener"
    /\ shut' = "health"
    /\ UNCHANGED <<mpc, ret, cause, bootVars, node, lsn, conns, status, files, out>>

ShutdownListener ==
    /\ shut = "listener"
    /\ shut' = "health"
    /\ lsn' = "closed"
    /\ UNCHANGED <<mpc, ret, cause, bootVars, node, conns, status, files, out>>

\* healthServer.Shutdown: its listener is closed at once.
ShutdownHealth ==
    /\ shut = "health"
    /\ shut' = "done"
    /\ health' = IF health = "up" THEN "closed" ELSE health
    /\ UNCHANGED <<mpc, ret, cause, bootVars, node, lsn, conns, ready, reason, files, out>>

(***************************************************************************)
(* The world.                                                              *)
(***************************************************************************)
Signal ==
    /\ cause = "none" /\ mpc # "start"
    /\ cause' \in {"canceled", "signal"}
    /\ UNCHANGED <<mpc, ret, bootVars, node, lsn, conns, shut, status, files, out>>

BootstrapExits ==
    /\ boot = "running"
    /\ boot' = "exited"
    /\ UNCHANGED <<mpc, ret, cause, mon, node, lsn, conns, shut, status, files, out>>

ShutdownStep == ShutdownReason \/ ShutdownFlag \/ ShutdownListener \/ ShutdownHealth

Exited == mpc = "exit" /\ UNCHANGED vars

\* The process lives, and its configuration does not change.
Running == mpc # "exit" /\ UNCHANGED cfg

Next ==
    \/ /\ Running
       /\ \/ MainStep
          \/ ConnOpens \/ ConnEnds \/ TerminalDial
          \/ MonitorSeesCancel \/ MonitorSeesExit
          \/ ShutdownStep
          \/ Signal \/ BootstrapExits
    \/ Exited

Spec == Init /\ [][Next]_vars

(***************************************************************************)
(* Fairness.  The main goroutine takes its next step whenever it has one   *)
(* (every call it waits in has a timeout or ends with the context), the    *)
(* timers fire, and the watching goroutines run.  Connections need not end,*)
(* nobody need send a signal and the listener need not fail.               *)
(***************************************************************************)
FairSpec ==
    /\ Spec
    /\ WF_vars(Running /\ MainGoes)
    /\ WF_vars(Running /\ MonitorSeesExit)
    /\ WF_vars(Running /\ ShutdownStep)

(***************************************************************************)
(* Properties.                                                             *)
(***************************************************************************)
Lines(token) == {i \in DOMAIN out : out[i] = token}

\* TestRunBootstrap*, "stdout contains a false READY signal": a run that has
\* reported a startup failure never claims to be ready, and READY is said once.
ReadyIsFirstAndOnly == \A i \in Lines("READY") : i = 1

\* BUG-001, "connect exits with a non-zero code": a run ended by a terminal dial
\* error or by the loss of the bootstrap never exits 0, whichever goroutine
\* noticed first and wherever main was.
ExitStatusTellsCause ==
    mpc = "exit" /\ cause \in {"terminal", "bootstrap"} => ret = "err"

\* guide-control-bootstrap.md, "failed startup close[s] the adapter's listener";
\* the SSH child and the node are closed on every way out of run.  initTailscale,
\* "Release background goroutines and open file handles before ephemeral cleanup
\* runs": the state directory is removed, or given up, only after that.
NothingOutlivesRun ==
    /\ mpc = "exit" => boot \in {"none", "closed"} /\ node # "up"
    /\ dir = "removed" \/ tries > 0 => node # "up" /\ boot # "running"

\* A cancelled run ends, with connections that never do.
CancelledRunEnds == cause # "none" ~> mpc = "exit"

\* monitorBootstrap: the death of the SSH child ends the run, whatever main was
\* doing at that moment.
BootstrapLossEndsRun == boot = "exited" ~> mpc = "exit"

=============================================================================
