---------------------------- MODULE SSHBootstrap ----------------------------
(***************************************************************************)
(* internal/bootstrapssh: the ssh child that carries the control session.  *)
(* start probes the SOCKS port, runs ssh, polls the port until something   *)
(* answers, and closes the child when that fails; the goroutine it leaves  *)
(* behind waits for the child and then closes tunnel.done.                 *)
(*                                                                         *)
(* The caller (module HostServe) begins a call with StartCall, and finds   *)
(* its result in spc.  The child and the other programs of the machine are *)
(* the environment.                                                        *)
(***************************************************************************)

VARIABLES
    spc,        \* start: "idle", "bind", "exec", "dial", "check", "wait",
                \* "closing", "failed" (it returned an error), "ready" (a Tunnel)
    child,      \* "none", "up", "listening", "exited", "reaped" (tunnel.done is closed)
    port,       \* who listens on cfg.SOCKSAddr: "nobody", "child" or, while a start
                \* looks at it, "other": a program that is not the child
    kill,       \* childCtx is over: by tunnel.Close or with the caller's context
    cancelled   \* the context start was given is over

bootVars == <<spc, child, port, kill, cancelled>>

BootTypeOK ==
    /\ spc \in {"idle", "bind", "exec", "dial", "check", "wait", "closing", "failed", "ready"}
    /\ child \in {"none", "up", "listening", "exited", "reaped"}
    /\ port \in {"nobody", "child", "other"}
    /\ {kill, cancelled} \subseteq BOOLEAN

BootInit ==
    /\ spc = "idle" /\ child = "none" /\ port = "nobody"
    /\ kill = FALSE /\ cancelled = FALSE

Alive == child \in {"up", "listening"}

\* Start is over: whether another program has the port is asked by the next one.
Forget == port' = IF port = "other" THEN "nobody" ELSE port

(***************************************************************************)
(* start and waitUntilReady.                                               *)
(***************************************************************************)
StartCall ==
    /\ spc' = "bind" /\ kill' = FALSE
    /\ UNCHANGED <<child, port, cancelled>>

\* No ssh in PATH, an endpoint or address that is refused, or a port in use.
StartRefused ==
    /\ spc = "bind" /\ spc' = "failed"
    /\ UNCHANGED <<child, port, kill, cancelled>>

\* The probe listener is closed again at once: the port is free for the child,
\* and for anybody else.
ProbeBinds ==
    /\ spc = "bind" /\ port = "nobody"
    /\ spc' = "exec"
    /\ UNCHANGED <<child, port, kill, cancelled>>

Exec ==
    /\ spc = "exec" /\ ~cancelled
    /\ spc' = "dial" /\ child' = "up"
    /\ UNCHANGED <<port, kill, cancelled>>

\* cmd.Start fails, for one because its context is over.
ExecFails ==
    /\ spc = "exec" /\ spc' = "failed" /\ Forget
    /\ UNCHANGED <<child, kill, cancelled>>

DialAnswers ==
    /\ spc = "dial" /\ port # "nobody" /\ ~cancelled
    /\ spc' = "check"
    /\ UNCHANGED <<child, port, kill, cancelled>>

\* Refused, or cut off by readyCtx.
DialFails ==
    /\ spc = "dial"
    /\ spc' = "wait"
    /\ UNCHANGED <<child, port, kill, cancelled>>

\* Something answered: it counts only while the child has not ended.
ReadyCheck ==
    /\ spc = "check"
    /\ spc' = IF child = "reaped" THEN "closing" ELSE "ready"
    /\ UNCHANGED <<child, port, kill, cancelled>>

Poll ==
    /\ spc = "wait" /\ spc' = "dial"
    /\ UNCHANGED <<child, port, kill, cancelled>>

\* readyCtx is over (its timeout can pass at any time), or the child has ended.
GiveUp ==
    /\ spc = "wait"
    /\ spc' = "closing"
    /\ UNCHANGED <<child, port, kill, cancelled>>

\* Tunnel.Close: cancel, then wait for tunnel.done.
StartCloses ==
    /\ spc = "closing" /\ ~kill
    /\ kill' = TRUE
    /\ UNCHANGED <<spc, child, port, cancelled>>

\* Faulty variant: Close cancels and does not wait for the child.
StartClosedNoWait ==
    /\ spc = "closing" /\ kill
    /\ spc' = "failed" /\ Forget
    /\ UNCHANGED <<child, kill, cancelled>>

StartClosed ==
    /\ spc = "closing" /\ kill /\ child = "reaped"
    /\ spc' = "failed" /\ Forget
    /\ UNCHANGED <<child, kill, cancelled>>

StartStep ==
    \/ StartRefused \/ ProbeBinds \/ Exec \/ ExecFails
    \/ DialAnswers \/ DialFails \/ ReadyCheck \/ Poll \/ GiveUp
    \/ StartCloses \/ StartClosed

(***************************************************************************)
(* The child.  ExitOnForwardFailure makes it exit when the port is taken.  *)
(***************************************************************************)
ChildListens ==
    /\ child = "up" /\ port = "nobody"
    /\ child' = "listening" /\ port' = "child"
    /\ UNCHANGED <<spc, kill, cancelled>>

Exit ==
    /\ Alive
    /\ child' = "exited"
    /\ port' = IF port = "child" THEN "nobody" ELSE port
    /\ UNCHANGED <<spc, kill, cancelled>>

ChildExits == Exit

\* exec.CommandContext kills the child when its context is over.
ChildKilled == (kill \/ cancelled) /\ Exit

\* cmd.Wait returns, the containment is closed, tunnel.done is closed.
Reap ==
    /\ child = "exited" /\ child' = "reaped"
    /\ UNCHANGED <<spc, port, kill, cancelled>>

\* Another program takes the port that the probe found free.
OtherBinds ==
    /\ spc \in {"exec", "dial", "wait"}
    /\ port = "nobody" /\ port' = "other"
    /\ UNCHANGED <<spc, child, kill, cancelled>>

OtherLeaves ==
    /\ port = "other" /\ port' = "nobody"
    /\ UNCHANGED <<spc, child, kill, cancelled>>

BootStep ==
    \/ StartStep
    \/ ChildListens \/ ChildExits \/ ChildKilled \/ Reap
    \/ OtherBinds \/ OtherLeaves
=============================================================================
