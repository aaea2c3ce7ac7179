----------------------------- MODULE HostServe ------------------------------
(***************************************************************************)
(* `host serve` (cmd/cli/host_serve.go, internal/serve): the main goroutine*)
(* that starts the SSH bootstrap, the node and the published services, the *)
(* Supervisor that restarts the bootstrap, the watch of the node's control *)
(* session, and the Health that folds their reports into the readiness     *)
(* flag.  The connections are the subject of AcceptLoop.                   *)
(*                                                                         *)
(* tsnet, its IPN bus and the machine are the environment.                 *)
(***************************************************************************)
EXTENDS Integers, Sequences, SSHBootstrap

CONSTANTS
    Services,   \* the services of the host file
    MaxDelay,   \* defaults.DialBackoffMax in units of DialBackoffBase
    MaxBus,     \* bound: states that wait on the IPN bus
    NoOne

ASSUME BoundsAssumption == MaxDelay \in Nat \ {0} /\ MaxBus \in Nat \ {0}

Goroutines == {"main", "supervisor", "watch"}
ASSUME NoOneAssumption == NoOne \notin Goroutines

VARIABLES
    hasBoot,  \* host.mesh declares bootstrap_ssh
    mpc,      \* where the main goroutine is
    ret,      \* what runHostServe is going to return: "nil" or "err"
    ctx,      \* TRUE: a signal ended the command's context
    node,     \* "down", "up", "closed"
    open,     \* the services whose listener is open
    loops,    \* the services whose accept loop runs
    http,     \* the health server answers
    sup,      \* the Supervisor's goroutine
    delay,    \* restart's delay; 1 outside restart
    session,  \* the node's backend state is Running
    bus,      \* the states NodeStates will deliver; the oldest first
    busOpen,  \* the IPN bus works
    wpc,      \* WatchControlSession: "off", "watch", "report", "lost", "done"
    seen,     \* what a running watch reported last: "none", "up", "down"
    call,     \* call[g]: the call of Health.Up or Health.Down goroutine g is in
    mutex,    \* Health.mu
    down,     \* Health.down: the sources that are down
    ready,    \* TunnelStatus.ready
    reason    \* TunnelStatus.reason, as the source it stands for

mainVars == <<mpc, ret>>
pubVars == <<node, open, loops, http>>
supVars == <<sup, delay>>
busVars == <<session, bus, busOpen>>
watchVars == <<wpc, seen>>
healthVars == <<call, mutex, down, ready, reason>>
vars == <<hasBoot, ctx, mainVars, pubVars, supVars, busVars, watchVars, healthVars, bootVars>>

Sources == {"serve", "bootstrap", "control"}
Idle == [op |-> "none", source |-> "serve", step |-> "lock", found |-> {}]
Calls == [op : {"none", "up", "down"}, source : Sources, step : {"lock", "store"}, found : SUBSET Sources]

TypeOK ==
    /\ BootTypeOK
    /\ hasBoot \in BOOLEAN
    /\ mpc \in {"start", "boot", "proxy", "unproxy", "node", "publish", "loops", "watch", "up",
                "marking", "health", "serving", "http", "unpublish", "closenode", "stop",
                "join", "exit"}
    /\ ret \in {"nil", "err"} /\ ctx \in BOOLEAN
    /\ node \in {"down", "up", "closed"}
    /\ open \subseteq Services /\ loops \subseteq Services
    /\ http \in BOOLEAN
    /\ sup \in {"off", "watch", "downing", "sleep", "starting", "upping",
                "closing", "done"}
    /\ delay \in 1..MaxDelay
    /\ session \in BOOLEAN /\ bus \in Seq(BOOLEAN) /\ Len(bus) <= MaxBus /\ busOpen \in BOOLEAN
    /\ wpc \in {"off", "watch", "report", "lost", "done"} /\ seen \in {"none", "up", "down"}
    /\ call \in [Goroutines -> Calls]
    /\ mutex \in Goroutines \cup {NoOne}
    /\ down \subseteq Sources
    /\ ready \in BOOLEAN /\ reason \in Sources \cup {""}

Init ==
    /\ BootInit
    /\ hasBoot \in BOOLEAN
    /\ mpc = "start" /\ ret = "nil" /\ ctx = FALSE
    /\ node = "down" /\ open = {} /\ loops = {} /\ http = FALSE
    /\ sup = "off" /\ delay = 1
    /\ session = FALSE /\ bus = <<>> /\ busOpen = FALSE
    /\ wpc = "off" /\ seen = "none"
    /\ call = [g \in Goroutines |-> Idle] /\ mutex = NoOne
    /\ down = {} /\ ready = FALSE /\ reason = ""

(***************************************************************************)
(* Health.Up and Health.Down: take the mutex and change the map, then      *)
(* store() writes what it found there to TunnelStatus.  The goroutine goes *)
(* on when call[g] is Idle again.                                          *)
(***************************************************************************)
Call(g, op, source) ==
    call' = [call EXCEPT ![g] = [op |-> op, source |-> source, step |-> "lock", found |-> {}]]
Free(g) == call[g] = Idle

\* The first of the sorted sources that are down.
First(sources) == IF "bootstrap" \in sources THEN "bootstrap"
                  ELSE IF "control" \in sources THEN "control"
                  ELSE IF sources = {} THEN "" ELSE "serve"

Changed(g) == IF call[g].op = "down" THEN down \cup {call[g].source}
              ELSE down \ {call[g].source}

\* Faulty variant: Health without its mutex.
HealthLockNone(g) ==
    /\ call[g].op # "none" /\ call[g].step = "lock"
    /\ mutex' = g /\ down' = Changed(g)
    /\ call' = [call EXCEPT ![g].step = "store", ![g].found = Changed(g)]
    /\ UNCHANGED <<ready, reason>>

HealthLock(g) ==
    /\ call[g].op # "none" /\ call[g].step = "lock" /\ mutex = NoOne
    /\ mutex' = g /\ down' = Changed(g)
    /\ call' = [call EXCEPT ![g].step = "store", ![g].found = Changed(g)]
    /\ UNCHANGED <<ready, reason>>

HealthStore(g) ==
    /\ call[g].op # "none" /\ call[g].step = "store"
    /\ ready' = (call[g].found = {}) /\ reason' = First(call[g].found)
    /\ call' = [call EXCEPT ![g] = Idle]
    /\ mutex' = NoOne
    /\ UNCHANGED down

HealthStep(g) ==
    /\ HealthLock(g) \/ HealthStore(g)
    /\ UNCHANGED <<hasBoot, ctx, mainVars, pubVars, supVars, busVars, watchVars, bootVars>>

(***************************************************************************)
(* runHostServe and startServeBootstrap.                                   *)
(***************************************************************************)
Main(from, to) == mpc = from /\ mpc' = to
Fail(from, to) == Main(from, to) /\ ret' = "err"

StartWithout ==
    /\ ~hasBoot /\ Main("start", "node")
    /\ UNCHANGED <<ctx, ret, pubVars, supVars, busVars, watchVars, healthVars, bootVars>>

StartBootstrap ==
    /\ hasBoot /\ Main("start", "boot")
    /\ StartCall
    /\ UNCHANGED <<ctx, ret, pubVars, supVars, busVars, watchVars, healthVars>>

BootstrapFailed ==
    /\ spc = "failed" /\ Fail("boot", "exit")
    /\ UNCHANGED <<ctx, pubVars, supVars, busVars, watchVars, healthVars, bootVars>>

BootstrapReady ==
    /\ spc = "ready" /\ Main("boot", "proxy")
    /\ UNCHANGED <<ctx, ret, pubVars, supVars, busVars, watchVars, healthVars, bootVars>>

\* ConfigureControlProxy, then `go sup.Run(runCtx, tunnel)`.
ProxyConfigured ==
    /\ Main("proxy", "node")
    /\ spc' = "idle" /\ sup' = "watch"
    /\ UNCHANGED <<ctx, ret, pubVars, delay, busVars, watchVars, healthVars,
                   child, port, kill, cancelled>>

ProxyFails ==
    /\ Fail("proxy", "unproxy")
    /\ kill' = TRUE
    /\ UNCHANGED <<ctx, pubVars, supVars, busVars, watchVars, healthVars,
                   spc, child, port, cancelled>>

ProxyFailed ==
    /\ child = "reaped" /\ Main("unproxy", "exit")
    /\ UNCHANGED <<ctx, ret, pubVars, supVars, busVars, watchVars, healthVars, bootVars>>

(***************************************************************************)
(* runServeNode.                                                           *)
(***************************************************************************)
NodeUp ==
    /\ Main("node", "publish")
    /\ node' = "up" /\ session' = TRUE
    /\ UNCHANGED <<ctx, ret, open, loops, http, supVars, bus, busOpen, watchVars, healthVars,
                   bootVars>>

NodeUntagged ==
    /\ Fail("node", "closenode")
    /\ node' = "up"
    /\ UNCHANGED <<ctx, open, loops, http, supVars, busVars, watchVars, healthVars, bootVars>>

\* Up fails, by itself, by its timeout or because a signal came.
NodeFails ==
    /\ Main("node", "stop")
    /\ node' = "closed"
    /\ ret' = IF ctx THEN "nil" ELSE "err"
    /\ UNCHANGED <<ctx, open, loops, http, supVars, busVars, watchVars, healthVars, bootVars>>

\* Publish; the order of the services is left open.
Listen(s) ==
    /\ mpc = "publish" /\ s \in Services \ open
    /\ open' = open \cup {s}
    /\ UNCHANGED <<ctx, mainVars, node, loops, http, supVars, busVars, watchVars, healthVars,
                   bootVars>>

ListenFails ==
    /\ open # Services /\ Fail("publish", "closenode")
    /\ open' = {}
    /\ UNCHANGED <<ctx, node, loops, http, supVars, busVars, watchVars, healthVars, bootVars>>

StartLoops ==
    /\ open = Services /\ Main("publish", "watch")
    /\ loops' = Services
    /\ UNCHANGED <<ctx, ret, node, open, http, supVars, busVars, watchVars, healthVars, bootVars>>

\* watchServeControl: NotifyInitialState puts the current state on the bus first.
WatchStarts ==
    /\ Main("watch", "up")
    /\ wpc' = "watch" /\ busOpen' = TRUE /\ bus' = <<session>>
    /\ UNCHANGED <<ctx, ret, pubVars, supVars, session, seen, healthVars, bootVars>>

WatchUnavailable ==
    /\ Main("watch", "up")
    /\ UNCHANGED <<ctx, ret, pubVars, supVars, busVars, watchVars, healthVars, bootVars>>

MarkUp ==
    /\ Main("up", "marking")
    /\ Call("main", "up", "serve")
    /\ UNCHANGED <<ctx, ret, pubVars, supVars, busVars, watchVars, mutex, down, ready, reason,
                   bootVars>>

MarkedUp ==
    /\ Free("main") /\ Main("marking", "health")
    /\ UNCHANGED <<ctx, ret, pubVars, supVars, busVars, watchVars, healthVars, bootVars>>

\* The health server and READY.  Without a health_addr, or when the server cannot
\* bind (it only logs that), nobody asks; nothing else changes.
StartHealth ==
    /\ Main("health", "serving")
    /\ http' = TRUE
    /\ UNCHANGED <<ctx, ret, node, open, loops, supVars, busVars, watchVars, healthVars, bootVars>>

ServingEnds ==
    /\ ctx /\ Main("serving", "http")
    /\ UNCHANGED <<ctx, ret, pubVars, supVars, busVars, watchVars, healthVars, bootVars>>

(***************************************************************************)
(* The deferred calls, last in first out.                                  *)
(***************************************************************************)
ShutdownHealth ==
    /\ Main("http", "unpublish")
    /\ http' = FALSE
    /\ UNCHANGED <<ctx, ret, node, open, loops, supVars, busVars, watchVars, healthVars, bootVars>>

CloseListeners ==
    /\ mpc = "unpublish" /\ open # {}
    /\ open' = {}
    /\ UNCHANGED <<ctx, mainVars, node, loops, http, supVars, busVars, watchVars, healthVars,
                   bootVars>>

LoopReturns(s) ==
    /\ s \in loops \ open
    /\ loops' = loops \ {s}
    /\ UNCHANGED <<ctx, mainVars, node, open, http, supVars, busVars, watchVars, healthVars,
                   bootVars>>

Unpublished ==
    /\ open = {} /\ loops = {} /\ Main("unpublish", "closenode")
    /\ UNCHANGED <<ctx, ret, pubVars, supVars, busVars, watchVars, healthVars, bootVars>>

CloseNode ==
    /\ Main("closenode", "stop")
    /\ node' = "closed" /\ busOpen' = FALSE /\ bus' = <<>>
    /\ UNCHANGED <<ctx, ret, open, loops, http, supVars, session, watchVars, healthVars, bootVars>>

\* Faulty variant: stopBootstrap cancels and does not wait.
StopBootstrapNoWait ==
    /\ Main("stop", "exit")
    /\ cancelled' = TRUE
    /\ UNCHANGED <<ctx, ret, pubVars, supVars, busVars, watchVars, healthVars,
                   spc, child, port, kill>>

\* Faulty variant: it waits for a Supervisor that nobody told to stop.
StopBootstrapUncancelled ==
    /\ Main("stop", IF hasBoot THEN "join" ELSE "exit")
    /\ UNCHANGED <<ctx, ret, pubVars, supVars, busVars, watchVars, healthVars, bootVars>>

\* stopBootstrap: cancel the Supervisor's context, then wait for it.
StopBootstrap ==
    /\ Main("stop", IF hasBoot THEN "join" ELSE "exit")
    /\ cancelled' = TRUE
    /\ UNCHANGED <<ctx, ret, pubVars, supVars, busVars, watchVars, healthVars,
                   spc, child, port, kill>>

Join ==
    /\ sup = "done" /\ Main("join", "exit")
    /\ UNCHANGED <<ctx, ret, pubVars, supVars, busVars, watchVars, healthVars, bootVars>>

MainStep ==
    \/ StartWithout \/ StartBootstrap \/ BootstrapFailed \/ BootstrapReady
    \/ ProxyConfigured \/ ProxyFails \/ ProxyFailed
    \/ NodeUp \/ NodeUntagged \/ NodeFails
    \/ (\E s \in Services : Listen(s)) \/ ListenFails \/ StartLoops
    \/ WatchStarts \/ WatchUnavailable \/ MarkUp \/ MarkedUp \/ StartHealth \/ ServingEnds
    \/ ShutdownHealth \/ CloseListeners \/ Unpublished \/ CloseNode \/ StopBootstrap \/ Join

(***************************************************************************)
(* Supervisor.Run and restart.                                             *)
(***************************************************************************)
\* ctx.Done chosen: running.Close cancels the child and waits for it.
SupCancelled ==
    /\ sup = "watch" /\ cancelled
    /\ sup' = "closing" /\ kill' = TRUE
    /\ UNCHANGED <<ctx, mainVars, pubVars, delay, busVars, watchVars, healthVars,
                   spc, child, port, cancelled>>

SupClosed ==
    /\ sup = "closing" /\ child = "reaped"
    /\ sup' = "done"
    /\ UNCHANGED <<ctx, mainVars, pubVars, delay, busVars, watchVars, healthVars, bootVars>>

\* running.Done chosen: an outage, unless the context is over as well.
SupSeesExit ==
    /\ sup = "watch" /\ child = "reaped"
    /\ IF cancelled
       THEN sup' = "done" /\ UNCHANGED call
       ELSE sup' = "downing" /\ Call("supervisor", "down", "bootstrap")
    /\ UNCHANGED <<ctx, mainVars, pubVars, delay, busVars, watchVars,
                   mutex, down, ready, reason, bootVars>>

\* Down returned; running.Close finds the child gone; restart begins.
SupReleases ==
    /\ sup = "downing" /\ Free("supervisor") /\ child = "reaped"
    /\ sup' = "sleep" /\ kill' = TRUE
    /\ UNCHANGED <<ctx, mainVars, pubVars, delay, busVars, watchVars, healthVars,
                   spc, child, port, cancelled>>

SupSleepCancelled ==
    /\ sup = "sleep" /\ cancelled
    /\ sup' = "done" /\ delay' = 1
    /\ UNCHANGED <<ctx, mainVars, pubVars, busVars, watchVars, healthVars, bootVars>>

SupStarts ==
    /\ sup = "sleep"
    /\ sup' = "starting" /\ StartCall
    /\ UNCHANGED <<ctx, mainVars, pubVars, delay, busVars, watchVars, healthVars>>

SupStartFailed ==
    /\ sup = "starting" /\ spc = "failed"
    /\ sup' = "sleep" /\ spc' = "idle"
    /\ delay' = IF delay * 2 < MaxDelay THEN delay * 2 ELSE MaxDelay
    /\ UNCHANGED <<ctx, mainVars, pubVars, busVars, watchVars, healthVars,
                   child, port, kill, cancelled>>

\* Faulty variant: the new tunnel is watched, and never reported up.
SupStartedQuietly ==
    /\ sup = "starting" /\ spc = "ready"
    /\ sup' = "upping" /\ spc' = "idle" /\ delay' = 1
    /\ UNCHANGED <<ctx, mainVars, pubVars, busVars, watchVars, healthVars,
                   child, port, kill, cancelled>>

SupStarted ==
    /\ sup = "starting" /\ spc = "ready"
    /\ sup' = "upping" /\ spc' = "idle"
    /\ Call("supervisor", "up", "bootstrap")
    /\ delay' = 1
    /\ UNCHANGED <<ctx, mainVars, pubVars, busVars, watchVars,
                   mutex, down, ready, reason, child, port, kill, cancelled>>

SupUp ==
    /\ sup = "upping" /\ Free("supervisor")
    /\ sup' = "watch"
    /\ UNCHANGED <<ctx, mainVars, pubVars, delay, busVars, watchVars, healthVars, bootVars>>

SupStep ==
    \/ SupCancelled \/ SupClosed \/ SupSeesExit \/ SupReleases
    \/ SupSleepCancelled \/ SupStarts \/ SupStartFailed \/ SupStarted \/ SupUp

(***************************************************************************)
(* NodeStates and WatchControlSession.  A state is TRUE when it is Running.*)
(***************************************************************************)
Reported(up) == seen = (IF up THEN "up" ELSE "down")

\* Only a change is reported.
WatchReceives ==
    /\ wpc = "watch" /\ bus # <<>>
    /\ bus' = Tail(bus)
    /\ LET up == Head(bus) IN
       IF Reported(up)
       THEN UNCHANGED <<wpc, seen, call>>
       ELSE /\ wpc' = "report"
            /\ seen' = IF up THEN "up" ELSE "down"
            /\ Call("watch", IF up THEN "up" ELSE "down", "control")
    /\ UNCHANGED <<ctx, mainVars, pubVars, supVars, session, busOpen, mutex, down, ready, reason,
                   bootVars>>

WatchReported ==
    /\ wpc = "report" /\ Free("watch")
    /\ wpc' = "watch"
    /\ UNCHANGED <<ctx, mainVars, pubVars, supVars, busVars, seen, healthVars, bootVars>>

\* Faulty variant: the end of the bus ends the watch and nothing else.
WatchLostQuietly ==
    /\ wpc = "watch" /\ ~busOpen
    /\ wpc' = "done" /\ seen' = "none"
    /\ UNCHANGED <<ctx, mainVars, pubVars, supVars, busVars, healthVars, bootVars>>

\* The channel is closed: the session can no longer be seen.
WatchLost ==
    /\ wpc = "watch" /\ ~busOpen
    /\ wpc' = "done" /\ seen' = "none"
    /\ IF ctx THEN UNCHANGED call ELSE Call("watch", "down", "control")
    /\ UNCHANGED <<ctx, mainVars, pubVars, supVars, busVars, mutex, down, ready, reason,
                   bootVars>>

WatchCancelled ==
    /\ wpc = "watch" /\ ctx
    /\ wpc' = "done" /\ seen' = "none"
    /\ UNCHANGED <<ctx, mainVars, pubVars, supVars, busVars, healthVars, bootVars>>

WatchStep == WatchReceives \/ WatchReported \/ WatchLost \/ WatchCancelled

(***************************************************************************)
(* The world.                                                              *)
(***************************************************************************)
Signal ==
    /\ ~ctx /\ mpc # "start"
    /\ ctx' = TRUE /\ cancelled' = TRUE
    /\ UNCHANGED <<mainVars, pubVars, supVars, busVars, watchVars, healthVars,
                   spc, child, port, kill>>

\* Told apart only where somebody looks: when the watch starts, and on its bus.
SessionChanges ==
    /\ mpc = "watch" \/ (busOpen /\ ~ctx)
    /\ Len(bus) < MaxBus
    /\ session' = ~session
    /\ bus' = IF busOpen THEN Append(bus, ~session) ELSE bus
    /\ UNCHANGED <<ctx, mainVars, pubVars, supVars, busOpen, watchVars, healthVars, bootVars>>

BusFails ==
    /\ busOpen /\ ~ctx
    /\ busOpen' = FALSE /\ bus' = <<>>
    /\ UNCHANGED <<ctx, mainVars, pubVars, supVars, session, watchVars, healthVars, bootVars>>

Tunnel(A) ==
    A /\ UNCHANGED <<ctx, mainVars, pubVars, supVars, busVars, watchVars, healthVars>>

\* The process lives, and its configuration does not change.
Running == mpc # "exit" /\ UNCHANGED hasBoot

Exited == mpc = "exit" /\ UNCHANGED vars

Next ==
    \/ /\ Running
       /\ \/ MainStep \/ SupStep \/ WatchStep \/ Tunnel(BootStep)
          \/ \E g \in Goroutines : HealthStep(g)
          \/ \E s \in Services : LoopReturns(s)
          \/ Signal \/ SessionChanges \/ BusFails
    \/ Exited

Spec == Init /\ [][Next]_vars

(***************************************************************************)
(* Fairness.  Goroutines run, timers fire, a killed child dies and is      *)
(* waited for.  Strong fairness stands for two guarantees of Go (a select  *)
(* does not neglect a ready case for ever, a mutex starves nobody) and for *)
(* the ready timeout: a start that polls for ever is cut off.              *)
(***************************************************************************)
FairSpec ==
    /\ Spec
    /\ WF_vars(Running /\ MainStep)
    /\ WF_vars(Running /\ SupStep) /\ SF_vars(Running /\ SupSleepCancelled)
    /\ WF_vars(Running /\ WatchStep)
    /\ WF_vars(Running /\ Tunnel(StartStep)) /\ SF_vars(Running /\ Tunnel(GiveUp))
    /\ WF_vars(Running /\ Tunnel(ChildKilled \/ Reap))
    /\ WF_vars(Running /\ \E s \in Services : LoopReturns(s))
    /\ WF_vars(Running /\ \E g \in Goroutines : HealthStep(g))
    /\ SF_vars(Running /\ HealthStep("watch"))

(***************************************************************************)
(* Properties.                                                             *)
(***************************************************************************)
\* Health, "ready when no source is down, otherwise not ready with the first down
\* source's reason": whenever no goroutine is inside Up or Down, the two atomics
\* say what the map says, whichever reports raced.  HOST-008 AC4: while the
\* Supervisor waits for or makes a restart, the outage is among the sources.
HealthIsFold ==
    /\ (\A g \in Goroutines : call[g].step = "lock") /\ mpc \in {"health", "serving"} =>
            /\ ready = (down = {})
            /\ reason = First(down)
    /\ sup \in {"sleep", "starting"} => "bootstrap" \in down

\* Supervisor.Run, "Release the dead tunnel (its SOCKS listener, its child) before
\* the next": a new ssh is never started, and the port never probed, while an
\* earlier child lives, also after a start that failed half way.
OneChildAtATime == spc \in {"bind", "exec"} => ~Alive /\ port # "child"

\* startServeBootstrap, "The returned func stops the supervisor and closes the
\* tunnel": on every way out the child has been waited for, the Supervisor is
\* gone, the health server, the listeners and the node are closed.
NothingOutlivesServe ==
    mpc = "exit" =>
        /\ child \in {"none", "reaped"} /\ sup \in {"off", "done"}
        /\ node # "up" /\ open = {} /\ loops = {} /\ ~http

\* A signal, or a failed start, ends the process: also in the middle of a restart
\* of the bootstrap, with an ssh that hangs.
ServeEnds == <>[](ctx \/ ret = "err") => <>[](mpc = "exit")

\* WatchControlSession, "this only makes /health/ready say so": a control session
\* that stays lost, or can no longer be seen, ends in not ready for good.
LossShows ==
    <>[](mpc = "serving" /\ wpc # "off" /\ (~session \/ ~busOpen)) => <>[](~ready)

\* And back: with the session up and the bootstrap restarted, serve is ready again.
RecoveryShows ==
    <>[](mpc = "serving" /\ session /\ (busOpen \/ wpc = "off") /\ sup \in {"off", "watch"})
        => <>[]ready
=============================================================================
