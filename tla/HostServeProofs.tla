-------------------------- MODULE HostServeProofs ---------------------------
(***************************************************************************)
(* Proofs about HostServe, for every set of services, every limit of the   *)
(* restart delay and every backlog of the IPN bus.                         *)
(***************************************************************************)
EXTENDS HostServe, TLAPS

(***************************************************************************)
(* The inductive invariant.                                                *)
(***************************************************************************)
\* TypeOK, in the parts the provers take separately.
FlagsTyped ==
    /\ hasBoot \in BOOLEAN /\ ctx \in BOOLEAN /\ http \in BOOLEAN /\ session \in BOOLEAN
    /\ busOpen \in BOOLEAN /\ ready \in BOOLEAN /\ kill \in BOOLEAN /\ cancelled \in BOOLEAN
BusTyped == bus \in Seq(BOOLEAN) /\ Len(bus) <= MaxBus
StepsTyped ==
    /\ spc \in {"idle", "bind", "exec", "dial", "check", "wait", "closing", "failed", "ready"}
    /\ child \in {"none", "up", "listening", "exited", "reaped"}
    /\ port \in {"nobody", "child", "other"}
    /\ mpc \in {"start", "boot", "proxy", "unproxy", "node", "publish", "loops", "watch", "up",
                "marking", "health", "serving", "http", "unpublish", "closenode", "stop",
                "join", "exit"}
    /\ ret \in {"nil", "err"} /\ node \in {"down", "up", "closed"}
    /\ sup \in {"off", "watch", "downing", "sleep", "starting", "upping", "closing", "done"}
    /\ wpc \in {"off", "watch", "report", "lost", "done"} /\ seen \in {"none", "up", "down"}
SetsTyped ==
    /\ open \subseteq Services /\ loops \subseteq Services /\ delay \in 1..MaxDelay
    /\ call \in [Goroutines -> Calls] /\ mutex \in Goroutines \cup {NoOne}
    /\ down \subseteq Sources /\ reason \in Sources \cup {""}

\* The child and start: the port is the child's exactly while it listens, and a
\* start that has not run ssh yet, or has failed, leaves no child behind.
Gone == {"none", "reaped"}
StartFindsNoChild ==
    /\ port = "child" <=> child = "listening"
    /\ spc \in {"bind", "exec", "failed"} => child \in Gone

\* Who starts the bootstrap: first the main goroutine, then the Supervisor only,
\* and nobody when the host file has no bootstrap_ssh.
Starting == {"boot", "proxy", "unproxy"}
StartHasOneCaller ==
    /\ spc # "idle" => mpc \in Starting \cup {"exit"} \/ sup = "starting"
    /\ mpc \in Starting => hasBoot
    /\ mpc \in Starting \cup {"start"} \/ ~hasBoot => sup = "off"
    /\ mpc = "start" \/ ~hasBoot => child = "none"
    /\ sup \in {"downing", "sleep", "done"} => child \in Gone
    /\ mpc = "exit" => child \in Gone /\ sup \in {"off", "done"}

\* What runServeNode has opened at each of its steps, and its deferred calls close.
Published == {"publish", "watch", "up", "marking", "health", "serving", "http", "unpublish"}
ServingFollowsMain ==
    /\ mpc \in Starting \cup {"start", "node", "stop", "join", "exit"} => node # "up"
    /\ mpc \notin Published => open = {}
    /\ mpc \notin Published \ {"publish"} => loops = {}
    /\ mpc \notin {"serving", "http"} => ~http

\* Health.mu: the goroutine between its change of the map and its store holds the
\* mutex, so the map is still what it found.
StoreHoldsMutex ==
    \A g \in Goroutines :
        /\ call[g].step = "store" <=> mutex = g
        /\ call[g].step = "store" => call[g].found = down

\* A goroutine makes one call at a time, and each source has one reporter.
BeforeMark == Starting \cup {"start", "node", "publish", "watch", "up"}
ReportersWait ==
    /\ mpc \in BeforeMark => Free("main")
    /\ sup \in {"off", "watch", "sleep", "starting"} => Free("supervisor")
    /\ wpc \in {"off", "watch"} => Free("watch")
    /\ mpc \in BeforeMark \ {"up"} => wpc = "off"
    /\ call["main"].source # "bootstrap" /\ call["watch"].source # "bootstrap"

\* The outage is in the map before the Supervisor begins to restart, and stays.
OutageReported ==
    /\ sup = "downing" =>
         \/ "bootstrap" \in down /\ call["supervisor"].op # "up"
         \/ call["supervisor"] = [op |-> "down", source |-> "bootstrap", step |-> "lock",
                                  found |-> {}]
    /\ sup \in {"sleep", "starting"} => "bootstrap" \in down

\* With the mutex free the two atomics are the fold of the map, from the first
\* store of the main goroutine on.
FoldIsStored ==
    mutex = NoOne /\ (mpc \in {"health", "serving"} \/ (mpc = "marking" /\ Free("main"))) =>
        ready = (down = {}) /\ reason = First(down)

TypePart == FlagsTyped /\ BusTyped /\ StepsTyped /\ SetsTyped
ProcessPart == StartFindsNoChild /\ StartHasOneCaller
HealthPart == StoreHoldsMutex /\ ReportersWait /\ OutageReported /\ FoldIsStored
ServeInv == TypePart /\ ProcessPart /\ ServingFollowsMain /\ HealthPart

----------------------------------------------------------------------------
\* The IPN bus as a queue: empty, of one state, with one more, with the oldest taken.
LEMMA QueueFacts ==
    ASSUME NEW S
    PROVE  /\ << >> \in Seq(S) /\ Len(<< >>) = 0
           /\ \A e \in S : <<e>> \in Seq(S) /\ Len(<<e>>) = 1
           /\ \A q \in Seq(S), e \in S : Append(q, e) \in Seq(S) /\ Len(Append(q, e)) = Len(q) + 1
           /\ \A q \in Seq(S) : q # << >> =>
                 Head(q) \in S /\ Tail(q) \in Seq(S) /\ Len(Tail(q)) = Len(q) - 1 /\ Len(q) > 0
  OBVIOUS

\* The length of the queue of states on the IPN bus is a natural number.
LEMMA LenIsNat == ASSUME NEW S, NEW q \in Seq(S) PROVE Len(q) \in Nat
  OBVIOUS

\* What the bus becomes in a step that does not read it: NodeStates starts with the
\* current state, ends, or gets one more state while there is room.
LEMMA BusStaysTyped ==
    ASSUME FlagsTyped, BusTyped,
           \/ bus' = bus \/ bus' = << >> \/ bus' = <<session>>
           \/ bus # << >> /\ bus' = Tail(bus)
           \/ Len(bus) < MaxBus /\ bus' = Append(bus, ~session)
    PROVE  BusTyped'
<1>0. bus \in Seq(BOOLEAN) /\ Len(bus) <= MaxBus /\ session \in BOOLEAN /\ (~session) \in BOOLEAN
  BY Zenon DEF FlagsTyped, BusTyped
<1>1. bus' \in Seq(BOOLEAN)
  BY <1>0, QueueFacts, Zenon
<1>2. Len(bus) \in Nat
  BY <1>0, LenIsNat, Zenon
<1>3. \/ Len(bus') \in {Len(bus), 0, 1}
      \/ Len(bus) > 0 /\ Len(bus') = Len(bus) - 1
      \/ Len(bus) < MaxBus /\ Len(bus') = Len(bus) + 1
  <2>1. CASE bus' = bus \/ bus' = << >> \/ bus' = <<session>>
    BY <1>0, <2>1, QueueFacts, Zenon
  <2>2. CASE bus # << >> /\ bus' = Tail(bus)
    BY <1>0, <2>2, QueueFacts, Zenon
  <2>3. CASE Len(bus) < MaxBus /\ bus' = Append(bus, ~session)
    BY <1>0, <2>3, QueueFacts, Zenon
  <2> QED
    BY <2>1, <2>2, <2>3, Zenon
<1>4. Len(bus') <= MaxBus
  <2>1. PICK n \in Nat : n = Len(bus)
    BY <1>2, Zenon
  <2>2. PICK m : m = Len(bus')
    BY Zenon
  <2>3. n <= MaxBus /\ (m \in {n, 0, 1} \/ (n > 0 /\ m = n - 1) \/ (n < MaxBus /\ m = n + 1))
    BY <1>0, <1>3, <2>1, <2>2, Zenon
  <2>4. m <= MaxBus
    BY <2>3, BoundsAssumption, SMT
  <2> QED
    BY <2>2, <2>4, Zenon
<1> QED
  BY <1>1, <1>4, Zenon DEF BusTyped

\* host serve begins with nothing started, opened or reported.
LEMMA ServeInit == Init => ServeInv
<1> SUFFICES ASSUME Init PROVE ServeInv
  OBVIOUS
<1>1. FlagsTyped /\ ~http
  BY Zenon DEF Init, BootInit, FlagsTyped
<1>2. /\ mpc = "start" /\ ret = "nil" /\ node = "down" /\ open = {} /\ loops = {} /\ sup = "off"
      /\ delay = 1 /\ bus = << >> /\ wpc = "off" /\ seen = "none"
      /\ call = [g \in Goroutines |-> Idle] /\ mutex = NoOne /\ down = {} /\ reason = ""
      /\ spc = "idle" /\ child = "none" /\ port = "nobody"
  BY Zenon DEF Init, BootInit
<1>3. BusTyped
  <2>1. 0 <= MaxBus
    BY BoundsAssumption
  <2> QED
    BY <1>2, <2>1, QueueFacts, Zenon DEF BusTyped
<1>4. Idle \in Calls
  BY DEF Idle, Calls, Sources
<1>5. StepsTyped /\ SetsTyped
  <2>1. StepsTyped
    BY <1>2 DEF StepsTyped
  <2>2. SetsTyped
    <3>1. call = [g \in Goroutines |-> Idle]
      BY <1>2, Zenon
    <3>2. call \in [Goroutines -> Calls]
      BY <1>4, <3>1
    <3>3. /\ open = {} /\ loops = {} /\ delay = 1 /\ mutex = NoOne /\ down = {} /\ reason = ""
      BY <1>2, Zenon
    <3>4. delay \in 1..MaxDelay
      <4>1. delay = 1
        BY <3>3, Zenon
      <4> QED
        BY <4>1, BoundsAssumption
    <3> QED
      BY <3>2, <3>3, <3>4, Zenon DEF SetsTyped
  <2> QED
    BY <2>1, <2>2, Zenon
<1>6. ProcessPart /\ ServingFollowsMain
  BY <1>1, <1>2 DEF ProcessPart, StartFindsNoChild, StartHasOneCaller, ServingFollowsMain, Gone,
                    Starting, Published
<1>7. \A g \in Goroutines : call[g] = Idle
  BY <1>2
<1>8. HealthPart
  BY <1>2, <1>7, NoOneAssumption DEF HealthPart, StoreHoldsMutex, ReportersWait, OutageReported,
       FoldIsStored, Free, Idle, Goroutines
<1> QED
  BY <1>1, <1>3, <1>5, <1>6, <1>8 DEF ServeInv, TypePart

\* startServeBootstrap: the first start of the bootstrap and its failures.
LEMMA BootstrapKeepsInv ==
    ASSUME ServeInv, Running,
           \/ StartWithout \/ StartBootstrap \/ BootstrapFailed \/ BootstrapReady
           \/ ProxyConfigured \/ ProxyFails \/ ProxyFailed
    PROVE  ServeInv'
<1> USE DEF StartWithout, StartBootstrap, BootstrapFailed, BootstrapReady, ProxyConfigured,
            ProxyFails, ProxyFailed, StartCall, Main, Fail, Running, mainVars, pubVars,
            supVars, busVars, watchVars, healthVars, bootVars, ServeInv, TypePart
<1>1. FlagsTyped'
  BY ZenonT(60) DEF FlagsTyped
<1>2. BusTyped'
  BY BusStaysTyped, Zenon
<1>3. StepsTyped' /\ SetsTyped'
  <2>1. StepsTyped'
    BY DEF StepsTyped
  <2>2. SetsTyped'
    BY DEF SetsTyped
  <2> QED
    BY <2>1, <2>2, Zenon
<1>4. ProcessPart'
  BY DEF ProcessPart, StartFindsNoChild, StartHasOneCaller, Gone, Starting
<1>5. ServingFollowsMain'
  BY DEF ServingFollowsMain, Published, Starting
<1>6. HealthPart'
  BY DEF HealthPart, StoreHoldsMutex, ReportersWait, OutageReported, FoldIsStored, Free,
         ProcessPart, StartHasOneCaller, Starting, BeforeMark
<1> QED
  BY <1>1, <1>2, <1>3, <1>4, <1>5, <1>6

\* runServeNode: the node comes up, or not, and the services are published.
LEMMA NodeKeepsInv ==
    ASSUME ServeInv, Running,
           \/ NodeUp \/ NodeUntagged \/ NodeFails \/ ListenFails
           \/ StartLoops \/ (\E s \in Services : Listen(s))
    PROVE  ServeInv'
<1> USE DEF NodeUp, NodeUntagged, NodeFails, ListenFails, StartLoops, Listen, Main, Fail,
            Running, mainVars, pubVars, supVars, busVars, watchVars, healthVars, bootVars,
            ServeInv, TypePart
<1>1. FlagsTyped'
  BY ZenonT(60) DEF FlagsTyped
<1>2. BusTyped'
  BY BusStaysTyped, Zenon
<1>3. StepsTyped' /\ SetsTyped'
  <2>1. StepsTyped'
    BY DEF StepsTyped
  <2>2. SetsTyped'
    BY DEF SetsTyped
  <2> QED
    BY <2>1, <2>2, Zenon
<1>4. ProcessPart'
  BY DEF ProcessPart, StartFindsNoChild, StartHasOneCaller, Gone, Starting
<1>5. ServingFollowsMain'
  BY DEF ServingFollowsMain, Published, Starting
<1>6. HealthPart'
  BY DEF HealthPart, StoreHoldsMutex, ReportersWait, OutageReported, FoldIsStored, Free,
         ProcessPart, StartHasOneCaller, Starting, BeforeMark
<1> QED
  BY <1>1, <1>2, <1>3, <1>4, <1>5, <1>6

\* The watch starts, the first report is over, serve answers until the signal.
LEMMA ServingKeepsInv ==
    ASSUME ServeInv, Running,
           \/ WatchStarts \/ WatchUnavailable \/ MarkedUp \/ StartHealth
           \/ ServingEnds
    PROVE  ServeInv'
<1> USE DEF WatchStarts, WatchUnavailable, MarkedUp, StartHealth, ServingEnds, Main, Fail,
            Running, mainVars, pubVars, supVars, busVars, watchVars, healthVars, bootVars,
            ServeInv, TypePart
<1>1. FlagsTyped'
  BY Zenon DEF FlagsTyped
<1>2. BusTyped'
  BY BusStaysTyped, Zenon
<1>3. StepsTyped' /\ SetsTyped'
  <2>1. StepsTyped'
    BY DEF StepsTyped
  <2>2. SetsTyped'
    BY DEF SetsTyped
  <2> QED
    BY <2>1, <2>2, Zenon
<1>4. ProcessPart'
  BY DEF ProcessPart, StartFindsNoChild, StartHasOneCaller, Gone, Starting
<1>5. ServingFollowsMain'
  BY DEF ServingFollowsMain, Published, Starting
<1>6. HealthPart'
  BY DEF HealthPart, StoreHoldsMutex, ReportersWait, OutageReported, FoldIsStored, Free,
         ProcessPart, StartHasOneCaller, Starting, BeforeMark
<1> QED
  BY <1>1, <1>2, <1>3, <1>4, <1>5, <1>6

\* The deferred calls, in their order, and the loops that end with their listeners.
LEMMA CloseKeepsInv ==
    ASSUME ServeInv, Running,
           \/ ShutdownHealth \/ CloseListeners \/ Unpublished \/ CloseNode
           \/ StopBootstrap \/ Join \/ (\E s \in Services : LoopReturns(s))
    PROVE  ServeInv'
<1> USE DEF ShutdownHealth, CloseListeners, Unpublished, CloseNode, StopBootstrap, Join,
            LoopReturns, Main, Fail, Running, mainVars, pubVars, supVars, busVars, watchVars,
            healthVars, bootVars, ServeInv, TypePart
<1>1. FlagsTyped'
  BY ZenonT(60) DEF FlagsTyped
<1>2. BusTyped'
  BY BusStaysTyped, Zenon
<1>3. StepsTyped' /\ SetsTyped'
  <2>1. StepsTyped'
    BY DEF StepsTyped
  <2>2. SetsTyped'
    BY DEF SetsTyped
  <2> QED
    BY <2>1, <2>2, Zenon
<1>4. ProcessPart'
  BY DEF ProcessPart, StartFindsNoChild, StartHasOneCaller, Gone, Starting
<1>5. ServingFollowsMain'
  BY DEF ServingFollowsMain, Published, Starting
<1>6. HealthPart'
  BY DEF HealthPart, StoreHoldsMutex, ReportersWait, OutageReported, FoldIsStored, Free,
         ProcessPart, StartHasOneCaller, Starting, BeforeMark
<1> QED
  BY <1>1, <1>2, <1>3, <1>4, <1>5, <1>6

\* Supervisor.Run and restart, where it does not report: it closes, sleeps, starts.
LEMMA QuietSupervisorKeepsInv ==
    ASSUME ServeInv, Running,
           \/ SupCancelled \/ SupClosed \/ SupReleases \/ SupSleepCancelled
           \/ SupStarts \/ SupStartFailed \/ SupUp
    PROVE  ServeInv'
<1> USE DEF SupCancelled, SupClosed, SupReleases, SupSleepCancelled, SupStarts, SupStartFailed,
            SupUp, StartCall, Main, Fail, Running, mainVars, pubVars, supVars, busVars,
            watchVars, healthVars, bootVars, ServeInv, TypePart
<1>1. FlagsTyped'
  BY ZenonT(60) DEF FlagsTyped
<1>2. BusTyped'
  BY BusStaysTyped, Zenon
<1>3. StepsTyped' /\ SetsTyped'
  <2>1. StepsTyped'
    BY DEF StepsTyped
  <2>2. SetsTyped'
    <3>1. delay \in 1..MaxDelay
      BY DEF SetsTyped
    <3>2. delay' \in {delay, 1, IF delay * 2 < MaxDelay THEN delay * 2 ELSE MaxDelay}
      BY Zenon
    <3>3. delay' \in 1..MaxDelay
      BY <3>1, <3>2, BoundsAssumption
    <3>4. UNCHANGED <<open, loops, call, mutex, down, reason>>
      OBVIOUS
    <3> QED
      BY <3>3, <3>4 DEF SetsTyped
  <2> QED
    BY <2>1, <2>2, Zenon
<1>4. ProcessPart'
  BY DEF ProcessPart, StartFindsNoChild, StartHasOneCaller, Gone, Starting
<1>5. ServingFollowsMain'
  BY DEF ServingFollowsMain, Published, Starting
<1>6. HealthPart'
  BY DEF HealthPart, StoreHoldsMutex, ReportersWait, OutageReported, FoldIsStored, Free, Idle,
         ProcessPart, StartHasOneCaller, Starting, BeforeMark
<1> QED
  BY <1>1, <1>2, <1>3, <1>4, <1>5, <1>6

\* The watch of the session where it does not report, and the node's IPN bus.
LEMMA QuietWatchKeepsInv ==
    ASSUME ServeInv, Running,
           \/ WatchReported \/ WatchCancelled \/ Signal \/ SessionChanges
           \/ BusFails
    PROVE  ServeInv'
<1> USE DEF WatchReported, WatchCancelled, Signal, SessionChanges, BusFails, Main, Fail,
            Running, mainVars, pubVars, supVars, busVars, watchVars, healthVars, bootVars,
            ServeInv, TypePart
<1>1. FlagsTyped'
  BY Zenon DEF FlagsTyped
<1>2. BusTyped'
  BY BusStaysTyped, Zenon
<1>3. StepsTyped' /\ SetsTyped'
  <2>1. StepsTyped'
    BY DEF StepsTyped
  <2>2. SetsTyped'
    BY DEF SetsTyped
  <2> QED
    BY <2>1, <2>2, Zenon
<1>4. ProcessPart'
  BY DEF ProcessPart, StartFindsNoChild, StartHasOneCaller, Gone, Starting
<1>5. ServingFollowsMain'
  BY DEF ServingFollowsMain, Published, Starting
<1>6. HealthPart'
  BY DEF HealthPart, StoreHoldsMutex, ReportersWait, OutageReported, FoldIsStored, Free,
         ProcessPart, StartHasOneCaller, Starting, BeforeMark
<1> QED
  BY <1>1, <1>2, <1>3, <1>4, <1>5, <1>6

\* bootstrapssh.start, by its own steps.
LEMMA StartKeepsInv ==
    ASSUME ServeInv, Running,
           \/ Tunnel(StartStep)
    PROVE  ServeInv'
<1> USE DEF Tunnel, StartStep, StartRefused, ProbeBinds, Exec, ExecFails,
            DialAnswers, DialFails, ReadyCheck, Poll, GiveUp, StartCloses, StartClosed, Forget,
            Main, Fail, Running, mainVars, pubVars, supVars, busVars, watchVars, healthVars,
            bootVars, ServeInv, TypePart
<1>1. FlagsTyped'
  BY Zenon DEF FlagsTyped
<1>2. BusTyped'
  BY BusStaysTyped, Zenon
<1>3. StepsTyped' /\ SetsTyped'
  <2>1. StepsTyped'
    BY DEF StepsTyped
  <2>2. SetsTyped'
    BY DEF SetsTyped
  <2> QED
    BY <2>1, <2>2, Zenon
<1>4. ProcessPart'
  BY DEF ProcessPart, StartFindsNoChild, StartHasOneCaller, Gone, Starting
<1>5. ServingFollowsMain'
  BY DEF ServingFollowsMain, Published, Starting
<1>6. HealthPart'
  BY DEF HealthPart, StoreHoldsMutex, ReportersWait, OutageReported, FoldIsStored, Free,
         ProcessPart, StartHasOneCaller, Starting, BeforeMark
<1> QED
  BY <1>1, <1>2, <1>3, <1>4, <1>5, <1>6

\* The ssh child listens, exits, is killed and waited for; another program takes the port.
LEMMA ChildKeepsInv ==
    ASSUME ServeInv, Running,
           \/ Tunnel(ChildListens) \/ Tunnel(ChildExits) \/ Tunnel(ChildKilled) \/ Tunnel(Reap)
           \/ Tunnel(OtherBinds) \/ Tunnel(OtherLeaves)
    PROVE  ServeInv'
<1> USE DEF Tunnel, ChildListens, ChildExits,
            ChildKilled, Reap, OtherBinds, OtherLeaves, Exit, Alive, Main, Fail, Running,
            mainVars, pubVars, supVars, busVars, watchVars, healthVars, bootVars, ServeInv,
            TypePart
<1>1. FlagsTyped'
  BY Zenon DEF FlagsTyped
<1>2. BusTyped'
  BY BusStaysTyped, Zenon
<1>3. StepsTyped' /\ SetsTyped'
  <2>1. StepsTyped'
    BY DEF StepsTyped
  <2>2. SetsTyped'
    BY DEF SetsTyped
  <2> QED
    BY <2>1, <2>2, Zenon
<1>4. ProcessPart'
  BY DEF ProcessPart, StartFindsNoChild, StartHasOneCaller, Gone, Starting
<1>5. ServingFollowsMain'
  BY DEF ServingFollowsMain, Published, Starting
<1>6. HealthPart'
  BY DEF HealthPart, StoreHoldsMutex, ReportersWait, OutageReported, FoldIsStored, Free,
         ProcessPart, StartHasOneCaller, Starting, BeforeMark
<1> QED
  BY <1>1, <1>2, <1>3, <1>4, <1>5, <1>6

(***************************************************************************)
(* The steps of Health: a report begins, changes the map, is stored.       *)
(***************************************************************************)
\* A report, as its caller begins it.
LEMMA CallTyped ==
    ASSUME ServeInv, NEW g \in Goroutines, NEW op \in {"up", "down"}, NEW source \in Sources,
           Call(g, op, source)
    PROVE  /\ call' \in [Goroutines -> Calls]
           /\ call'[g] = [op |-> op, source |-> source, step |-> "lock", found |-> {}]
           /\ \A h \in Goroutines \ {g} : call'[h] = call[h]
<1>1. call \in [Goroutines -> Calls]
  BY DEF ServeInv, TypePart, SetsTyped
<1> DEFINE c == [op |-> op, source |-> source, step |-> "lock", found |-> {}]
<1>2. c \in Calls
  BY DEF Calls
<1>3. call' = [call EXCEPT ![g] = c]
  BY DEF Call
<1> HIDE DEF c
<1>4. call'[g] = c /\ call' \in [Goroutines -> Calls] /\ \A h \in Goroutines \ {g} : call'[h] = call[h]
  BY <1>1, <1>2, <1>3
<1> QED
  BY <1>4 DEF c

\* Who is not in a call does not hold the mutex.
LEMMA BegunKeepsMutex ==
    ASSUME ServeInv, NEW g \in Goroutines, NEW op \in {"up", "down"}, NEW source \in Sources,
           Call(g, op, source), Free(g), UNCHANGED <<mutex, down>>
    PROVE  StoreHoldsMutex'
<1>1. mutex # g
  BY DEF ServeInv, HealthPart, StoreHoldsMutex, Free, Idle
<1>2. /\ call'[g] = [op |-> op, source |-> source, step |-> "lock", found |-> {}]
      /\ \A h \in Goroutines \ {g} : call'[h] = call[h]
  BY CallTyped
<1> QED
  BY <1>1, <1>2 DEF ServeInv, HealthPart, StoreHoldsMutex

\* health.Up("serve"), by the main goroutine.
LEMMA MarkUpKeepsInv ==
    ASSUME ServeInv, Running, MarkUp
    PROVE  ServeInv'
<1> USE DEF MarkUp, Main, Running, mainVars, pubVars, supVars, busVars, watchVars, healthVars,
            bootVars, ServeInv, TypePart
<1>0. Free("main") /\ "main" \in Goroutines /\ "serve" \in Sources
  BY DEF HealthPart, ReportersWait, BeforeMark, Goroutines, Sources
<1>1. /\ call' \in [Goroutines -> Calls] /\ StoreHoldsMutex'
      /\ call'["main"] = [op |-> "up", source |-> "serve", step |-> "lock", found |-> {}]
      /\ \A h \in Goroutines \ {"main"} : call'[h] = call[h]
  BY <1>0, CallTyped, BegunKeepsMutex
<1>2. call'["supervisor"] = call["supervisor"] /\ call'["watch"] = call["watch"]
  BY <1>1 DEF Goroutines
<1>3. FlagsTyped' /\ BusTyped'
  BY BusStaysTyped, Zenon DEF FlagsTyped
<1>4. StepsTyped'
  BY DEF StepsTyped
<1>5. SetsTyped'
  BY <1>1 DEF SetsTyped
<1>6. ProcessPart' /\ ServingFollowsMain'
  BY DEF ProcessPart, StartFindsNoChild, StartHasOneCaller, Gone, Starting, ServingFollowsMain, Published
<1>7. call'["main"] # Idle
  BY <1>1 DEF Idle
<1>8. HealthPart'
  BY <1>1, <1>2, <1>7 DEF HealthPart, ReportersWait, OutageReported, FoldIsStored, Free,
         Starting, BeforeMark
<1> QED
  BY <1>3, <1>4, <1>5, <1>6, <1>8

\* The Supervisor reports the outage, and the tunnel that replaced it.
LEMMA SupervisorReportKeepsInv ==
    ASSUME ServeInv, Running, SupSeesExit \/ SupStarted
    PROVE  ServeInv'
<1> USE DEF SupSeesExit, SupStarted, Running, mainVars, pubVars, supVars, busVars, watchVars,
            healthVars, bootVars, ServeInv, TypePart
<1>0. Free("supervisor") /\ "supervisor" \in Goroutines /\ "bootstrap" \in Sources
  BY DEF HealthPart, ReportersWait, Goroutines, Sources
<1>1. \/ sup' = "done" /\ call' = call
      \/ sup' = "downing" /\ Call("supervisor", "down", "bootstrap")
      \/ sup' = "upping" /\ Call("supervisor", "up", "bootstrap")
  OBVIOUS
<1>2. /\ call' \in [Goroutines -> Calls] /\ StoreHoldsMutex'
      /\ \A h \in Goroutines \ {"supervisor"} : call'[h] = call[h]
      /\ sup' = "downing" => call'["supervisor"] = [op |-> "down", source |-> "bootstrap",
                                                   step |-> "lock", found |-> {}]
  <2>1. CASE call' = call /\ sup' = "done"
    BY <2>1 DEF HealthPart, StoreHoldsMutex, SetsTyped
  <2>2. CASE Call("supervisor", "down", "bootstrap")
    BY <1>0, <2>2, CallTyped, BegunKeepsMutex
  <2>3. CASE Call("supervisor", "up", "bootstrap") /\ sup' = "upping"
    BY <1>0, <2>3, CallTyped, BegunKeepsMutex
  <2> QED
    BY <1>1, <2>1, <2>2, <2>3
<1>3. call'["main"] = call["main"] /\ call'["watch"] = call["watch"]
  BY <1>2 DEF Goroutines
<1>4. FlagsTyped' /\ BusTyped'
  BY BusStaysTyped, Zenon DEF FlagsTyped
<1>5. StepsTyped'
  BY DEF StepsTyped
<1>6. SetsTyped'
  <2>1. delay' \in 1..MaxDelay
    <3>1. delay' = delay \/ delay' = 1
      BY Zenon
    <3>2. delay \in 1..MaxDelay
      BY Zenon DEF SetsTyped
    <3> HIDE DEF SupSeesExit, SupStarted
    <3> QED
      BY <3>1, <3>2, BoundsAssumption
  <2>2. UNCHANGED <<open, loops, mutex, down, reason>>
    OBVIOUS
  <2> QED
    BY <1>2, <2>1, <2>2 DEF SetsTyped
<1>7. ProcessPart' /\ ServingFollowsMain'
  BY DEF ProcessPart, StartFindsNoChild, StartHasOneCaller, Gone, Starting, ServingFollowsMain, Published
<1>8. HealthPart'
  BY <1>1, <1>2, <1>3 DEF HealthPart, ReportersWait, OutageReported, FoldIsStored, Free
<1> QED
  BY <1>4, <1>5, <1>6, <1>7, <1>8

\* WatchControlSession reports a change of the session, or that it cannot see it.
LEMMA WatchReportKeepsInv ==
    ASSUME ServeInv, Running, WatchReceives \/ WatchLost
    PROVE  ServeInv'
<1> USE DEF Running, mainVars, pubVars, supVars, busVars, watchVars,
            healthVars, bootVars, ServeInv, TypePart
<1>0. Free("watch") /\ "watch" \in Goroutines /\ "control" \in Sources /\ wpc = "watch"
  BY DEF HealthPart, ReportersWait, Goroutines, Sources, WatchReceives, WatchLost
<1>1. /\ wpc' \in {"watch", "report", "done"} /\ seen' \in {seen, "none", "up", "down"}
      /\ \/ call' = call
         \/ wpc' \in {"report", "done"} /\ \E op \in {"up", "down"} : Call("watch", op, "control")
      /\ UNCHANGED <<mpc, ret, node, open, loops, sup, delay, mutex, down, reason, spc, child, port>>
      /\ UNCHANGED <<hasBoot, ctx, http, session, busOpen, ready, kill, cancelled>>
  BY DEF WatchReceives, WatchLost
<1>2. /\ call' \in [Goroutines -> Calls] /\ StoreHoldsMutex'
      /\ \A h \in Goroutines \ {"watch"} : call'[h] = call[h]
      /\ call'["watch"].source # "bootstrap"
      /\ wpc' = "watch" => call' = call
  <2>1. CASE call' = call
    BY <1>1, <2>1 DEF HealthPart, StoreHoldsMutex, ReportersWait, SetsTyped
  <2>2. ASSUME NEW op \in {"up", "down"}, Call("watch", op, "control"), wpc' \in {"report", "done"}
        PROVE  /\ call' \in [Goroutines -> Calls] /\ StoreHoldsMutex'
               /\ \A h \in Goroutines \ {"watch"} : call'[h] = call[h]
               /\ call'["watch"].source # "bootstrap"
    <3>1. StoreHoldsMutex'
      BY <1>0, <1>1, <2>2, BegunKeepsMutex
    <3>2. /\ call' \in [Goroutines -> Calls]
          /\ call'["watch"] = [op |-> op, source |-> "control", step |-> "lock", found |-> {}]
          /\ \A h \in Goroutines \ {"watch"} : call'[h] = call[h]
      BY <1>0, <2>2, CallTyped
    <3> QED
      BY <3>1, <3>2
  <2> QED
    BY <1>1, <2>1, <2>2
<1>3. call'["main"] = call["main"] /\ call'["supervisor"] = call["supervisor"]
  BY <1>2 DEF Goroutines
<1>4. FlagsTyped'
  BY <1>1, Zenon DEF FlagsTyped
<1>5. BusTyped'
  BY BusStaysTyped, Zenon DEF WatchReceives, WatchLost
<1>6. StepsTyped'
  BY <1>1 DEF StepsTyped
<1>7. SetsTyped'
  BY <1>1, <1>2 DEF SetsTyped
<1>8. ProcessPart' /\ ServingFollowsMain'
  BY <1>1 DEF ProcessPart, StartFindsNoChild, StartHasOneCaller, ServingFollowsMain
<1>9. HealthPart'
  BY <1>0, <1>1, <1>2, <1>3 DEF HealthPart, ReportersWait, OutageReported, FoldIsStored, Free,
         Starting, BeforeMark
<1> QED
  BY <1>4, <1>5, <1>6, <1>7, <1>8, <1>9

\* Up or Down takes the mutex and changes the map.
LEMMA HealthLockKeepsInv ==
    ASSUME ServeInv, Running, NEW g \in Goroutines, HealthLock(g),
           UNCHANGED <<hasBoot, ctx, mainVars, pubVars, supVars, busVars, watchVars, bootVars>>
    PROVE  ServeInv'
<1> USE DEF mainVars, pubVars, supVars, busVars, watchVars, bootVars, ServeInv, TypePart
<1>0. /\ call \in [Goroutines -> Calls] /\ down \subseteq Sources /\ call[g] \in Calls
      /\ call[g].op # "none" /\ call[g].step = "lock" /\ mutex = NoOne /\ mutex' = g
      /\ UNCHANGED <<ready, reason>>
  BY DEF SetsTyped, HealthLock
<1> DEFINE f == Changed(g)
           c == [call[g] EXCEPT !.step = "store", !.found = f]
<1>1. down' = f /\ call' = [call EXCEPT ![g] = c]
  BY <1>0 DEF HealthLock
<1>2. /\ f \subseteq Sources
      /\ call[g].op = "down" => f = down \cup {call[g].source}
      /\ call[g].op # "down" => f = down \ {call[g].source}
  BY <1>0 DEF Changed, Calls
<1> HIDE DEF f
<1>3. /\ c \in Calls /\ c.op = call[g].op /\ c.source = call[g].source
      /\ c.step = "store" /\ c.found = f
  BY <1>0, <1>2 DEF Calls
<1> HIDE DEF c
<1>4. c # Idle /\ call[g] # Idle /\ call[g].op \in {"up", "down"}
  BY <1>0, <1>3 DEF Idle, Calls
<1>5. /\ call' \in [Goroutines -> Calls] /\ call'[g] = c
      /\ \A h \in Goroutines \ {g} : call'[h] = call[h]
  BY <1>0, <1>1, <1>3
<1>6. FlagsTyped' /\ BusTyped'
  BY <1>0, BusStaysTyped, Zenon DEF FlagsTyped
<1>7. StepsTyped'
  BY DEF StepsTyped
<1>8. SetsTyped'
  BY <1>0, <1>1, <1>2, <1>5 DEF SetsTyped
<1>9. ProcessPart' /\ ServingFollowsMain'
  BY DEF ProcessPart, StartFindsNoChild, StartHasOneCaller, ServingFollowsMain
<1>10. StoreHoldsMutex'
  BY <1>0, <1>1, <1>3, <1>5, NoOneAssumption DEF HealthPart, StoreHoldsMutex
<1>11. ReportersWait'
  BY <1>3, <1>4, <1>5 DEF HealthPart, ReportersWait, Free, Goroutines
<1>12. OutageReported'
  <2>1. CASE g = "supervisor"
    <3>1. sup \notin {"sleep", "starting"}
      BY <2>1, <1>4 DEF HealthPart, ReportersWait, Free
    <3> QED
      BY <1>1, <1>2, <1>3, <1>4, <1>5, <2>1, <3>1 DEF HealthPart, OutageReported
  <2>2. CASE g # "supervisor"
    <3>1. call[g].source # "bootstrap" /\ call'["supervisor"] = call["supervisor"]
      BY <1>5, <2>2 DEF HealthPart, ReportersWait, Goroutines
    <3> QED
      BY <1>1, <1>2, <3>1 DEF HealthPart, OutageReported
  <2> QED
    BY <2>1, <2>2
<1>13. FoldIsStored'
  BY <1>0, NoOneAssumption DEF FoldIsStored
<1> QED
  BY <1>6, <1>7, <1>8, <1>9, <1>10, <1>11, <1>12, <1>13 DEF HealthPart

\* store() writes what it found, which is the map as it still is, and unlocks.
LEMMA HealthStoreKeepsInv ==
    ASSUME ServeInv, Running, NEW g \in Goroutines, HealthStore(g),
           UNCHANGED <<hasBoot, ctx, mainVars, pubVars, supVars, busVars, watchVars, bootVars>>
    PROVE  ServeInv'
<1> USE DEF mainVars, pubVars, supVars, busVars, watchVars, bootVars, ServeInv, TypePart
<1>0. /\ call \in [Goroutines -> Calls] /\ down \subseteq Sources
      /\ call[g].step = "store" /\ mutex' = NoOne /\ down' = down
      /\ call' = [call EXCEPT ![g] = Idle]
  BY DEF SetsTyped, HealthStore
<1>1. ready' = (call[g].found = {}) /\ reason' = First(call[g].found)
  BY DEF HealthStore
<1>2. mutex = g /\ call[g].found = down
  BY <1>0 DEF HealthPart, StoreHoldsMutex
<1>3. Idle \in Calls /\ Idle.step = "lock" /\ Idle.source = "serve" /\ Idle.op = "none"
  BY DEF Idle, Calls, Sources
<1>4. /\ call' \in [Goroutines -> Calls] /\ call'[g] = Idle
      /\ \A h \in Goroutines \ {g} : call'[h] = call[h]
  BY <1>0, <1>3
<1>5. reason' \in Sources \cup {""}
  BY <1>1 DEF First, Sources
<1>6. FlagsTyped' /\ BusTyped'
  <2>1. ready' \in BOOLEAN
    BY <1>1
  <2> QED
    BY <2>1, BusStaysTyped, Zenon DEF FlagsTyped
<1>7. StepsTyped'
  BY DEF StepsTyped
<1>8. SetsTyped'
  BY <1>0, <1>4, <1>5 DEF SetsTyped
<1>9. ProcessPart' /\ ServingFollowsMain'
  BY DEF ProcessPart, StartFindsNoChild, StartHasOneCaller, ServingFollowsMain
<1>10. StoreHoldsMutex'
  BY <1>0, <1>2, <1>3, <1>4, NoOneAssumption DEF HealthPart, StoreHoldsMutex
<1>11. ReportersWait'
  BY <1>3, <1>4 DEF HealthPart, ReportersWait, Free, Goroutines
<1>12. OutageReported'
  <2>1. CASE g = "supervisor"
    BY <1>0, <1>3, <1>4, <2>1 DEF HealthPart, OutageReported
  <2>2. CASE g # "supervisor"
    <3>1. call'["supervisor"] = call["supervisor"]
      BY <1>4, <2>2 DEF Goroutines
    <3> QED
      BY <1>0, <3>1 DEF HealthPart, OutageReported
  <2> QED
    BY <2>1, <2>2
<1>13. FoldIsStored'
  BY <1>0, <1>1, <1>2 DEF FoldIsStored
<1> QED
  BY <1>6, <1>7, <1>8, <1>9, <1>10, <1>11, <1>12, <1>13 DEF HealthPart

----------------------------------------------------------------------------
\* The invariant of host serve: of its process, its published services and its
\* health, under every interleaving with the child, the node and the signal.
THEOREM ServeSafety == Spec => []ServeInv
<1>1. ServeInv /\ [Next]_vars => ServeInv'
  <2> SUFFICES ASSUME ServeInv, [Next]_vars PROVE ServeInv'
    OBVIOUS
  <2>1. ASSUME Running, MainStep PROVE ServeInv'
    BY <2>1, BootstrapKeepsInv, NodeKeepsInv, ServingKeepsInv, MarkUpKeepsInv, CloseKeepsInv
    DEF MainStep
  <2>2. ASSUME Running, SupStep PROVE ServeInv'
    BY <2>2, QuietSupervisorKeepsInv, SupervisorReportKeepsInv DEF SupStep
  <2>3. ASSUME Running, WatchStep \/ Signal \/ SessionChanges \/ BusFails PROVE ServeInv'
    BY <2>3, QuietWatchKeepsInv, WatchReportKeepsInv DEF WatchStep
  <2>4. ASSUME Running, Tunnel(BootStep) PROVE ServeInv'
    BY <2>4, StartKeepsInv, ChildKeepsInv DEF Tunnel, BootStep
  <2>5. ASSUME Running, NEW g \in Goroutines, HealthStep(g) PROVE ServeInv'
    BY <2>5, HealthLockKeepsInv, HealthStoreKeepsInv DEF HealthStep
  <2>6. ASSUME Running, NEW s \in Services, LoopReturns(s) PROVE ServeInv'
    BY <2>6, CloseKeepsInv
  <2>7. CASE UNCHANGED vars
    <3> USE <2>7 DEF vars, mainVars, pubVars, supVars, busVars, watchVars, healthVars, bootVars,
                 ServeInv, TypePart
    <3>1. FlagsTyped' /\ BusTyped'
      BY Zenon DEF FlagsTyped, BusTyped
    <3>2. StepsTyped' /\ SetsTyped'
      <4>1. StepsTyped'
        BY DEF StepsTyped
      <4>2. SetsTyped'
        BY DEF SetsTyped
      <4> QED
        BY <4>1, <4>2, Zenon
    <3>3. ProcessPart' /\ ServingFollowsMain'
      BY DEF ProcessPart, StartFindsNoChild, StartHasOneCaller, ServingFollowsMain
    <3>4. HealthPart'
      BY DEF HealthPart, StoreHoldsMutex, ReportersWait, OutageReported, FoldIsStored, Free
    <3> QED
      BY <3>1, <3>2, <3>3, <3>4
  <2> QED
    BY <2>1, <2>2, <2>3, <2>4, <2>5, <2>6, <2>7 DEF Next, Exited
<1> QED
  BY <1>1, ServeInit, PTL DEF Spec

\* Supervisor.Run releases the dead tunnel before it starts the next: a new ssh is
\* never run, nor the port probed, while an earlier child lives.
THEOREM ChildrenTakeTurns == Spec => []OneChildAtATime
<1>1. ServeInv => OneChildAtATime
  BY DEF ServeInv, ProcessPart, StartFindsNoChild, Gone, OneChildAtATime, Alive
<1> QED
  BY <1>1, ServeSafety, PTL

\* Health: whenever no goroutine is inside Up or Down the two atomics say what the
\* map says, and a restart in progress is among the outages.
THEOREM ReadinessIsFold == Spec => []HealthIsFold
<1>1. ServeInv => HealthIsFold
  <2> SUFFICES ASSUME ServeInv PROVE HealthIsFold
    OBVIOUS
  <2>1. (\A g \in Goroutines : call[g].step = "lock") => mutex = NoOne
    BY DEF ServeInv, TypePart, SetsTyped, HealthPart, StoreHoldsMutex
  <2> QED
    BY <2>1 DEF ServeInv, HealthPart, OutageReported, FoldIsStored, HealthIsFold
<1> QED
  BY <1>1, ServeSafety, PTL

\* runHostServe leaves nothing behind: on every way out the child has been waited
\* for, the Supervisor is gone, the health server, the listeners and the node are
\* closed.
THEOREM ServeCleansUp == Spec => []NothingOutlivesServe
<1>1. ServeInv => NothingOutlivesServe
  BY DEF ServeInv, ProcessPart, StartHasOneCaller, ServingFollowsMain, Gone, Published, Starting,
         NothingOutlivesServe
<1> QED
  BY <1>1, ServeSafety, PTL

\* The types of host serve's state, among them the restart delay, which never passes
\* its limit, and the bus, which never holds more than it may.
THEOREM ServeTypeCorrect == Spec => []TypeOK
<1>1. ServeInv => TypeOK
  <2> SUFFICES ASSUME ServeInv PROVE TypeOK
    OBVIOUS
  <2>1. FlagsTyped /\ BusTyped /\ StepsTyped /\ SetsTyped
    BY DEF ServeInv, TypePart
  <2>2. BootTypeOK
    BY <2>1, Zenon DEF BootTypeOK, FlagsTyped, StepsTyped
  <2> QED
    BY <2>1, <2>2, Zenon DEF TypeOK, FlagsTyped, BusTyped, StepsTyped, SetsTyped
<1> QED
  BY <1>1, ServeSafety, PTL
=============================================================================
