----------------------------- MODULE AcceptLoop -----------------------------
(***************************************************************************)
(* The accept loops of internal/proxy (AcceptLoop and AcceptSOCKS5Loop),   *)
(* the connection cap they share through internal/telemetry, the goroutine *)
(* each accepted connection runs in, and the shutdown that drains them.    *)
(*                                                                         *)
(* One process may run several loops on the one global counter: `connect`  *)
(* runs one, `host serve` one per published service (serve.Publish).       *)
(* A connection's bytes are the subject of module Relay; here the relay is *)
(* a stage that ends some day.                                             *)
(***************************************************************************)
EXTENDS Integers, FiniteSets

CONSTANTS
    Conns,            \* the connections clients may open
    Loops,            \* the accept loops, one listener each
    NoConn,           \* "no connection": what an idle loop holds
    MaxConnections,   \* cfg.MaxConnections
    MaxRetries,       \* ReconnectDialer.MaxRetries; 0 for a plain dialer
    Socks,            \* TRUE: AcceptSOCKS5Loop, FALSE: AcceptLoop
    HasCancel,        \* FALSE when the caller passes a nil cancel (serve.Publish)
    Drains            \* cfg.DrainTimeout > 0 in `connect`; `host serve` never drains

ASSUME ConnsAssumption == IsFiniteSet(Conns) /\ NoConn \notin Conns
ASSUME LimitsAssumption == MaxConnections \in Nat /\ MaxRetries \in Nat
ASSUME ModeAssumption == {Socks, HasCancel, Drains} \subseteq BOOLEAN

VARIABLES
    listener,   \* listener[l]: "open" or "closed"
    lpc,        \* lpc[l]: where loop l is
    lconn,      \* lconn[l]: the connection loop l has accepted and not yet handed over
    cur,        \* cur[l]: the value TryClaimConnection loaded
    stage,      \* stage[c]: how far connection c got
    attempt,    \* attempt[c]: retries ReconnectDialer.Dial has made for c
    expired,    \* expired[c]: c's DialTimeout has elapsed
    sock,       \* sock[c]: the bridge's end of the client socket
    active,     \* telemetry ActiveConnections
    wg,         \* the sync.WaitGroup the drain waits on
    cause,      \* context.Cause of the run: "none" until the first cancel
    main        \* the goroutine that waits for the loops, drains and closes the node

vars == <<listener, lpc, lconn, cur, stage, attempt, expired, sock,
          active, wg, cause, main>>

loopVars == <<listener, lpc, lconn, cur>>
connVars == <<stage, attempt, expired, sock>>

(* Stages of a connection that owns a slot of the cap, and of one whose    *)
(* goroutine the wait group counts.                                        *)
Dialing == {"dial", "backoff"}
Serving == {"start", "handshake", "relay", "release"} \cup Dialing
SlotStages == {"claimed"} \cup Serving
WgStages == Serving \cup {"wgdone"}
Stages == {"idle", "queued", "reset", "accepted", "rejected", "ended"}
            \cup SlotStages \cup WgStages

SlotHolders == {c \in Conns : stage[c] \in SlotStages}
WgHolders == {c \in Conns : stage[c] \in WgStages}

TypeOK ==
    /\ listener \in [Loops -> {"open", "closed"}]
    /\ lpc \in [Loops -> {"accept", "sleep", "load", "cas", "reject", "spawn", "done"}]
    /\ lconn \in [Loops -> Conns \cup {NoConn}]
    /\ cur \in [Loops -> Int]
    /\ stage \in [Conns -> Stages]
    /\ attempt \in [Conns -> 0..MaxRetries]
    /\ expired \in [Conns -> BOOLEAN]
    /\ sock \in [Conns -> {"none", "open", "closed"}]
    /\ active \in Int /\ wg \in Int
    /\ cause \in {"none", "canceled", "terminal"}
    /\ main \in {"serving", "draining", "drained", "forced", "undrained", "closed"}

Init ==
    /\ listener = [l \in Loops |-> "open"]
    /\ lpc = [l \in Loops |-> "accept"]
    /\ lconn = [l \in Loops |-> NoConn]
    /\ cur = [l \in Loops |-> 0]
    /\ stage = [c \in Conns |-> "idle"]
    /\ attempt = [c \in Conns |-> 0]
    /\ expired = [c \in Conns |-> FALSE]
    /\ sock = [c \in Conns |-> "none"]
    /\ active = 0 /\ wg = 0
    /\ cause = "none"
    /\ main = "serving"

Goto(l, pc) == lpc' = [lpc EXCEPT ![l] = pc]
Move(c, s) == stage' = [stage EXCEPT ![c] = s]
CloseSock(c) == sock' = [sock EXCEPT ![c] = "closed"]

(***************************************************************************)
(* Faulty variants of actions below: plausible slips in the Go code that   *)
(* the properties at the end of this module must catch.                    *)
(***************************************************************************)
\* Retry once too often: "attempt <= MaxRetries".
DialRetryOffByOne(c) ==
    /\ stage[c] = "dial" /\ ~expired[c] /\ attempt[c] <= MaxRetries
    /\ Move(c, "backoff")
    /\ UNCHANGED <<loopVars, attempt, expired, sock, active, wg, cause, main>>

\* Check, then add: an atomic add where the compare-and-swap is.
ClaimSwapBlind(l) ==
    /\ lpc[l] = "cas"
    /\ active' = active + 1
    /\ Goto(l, "spawn")
    /\ Move(lconn[l], "claimed")
    /\ UNCHANGED <<listener, lconn, cur, attempt, expired, sock, wg, cause, main>>

\* The cap compared as "cur >= max-1".
ClaimLoadEarly(l) ==
    /\ lpc[l] = "load"
    /\ cur' = [cur EXCEPT ![l] = active]
    /\ Goto(l, IF active >= MaxConnections - 1 THEN "reject" ELSE "cas")
    /\ UNCHANGED <<listener, lconn, connVars, active, wg, cause, main>>

\* A refused connection is not closed.
RejectUnclosed(l) ==
    /\ lpc[l] = "reject"
    /\ Goto(l, "accept")
    /\ Move(lconn[l], "rejected")
    /\ lconn' = [lconn EXCEPT ![l] = NoConn]
    /\ UNCHANGED <<listener, cur, attempt, expired, sock, active, wg, cause, main>>

\* The slot is released on success only: a failed dial skips the release.
DialGivesUpLeaky(c) ==
    /\ \/ expired[c] /\ stage[c] \in Dialing
       \/ stage[c] = "dial" /\ attempt[c] = MaxRetries
    /\ Move(c, "wgdone")
    /\ CloseSock(c)
    /\ UNCHANGED <<loopVars, attempt, expired, active, wg, cause, main>>

\* ReconnectDialer.Dial without its context checks: only the attempts end it.
DialGivesUpNoDeadline(c) ==
    /\ stage[c] = "dial" /\ attempt[c] = MaxRetries
    /\ Move(c, "release")
    /\ CloseSock(c)
    /\ UNCHANGED <<loopVars, attempt, expired, active, wg, cause, main>>

\* proxyConnections without its final full close.
RelayEndsUnclosed(c) ==
    /\ stage[c] = "relay"
    /\ Move(c, "release")
    /\ UNCHANGED <<loopVars, attempt, expired, sock, active, wg, cause, main>>

\* The drain starts at the cancellation instead of after the loop's return.
LoopsReturnEarly ==
    /\ main = "serving" /\ cause # "none"
    /\ main' = IF Drains THEN "draining" ELSE "undrained"
    /\ UNCHANGED <<loopVars, connVars, active, wg, cause>>

\* A drain that has no timeout.
DrainTimeoutNever ==
    /\ main = "draining" /\ wg = 0
    /\ main' = "forced"
    /\ UNCHANGED <<loopVars, connVars, active, wg, cause>>

(***************************************************************************)
(* The kernel: a client connects, and waits in the listener's backlog.     *)
(* Which listener it waits at is decided by the loop that accepts it.      *)
(***************************************************************************)
ClientConnects(c) ==
    /\ stage[c] = "idle"
    /\ \E l \in Loops : listener[l] = "open"
    /\ Move(c, "queued")
    /\ sock' = [sock EXCEPT ![c] = "open"]
    /\ UNCHANGED <<loopVars, attempt, expired, active, wg, cause, main>>

(***************************************************************************)
(* The loop.  An accept error other than net.ErrClosed makes AcceptLoop    *)
(* sleep and try again, and AcceptSOCKS5Loop return with its listener open.*)
(***************************************************************************)
Accept(l, c) ==
    /\ lpc[l] = "accept" /\ listener[l] = "open" /\ stage[c] = "queued"
    /\ Goto(l, "load")
    /\ lconn' = [lconn EXCEPT ![l] = c]
    /\ Move(c, "accepted")
    /\ UNCHANGED <<listener, cur, attempt, expired, sock, active, wg, cause, main>>

AcceptError(l) ==
    /\ lpc[l] = "accept" /\ listener[l] = "open"
    /\ Goto(l, IF Socks THEN "done" ELSE "sleep")
    /\ UNCHANGED <<listener, lconn, cur, connVars, active, wg, cause, main>>

AcceptClosed(l) ==
    /\ lpc[l] = "accept" /\ listener[l] = "closed"
    /\ Goto(l, "done")
    /\ UNCHANGED <<listener, lconn, cur, connVars, active, wg, cause, main>>

BackoffElapsed(l) ==
    /\ lpc[l] = "sleep"
    /\ Goto(l, "accept")
    /\ UNCHANGED <<listener, lconn, cur, connVars, active, wg, cause, main>>

(***************************************************************************)
(* TryClaimConnection: an atomic load, the comparison with the cap, and a  *)
(* compare-and-swap that starts over when another goroutine moved the      *)
(* counter in between.                                                     *)
(***************************************************************************)
ClaimLoad(l) ==
    /\ lpc[l] = "load"
    /\ cur' = [cur EXCEPT ![l] = active]
    /\ Goto(l, IF active >= MaxConnections THEN "reject" ELSE "cas")
    /\ UNCHANGED <<listener, lconn, connVars, active, wg, cause, main>>

ClaimSwap(l) ==
    /\ lpc[l] = "cas" /\ active = cur[l]
    /\ active' = cur[l] + 1
    /\ Goto(l, "spawn")
    /\ Move(lconn[l], "claimed")
    /\ UNCHANGED <<listener, lconn, cur, attempt, expired, sock, wg, cause, main>>

ClaimLost(l) ==
    /\ lpc[l] = "cas" /\ active # cur[l]
    /\ Goto(l, "load")
    /\ UNCHANGED <<listener, lconn, cur, connVars, active, wg, cause, main>>

Reject(l) ==
    /\ lpc[l] = "reject"
    /\ Goto(l, "accept")
    /\ Move(lconn[l], "rejected")
    /\ CloseSock(lconn[l])
    /\ lconn' = [lconn EXCEPT ![l] = NoConn]
    /\ UNCHANGED <<listener, cur, attempt, expired, active, wg, cause, main>>

\* wg.Add(1) runs in the loop, before the goroutine exists.
Spawn(l) ==
    /\ lpc[l] = "spawn"
    /\ Goto(l, "accept")
    /\ wg' = wg + 1
    /\ Move(lconn[l], "start")
    /\ lconn' = [lconn EXCEPT ![l] = NoConn]
    /\ UNCHANGED <<listener, cur, attempt, expired, sock, active, cause, main>>

(***************************************************************************)
(* The connection's goroutine: handleConn, or handleSOCKS5Conn with its    *)
(* handshake before the dial and its reply after it.                       *)
(***************************************************************************)
HandlerStart(c) ==
    /\ stage[c] = "start"
    /\ Move(c, IF Socks THEN "handshake" ELSE "dial")
    /\ UNCHANGED <<loopVars, attempt, expired, sock, active, wg, cause, main>>

HandshakeDone(c) ==
    /\ stage[c] = "handshake"
    /\ Move(c, "dial")
    /\ UNCHANGED <<loopVars, attempt, expired, sock, active, wg, cause, main>>

\* Any end of the handler: the client socket is closed, then the defers run.
EndHandler(c) ==
    /\ Move(c, "release")
    /\ CloseSock(c)
    /\ UNCHANGED <<loopVars, attempt, expired, active, wg, main>>

\* A malformed greeting or request, a denied target, or the handshake deadline.
HandshakeFails(c) ==
    /\ stage[c] = "handshake"
    /\ EndHandler(c)
    /\ UNCHANGED cause

DialTimeout(c) ==
    /\ stage[c] \in Dialing /\ ~expired[c]
    /\ expired' = [expired EXCEPT ![c] = TRUE]
    /\ UNCHANGED <<loopVars, stage, attempt, sock, active, wg, cause, main>>

DialSucceeds(c) ==
    /\ stage[c] = "dial"
    /\ Move(c, "relay")
    /\ UNCHANGED <<loopVars, attempt, expired, sock, active, wg, cause, main>>

\* The client went away before the SOCKS success reply could be written.
ReplyFails(c) ==
    /\ Socks /\ stage[c] = "dial"
    /\ EndHandler(c)
    /\ UNCHANGED cause

\* A transient error with time and attempts left: wait, then try again.
DialRetry(c) ==
    /\ stage[c] = "dial" /\ ~expired[c] /\ attempt[c] < MaxRetries
    /\ Move(c, "backoff")
    /\ UNCHANGED <<loopVars, attempt, expired, sock, active, wg, cause, main>>

DialAgain(c) ==
    /\ stage[c] = "backoff"
    /\ Move(c, "dial")
    /\ attempt' = [attempt EXCEPT ![c] = @ + 1]
    /\ UNCHANGED <<loopVars, expired, sock, active, wg, cause, main>>

\* The deadline passed, during the dial or during the backoff, or the last
\* attempt failed.  None of the three is a TerminalDialError.
DialGivesUp(c) ==
    /\ \/ expired[c] /\ stage[c] \in Dialing
       \/ stage[c] = "dial" /\ attempt[c] = MaxRetries
    /\ EndHandler(c)
    /\ UNCHANGED cause

\* isPermanentDialError while the deadline has not passed: cancel(err) ends the
\* run, unless another cause was recorded first or the caller passed no cancel.
DialTerminal(c) ==
    /\ stage[c] = "dial" /\ ~expired[c]
    /\ EndHandler(c)
    /\ cause' = IF HasCancel /\ cause = "none" THEN "terminal" ELSE cause

\* proxyConnections returned: both directions are over and both ends closed.
RelayEnds(c) ==
    /\ stage[c] = "relay"
    /\ EndHandler(c)
    /\ UNCHANGED cause

\* The goroutine's deferred calls run last-in first-out: the slot goes back
\* before the wait group is told.
ReleaseSlot(c) ==
    /\ stage[c] = "release"
    /\ Move(c, "wgdone")
    /\ active' = active - 1
    /\ UNCHANGED <<loopVars, attempt, expired, sock, wg, cause, main>>

HandlerDone(c) ==
    /\ stage[c] = "wgdone"
    /\ Move(c, "ended")
    /\ wg' = wg - 1
    /\ UNCHANGED <<loopVars, attempt, expired, sock, active, cause, main>>

(***************************************************************************)
(* Shutdown.                                                               *)
(***************************************************************************)
\* A signal, or the end of the SSH bootstrap, cancels the run's context.
Cancel ==
    /\ cause = "none"
    /\ cause' = "canceled"
    /\ UNCHANGED <<loopVars, connVars, active, wg, main>>

\* handleShutdown (connect) or closeListeners (serve).  The kernel resets the
\* connections still in this listener's backlog: all that wait, when no other
\* listener is left.
CloseListener(l) ==
    /\ cause # "none" /\ listener[l] = "open"
    /\ listener' = [listener EXCEPT ![l] = "closed"]
    /\ LET waiting == {c \in Conns : stage[c] = "queued"}
       IN \E cut \in SUBSET waiting :
            /\ (\A k \in Loops \ {l} : listener[k] = "closed") => cut = waiting
            /\ stage' = [c \in Conns |-> IF c \in cut THEN "reset" ELSE stage[c]]
            /\ sock' = [c \in Conns |-> IF c \in cut THEN "closed" ELSE sock[c]]
    /\ UNCHANGED <<lpc, lconn, cur, attempt, expired, active, wg, cause, main>>

LoopsReturn ==
    /\ main = "serving"
    /\ \A l \in Loops : lpc[l] = "done"
    /\ main' = IF Drains THEN "draining" ELSE "undrained"
    /\ UNCHANGED <<loopVars, connVars, active, wg, cause>>

DrainCompletes ==
    /\ main = "draining" /\ wg = 0
    /\ main' = "drained"
    /\ UNCHANGED <<loopVars, connVars, active, wg, cause>>

DrainTimeout ==
    /\ main = "draining"
    /\ main' = "forced"
    /\ UNCHANGED <<loopVars, connVars, active, wg, cause>>

\* server.Close(), after which the process exits and takes the rest with it.
CloseNode ==
    /\ main \in {"drained", "forced", "undrained"}
    /\ main' = "closed"
    /\ UNCHANGED <<loopVars, connVars, active, wg, cause>>

LoopStep(l) ==
    \/ \E c \in Conns : Accept(l, c)
    \/ AcceptError(l) \/ AcceptClosed(l) \/ BackoffElapsed(l)
    \/ ClaimLoad(l) \/ ClaimSwap(l) \/ ClaimLost(l)
    \/ Reject(l) \/ Spawn(l)

DialStep(c) ==
    \/ DialTimeout(c) \/ DialSucceeds(c) \/ ReplyFails(c)
    \/ DialRetry(c) \/ DialAgain(c) \/ DialGivesUp(c) \/ DialTerminal(c)

HandlerStep(c) ==
    \/ HandlerStart(c) \/ HandshakeDone(c) \/ HandshakeFails(c)
    \/ DialStep(c) \/ RelayEnds(c) \/ ReleaseSlot(c) \/ HandlerDone(c)

MainStep == LoopsReturn \/ DrainCompletes \/ DrainTimeout \/ CloseNode

\* The exited process: nothing moves any more.
Exited == main = "closed" /\ UNCHANGED vars

Next ==
    \/ /\ main # "closed"
       /\ \/ Cancel \/ MainStep
          \/ \E l \in Loops : LoopStep(l) \/ CloseListener(l)
          \/ \E c \in Conns : ClientConnects(c) \/ HandlerStep(c)
    \/ Exited

Spec == Init /\ [][Next]_vars

(***************************************************************************)
(* Fairness.  Goroutines that are able to run do run; a timer that was set *)
(* fires; handleShutdown closes every listener.  A dial, a handshake and a *)
(* relay may hang: only their deadlines are certain, and a relay has none. *)
(***************************************************************************)
LoopFairness(l) ==
    /\ WF_vars(main # "closed" /\ CloseListener(l))
    /\ WF_vars(main # "closed" /\ (AcceptClosed(l) \/ BackoffElapsed(l)))
    /\ WF_vars(main # "closed" /\ (ClaimLoad(l) \/ ClaimSwap(l) \/ ClaimLost(l)
                                     \/ Reject(l) \/ Spawn(l)))

HandlerFairness(c) ==
    /\ WF_vars(main # "closed" /\ (HandlerStart(c) \/ HandshakeFails(c)))
    /\ WF_vars(main # "closed" /\ DialTimeout(c))
    /\ WF_vars(main # "closed" /\ DialGivesUp(c))
    /\ WF_vars(main # "closed" /\ (ReleaseSlot(c) \/ HandlerDone(c)))

FairSpec ==
    /\ Spec
    /\ WF_vars(MainStep)
    /\ \A l \in Loops : LoopFairness(l)
    /\ \A c \in Conns : HandlerFairness(c)

(***************************************************************************)
(* Properties.                                                             *)
(***************************************************************************)
\* AcceptLoop's comment, "closes the check-then-act race where a burst of
\* accepts could each observe (cur < cap) and all proceed past the limit":
\* however the loops interleave, at most MaxConnections connections are in
\* flight, and the exported gauge never shows more either.
CapHolds ==
    /\ Cardinality(SlotHolders) <= MaxConnections
    /\ active <= MaxConnections

\* TryClaimConnection's contract, "Callers MUST call AddActiveConnection(-1)
\* when the work tied to the claim finishes, even on error paths": the gauge is
\* exactly the number of connections that own a slot, so no path leaks a slot
\* or returns one twice.
GaugeIsExact == active = Cardinality(SlotHolders)

\* The same for the wait group of the drain: it counts exactly the goroutines
\* that have not called Done.
WaitGroupIsExact == wg = Cardinality(WgHolders)

\* drainActiveConnections: "all active connections drained gracefully" is said
\* only when no connection is being handled, every slot is back (the gauge reads
\* zero) and every client socket the loops accepted is closed.
DrainedMeansIdle ==
    main = "drained" =>
        /\ WgHolders = {}
        /\ active = 0
        /\ \A c \in Conns : sock[c] = "open" => stage[c] = "queued"

\* Every open client socket has someone who will close it: the kernel's
\* backlog, exactly one loop that has accepted it, or its own goroutine.
OpenSocketHasOwner ==
    \A c \in Conns : sock[c] = "open" =>
        LET loops == {l \in Loops : lconn[l] = c}
        IN \/ stage[c] = "queued" /\ loops = {}
           \/ stage[c] \in {"accepted", "claimed"} /\ Cardinality(loops) = 1
           \/ stage[c] \in Serving /\ loops = {}

\* sync.WaitGroup forbids an Add that races Wait at zero.  wg.Add runs in the
\* loop and the drain starts after the loops returned, so once the drain has
\* begun the group only shrinks.
NoAddDuringDrain == [][main # "serving" => wg' <= wg]_vars

\* The cap as its users see it, SlotPool: a connection is refused only at a
\* moment when every slot is taken.
Pool == INSTANCE SlotPool WITH
    held <- SlotHolders,
    refused <- {c \in Conns : \/ stage[c] = "rejected"
                              \/ \E l \in Loops : lpc[l] = "reject" /\ lconn[l] = c},
    gone <- {c \in Conns : stage[c] \in {"wgdone", "ended"}}
ImplementsSlotPool == Pool!PoolSpec

\* handleConn's comment, "DialTimeout=5s keeps the worst case bounded": a
\* connection that owns a slot reaches the relay or gives the slot back,
\* however long the target hangs.
SlotNotStuckBeforeRelay ==
    \A c \in Conns :
        stage[c] \in SlotStages \ {"relay"} ~>
            (stage[c] \in {"relay", "ended"} \/ main = "closed")

\* A cancelled run ends, even when a relay never does: the listeners close,
\* the loops return, the drain completes or times out, the node is closed.
ShutdownCompletes == cause # "none" ~> main = "closed"
=============================================================================
