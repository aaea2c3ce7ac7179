------------------------- MODULE AcceptOwnerProofs --------------------------
(***************************************************************************)
(* Proofs about who owns an accepted connection in AcceptLoop, what is     *)
(* left of it when the drain is over, and that the shared counter          *)
(* implements the pool of slots of SlotPool.  All of it for every number   *)
(* of connections, loops, slots and retries.                               *)
(***************************************************************************)
EXTENDS AcceptLoopProofs

(***************************************************************************)
(* The strengthening of SlotInv.  OpenSocketHasOwner says that an open     *)
(* socket has one owner; to survive a step it needs that a handler closed  *)
(* its socket before it gives its slot back, that a loop forgets a         *)
(* connection when it passes it on, and that no accepted connection falls  *)
(* between a loop and a handler.  DrainedMeansIdle needs that no loop is   *)
(* left to start a handler.                                                *)
(***************************************************************************)
\* A socket is open from the connect to the end of the handler, not after.
SocketsFollowStages ==
    \A c \in Conns :
        sock[c] = "open" => stage[c] \in {"queued", "accepted", "claimed"}
                                            \cup (Serving \ {"release"})

\* A loop between two connections holds none.
IdleLoopsHoldNothing == \A l \in Loops : lpc[l] \notin Holding => lconn[l] = NoConn

\* An accepted connection that has no handler yet is in the hands of a loop.
AcceptedAreHeld ==
    \A c \in Conns : stage[c] \in {"accepted", "claimed"} => \E l \in Loops : lconn[l] = c

\* The drain and all that follows run after the loops returned.
LoopsAreOver == main # "serving" => \A l \in Loops : lpc[l] = "done"

\* A drain that completed leaves no handler, and none is started afterwards.
DrainedStaysEmpty == main = "drained" => WgHolders = {}

OwnInv ==
    /\ SocketsFollowStages
    /\ IdleLoopsHoldNothing
    /\ AcceptedAreHeld
    /\ LoopsAreOver
    /\ DrainedStaysEmpty

----------------------------------------------------------------------------
\* Before the first connection nothing is open, held or drained.
LEMMA OwnInit == Init => OwnInv
  BY DEF Init, OwnInv, SocketsFollowStages, IdleLoopsHoldNothing, AcceptedAreHeld,
         LoopsAreOver, DrainedStaysEmpty, Holding

\* The steps of a loop (accept, claim, refuse, spawn): a connection passes from
\* the backlog to one loop, and from it to its handler or to nobody.
LEMMA OwnLoopStep ==
    ASSUME SlotInv, OwnInv, NEW l \in Loops, LoopStep(l)
    PROVE  OwnInv'
<1> USE DEF Serving, Dialing, Holding
<1>0. main = "serving" /\ main' = main
  BY DEF SlotInv, TypeOK, OwnInv, LoopsAreOver, LoopStep, Accept, AcceptError, AcceptClosed,
         BackoffElapsed, ClaimLoad, ClaimSwap, ClaimLost, Reject, Spawn
<1>1. LoopsAreOver' /\ DrainedStaysEmpty'
  BY <1>0 DEF LoopsAreOver, DrainedStaysEmpty
<1>2. CASE \E c \in Conns : Accept(l, c)
  <2> PICK c \in Conns : Accept(l, c)
    BY <1>2
  <2>1. SocketsFollowStages'
    BY DEF SlotInv, TypeOK, OwnInv, SocketsFollowStages, Accept, Move
  <2>2. IdleLoopsHoldNothing'
    BY DEF SlotInv, TypeOK, OwnInv, IdleLoopsHoldNothing, Accept, Goto
  <2>3. AcceptedAreHeld'
    BY ConnsAssumption DEF SlotInv, TypeOK, OwnInv, AcceptedAreHeld, IdleLoopsHoldNothing,
                           Accept, Move
  <2> QED
    BY <1>1, <2>1, <2>2, <2>3 DEF OwnInv
<1>3. CASE AcceptError(l) \/ AcceptClosed(l) \/ BackoffElapsed(l) \/ ClaimLoad(l) \/ ClaimLost(l)
  <2>1. SocketsFollowStages' /\ AcceptedAreHeld'
    BY <1>3 DEF OwnInv, SocketsFollowStages, AcceptedAreHeld, connVars,
                AcceptError, AcceptClosed, BackoffElapsed, ClaimLoad, ClaimLost
  <2>2. IdleLoopsHoldNothing'
    BY <1>3 DEF SlotInv, TypeOK, OwnInv, IdleLoopsHoldNothing, Goto,
                AcceptError, AcceptClosed, BackoffElapsed, ClaimLoad, ClaimLost
  <2> QED
    BY <1>1, <2>1, <2>2 DEF OwnInv
<1>4. CASE ClaimSwap(l)
  <2>1. lconn[l] \in Conns /\ stage[lconn[l]] = "accepted"
    BY <1>4 DEF SlotInv, LoopsOwnTheirConns, ClaimSwap
  <2>2. SocketsFollowStages' /\ AcceptedAreHeld'
    BY <1>4, <2>1 DEF SlotInv, TypeOK, OwnInv, SocketsFollowStages, AcceptedAreHeld,
                      ClaimSwap, Move
  <2>3. IdleLoopsHoldNothing'
    BY <1>4 DEF SlotInv, TypeOK, OwnInv, IdleLoopsHoldNothing, ClaimSwap, Goto
  <2> QED
    BY <1>1, <2>2, <2>3 DEF OwnInv
<1>5. CASE Reject(l) \/ Spawn(l)
  <2>1. lconn[l] \in Conns /\ stage[lconn[l]] \in {"accepted", "claimed"}
    BY <1>5 DEF SlotInv, LoopsOwnTheirConns, Reject, Spawn
  <2>2. PICK s \in {"rejected", "start"} : Move(lconn[l], s)
    BY <1>5 DEF Reject, Spawn
  <2>3. SocketsFollowStages'
    BY <1>5, <2>1 DEF SlotInv, TypeOK, OwnInv, SocketsFollowStages, Reject, Spawn, Move, CloseSock
  <2>4. AcceptedAreHeld'
    BY <1>5, <2>1, <2>2 DEF SlotInv, TypeOK, OwnInv, AcceptedAreHeld, Reject, Spawn, Move
  <2>5. IdleLoopsHoldNothing'
    BY <1>5 DEF SlotInv, TypeOK, OwnInv, IdleLoopsHoldNothing, Reject, Spawn, Goto
  <2> QED
    BY <1>1, <2>3, <2>4, <2>5 DEF OwnInv
<1> QED
  BY <1>2, <1>3, <1>4, <1>5 DEF LoopStep

\* The steps of a connection's goroutine: the socket is closed on the way to the
\* release, and none of them brings a finished connection back.
LEMMA OwnHandlerStep ==
    ASSUME SlotInv, OwnInv, NEW c \in Conns, HandlerStep(c)
    PROVE  OwnInv'
<1> USE DEF Serving, Dialing
<1>1. UNCHANGED <<loopVars, main>> /\ stage[c] \in WgStages
  BY DEF HandlerStep, DialStep, HandlerStart, HandshakeDone, HandshakeFails, DialTimeout,
         DialSucceeds, ReplyFails, DialRetry, DialAgain, DialGivesUp, DialTerminal, RelayEnds,
         ReleaseSlot, HandlerDone, EndHandler, WgStages
<1>2. \/ /\ UNCHANGED sock
         /\ \E s \in (Serving \ {"release"}) : stage' = [stage EXCEPT ![c] = s]
         /\ stage[c] \in Serving \ {"release"}
      \/ /\ UNCHANGED <<stage, sock>>
      \/ /\ UNCHANGED sock
         /\ \E s \in {"wgdone", "ended"} : stage' = [stage EXCEPT ![c] = s]
         /\ stage[c] \in {"release", "wgdone"}
      \/ /\ sock' = [sock EXCEPT ![c] = "closed"]
         /\ stage' = [stage EXCEPT ![c] = "release"]
  BY DEF HandlerStep, DialStep, HandlerStart, HandshakeDone, HandshakeFails, DialTimeout,
         DialSucceeds, ReplyFails, DialRetry, DialAgain, DialGivesUp, DialTerminal, RelayEnds,
         ReleaseSlot, HandlerDone, EndHandler, Move, CloseSock
<1>3. SocketsFollowStages'
  BY <1>2 DEF SlotInv, TypeOK, OwnInv, SocketsFollowStages
<1>4. AcceptedAreHeld'
  BY <1>1, <1>2 DEF SlotInv, TypeOK, OwnInv, AcceptedAreHeld, loopVars
<1>5. IdleLoopsHoldNothing' /\ LoopsAreOver'
  BY <1>1 DEF OwnInv, IdleLoopsHoldNothing, LoopsAreOver, loopVars
<1>6. DrainedStaysEmpty'
  BY <1>1 DEF OwnInv, DrainedStaysEmpty, WgHolders
<1> QED
  BY <1>3, <1>4, <1>5, <1>6 DEF OwnInv

\* A client connects, or a listener is closed and the kernel resets its backlog.
LEMMA OwnKernelStep ==
    ASSUME SlotInv, OwnInv,
           \/ \E c \in Conns : ClientConnects(c)
           \/ \E l \in Loops : CloseListener(l)
    PROVE  OwnInv'
<1> USE DEF Serving, Dialing
<1>1. UNCHANGED <<lpc, lconn, main>>
  BY DEF ClientConnects, CloseListener, loopVars
<1>2. \E cut \in SUBSET Conns, s \in {"queued", "reset"} :
        /\ \A c \in cut : stage[c] \in {"idle", "queued"}
        /\ stage' = [c \in Conns |-> IF c \in cut THEN s ELSE stage[c]]
        /\ sock' = [c \in Conns |-> IF c \in cut THEN IF s = "queued" THEN "open" ELSE "closed"
                                    ELSE sock[c]]
  <2>1. ASSUME NEW c \in Conns, ClientConnects(c)
        PROVE  /\ \A d \in {c} : stage[d] \in {"idle", "queued"}
               /\ stage' = [d \in Conns |-> IF d \in {c} THEN "queued" ELSE stage[d]]
               /\ sock' = [d \in Conns |-> IF d \in {c} THEN "open" ELSE sock[d]]
    BY <2>1 DEF ClientConnects, Move, SlotInv, TypeOK
  <2>2. ASSUME NEW l \in Loops, CloseListener(l)
        PROVE  \E cut \in SUBSET Conns :
                  /\ \A d \in cut : stage[d] \in {"idle", "queued"}
                  /\ stage' = [d \in Conns |-> IF d \in cut THEN "reset" ELSE stage[d]]
                  /\ sock' = [d \in Conns |-> IF d \in cut THEN "closed" ELSE sock[d]]
    BY <2>2 DEF CloseListener
  <2>3. CASE \E c \in Conns : ClientConnects(c)
    <3> PICK c \in Conns : ClientConnects(c)
      BY <2>3
    <3> WITNESS {c} \in SUBSET Conns, "queued" \in {"queued", "reset"}
    <3> QED
      BY <2>1
  <2>4. CASE \E l \in Loops : CloseListener(l)
    BY <2>2, <2>4
  <2> QED
    BY <2>3, <2>4
<1>3. SocketsFollowStages' /\ AcceptedAreHeld'
  BY <1>1, <1>2 DEF OwnInv, SocketsFollowStages, AcceptedAreHeld
<1>4. IdleLoopsHoldNothing' /\ LoopsAreOver'
  BY <1>1 DEF OwnInv, IdleLoopsHoldNothing, LoopsAreOver
<1>5. DrainedStaysEmpty'
  BY <1>1, <1>2 DEF OwnInv, DrainedStaysEmpty, WgHolders, WgStages
<1> QED
  BY <1>3, <1>4, <1>5 DEF OwnInv

\* Cancelling, waiting for the loops, draining and closing the node: the wait
\* group reads zero only when it counts nobody.
LEMMA OwnMainStep ==
    ASSUME SlotInv, OwnInv, Cancel \/ MainStep \/ UNCHANGED vars
    PROVE  OwnInv'
<1>1. UNCHANGED <<loopVars, connVars>>
  BY DEF Cancel, MainStep, LoopsReturn, DrainCompletes, DrainTimeout, CloseNode,
         vars, loopVars, connVars
<1>2. SocketsFollowStages' /\ IdleLoopsHoldNothing' /\ AcceptedAreHeld'
  BY <1>1 DEF OwnInv, SocketsFollowStages, IdleLoopsHoldNothing, AcceptedAreHeld,
              loopVars, connVars
<1>3. LoopsAreOver'
  BY <1>1 DEF OwnInv, LoopsAreOver, loopVars, Cancel, MainStep, LoopsReturn, DrainCompletes,
              DrainTimeout, CloseNode, vars
<1>4. WgHolders' = WgHolders
  BY <1>1 DEF WgHolders, connVars
<1>5. wg = 0 => WgHolders = {}
  <2>1. IsFiniteSet(WgHolders)
    BY FS_Subset, ConnsAssumption DEF WgHolders
  <2> QED
    BY <2>1, FS_EmptySet DEF SlotInv, WaitGroupIsExact
<1>6. DrainedStaysEmpty'
  <2>1. CASE DrainCompletes
    BY <1>4, <1>5, <2>1 DEF DrainCompletes, DrainedStaysEmpty
  <2>2. CASE main' # "drained"
    BY <2>2 DEF DrainedStaysEmpty
  <2>3. CASE UNCHANGED main
    BY <1>4, <2>3 DEF OwnInv, DrainedStaysEmpty
  <2> QED
    BY <2>1, <2>2, <2>3 DEF Cancel, MainStep, LoopsReturn, DrainTimeout, CloseNode, vars
<1> QED
  BY <1>2, <1>3, <1>6 DEF OwnInv

\* Every reachable state of the accept loops satisfies the ownership invariant.
THEOREM OwnershipSafety == Spec => [](SlotInv /\ OwnInv)
<1>1. Init => OwnInv
  BY OwnInit
<1>2. SlotInv /\ OwnInv /\ [Next]_vars => OwnInv'
  <2> SUFFICES ASSUME SlotInv, OwnInv, [Next]_vars PROVE OwnInv'
    OBVIOUS
  <2>1. ASSUME NEW l \in Loops, LoopStep(l) \/ CloseListener(l) PROVE OwnInv'
    BY <2>1, OwnLoopStep, OwnKernelStep
  <2>2. ASSUME NEW c \in Conns, ClientConnects(c) \/ HandlerStep(c) PROVE OwnInv'
    BY <2>2, OwnHandlerStep, OwnKernelStep
  <2>3. CASE Cancel \/ MainStep \/ UNCHANGED vars
    BY <2>3, OwnMainStep
  <2> QED
    BY <2>1, <2>2, <2>3 DEF Next, Exited
<1> QED
  BY <1>1, <1>2, SlotSafety, PTL DEF Spec

----------------------------------------------------------------------------
\* proxy.AcceptLoop and handleConn, for any number of loops and connections: an
\* open client socket waits in the backlog, or is held by exactly one loop, or
\* belongs to its handler.  No socket is orphaned and none has two closers.
THEOREM SocketsHaveOneOwner == Spec => []OpenSocketHasOwner
<1>1. SlotInv /\ OwnInv => OpenSocketHasOwner
  <2> SUFFICES ASSUME SlotInv, OwnInv, NEW c \in Conns, sock[c] = "open"
               PROVE  LET loops == {l \in Loops : lconn[l] = c}
                      IN \/ stage[c] = "queued" /\ loops = {}
                         \/ stage[c] \in {"accepted", "claimed"} /\ Cardinality(loops) = 1
                         \/ stage[c] \in Serving /\ loops = {}
    BY DEF OpenSocketHasOwner
  <2> DEFINE loops == {l \in Loops : lconn[l] = c}
  <2>1. \A l \in loops : lpc[l] \in Holding
    BY ConnsAssumption DEF OwnInv, IdleLoopsHoldNothing
  <2>2. CASE stage[c] \in {"accepted", "claimed"}
    <3>1. PICK l \in Loops : lconn[l] = c
      BY <2>2 DEF OwnInv, AcceptedAreHeld
    <3>2. loops = {l}
      BY <2>1, <3>1 DEF SlotInv, LoopsOwnTheirConns
    <3>3. Cardinality({l}) = 1
      BY FS_Singleton
    <3> QED
      BY <2>2, <3>2, <3>3
  <2>3. CASE stage[c] \in {"queued"} \cup Serving
    <3>1. stage[c] \notin {"accepted", "claimed"}
      BY <2>3 DEF Serving, Dialing
    <3>2. loops = {}
      BY <2>1, <3>1 DEF SlotInv, LoopsOwnTheirConns, Holding
    <3> QED
      BY <2>3, <3>2
  <2> QED
    BY <2>2, <2>3 DEF OwnInv, SocketsFollowStages
<1> QED
  BY <1>1, OwnershipSafety, PTL

\* drainActiveConnections: when it reports a graceful drain, no handler runs, the
\* gauge reads zero and every socket the loops accepted is closed, however many
\* connections there were.
THEOREM GracefulDrainIsIdle == Spec => []DrainedMeansIdle
<1>1. SlotInv /\ OwnInv => DrainedMeansIdle
  <2> SUFFICES ASSUME SlotInv, OwnInv, main = "drained"
               PROVE  /\ WgHolders = {}
                      /\ active = 0
                      /\ \A c \in Conns : sock[c] = "open" => stage[c] = "queued"
    BY DEF DrainedMeansIdle
  <2>1. WgHolders = {}
    BY DEF OwnInv, DrainedStaysEmpty
  <2>2. \A c \in Conns : stage[c] \notin {"accepted", "claimed"}
    <3>1. \A l \in Loops : lconn[l] = NoConn
      BY DEF OwnInv, LoopsAreOver, IdleLoopsHoldNothing, Holding
    <3> QED
      BY <3>1, ConnsAssumption DEF OwnInv, AcceptedAreHeld
  <2>3. SlotHolders = {}
    BY <2>1, <2>2 DEF WgHolders, SlotHolders, SlotStages, WgStages
  <2>4. active = 0
    BY <2>3, FS_EmptySet DEF SlotInv, GaugeIsExact
  <2>5. \A c \in Conns : sock[c] = "open" => stage[c] = "queued"
    BY <2>1, <2>2 DEF OwnInv, SocketsFollowStages, WgHolders, WgStages
  <2> QED
    BY <2>1, <2>4, <2>5
<1> QED
  BY <1>1, OwnershipSafety, PTL

\* sync.WaitGroup's rule that an Add must not race a Wait at zero: wg.Add runs in
\* a loop, and the drain begins when no loop is left, so from then on the group
\* only shrinks.
THEOREM DrainNeverGrows == Spec => NoAddDuringDrain
<1>1. SlotInv /\ OwnInv /\ [Next]_vars => [main # "serving" => wg' <= wg]_vars
  <2> SUFFICES ASSUME SlotInv, OwnInv, Next, main # "serving"
               PROVE  wg' <= wg
    BY DEF vars
  <2>1. wg \in Int
    BY DEF SlotInv, TypeOK
  <2>2. \A l \in Loops : ~Spawn(l)
    BY DEF OwnInv, LoopsAreOver, Spawn
  <2>3. ASSUME NEW l \in Loops, LoopStep(l) \/ CloseListener(l) PROVE wg' = wg
    BY <2>2, <2>3 DEF LoopStep, Accept, AcceptError, AcceptClosed, BackoffElapsed,
                      ClaimLoad, ClaimSwap, ClaimLost, Reject, CloseListener
  <2>4. ASSUME NEW c \in Conns, HandlerStep(c) PROVE wg' \in {wg, wg - 1}
    BY <2>4 DEF HandlerStep, DialStep, HandlerStart, HandshakeDone, HandshakeFails, DialTimeout,
                DialSucceeds, ReplyFails, DialRetry, DialAgain, DialGivesUp, DialTerminal,
                RelayEnds, ReleaseSlot, HandlerDone, EndHandler
  <2>5. ASSUME NEW c \in Conns, ClientConnects(c) PROVE wg' = wg
    BY <2>5 DEF ClientConnects
  <2>6. CASE Cancel \/ MainStep \/ Exited
    BY <2>1, <2>6 DEF Cancel, MainStep, LoopsReturn, DrainCompletes, DrainTimeout, CloseNode,
                      Exited, vars
  <2> QED
    BY <2>1, <2>3, <2>4, <2>5, <2>6 DEF Next
<1> QED
  BY <1>1, OwnershipSafety, PTL DEF Spec, NoAddDuringDrain

----------------------------------------------------------------------------
(***************************************************************************)
(* The refinement.  held, refused and gone are the sets of the mapping in  *)
(* AcceptLoop: a slot is taken at the swap, refused at the load that finds *)
(* the cap reached, and given back at AddActiveConnection(-1).             *)
(***************************************************************************)
refusedConns ==
    {c \in Conns : \/ stage[c] = "rejected"
                   \/ \E l \in Loops : lpc[l] = "reject" /\ lconn[l] = c}
goneConns == {c \in Conns : stage[c] \in {"wgdone", "ended"}}

\* The pool counts with the same Cardinality as the gauge's invariant.
LEMMA PoolCardinality == Pool!Cardinality(SlotHolders) = Cardinality(SlotHolders)
  BY DEF Pool!Cardinality, Cardinality

\* A step that moves no stage into or out of the three sets, and takes no loop to
\* or from its refusal, is invisible to the pool.
LEMMA PoolStutter ==
    ASSUME SlotHolders' = SlotHolders, refusedConns' = refusedConns, goneConns' = goneConns
    PROVE  UNCHANGED Pool!pvars
  BY DEF Pool!pvars, refusedConns, goneConns

\* TryClaimConnection's load: below the cap nothing is decided yet; at the cap
\* the connection is refused, and the gauge it was compared with is exact.
LEMMA LoadRefines ==
    ASSUME SlotInv, OwnInv, NEW l \in Loops, ClaimLoad(l)
    PROVE  Pool!PoolNext \/ UNCHANGED Pool!pvars
<1>1. PICK c \in Conns : c = lconn[l] /\ stage[c] = "accepted" /\ UNCHANGED <<stage, lconn>>
  BY DEF SlotInv, LoopsOwnTheirConns, ClaimLoad, connVars
<1>2. SlotHolders' = SlotHolders /\ goneConns' = goneConns
  BY <1>1 DEF SlotHolders, goneConns
<1>3. CASE active >= MaxConnections
  <2>1. refusedConns' = refusedConns \cup {c}
    BY <1>1, <1>3 DEF refusedConns, ClaimLoad, Goto, SlotInv, TypeOK
  <2>2. c \notin SlotHolders \cup refusedConns \cup goneConns
    BY <1>1 DEF SlotHolders, SlotStages, Serving, Dialing, refusedConns, goneConns,
                SlotInv, LoopsOwnTheirConns, Holding, ClaimLoad
  <2>3. Pool!Cardinality(SlotHolders) >= MaxConnections
    BY <1>3, PoolCardinality DEF SlotInv, GaugeIsExact
  <2>4. Pool!RefuseSlot(c)
    BY <1>2, <2>1, <2>2, <2>3 DEF Pool!RefuseSlot, Pool!Unseen, refusedConns, goneConns
  <2> QED
    BY <2>4 DEF Pool!PoolNext
<1>4. CASE ~(active >= MaxConnections)
  <2>1. refusedConns' = refusedConns
    BY <1>1, <1>4 DEF refusedConns, ClaimLoad, Goto, SlotInv, TypeOK
  <2> QED
    BY <1>2, <2>1, PoolStutter
<1> QED
  BY <1>3, <1>4

\* The swap takes a slot that the pool still has.
LEMMA SwapRefines ==
    ASSUME SlotInv, OwnInv, NEW l \in Loops, ClaimSwap(l)
    PROVE  Pool!PoolNext
<1>1. PICK c \in Conns : /\ c = lconn[l] /\ stage[c] = "accepted"
                         /\ stage' = [stage EXCEPT ![c] = "claimed"]
  BY DEF SlotInv, LoopsOwnTheirConns, ClaimSwap, Move
<1>2. SlotHolders' = SlotHolders \cup {c} /\ goneConns' = goneConns
  BY <1>1 DEF SlotHolders, goneConns, SlotStages, Serving, Dialing, SlotInv, TypeOK
<1>3. refusedConns' = refusedConns
  BY <1>1 DEF refusedConns, ClaimSwap, Goto, SlotInv, TypeOK
<1>4. c \notin SlotHolders \cup refusedConns \cup goneConns
  BY <1>1 DEF SlotHolders, SlotStages, Serving, Dialing, refusedConns, goneConns,
              SlotInv, LoopsOwnTheirConns, Holding, ClaimSwap
<1>5. Pool!Cardinality(SlotHolders) < MaxConnections
  BY PoolCardinality DEF SlotInv, GaugeIsExact, LoopsOwnTheirConns, ClaimSwap
<1>6. Pool!TakeSlot(c)
  BY <1>2, <1>3, <1>4, <1>5 DEF Pool!TakeSlot, Pool!Unseen, refusedConns, goneConns
<1> QED
  BY <1>6 DEF Pool!PoolNext

\* The other steps of a loop; the refusal was decided at the load.
LEMMA LoopRefines ==
    ASSUME SlotInv, OwnInv, NEW l \in Loops, LoopStep(l)
    PROVE  Pool!PoolNext \/ UNCHANGED Pool!pvars
<1> USE DEF SlotStages, Serving, Dialing
<1>1. CASE ClaimLoad(l) \/ ClaimSwap(l)
  BY <1>1, LoadRefines, SwapRefines
<1>2. CASE AcceptError(l) \/ AcceptClosed(l) \/ BackoffElapsed(l) \/ ClaimLost(l)
  <2>1. UNCHANGED <<stage, lconn>>
    BY <1>2 DEF AcceptError, AcceptClosed, BackoffElapsed, ClaimLost, connVars
  <2>2. SlotHolders' = SlotHolders /\ goneConns' = goneConns
    BY <2>1 DEF SlotHolders, goneConns
  <2>3. refusedConns' = refusedConns
    BY <1>2, <2>1 DEF refusedConns, AcceptError, AcceptClosed, BackoffElapsed, ClaimLost, Goto,
                      SlotInv, TypeOK
  <2> QED
    BY <2>2, <2>3, PoolStutter
<1>3. CASE \E c \in Conns : Accept(l, c)
  <2> PICK c \in Conns : Accept(l, c)
    BY <1>3
  <2>1. SlotHolders' = SlotHolders /\ goneConns' = goneConns
    BY DEF SlotHolders, goneConns, Accept, Move, SlotInv, TypeOK
  <2>2. refusedConns' = refusedConns
    BY DEF refusedConns, Accept, Move, Goto, SlotInv, TypeOK
  <2> QED
    BY <2>1, <2>2, PoolStutter
<1>4. CASE Reject(l)
  <2>1. lconn[l] \in Conns /\ stage[lconn[l]] = "accepted"
    BY <1>4 DEF SlotInv, LoopsOwnTheirConns, Reject
  <2>2. SlotHolders' = SlotHolders /\ goneConns' = goneConns
    BY <1>4, <2>1 DEF SlotHolders, goneConns, Reject, Move, SlotInv, TypeOK
  <2>3. refusedConns' = refusedConns
    BY <1>4, <2>1 DEF refusedConns, Reject, Move, Goto, SlotInv, TypeOK, LoopsOwnTheirConns,
                      Holding
  <2> QED
    BY <2>2, <2>3, PoolStutter
<1>5. CASE Spawn(l)
  <2>1. lconn[l] \in Conns /\ stage[lconn[l]] = "claimed"
    BY <1>5 DEF SlotInv, LoopsOwnTheirConns, Spawn
  <2>2. SlotHolders' = SlotHolders /\ goneConns' = goneConns
    BY <1>5, <2>1 DEF SlotHolders, goneConns, Spawn, Move, SlotInv, TypeOK
  <2>3. refusedConns' = refusedConns
    BY <1>5, <2>1 DEF refusedConns, Spawn, Move, Goto, SlotInv, TypeOK, LoopsOwnTheirConns,
                      Holding
  <2> QED
    BY <2>2, <2>3, PoolStutter
<1> QED
  BY <1>1, <1>2, <1>3, <1>4, <1>5 DEF LoopStep

\* The handler gives its slot back once, at ReleaseSlot; its other steps, and the
\* wait group's Done after it, are invisible.
LEMMA HandlerRefines ==
    ASSUME SlotInv, OwnInv, NEW c \in Conns, HandlerStep(c)
    PROVE  Pool!PoolNext \/ UNCHANGED Pool!pvars
<1> USE DEF SlotStages, Serving, Dialing
<1>1. UNCHANGED loopVars
  BY DEF HandlerStep, DialStep, HandlerStart, HandshakeDone, HandshakeFails, DialTimeout,
         DialSucceeds, ReplyFails, DialRetry, DialAgain, DialGivesUp, DialTerminal, RelayEnds,
         ReleaseSlot, HandlerDone, EndHandler
<1>2. CASE ReleaseSlot(c)
  <2>1. c \in SlotHolders /\ SlotHolders' = SlotHolders \ {c} /\ goneConns' = goneConns \cup {c}
    BY <1>2 DEF SlotHolders, goneConns, ReleaseSlot, Move, SlotInv, TypeOK
  <2>2. refusedConns' = refusedConns
    BY <1>1, <1>2 DEF refusedConns, ReleaseSlot, Move, SlotInv, TypeOK, loopVars
  <2>3. Pool!GiveSlotBack(c)
    BY <2>1, <2>2 DEF Pool!GiveSlotBack, refusedConns, goneConns
  <2> QED
    BY <2>3 DEF Pool!PoolNext
<1>3. CASE ~ReleaseSlot(c)
  <2>1. \/ UNCHANGED stage
        \/ \E s \in Serving : stage' = [stage EXCEPT ![c] = s] /\ stage[c] \in Serving
        \/ stage' = [stage EXCEPT ![c] = "ended"] /\ stage[c] = "wgdone"
    BY <1>3 DEF HandlerStep, DialStep, HandlerStart, HandshakeDone, HandshakeFails, DialTimeout,
                DialSucceeds, ReplyFails, DialRetry, DialAgain, DialGivesUp, DialTerminal,
                RelayEnds, HandlerDone, EndHandler, Move
  <2>2. SlotHolders' = SlotHolders /\ goneConns' = goneConns
    BY <2>1 DEF SlotHolders, goneConns, SlotInv, TypeOK
  <2>3. refusedConns' = refusedConns
    BY <1>1, <2>1 DEF refusedConns, SlotInv, TypeOK, loopVars
  <2> QED
    BY <2>2, <2>3, PoolStutter
<1> QED
  BY <1>2, <1>3

\* The kernel's steps and the shutdown move no connection that the pool knows.
LEMMA OtherStepsRefine ==
    ASSUME SlotInv, OwnInv,
           \/ \E c \in Conns : ClientConnects(c)
           \/ \E l \in Loops : CloseListener(l)
           \/ Cancel \/ MainStep \/ UNCHANGED vars
    PROVE  UNCHANGED Pool!pvars
<1> USE DEF SlotStages, Serving, Dialing
<1>1. UNCHANGED <<lpc, lconn>>
  BY DEF ClientConnects, CloseListener, Cancel, MainStep, LoopsReturn, DrainCompletes,
         DrainTimeout, CloseNode, vars, loopVars
<1>2. \A c \in Conns : \/ stage'[c] = stage[c]
                       \/ stage[c] \in {"idle", "queued"} /\ stage'[c] \in {"queued", "reset"}
  BY DEF ClientConnects, CloseListener, Cancel, MainStep, LoopsReturn, DrainCompletes,
         DrainTimeout, CloseNode, vars, connVars, Move, SlotInv, TypeOK
<1>3. SlotHolders' = SlotHolders /\ goneConns' = goneConns /\ refusedConns' = refusedConns
  BY <1>1, <1>2 DEF SlotHolders, goneConns, refusedConns
<1> QED
  BY <1>3, PoolStutter

\* telemetry.TryClaimConnection and AddActiveConnection implement a pool of
\* MaxConnections slots, for every number of loops racing on the one counter: a
\* connection is refused only at a moment when every slot is taken, and gives its
\* slot back once.
THEOREM LoopsImplementPool == Spec => ImplementsSlotPool
<1>1. Init => Pool!PoolInit
  BY DEF Init, Pool!PoolInit, SlotHolders, SlotStages, Serving, Dialing
<1>2. SlotInv /\ OwnInv /\ [Next]_vars => [Pool!PoolNext]_Pool!pvars
  <2> SUFFICES ASSUME SlotInv, OwnInv, [Next]_vars
               PROVE  Pool!PoolNext \/ UNCHANGED Pool!pvars
    OBVIOUS
  <2>1. ASSUME NEW l \in Loops, LoopStep(l) \/ CloseListener(l)
        PROVE  Pool!PoolNext \/ UNCHANGED Pool!pvars
    BY <2>1, LoopRefines, OtherStepsRefine
  <2>2. ASSUME NEW c \in Conns, ClientConnects(c) \/ HandlerStep(c)
        PROVE  Pool!PoolNext \/ UNCHANGED Pool!pvars
    BY <2>2, HandlerRefines, OtherStepsRefine
  <2>3. CASE Cancel \/ MainStep \/ UNCHANGED vars
    BY <2>3, OtherStepsRefine
  <2> QED
    BY <2>1, <2>2, <2>3 DEF Next, Exited
<1> QED
  BY <1>1, <1>2, OwnershipSafety, PTL DEF Spec, ImplementsSlotPool, Pool!PoolSpec
=============================================================================
