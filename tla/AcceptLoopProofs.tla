-------------------------- MODULE AcceptLoopProofs --------------------------
(***************************************************************************)
(* Proofs about AcceptLoop, for every number of connections, loops,        *)
(* slots and retries.                                                      *)
(***************************************************************************)
EXTENDS AcceptLoop, FiniteSetTheorems, TLAPS

Holding == {"load", "cas", "reject", "spawn"}

(***************************************************************************)
(* The inductive invariant.  The cap is not inductive as it stands: a loop *)
(* about to swap must have loaded a value below the cap, the gauge it      *)
(* compares with must count the slot holders, and the connection it turns  *)
(* into a slot holder must be one that nobody else holds.                  *)
(***************************************************************************)
LoopsOwnTheirConns ==
    /\ \A l \in Loops :
        /\ lpc[l] \in {"load", "cas", "reject"} =>
              lconn[l] \in Conns /\ stage[lconn[l]] = "accepted"
        /\ lpc[l] = "spawn" => lconn[l] \in Conns /\ stage[lconn[l]] = "claimed"
        /\ lpc[l] = "cas" => cur[l] < MaxConnections
    /\ \A k, l \in Loops :
        k # l /\ lpc[k] \in Holding /\ lpc[l] \in Holding => lconn[k] # lconn[l]

\* A dial in its backoff has another attempt left, so the attempt counter stays
\* within its type.
RetriesLeft == \A c \in Conns : stage[c] = "backoff" => attempt[c] < MaxRetries

SlotInv ==
    /\ TypeOK
    /\ RetriesLeft
    /\ LoopsOwnTheirConns
    /\ GaugeIsExact
    /\ WaitGroupIsExact
    /\ active <= MaxConnections

----------------------------------------------------------------------------
\* The state before the first Accept: no slot is taken, no loop holds a
\* connection.
LEMMA InitInv == Init => SlotInv
<1> SUFFICES ASSUME Init PROVE SlotInv
  OBVIOUS
<1>1. TypeOK /\ RetriesLeft
  BY LimitsAssumption DEF Init, TypeOK, RetriesLeft, Stages
<1>2. LoopsOwnTheirConns
  BY DEF Init, LoopsOwnTheirConns, Holding
<1>3. SlotHolders = {} /\ WgHolders = {}
  BY DEF Init, SlotHolders, WgHolders, SlotStages, WgStages, Serving, Dialing
<1>4. Cardinality({}) = 0
  BY FS_EmptySet
<1>5. GaugeIsExact /\ WaitGroupIsExact /\ active <= MaxConnections
  BY <1>3, <1>4, LimitsAssumption DEF Init, GaugeIsExact, WaitGroupIsExact
<1> QED
  BY <1>1, <1>2, <1>5 DEF SlotInv

\* Moving one connection to another stage changes the number of slot holders by
\* what the connection stops and starts holding.
LEMMA SlotCount ==
    ASSUME TypeOK, NEW c \in Conns, NEW s \in Stages, Move(c, s)
    PROVE  Cardinality(SlotHolders') = Cardinality(SlotHolders)
              + (IF s \in SlotStages THEN 1 ELSE 0)
              - (IF stage[c] \in SlotStages THEN 1 ELSE 0)
<1>1. IsFiniteSet(SlotHolders)
  BY FS_Subset, ConnsAssumption DEF SlotHolders
<1>2. Cardinality(SlotHolders) \in Int
  BY <1>1, FS_CardinalityType
<1>3. SlotHolders' = IF s \in SlotStages THEN SlotHolders \cup {c} ELSE SlotHolders \ {c}
  BY DEF SlotHolders, Move, TypeOK
<1>4. c \in SlotHolders <=> stage[c] \in SlotStages
  BY DEF SlotHolders
<1>5. CASE s \in SlotStages
  <2>1. SlotHolders' = SlotHolders \cup {c}
    BY <1>3, <1>5
  <2>2. Cardinality(SlotHolders \cup {c}) =
           IF c \in SlotHolders THEN Cardinality(SlotHolders) ELSE Cardinality(SlotHolders) + 1
    BY <1>1, FS_AddElement
  <2> QED
    BY <2>1, <2>2, <1>2, <1>4, <1>5
<1>6. CASE s \notin SlotStages
  <2>1. SlotHolders' = SlotHolders \ {c}
    BY <1>3, <1>6
  <2>2. Cardinality(SlotHolders \ {c}) =
           IF c \in SlotHolders THEN Cardinality(SlotHolders) - 1 ELSE Cardinality(SlotHolders)
    BY <1>1, FS_RemoveElement
  <2> QED
    BY <2>1, <2>2, <1>2, <1>4, <1>6
<1> QED
  BY <1>5, <1>6

\* The same for the goroutines the wait group counts.
LEMMA WgCount ==
    ASSUME TypeOK, NEW c \in Conns, NEW s \in Stages, Move(c, s)
    PROVE  Cardinality(WgHolders') = Cardinality(WgHolders)
              + (IF s \in WgStages THEN 1 ELSE 0)
              - (IF stage[c] \in WgStages THEN 1 ELSE 0)
<1>1. IsFiniteSet(WgHolders)
  BY FS_Subset, ConnsAssumption DEF WgHolders
<1>2. Cardinality(WgHolders) \in Int
  BY <1>1, FS_CardinalityType
<1>3. WgHolders' = IF s \in WgStages THEN WgHolders \cup {c} ELSE WgHolders \ {c}
  BY DEF WgHolders, Move, TypeOK
<1>4. c \in WgHolders <=> stage[c] \in WgStages
  BY DEF WgHolders
<1>5. CASE s \in WgStages
  <2>1. WgHolders' = WgHolders \cup {c}
    BY <1>3, <1>5
  <2>2. Cardinality(WgHolders \cup {c}) =
           IF c \in WgHolders THEN Cardinality(WgHolders) ELSE Cardinality(WgHolders) + 1
    BY <1>1, FS_AddElement
  <2> QED
    BY <2>1, <2>2, <1>2, <1>4, <1>5
<1>6. CASE s \notin WgStages
  <2>1. WgHolders' = WgHolders \ {c}
    BY <1>3, <1>6
  <2>2. Cardinality(WgHolders \ {c}) =
           IF c \in WgHolders THEN Cardinality(WgHolders) - 1 ELSE Cardinality(WgHolders)
    BY <1>1, FS_RemoveElement
  <2> QED
    BY <2>1, <2>2, <1>2, <1>4, <1>6
<1> QED
  BY <1>5, <1>6

\* A step that leaves the stages and the two counters alone keeps them exact.
LEMMA CountsUnchanged ==
    ASSUME SlotInv, UNCHANGED <<stage, active, wg>>
    PROVE  GaugeIsExact' /\ WaitGroupIsExact' /\ (active <= MaxConnections)'
<1>1. SlotHolders' = SlotHolders /\ WgHolders' = WgHolders
  BY DEF SlotHolders, WgHolders
<1> QED
  BY <1>1 DEF SlotInv, GaugeIsExact, WaitGroupIsExact

\* A move between two stages that hold the same things, the counters unchanged.
LEMMA CountsMove ==
    ASSUME SlotInv, NEW c \in Conns, NEW s \in Stages, Move(c, s),
           s \in SlotStages <=> stage[c] \in SlotStages,
           s \in WgStages <=> stage[c] \in WgStages,
           UNCHANGED <<active, wg>>
    PROVE  GaugeIsExact' /\ WaitGroupIsExact' /\ (active <= MaxConnections)'
<1>1. TypeOK
  BY DEF SlotInv
<1>2. IsFiniteSet(SlotHolders) /\ IsFiniteSet(WgHolders)
  BY FS_Subset, ConnsAssumption DEF SlotHolders, WgHolders
<1>3. Cardinality(SlotHolders) \in Int /\ Cardinality(WgHolders) \in Int
  BY <1>2, FS_CardinalityType
<1>4. Cardinality(SlotHolders') = Cardinality(SlotHolders)
  BY <1>1, <1>3, SlotCount
<1>5. Cardinality(WgHolders') = Cardinality(WgHolders)
  BY <1>1, <1>3, WgCount
<1> QED
  BY <1>4, <1>5 DEF SlotInv, GaugeIsExact, WaitGroupIsExact

\* A step of a connection that no loop holds does not disturb the loops.
LEMMA LoopsUndisturbed ==
    ASSUME SlotInv, NEW c \in Conns, NEW s \in Stages, Move(c, s),
           stage[c] \notin {"accepted", "claimed"},
           UNCHANGED loopVars
    PROVE  LoopsOwnTheirConns'
  BY DEF SlotInv, TypeOK, LoopsOwnTheirConns, Move, loopVars

\* The loop sleeps or returns after an accept error.
LEMMA AcceptErrorInv ==
    ASSUME SlotInv, NEW l \in Loops, AcceptError(l)
    PROVE  SlotInv'
<1>1. TypeOK' /\ RetriesLeft'
  BY DEF SlotInv, TypeOK, RetriesLeft, AcceptError, Goto, connVars
<1>2. LoopsOwnTheirConns'
  BY DEF SlotInv, TypeOK, LoopsOwnTheirConns, Holding, AcceptError, Goto, connVars
<1>3. UNCHANGED <<stage, active, wg>>
  BY DEF AcceptError, connVars
<1> QED
  BY <1>1, <1>2, <1>3, CountsUnchanged DEF SlotInv

\* The loop returns once its listener is closed.
LEMMA AcceptClosedInv ==
    ASSUME SlotInv, NEW l \in Loops, AcceptClosed(l)
    PROVE  SlotInv'
<1>1. TypeOK' /\ RetriesLeft'
  BY DEF SlotInv, TypeOK, RetriesLeft, AcceptClosed, Goto, connVars
<1>2. LoopsOwnTheirConns'
  BY DEF SlotInv, TypeOK, LoopsOwnTheirConns, Holding, AcceptClosed, Goto, connVars
<1>3. UNCHANGED <<stage, active, wg>>
  BY DEF AcceptClosed, connVars
<1> QED
  BY <1>1, <1>2, <1>3, CountsUnchanged DEF SlotInv

\* The loop wakes up.
LEMMA BackoffElapsedInv ==
    ASSUME SlotInv, NEW l \in Loops, BackoffElapsed(l)
    PROVE  SlotInv'
<1>1. TypeOK' /\ RetriesLeft'
  BY DEF SlotInv, TypeOK, RetriesLeft, BackoffElapsed, Goto, connVars
<1>2. LoopsOwnTheirConns'
  BY DEF SlotInv, TypeOK, LoopsOwnTheirConns, Holding, BackoffElapsed, Goto, connVars
<1>3. UNCHANGED <<stage, active, wg>>
  BY DEF BackoffElapsed, connVars
<1> QED
  BY <1>1, <1>2, <1>3, CountsUnchanged DEF SlotInv

\* The load: a value below the cap goes to the swap, any other to the refusal.
LEMMA ClaimLoadInv ==
    ASSUME SlotInv, NEW l \in Loops, ClaimLoad(l)
    PROVE  SlotInv'
<1>1. TypeOK' /\ RetriesLeft'
  BY DEF SlotInv, TypeOK, RetriesLeft, ClaimLoad, Goto, connVars
<1>2. LoopsOwnTheirConns'
  BY LimitsAssumption DEF SlotInv, TypeOK, LoopsOwnTheirConns, Holding, ClaimLoad, Goto, connVars
<1>3. UNCHANGED <<stage, active, wg>>
  BY DEF ClaimLoad, connVars
<1> QED
  BY <1>1, <1>2, <1>3, CountsUnchanged DEF SlotInv

\* A lost swap starts over.
LEMMA ClaimLostInv ==
    ASSUME SlotInv, NEW l \in Loops, ClaimLost(l)
    PROVE  SlotInv'
<1>1. TypeOK' /\ RetriesLeft'
  BY DEF SlotInv, TypeOK, RetriesLeft, ClaimLost, Goto, connVars
<1>2. LoopsOwnTheirConns'
  BY DEF SlotInv, TypeOK, LoopsOwnTheirConns, Holding, ClaimLost, Goto, connVars
<1>3. UNCHANGED <<stage, active, wg>>
  BY DEF ClaimLost, connVars
<1> QED
  BY <1>1, <1>2, <1>3, CountsUnchanged DEF SlotInv

\* The swap: the counter is still the loaded value, which was below the cap, so
\* one slot more is within the cap.
LEMMA ClaimSwapInv ==
    ASSUME SlotInv, NEW l \in Loops, ClaimSwap(l)
    PROVE  SlotInv'
<1> USE DEF Stages, SlotStages, WgStages, Serving, Dialing
<1>1. TypeOK /\ lconn[l] \in Conns /\ stage[lconn[l]] = "accepted"
  BY DEF SlotInv, LoopsOwnTheirConns, ClaimSwap
<1>2. TypeOK' /\ RetriesLeft'
  BY <1>1 DEF SlotInv, TypeOK, RetriesLeft, ClaimSwap, Goto, Move
<1>3. LoopsOwnTheirConns'
  BY <1>1 DEF SlotInv, TypeOK, LoopsOwnTheirConns, Holding, ClaimSwap, Goto, Move
<1>4. Move(lconn[l], "claimed") /\ active' = active + 1 /\ wg' = wg
  BY DEF ClaimSwap
<1>5. Cardinality(SlotHolders') = Cardinality(SlotHolders) + 1 - 0
  BY <1>1, <1>4, SlotCount
<1>6. Cardinality(WgHolders') = Cardinality(WgHolders) + 0 - 0
  BY <1>1, <1>4, WgCount
<1>7. active < MaxConnections /\ active \in Int /\ wg \in Int
  BY DEF SlotInv, TypeOK, LoopsOwnTheirConns, ClaimSwap
<1>8. GaugeIsExact' /\ WaitGroupIsExact' /\ (active <= MaxConnections)'
  BY <1>4, <1>5, <1>6, <1>7, LimitsAssumption DEF SlotInv, GaugeIsExact, WaitGroupIsExact
<1> QED
  BY <1>2, <1>3, <1>8 DEF SlotInv

\* Accept hands a waiting connection to exactly one loop.
LEMMA AcceptInv ==
    ASSUME SlotInv, NEW l \in Loops, NEW c \in Conns, Accept(l, c)
    PROVE  SlotInv'
<1> USE DEF Stages, SlotStages, WgStages, Serving, Dialing
<1>1. TypeOK' /\ RetriesLeft'
  BY DEF SlotInv, TypeOK, RetriesLeft, Accept, Goto, Move
<1>2. LoopsOwnTheirConns'
  BY DEF SlotInv, TypeOK, LoopsOwnTheirConns, Holding, Accept, Goto, Move
<1>3. GaugeIsExact' /\ WaitGroupIsExact' /\ (active <= MaxConnections)'
  BY CountsMove DEF Accept
<1> QED
  BY <1>1, <1>2, <1>3 DEF SlotInv

\* A refusal touches no slot.
LEMMA RejectInv ==
    ASSUME SlotInv, NEW l \in Loops, Reject(l)
    PROVE  SlotInv'
<1> USE DEF Stages, SlotStages, WgStages, Serving, Dialing
<1>1. lconn[l] \in Conns /\ stage[lconn[l]] = "accepted"
  BY DEF SlotInv, LoopsOwnTheirConns, Reject
<1>2. TypeOK' /\ RetriesLeft'
  BY <1>1 DEF SlotInv, TypeOK, RetriesLeft, Reject, Goto, Move, CloseSock
<1>3. LoopsOwnTheirConns'
  BY <1>1 DEF SlotInv, TypeOK, LoopsOwnTheirConns, Holding, Reject, Goto, Move
<1>4. GaugeIsExact' /\ WaitGroupIsExact' /\ (active <= MaxConnections)'
  BY <1>1, CountsMove DEF Reject
<1> QED
  BY <1>2, <1>3, <1>4 DEF SlotInv

\* The claimed slot passes from the loop to the goroutine, which the wait group
\* counts from here on.
LEMMA SpawnInv ==
    ASSUME SlotInv, NEW l \in Loops, Spawn(l)
    PROVE  SlotInv'
<1> USE DEF Stages, SlotStages, WgStages, Serving, Dialing
<1>1. TypeOK /\ lconn[l] \in Conns /\ stage[lconn[l]] = "claimed"
  BY DEF SlotInv, LoopsOwnTheirConns, Spawn
<1>2. TypeOK' /\ RetriesLeft'
  BY <1>1 DEF SlotInv, TypeOK, RetriesLeft, Spawn, Goto, Move
<1>3. LoopsOwnTheirConns'
  BY <1>1 DEF SlotInv, TypeOK, LoopsOwnTheirConns, Holding, Spawn, Goto, Move
<1>4. Move(lconn[l], "start") /\ wg' = wg + 1 /\ active' = active
  BY DEF Spawn
<1>5. Cardinality(SlotHolders') = Cardinality(SlotHolders) + 1 - 1
  BY <1>1, <1>4, SlotCount
<1>6. Cardinality(WgHolders') = Cardinality(WgHolders) + 1 - 0
  BY <1>1, <1>4, WgCount
<1>7. active \in Int /\ wg \in Int
  BY <1>1 DEF TypeOK
<1>8. GaugeIsExact' /\ WaitGroupIsExact' /\ (active <= MaxConnections)'
  BY <1>4, <1>5, <1>6, <1>7 DEF SlotInv, GaugeIsExact, WaitGroupIsExact
<1> QED
  BY <1>2, <1>3, <1>8 DEF SlotInv

\* A handler step that moves its connection between stages that own the slot
\* and count in the wait group.
LEMMA ServingMoveInv ==
    ASSUME SlotInv, TypeOK', RetriesLeft', NEW c \in Conns, NEW s \in Serving,
           stage[c] \in Serving, Move(c, s), UNCHANGED <<loopVars, active, wg>>
    PROVE  SlotInv'
<1> USE DEF Stages, SlotStages, WgStages, Serving, Dialing
<1>1. LoopsOwnTheirConns'
  BY LoopsUndisturbed
<1>2. GaugeIsExact' /\ WaitGroupIsExact' /\ (active <= MaxConnections)'
  BY CountsMove
<1> QED
  BY <1>1, <1>2 DEF SlotInv

\* Every step of a connection's goroutine, from its first to wg.Done.
LEMMA HandlerInv ==
    ASSUME SlotInv, NEW c \in Conns, HandlerStep(c)
    PROVE  SlotInv'
<1> USE LimitsAssumption DEF Stages, SlotStages, WgStages, Serving, Dialing
<1>0. TypeOK
  BY DEF SlotInv
<1>1. CASE HandlerStart(c) \/ HandshakeDone(c)
  <2>1. TypeOK' /\ RetriesLeft'
    BY <1>0, <1>1 DEF SlotInv, TypeOK, RetriesLeft, HandlerStart, HandshakeDone, Move, loopVars
  <2>2. \E s \in Serving : Move(c, s)
    BY <1>1 DEF HandlerStart, HandshakeDone
  <2> QED
    BY <1>1, <2>1, <2>2, ServingMoveInv DEF HandlerStart, HandshakeDone
<1>2. CASE DialSucceeds(c) \/ DialRetry(c) \/ DialAgain(c)
  <2>1. TypeOK' /\ RetriesLeft'
    <3>1. CASE DialSucceeds(c) \/ DialRetry(c)
      BY <1>0, <3>1 DEF SlotInv, TypeOK, RetriesLeft, DialSucceeds, DialRetry, Move, loopVars
    <3>2. CASE DialAgain(c)
      BY <1>0, <3>2 DEF SlotInv, TypeOK, RetriesLeft, DialAgain, Move, loopVars
    <3> QED
      BY <1>2, <3>1, <3>2
  <2>2. \E s \in Serving : Move(c, s)
    BY <1>2 DEF DialSucceeds, DialRetry, DialAgain
  <2> QED
    BY <1>2, <2>1, <2>2, ServingMoveInv DEF DialSucceeds, DialRetry, DialAgain
<1>3. CASE HandshakeFails(c) \/ ReplyFails(c) \/ DialGivesUp(c) \/ DialTerminal(c) \/ RelayEnds(c)
  <2>1. EndHandler(c) /\ stage[c] \in Serving /\ cause' \in {"none", "canceled", "terminal"}
    BY <1>0, <1>3 DEF TypeOK, HandshakeFails, ReplyFails, DialGivesUp, DialTerminal, RelayEnds
  <2>2. TypeOK' /\ RetriesLeft'
    BY <1>0, <2>1 DEF SlotInv, TypeOK, RetriesLeft, EndHandler, Move, CloseSock, loopVars
  <2>3. Move(c, "release") /\ UNCHANGED <<loopVars, active, wg>>
    BY <2>1 DEF EndHandler
  <2> QED
    BY <2>1, <2>2, <2>3, ServingMoveInv
<1>4. CASE DialTimeout(c)
  <2>1. TypeOK' /\ RetriesLeft'
    BY <1>0, <1>4 DEF SlotInv, TypeOK, RetriesLeft, DialTimeout, loopVars
  <2>2. LoopsOwnTheirConns'
    BY <1>4 DEF SlotInv, LoopsOwnTheirConns, DialTimeout, loopVars
  <2> QED
    BY <1>4, <2>1, <2>2, CountsUnchanged DEF SlotInv, DialTimeout
<1>5. CASE ReleaseSlot(c)
  <2>1. TypeOK' /\ RetriesLeft'
    BY <1>0, <1>5 DEF SlotInv, TypeOK, RetriesLeft, ReleaseSlot, Move, loopVars
  <2>2. LoopsOwnTheirConns'
    BY <1>5, LoopsUndisturbed DEF ReleaseSlot
  <2>3. Move(c, "wgdone") /\ stage[c] = "release" /\ active' = active - 1 /\ wg' = wg
    BY <1>5 DEF ReleaseSlot
  <2>4. Cardinality(SlotHolders') = Cardinality(SlotHolders) + 0 - 1
    BY <1>0, <2>3, SlotCount
  <2>5. Cardinality(WgHolders') = Cardinality(WgHolders) + 1 - 1
    BY <1>0, <2>3, WgCount
  <2>6. active \in Int /\ wg \in Int
    BY <1>0 DEF TypeOK
  <2>7. GaugeIsExact' /\ WaitGroupIsExact' /\ (active <= MaxConnections)'
    BY <2>3, <2>4, <2>5, <2>6 DEF SlotInv, GaugeIsExact, WaitGroupIsExact
  <2> QED
    BY <2>1, <2>2, <2>7 DEF SlotInv
<1>6. CASE HandlerDone(c)
  <2>1. TypeOK' /\ RetriesLeft'
    BY <1>0, <1>6 DEF SlotInv, TypeOK, RetriesLeft, HandlerDone, Move, loopVars
  <2>2. LoopsOwnTheirConns'
    BY <1>6, LoopsUndisturbed DEF HandlerDone
  <2>3. Move(c, "ended") /\ stage[c] = "wgdone" /\ active' = active /\ wg' = wg - 1
    BY <1>6 DEF HandlerDone
  <2>4. Cardinality(SlotHolders') = Cardinality(SlotHolders) + 0 - 0
    BY <1>0, <2>3, SlotCount
  <2>5. Cardinality(WgHolders') = Cardinality(WgHolders) + 0 - 1
    BY <1>0, <2>3, WgCount
  <2>6. active \in Int /\ wg \in Int
    BY <1>0 DEF TypeOK
  <2>7. GaugeIsExact' /\ WaitGroupIsExact' /\ (active <= MaxConnections)'
    BY <2>3, <2>4, <2>5, <2>6 DEF SlotInv, GaugeIsExact, WaitGroupIsExact
  <2> QED
    BY <2>1, <2>2, <2>7 DEF SlotInv
<1> QED
  BY <1>1, <1>2, <1>3, <1>4, <1>5, <1>6 DEF HandlerStep, DialStep

\* A client connecting, and the kernel resetting the backlog of a listener
\* being closed, move only connections that no loop and no slot knows.
LEMMA KernelInv ==
    ASSUME SlotInv,
           \/ \E c \in Conns : ClientConnects(c)
           \/ \E l \in Loops : CloseListener(l)
    PROVE  SlotInv'
<1> USE DEF Stages, SlotStages, WgStages, Serving, Dialing
<1>1. ASSUME NEW c \in Conns, ClientConnects(c)
      PROVE  SlotInv'
  <2>1. TypeOK' /\ RetriesLeft'
    BY <1>1 DEF SlotInv, TypeOK, RetriesLeft, ClientConnects, Move, loopVars
  <2>2. LoopsOwnTheirConns'
    BY <1>1, LoopsUndisturbed DEF ClientConnects
  <2>3. GaugeIsExact' /\ WaitGroupIsExact' /\ (active <= MaxConnections)'
    BY <1>1, CountsMove DEF ClientConnects
  <2> QED
    BY <2>1, <2>2, <2>3 DEF SlotInv
<1>2. ASSUME NEW l \in Loops, CloseListener(l)
      PROVE  SlotInv'
  <2>1. PICK cut \in SUBSET {c \in Conns : stage[c] = "queued"} :
             /\ stage' = [c \in Conns |-> IF c \in cut THEN "reset" ELSE stage[c]]
             /\ sock' = [c \in Conns |-> IF c \in cut THEN "closed" ELSE sock[c]]
    BY <1>2 DEF CloseListener
  <2>2. TypeOK' /\ RetriesLeft'
    BY <1>2, <2>1 DEF SlotInv, TypeOK, RetriesLeft, CloseListener
  <2>3. LoopsOwnTheirConns'
    BY <1>2, <2>1 DEF SlotInv, TypeOK, LoopsOwnTheirConns, CloseListener
  <2>4. SlotHolders' = SlotHolders /\ WgHolders' = WgHolders
    BY <2>1 DEF SlotHolders, WgHolders, SlotInv, TypeOK
  <2>5. GaugeIsExact' /\ WaitGroupIsExact' /\ (active <= MaxConnections)'
    BY <1>2, <2>4 DEF SlotInv, GaugeIsExact, WaitGroupIsExact, CloseListener
  <2> QED
    BY <2>2, <2>3, <2>5 DEF SlotInv
<1> QED
  BY <1>1, <1>2

\* Cancelling, waiting, draining and closing touch neither counters nor stages.
LEMMA MainInv ==
    ASSUME SlotInv, Cancel \/ MainStep \/ UNCHANGED vars
    PROVE  SlotInv'
<1>1. UNCHANGED <<loopVars, connVars, active, wg>>
  BY DEF Cancel, MainStep, LoopsReturn, DrainCompletes, DrainTimeout, CloseNode,
         vars, loopVars, connVars
<1>2. /\ cause' \in {"none", "canceled", "terminal"}
      /\ main' \in {"serving", "draining", "drained", "forced", "undrained", "closed"}
  BY DEF SlotInv, TypeOK, Cancel, MainStep, LoopsReturn, DrainCompletes,
         DrainTimeout, CloseNode, vars
<1>3. TypeOK' /\ RetriesLeft'
  BY <1>1, <1>2 DEF SlotInv, TypeOK, RetriesLeft, loopVars, connVars
<1>4. LoopsOwnTheirConns'
  BY <1>1 DEF SlotInv, LoopsOwnTheirConns, loopVars, connVars
<1> QED
  BY <1>1, <1>3, <1>4, CountsUnchanged DEF SlotInv, connVars

----------------------------------------------------------------------------
\* The invariant holds of every reachable state: one step per kind of action.
THEOREM SlotSafety == Spec => []SlotInv
<1>1. Init => SlotInv
  BY InitInv
<1>2. SlotInv /\ [Next]_vars => SlotInv'
  <2> SUFFICES ASSUME SlotInv, [Next]_vars PROVE SlotInv'
    OBVIOUS
  <2>1. ASSUME NEW l \in Loops, LoopStep(l) PROVE SlotInv'
    BY <2>1, AcceptInv, AcceptErrorInv, AcceptClosedInv, BackoffElapsedInv,
       ClaimLoadInv, ClaimSwapInv, ClaimLostInv, RejectInv, SpawnInv DEF LoopStep
  <2>2. ASSUME NEW l \in Loops, CloseListener(l) PROVE SlotInv'
    BY <2>2, KernelInv
  <2>3. ASSUME NEW c \in Conns, ClientConnects(c) PROVE SlotInv'
    BY <2>3, KernelInv
  <2>4. ASSUME NEW c \in Conns, HandlerStep(c) PROVE SlotInv'
    BY <2>4, HandlerInv
  <2>5. CASE Cancel \/ MainStep \/ UNCHANGED vars
    BY <2>5, MainInv
  <2> QED
    BY <2>1, <2>2, <2>3, <2>4, <2>5 DEF Next, Exited
<1> QED
  BY <1>1, <1>2, PTL DEF Spec

\* The counters, stages and program counters of the accept loops, the handlers
\* and the drain keep their types for every number of connections and loops.
THEOREM TypeCorrect == Spec => []TypeOK
<1>1. SlotInv => TypeOK
  BY DEF SlotInv
<1> QED
  BY <1>1, SlotSafety, PTL

\* TryClaimConnection's contract for any number of connections and loops: the
\* gauge counts the slot owners on every path, the wait group the goroutines.
THEOREM CountersExact == Spec => [](GaugeIsExact /\ WaitGroupIsExact)
<1>1. SlotInv => GaugeIsExact /\ WaitGroupIsExact
  BY DEF SlotInv
<1> QED
  BY <1>1, SlotSafety, PTL

\* The cap of AcceptLoop for any number of connections, loops and slots: the
\* compare-and-swap admits at most MaxConnections connections at a time.
THEOREM CapNeverExceeded == Spec => []CapHolds
<1>1. SlotInv => CapHolds
  BY DEF SlotInv, GaugeIsExact, CapHolds
<1> QED
  BY <1>1, SlotSafety, PTL
=============================================================================
