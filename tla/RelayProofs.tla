---------------------------- MODULE RelayProofs -----------------------------
(***************************************************************************)
(* Proofs about Relay, for every socket buffer and however much the peers  *)
(* send, both settings of the idle timeout and of half-close.              *)
(***************************************************************************)
EXTENDS Relay, TLAPS

(***************************************************************************)
(* The inductive invariant.  EofIsComplete speaks of the moment after the  *)
(* end of stream; before it, a unit that a peer sent and that was not      *)
(* written to the other end is unread at the bridge or in the copy buffer  *)
(* of the direction.  HalfCloseKeepsOpposite needs to know who can have    *)
(* closed a socket.                                                        *)
(***************************************************************************)
Buffered(e) == IF dir[e] = "write" THEN 1 ELSE 0

UnitsAccountedFor ==
    \A e \in Ends :
        /\ dir[e] # "over" => due[e] = inbox[e] + Buffered(e)
        /\ due[e] >= inbox[e] /\ due[e] <= inbox[e] + 1

\* A direction is over when it has recorded why, and the relay has returned only
\* when both are.
EndsRecorded ==
    /\ \A e \in Ends : dir[e] = "over" <=> ended[e] # "no"
    /\ done => \A e \in Ends : dir[e] = "over"

\* A direction that ended in EOF has passed on all there is: its peer sends no
\* more.
EofIsFinal ==
    \A e \in Ends : ended[e] = "eof" => due[e] = 0 /\ peer[e] # "open"

\* The write half of an end is shut by the direction that writes to it; with
\* CloseWrite available, an end is closed by an idle timeout, an error or the
\* return only.
ClosersKnown ==
    /\ \A e \in Ends : conn[e] = "wrclosed" => ended[Other(e)] # "no"
    /\ cfg.halfclose /\ (\E e \in Ends : conn[e] = "closed") =>
          done \/ \E e \in Ends : ended[e] \in {"idle", "error"}

RelayInv == TypeOK /\ UnitsAccountedFor /\ EndsRecorded /\ EofIsFinal /\ ClosersKnown

----------------------------------------------------------------------------
\* The two ends are each other's other end.
LEMMA OtherEnd ==
    ASSUME NEW e \in Ends
    PROVE  Other(e) \in Ends /\ Other(e) # e /\ Other(Other(e)) = e /\ Ends = {e, Other(e)}
  BY DEF Ends, Other

\* A relay that has copied nothing yet.
LEMMA RelayInit == Init => RelayInv
<1> SUFFICES ASSUME Init PROVE RelayInv
  OBVIOUS
<1>0. 0 \in 0..Window /\ 0 \in 0..(Window + 1)
  BY WindowAssumption
<1>1. TypeOK
  BY <1>0, Zenon DEF Init, TypeOK
<1>2. UnitsAccountedFor
  BY OtherEnd DEF Init, UnitsAccountedFor, Buffered
<1>3. EndsRecorded /\ EofIsFinal /\ ClosersKnown
  BY DEF Init, EndsRecorded, EofIsFinal, ClosersKnown
<1> QED
  BY <1>1, <1>2, <1>3 DEF RelayInv

\* A peer sends, reads, shuts its sending side or resets: what it sends waits at
\* the bridge, and it sends only before its FIN.
LEMMA PeerKeepsInv ==
    ASSUME RelayInv, UNCHANGED cfg, NEW e \in Ends, PeerStep(e)
    PROVE  RelayInv'
<1> USE WindowAssumption DEF PeerStep, PeerSends, PeerReads, PeerFinishes, PeerResets
<1>1. TypeOK'
  <2>1. due'[e] \in 0..(Window + 1) /\ inbox'[e] \in 0..Window /\ unread'[e] \in 0..Window
    BY OtherEnd DEF RelayInv, TypeOK, UnitsAccountedFor, Buffered
  <2> QED
    BY <2>1 DEF RelayInv, TypeOK
<1>2. UnitsAccountedFor'
  BY OtherEnd DEF RelayInv, TypeOK, UnitsAccountedFor, Buffered
<1>3. EndsRecorded' /\ ClosersKnown'
  BY DEF RelayInv, EndsRecorded, ClosersKnown
<1>4. EofIsFinal'
  BY DEF RelayInv, TypeOK, EofIsFinal
<1> QED
  BY <1>1, <1>2, <1>3, <1>4 DEF RelayInv

\* io.CopyBuffer's loop moves a unit from the socket to the buffer and from the
\* buffer to the other socket.
LEMMA CopyKeepsInv ==
    ASSUME RelayInv, UNCHANGED cfg, NEW e \in Ends, Read(e) \/ Write(e)
    PROVE  RelayInv'
<1> USE WindowAssumption DEF Read, Write
<1>0. Other(e) \in Ends /\ Other(e) # e /\ Other(Other(e)) = e /\ Ends = {e, Other(e)}
  BY OtherEnd
<1>1. TypeOK'
  BY <1>0 DEF RelayInv, TypeOK, UnitsAccountedFor, Buffered
<1>2. UnitsAccountedFor'
  BY <1>0 DEF RelayInv, TypeOK, UnitsAccountedFor, Buffered
<1>3. EndsRecorded' /\ ClosersKnown'
  BY <1>0 DEF RelayInv, TypeOK, EndsRecorded, ClosersKnown
<1>4. EofIsFinal'
  BY <1>0 DEF RelayInv, TypeOK, EofIsFinal, EndsRecorded
<1> QED
  BY <1>1, <1>2, <1>3, <1>4 DEF RelayInv

\* A direction ends: a unit in its buffer may be lost, unless it ended in EOF,
\* which a direction does only with an empty buffer and nothing left to read.
LEMMA EndKeepsInv ==
    ASSUME RelayInv, UNCHANGED cfg, NEW e \in Ends,
           ReadEOF(e) \/ ReadGone(e) \/ ReadIdle(e) \/ WriteGone(e) \/ CopyFails(e)
    PROVE  RelayInv'
<1>0. Other(e) \in Ends /\ Other(e) # e /\ Other(Other(e)) = e /\ Ends = {e, Other(e)}
  BY OtherEnd
<1>1. PICK why \in {"eof", "gone", "idle", "error"} :
        /\ End(e, why)
        /\ dir[e] # "over"
        /\ why = "eof" => peer[e] = "fin" /\ inbox[e] = 0 /\ dir[e] = "read"
        /\ \/ /\ conn' = [conn EXCEPT ![Other(e)] =
                             IF cfg.halfclose /\ @ # "closed" THEN "wrclosed" ELSE "closed"]
           \/ conn' = [x \in Ends |-> "closed"] /\ why \in {"idle", "error"}
  BY DEF ReadEOF, ReadGone, ReadIdle, WriteGone, CopyFails, FinishGraceful, CloseBoth
<1> USE DEF End, peerVars
<1>2. TypeOK'
  BY <1>0, <1>1 DEF RelayInv, TypeOK
<1>3. UnitsAccountedFor'
  BY <1>0, <1>1 DEF RelayInv, TypeOK, UnitsAccountedFor, Buffered
<1>4. EndsRecorded'
  BY <1>0, <1>1 DEF RelayInv, TypeOK, EndsRecorded
<1>5. EofIsFinal'
  BY <1>0, <1>1 DEF RelayInv, TypeOK, EofIsFinal, UnitsAccountedFor, Buffered
<1>6. ClosersKnown'
  <2>1. \A x \in Ends : conn'[x] = "wrclosed" => ended'[Other(x)] # "no"
    BY <1>0, <1>1 DEF RelayInv, TypeOK, ClosersKnown
  <2>2. cfg'.halfclose /\ (\E x \in Ends : conn'[x] = "closed") =>
           done' \/ \E x \in Ends : ended'[x] \in {"idle", "error"}
    BY <1>0, <1>1 DEF RelayInv, TypeOK, ClosersKnown, EndsRecorded
  <2> QED
    BY <2>1, <2>2 DEF ClosersKnown
<1> QED
  BY <1>2, <1>3, <1>4, <1>5, <1>6 DEF RelayInv

\* proxyConnections returns after both directions.
LEMMA ReturnKeepsInv ==
    ASSUME RelayInv, UNCHANGED cfg, Returns
    PROVE  RelayInv'
<1> USE DEF Returns, peerVars
<1>1. TypeOK'
  BY DEF RelayInv, TypeOK
<1>2. UnitsAccountedFor' /\ EofIsFinal'
  BY DEF RelayInv, UnitsAccountedFor, Buffered, EofIsFinal
<1>3. EndsRecorded' /\ ClosersKnown'
  BY DEF RelayInv, TypeOK, EndsRecorded, ClosersKnown, Ends, Other
<1> QED
  BY <1>1, <1>2, <1>3 DEF RelayInv

----------------------------------------------------------------------------
\* The relay's accounting holds in every reachable state, however the peers and
\* the two copying goroutines interleave.
THEOREM RelaySafety == Spec => []RelayInv
<1>1. Init => RelayInv
  BY RelayInit
<1>2. RelayInv /\ [Next]_vars => RelayInv'
  <2> SUFFICES ASSUME RelayInv, [Next]_vars PROVE RelayInv'
    OBVIOUS
  <2>1. CASE \E e \in Ends : Active /\ (PeerStep(e) \/ CopyStep(e))
    BY <2>1, PeerKeepsInv, CopyKeepsInv, EndKeepsInv DEF CopyStep, Active
  <2>2. CASE Active /\ Returns
    BY <2>2, ReturnKeepsInv DEF Active
  <2>3. CASE UNCHANGED vars
    BY <2>3 DEF vars, RelayInv, TypeOK, UnitsAccountedFor, Buffered, EndsRecorded, EofIsFinal,
                ClosersKnown
  <2> QED
    BY <2>1, <2>2, <2>3 DEF Next, Returned
<1> QED
  BY <1>1, <1>2, PTL DEF Spec

\* copyDirection's end of stream is the truth, whatever the peers send and
\* however small the socket buffers: a direction that ended in EOF has written to the
\* other end every unit its peer sent.
THEOREM EofTellsAll == Spec => []EofIsComplete
<1>1. RelayInv => EofIsComplete
  BY DEF RelayInv, EofIsFinal, EofIsComplete
<1> QED
  BY <1>1, RelaySafety, PTL

\* proxyConnections' half-close: a clean EOF in one direction leaves the other
\* one its source to read and its destination to write.
THEOREM HalfCloseIsHarmless == Spec => []HalfCloseKeepsOpposite
<1>1. RelayInv => HalfCloseKeepsOpposite
  <2> SUFFICES ASSUME RelayInv, cfg.halfclose, NEW e \in Ends,
                      ended[e] = "eof", ended[Other(e)] = "no"
               PROVE  conn[Other(e)] # "closed" /\ conn[e] = "open"
    BY DEF HalfCloseKeepsOpposite
  <2>1. Other(e) \in Ends /\ Ends = {e, Other(e)}
    BY OtherEnd
  <2>2. ~done /\ \A x \in Ends : conn[x] # "closed"
    BY <2>1 DEF RelayInv, ClosersKnown, EndsRecorded
  <2>3. conn[e] # "wrclosed"
    BY DEF RelayInv, ClosersKnown
  <2> QED
    BY <2>1, <2>2, <2>3 DEF RelayInv, TypeOK
<1> QED
  BY <1>1, RelaySafety, PTL

\* The counters of the relay stay in range: a direction that is over has dropped
\* one unit at most, the one in its buffer, and left the rest unread.
THEOREM RelayTypeCorrect == Spec => []TypeOK
<1>1. RelayInv => TypeOK
  BY DEF RelayInv
<1> QED
  BY <1>1, RelaySafety, PTL
=============================================================================
