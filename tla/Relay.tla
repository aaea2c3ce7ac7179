------------------------------- MODULE Relay --------------------------------
(***************************************************************************)
(* proxyConnections of internal/proxy: the two goroutines that copy bytes  *)
(* between a client and a remote, half-close on end of stream, close both  *)
(* ends on an idle timeout or an error, and the final close of both.       *)
(*                                                                         *)
(* A direction is named by the end it reads from: direction e reads end e  *)
(* and writes end Other(e).  Bytes are counted in units of one buffer.     *)
(* The peers (the client program and the remote service) and the kernel's  *)
(* socket buffers are the environment.                                     *)
(***************************************************************************)
EXTENDS Integers

CONSTANT
    Window       \* units a socket buffer takes before its reader reads some

ASSUME WindowAssumption == Window \in Nat \ {0}

Ends == {"client", "remote"}
Other(e) == IF e = "client" THEN "remote" ELSE "client"

VARIABLES
    cfg,     \* [idle, halfclose]: IdleTimeout > 0; the conns implement CloseWrite
             \* (TCP and tsnet do, net.Pipe does not)
    peer,    \* peer[e]: "open", "fin" (it shut its sending side) or "rst"
    due,     \* due[e]: units the peer at e has sent and that were not written to
             \* the other end (yet, or ever)
    inbox,   \* inbox[e]: those the bridge has not read yet
    unread,  \* unread[e]: units written to end e that its peer has not read yet
    conn,    \* conn[e]: the bridge's socket: "open", "wrclosed" or "closed"
    dir,     \* dir[e]: "read", "write" or "over"
    ended,   \* ended[e]: why direction e is over: "no", "eof", "gone", "idle", "error"
    done     \* proxyConnections returned

vars == <<cfg, peer, due, inbox, unread, conn, dir, ended, done>>
peerVars == <<peer, due, inbox, unread>>

Configs == [idle : BOOLEAN, halfclose : BOOLEAN]

TypeOK ==
    /\ cfg \in Configs
    /\ peer \in [Ends -> {"open", "fin", "rst"}]
    /\ due \in [Ends -> 0..(Window + 1)]
    /\ inbox \in [Ends -> 0..Window]
    /\ unread \in [Ends -> 0..Window]
    /\ conn \in [Ends -> {"open", "wrclosed", "closed"}]
    /\ dir \in [Ends -> {"read", "write", "over"}]
    /\ ended \in [Ends -> {"no", "eof", "gone", "idle", "error"}]
    /\ done \in BOOLEAN

Init ==
    /\ cfg \in Configs
    /\ peer = [e \in Ends |-> "open"]
    /\ due = [e \in Ends |-> 0]
    /\ inbox = [e \in Ends |-> 0]
    /\ unread = [e \in Ends |-> 0]
    /\ conn = [e \in Ends |-> "open"]
    /\ dir = [e \in Ends |-> "read"]
    /\ ended = [e \in Ends |-> "no"]
    /\ done = FALSE

(***************************************************************************)
(* The peers.                                                              *)
(***************************************************************************)
PeerSends(e) ==
    /\ peer[e] = "open" /\ conn[e] # "closed" /\ inbox[e] < Window
    /\ due' = [due EXCEPT ![e] = @ + 1]
    /\ inbox' = [inbox EXCEPT ![e] = @ + 1]
    /\ UNCHANGED <<peer, unread, conn, dir, ended, done>>

PeerReads(e) ==
    /\ peer[e] # "rst" /\ unread[e] > 0
    /\ unread' = [unread EXCEPT ![e] = @ - 1]
    /\ UNCHANGED <<peer, due, inbox, conn, dir, ended, done>>

PeerFinishes(e) ==
    /\ peer[e] = "open"
    /\ peer' = [peer EXCEPT ![e] = "fin"]
    /\ UNCHANGED <<due, inbox, unread, conn, dir, ended, done>>

PeerResets(e) ==
    /\ peer[e] # "rst"
    /\ peer' = [peer EXCEPT ![e] = "rst"]
    /\ UNCHANGED <<due, inbox, unread, conn, dir, ended, done>>

(***************************************************************************)
(* How a direction ends.  finishGraceful shuts the write half of the       *)
(* destination, or closes it where CloseWrite does not exist; an idle      *)
(* timeout and an unexpected error close both ends.                        *)
(***************************************************************************)
End(e, why) ==
    /\ dir' = [dir EXCEPT ![e] = "over"]
    /\ ended' = [ended EXCEPT ![e] = why]
    /\ UNCHANGED <<peerVars, done>>

\* Faulty variant: a clean end of stream closes the destination outright.
FinishGracefulFull(e, why) ==
    /\ End(e, why)
    /\ conn' = [conn EXCEPT ![Other(e)] = "closed"]

\* Faulty variant: a destination without CloseWrite is left as it is.
FinishGracefulHalfOnly(e, why) ==
    /\ End(e, why)
    /\ conn' = [conn EXCEPT ![Other(e)] =
                    IF cfg.halfclose /\ @ # "closed" THEN "wrclosed" ELSE @]

FinishGraceful(e, why) ==
    /\ End(e, why)
    /\ conn' = [conn EXCEPT ![Other(e)] =
                    IF cfg.halfclose /\ @ # "closed" THEN "wrclosed" ELSE "closed"]

CloseBoth(e, why) ==
    /\ End(e, why)
    /\ conn' = [x \in Ends |-> "closed"]

(***************************************************************************)
(* copyDirection: io.CopyBuffer's read-write loop.                         *)
(***************************************************************************)
Read(e) ==
    /\ dir[e] = "read" /\ conn[e] # "closed" /\ inbox[e] > 0
    /\ inbox' = [inbox EXCEPT ![e] = @ - 1]
    /\ dir' = [dir EXCEPT ![e] = "write"]
    /\ UNCHANGED <<peer, due, unread, conn, ended, done>>

\* Faulty variant: a FIN ends the copy although bytes wait to be read.
ReadEOFEarly(e) ==
    /\ dir[e] = "read" /\ conn[e] # "closed" /\ peer[e] = "fin"
    /\ FinishGraceful(e, "eof")

ReadEOF(e) ==
    /\ dir[e] = "read" /\ conn[e] # "closed" /\ peer[e] = "fin" /\ inbox[e] = 0
    /\ FinishGraceful(e, "eof")

\* IsExpectedCloseError: the end was closed by the other direction, or its peer
\* reset it.
ReadGone(e) ==
    /\ dir[e] = "read"
    /\ conn[e] = "closed" \/ peer[e] = "rst"
    /\ FinishGraceful(e, "gone")

\* Faulty variant: only the client's end is wrapped in an idleConn.
ReadIdleClientOnly(e) ==
    /\ cfg.idle /\ e = "client"
    /\ dir[e] = "read" /\ conn[e] # "closed" /\ peer[e] = "open" /\ inbox[e] = 0
    /\ CloseBoth(e, "idle")

\* The read deadline idleConn set when this Read began.
ReadIdle(e) ==
    /\ cfg.idle
    /\ dir[e] = "read" /\ conn[e] # "closed" /\ peer[e] = "open" /\ inbox[e] = 0
    /\ CloseBoth(e, "idle")

\* The unit goes out; the next Read begins, with a new deadline.
Write(e) ==
    /\ dir[e] = "write"
    /\ conn[Other(e)] = "open" /\ peer[Other(e)] # "rst" /\ unread[Other(e)] < Window
    /\ due' = [due EXCEPT ![e] = @ - 1]
    /\ unread' = [unread EXCEPT ![Other(e)] = @ + 1]
    /\ dir' = [dir EXCEPT ![e] = "read"]
    /\ UNCHANGED <<peer, inbox, conn, ended, done>>

WriteGone(e) ==
    /\ dir[e] = "write"
    /\ conn[Other(e)] = "closed" \/ peer[Other(e)] = "rst"
    /\ FinishGraceful(e, "gone")

\* Any other transport error, on either side of the copy.
CopyFails(e) ==
    /\ dir[e] # "over" /\ conn[e] # "closed" /\ conn[Other(e)] # "closed"
    /\ CloseBoth(e, "error")

\* wg.Wait, then the full close of both ends.
Returns ==
    /\ ~done /\ \A e \in Ends : dir[e] = "over"
    /\ done' = TRUE
    /\ conn' = [e \in Ends |-> "closed"]
    /\ UNCHANGED <<peerVars, dir, ended>>

PeerStep(e) == PeerSends(e) \/ PeerReads(e) \/ PeerFinishes(e) \/ PeerResets(e)
CopyStep(e) ==
    \/ Read(e) \/ ReadEOF(e) \/ ReadGone(e) \/ ReadIdle(e)
    \/ Write(e) \/ WriteGone(e) \/ CopyFails(e)

\* The relay is over; the connection's goroutine goes on to release its slot.
Returned == done /\ UNCHANGED vars

\* The relay is under way; what the connections are does not change.
Active == ~done /\ UNCHANGED cfg

Next ==
    \/ Active /\ \E e \in Ends : PeerStep(e) \/ CopyStep(e)
    \/ Active /\ Returns
    \/ Returned

Spec == Init /\ [][Next]_vars

(***************************************************************************)
(* Fairness.  The goroutines run, a deadline that was set fires, and the   *)
(* peers read what they were sent.  Whether they ever stop sending, finish *)
(* or reset is up to them.                                                 *)
(***************************************************************************)
CopyFairness ==
    /\ \A e \in Ends :
        /\ WF_vars(Active /\ (Read(e) \/ ReadEOF(e) \/ ReadGone(e)
                             \/ Write(e) \/ WriteGone(e)))
        /\ WF_vars(Active /\ ReadIdle(e))
    /\ WF_vars(Active /\ Returns)

PeersRead == \A e \in Ends : WF_vars(Active /\ PeerReads(e))

FairSpec == Spec /\ CopyFairness /\ PeersRead

(***************************************************************************)
(* Properties.                                                             *)
(***************************************************************************)
\* The end of stream that copyDirection passes on is the truth: when direction
\* e ended in EOF, everything its peer sent before its FIN was written to the
\* other end.
EofIsComplete ==
    \A e \in Ends : ended[e] = "eof" => due[e] = 0

\* proxyConnections' comment, "the peer sees end-of-stream without tearing down
\* the opposite (still-active) direction": after a clean EOF the other direction
\* can still read its source and write its destination.
HalfCloseKeepsOpposite ==
    cfg.halfclose => \A e \in Ends :
        ended[e] = "eof" /\ ended[Other(e)] = "no" =>
            conn[Other(e)] # "closed" /\ conn[e] = "open"

\* What the peers may do of their own accord: finish when they are told that the
\* stream is over, as a program does that reads to the end; fall silent.
FinishesWhenTold(e) == WF_vars(Active /\ conn[e] # "open" /\ PeerFinishes(e))
FallsSilent(e) == <>[][~PeerSends(e)]_vars

\* A connection's slot is held until proxyConnections returns.  One peer's FIN or
\* reset is enough for that, however much the other one sends, if the other one
\* finishes when it is told: the end of stream reaches it, with CloseWrite and
\* without, and comes back through the opposite direction.
EndsWithItsPeers ==
    (\A e \in Ends : FinishesWhenTold(e)) => ((\E e \in Ends : peer[e] # "open") ~> done)

\* idleConn, "Either direction reaching its deadline closes the pair": with an
\* idle timeout the relay ends once a peer stays open and sends no more, although
\* the other one sends for ever; and once both send no more, also when one of
\* them finished or reset before, which without a timeout leaves the relay
\* half-closed for ever.
IdleEndsRelay ==
    (\/ \E e \in Ends : FallsSilent(e) /\ <>[](peer[e] = "open")
     \/ \A e \in Ends : FallsSilent(e)) => (cfg.idle ~> done)
=============================================================================
