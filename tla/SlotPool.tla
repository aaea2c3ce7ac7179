------------------------------ MODULE SlotPool ------------------------------
(***************************************************************************)
(* What ts-bridge promises about its connection cap, without saying how:   *)
(* a pool of MaxConnections slots.  A connection takes a slot at a moment  *)
(* when the pool has one, is refused only at a moment when the pool has    *)
(* none, and gives its slot back exactly once.  AcceptLoop implements this *)
(* with a shared atomic counter and a compare-and-swap.                    *)
(***************************************************************************)
EXTENDS Integers, FiniteSets

CONSTANTS
    Conns,           \* the connections clients may open
    MaxConnections   \* config.Config.MaxConnections

VARIABLES
    held,      \* the connections that own a slot
    refused,   \* the connections that were turned away
    gone       \* the connections that gave their slot back

pvars == <<held, refused, gone>>

PoolInit == held = {} /\ refused = {} /\ gone = {}

Unseen(c) == c \notin held \cup refused \cup gone

TakeSlot(c) ==
    /\ Unseen(c)
    /\ Cardinality(held) < MaxConnections
    /\ held' = held \cup {c}
    /\ UNCHANGED <<refused, gone>>

RefuseSlot(c) ==
    /\ Unseen(c)
    /\ Cardinality(held) >= MaxConnections
    /\ refused' = refused \cup {c}
    /\ UNCHANGED <<held, gone>>

GiveSlotBack(c) ==
    /\ c \in held
    /\ held' = held \ {c}
    /\ gone' = gone \cup {c}
    /\ UNCHANGED refused

PoolNext == \E c \in Conns : TakeSlot(c) \/ RefuseSlot(c) \/ GiveSlotBack(c)

PoolSpec == PoolInit /\ [][PoolNext]_pvars
=============================================================================
