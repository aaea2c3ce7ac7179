\* host serve: two published services share the process-wide cap; a nil cancel,
\* no retries, no drain.
CONSTANTS
    c1 = c1  c2 = c2  c3 = c3
    l1 = l1  l2 = l2
    Conns = {c1, c2, c3}
    Loops = {l1, l2}
    NoConn = NoConn
    MaxConnections = 2
    MaxRetries = 0
    Socks = FALSE
    HasCancel = FALSE
    Drains = FALSE
SPECIFICATION Spec
SYMMETRY Symmetry
INVARIANTS TypeOK CapHolds GaugeIsExact OpenSocketHasOwner
PROPERTY ImplementsSlotPool
