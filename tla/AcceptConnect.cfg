\* connect with the SOCKS5 loop: one loop, retries, terminal dial errors cancel
\* the run, active connections are drained.  Liveness, so no symmetry.
CONSTANTS
    c1 = c1  c2 = c2
    l1 = l1
    Conns = {c1, c2}
    Loops = {l1}
    NoConn = NoConn
    MaxConnections = 1
    MaxRetries = 2
    Socks = TRUE
    HasCancel = TRUE
    Drains = TRUE
SPECIFICATION FairSpec
INVARIANT DrainedMeansIdle
PROPERTIES NoAddDuringDrain SlotNotStuckBeforeRelay ShutdownCompletes
