\* Both settings of the idle timeout, conns with and without CloseWrite.
CONSTANT Window = 2
SPECIFICATION FairSpec
INVARIANTS EofIsComplete HalfCloseKeepsOpposite
PROPERTIES EndsWithItsPeers IdleEndsRelay
