\* Every combination of the options.
CONSTANTS
    MaxConns = 2
    MaxCleanups = 5
SPECIFICATION FairSpec
INVARIANTS ReadyIsFirstAndOnly ExitStatusTellsCause NothingOutlivesRun
PROPERTIES CancelledRunEnds BootstrapLossEndsRun
