CONSTANTS
    InitInputs <- MCInitInputs
    Settings <- MCSettings
    WithInit <- MCWithInit
    Edits <- MCEdits
    Busy <- MCBusy
    Offsets = {0, 1}
    MaxInits = 2
    MaxEdits = 1
    Second = 1
    Width = 8
    maxBackoffAttempt = 4
    None = None
SPECIFICATION Spec
INVARIANTS  KeyKeepsItsPlane ManagedKeyStaysHome LayersDecide BackoffBounded
