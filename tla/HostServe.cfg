CONSTANTS
    Services = {"ssh", "rdp"}
    MaxDelay = 2
    MaxBus = 1
    NoOne = NoOne
SPECIFICATION FairSpec
INVARIANTS HealthIsFold OneChildAtATime NothingOutlivesServe
PROPERTIES ServeEnds LossShows RecoveryShows
