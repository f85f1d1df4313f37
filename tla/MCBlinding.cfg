\* One person, who logs in while moderators decide: two workers.
CONSTANTS
    People = {ann}
    Nobody = nobody
    Workers = {w1, w2}
    Perms = {write}
    Unset = null
    Databases = {"sqlite"}
    MaxTime = 1
    MaxFutures = 1
SPECIFICATION BlindSpec
INVARIANTS
    HoldersAreTracked
PROPERTIES
    MovingLosesNothing
SYMMETRY Symmetry
