\* Two rooms with messages of three ids, with gaps, a deletion and its duplicate, and
\* answers of a single message.
CONSTANTS
    Rooms <- TwoRooms
    OldIds = {1, 2, 3}
    OldFiles = {101}
    Limit = 1
    MaxDeletions = 2
    MaxRows = 4
    MaxChanges = 1
    MaxId = 5
    MaxFile = 2
SPECIFICATION ImportSpec
INVARIANTS
    NothingOverwritten
    OnlyRemappedMissed
    FilesFound
PROPERTIES
    LaterDeletionsHeard
CHECK_DEADLOCK FALSE
