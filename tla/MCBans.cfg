\* An admin and another user, two workers; the clock and the mule go on.
\* All users may be banned from the server when the clock stops: then nobody acts.
CONSTANTS
    Users = {root, ann}
    NoUser = nobody
    Root = {root}
    Timeouts <- PastZeroAhead
    Never = never
    Zero = zero
    Workers = {w1, w2}
    MaxTime = 1
    MaxLookups = 4
SPECIFICATION FairSpec
INVARIANTS
    RolesTypeOK
    UnbansMatchSentences
PROPERTIES
    BansServed
    RoomRolesByAdmins
    TimedRoomBansEnd
CHECK_DEADLOCK FALSE
