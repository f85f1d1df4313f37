\* Three requests, two of a user if need be; each may arrive again when it is too old.
\* All may have been run when the clock stops.
CONSTANTS
    ann = ann
    bob = bob
    Users = {ann, bob}
    RequestIds = {r1, r2, r3}
    Bodies <- InboxBodies
    Workers = {w1}
    None = none
    Window = 1
    Ahead <- BobAhead
    DMExpiry = 1
    Limit = 1
    MaxTime = 2
SPECIFICATION RequestsSpec
INVARIANTS
    
    SequencesStop
    OnlyReusedMissed
SYMMETRY Symmetry
CHECK_DEADLOCK FALSE
