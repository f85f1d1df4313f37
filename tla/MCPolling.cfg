\* A client that asks for reactions and gets all its updates in one answer, or one
\* row at a time.
CONSTANTS
    Users = {mod, ann}
    Mods = {mod}
    Admins = {mod}
    ServerUser = server
    NoUser = nobody
    Data = {fine, odd}
    NoData = null
    ReplyBody = reply
    Profane = {}
    SilentFilter = FALSE
    FilterReply = "none"
    Reactions = {like}
    Workers = {w1}
    MaxMessages = 2
    MaxSequence = 4
    Clients = {ann}
    Ways <- FullAndPaged
    Absent = absent
SPECIFICATION PollSpec
INVARIANTS
    CopyCurrent
    ReactionsCurrent
    KnownWereCreatedBefore
SYMMETRY Symmetry
