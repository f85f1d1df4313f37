\* A client that gets one row at a time, and a reaction between two messages.
CONSTANTS
    Users = {mod, ann}
    Mods = {mod}
    Admins = {mod}
    ServerUser = server
    NoUser = nobody
    Data = {fine}
    NoData = null
    ReplyBody = reply
    Profane = {}
    SilentFilter = FALSE
    FilterReply = "none"
    Reactions = {like}
    Workers = {w1}
    MaxMessages = 2
    MaxSequence = 3
    Clients = {ann}
    Ways <- PagedOnly
    Absent = absent
SPECIFICATION PollSpec
INVARIANTS
    PagesLoseNothing
