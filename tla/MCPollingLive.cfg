\* A client that does not ask for reactions; fair polling: answers may be lost, but
\* not all of them.  The filter rejects with a public reply.
CONSTANTS
    Users = {mod, ann}
    Mods = {mod}
    Admins = {mod}
    ServerUser = server
    NoUser = nobody
    Data = {fine, odd}
    NoData = null
    ReplyBody = reply
    Profane = {odd}
    SilentFilter = FALSE
    FilterReply = "public"
    Reactions = {like}
    Workers = {w1}
    MaxMessages = 2
    MaxSequence = 3
    Clients = {ann}
    Ways <- PlainOnly
    Absent = absent
SPECIFICATION LivePollSpec
PROPERTIES
    EventuallyInSync
