\* A silent filter that whispers a reply; a worker, whose checks race with bans and
\* "delete all" of other requests; deletions of several messages with several reactions.
CONSTANTS
    Users = {mod, ann}
    Mods = {mod}
    Admins = {mod}
    ServerUser = server
    NoUser = nobody
    Data = {fine, rude}
    NoData = null
    ReplyBody = reply
    Profane = {rude}
    SilentFilter = TRUE
    FilterReply = "whisper"
    Reactions = {like}
    Workers = {w1}
    MaxMessages = 2
    MaxSequence = 6
SPECIFICATION Spec
INVARIANTS
    TypeOK
    ReactionsOnVisible
    NumbersFollowCounter
    CounterIsTopSeqno
    SeqnosDistinct
    ReactionsAreStamped
PROPERTIES
    BanHolds
    LateReactionsHold
    TombstonesFinal
    FeedSpec

