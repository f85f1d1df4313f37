\* One user, two permissions and two changes, which may come due together or apart.
CONSTANTS
    Users = {ann}
    Perms = {read, write}
    Unset = null
    Databases = {"sqlite", "postgres"}
    MaxTime = 2
    MaxFutures = 2
SPECIFICATION FairScheduleSpec
INVARIANTS
    ScheduleTypeOK
PROPERTIES
    TimetableSpec
    ScheduledHappen
