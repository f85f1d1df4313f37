\* Two processes that start, stop and migrate as they come.
CONSTANTS
    Procs = {daemon, tool}
    MaxGaps = 0
SPECIFICATION MigrationSpec
INVARIANTS
    UpIsCurrent
PROPERTIES
    RowsKept
    StartsFailForAReason
SYMMETRY Symmetry
