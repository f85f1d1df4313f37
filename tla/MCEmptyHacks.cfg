\* A server whose imported attachments have expired.
CONSTANTS
    Procs = {daemon}
    MaxGaps = 0
SPECIFICATION MigrationSpec
PROPERTIES
    EmptyHacksDropped
