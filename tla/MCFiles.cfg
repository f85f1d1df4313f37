\* Two uploads and a message: room for an image that is replaced, or for an attachment
\* and an image; time for both to expire.
CONSTANTS
    Users = {ann}
    Messages = {m1}
    None = null
    Never = never
    Recent = 1
    Default = 2
    MaxTime = 4
    MaxFiles = 2
SPECIFICATION FairFilesSpec
INVARIANTS
    FilesTypeOK
    
    KeptForAReason
    InfoCurrent
PROPERTIES
    AttachmentsLast
    ExpiredGo
