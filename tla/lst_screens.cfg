\* Any of the five list screens; loads overlap on the gallery.
SPECIFICATION FairSpec
CONSTANTS
    None = None
    Photos = {1, 2, 3}
    Mine = {1, 3}
    Dated = {2, 3}
    Sections = {1, 2}
    Category <- SectionOf
    MaxLoads = 3
    MaxChanges = 1
    MaxFailures = 1
INVARIANTS
    TypeOK
    TableShowsCollection
PROPERTIES
    CrashHasCause
    RowsActOnWhatTheyShow
    TableCatchesUp
\* The user may stop, and a trap ends the application.
CHECK_DEADLOCK FALSE
