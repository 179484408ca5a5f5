\* Publications, loads, deletions, failures and restarts over two days.
SPECIFICATION Spec
CONSTANTS
    oldies = oldies
    karaoke = karaoke
    quiz = quiz
    None = None
    Publications = {oldies, karaoke, quiz}
    Dates <- Weekend
    DateOf <- Nights
    Earlier = {oldies}
    MaxActs = 5
INVARIANTS
    TypeOK
    EventKeepsItsImage
    RowsAreReliable
PROPERTIES
    CrashNeedsHalfLoad
\* The user may stop, and an inconsistent table ends the application.
CHECK_DEADLOCK FALSE
