\* Two gets, over lost connections and user changes; fair.
SPECIFICATION FairSpec
CONSTANTS
    g1 = g1
    g2 = g2
    guests = guests
    profile = profile
    Asks <- MCAsks
    NoQuery = NoQuery
    Gets = {g1, g2}
    Queries = {guests, profile}
    MaxTurns <- MCMaxTurns
\* The application may stop.
CHECK_DEADLOCK FALSE
INVARIANTS
    TypeOK
    AnsweredOnce
    OnlineStateAgrees
PROPERTIES
    SyncIsForThisWatch
    GetsAreAnswered
