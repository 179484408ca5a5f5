\* Deletions, additions, loads and restarts over two sections.
SPECIFICATION Spec
CONSTANTS
    soup = soup
    chili = chili
    burger = burger
    cake = cake
    DocOrder <- FourItems
    Sections <- TwoSections
    Category <- TwoCategories
    Stored <- AllButCake
    MaxActs = 3
    MaxSelected = 2
INVARIANTS
    TypeOK
    TableShowsMenu
    RemovalsNameTheirRow
PROPERTIES
    ConfirmedRowDeleted
\* The user may stop, and an index out of range ends the application.
CHECK_DEADLOCK FALSE
