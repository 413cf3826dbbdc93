CONSTANTS
    NotAnInteger = NotAnInteger
    NULL = NULL
    Drafts = {0, 1, 2}
    RefusedDrafts = {2}
    Faults <- MCFaults
    Views <- MCViews
    Reads <- MCReads
    MaxRows = 3
    FewRows = 2
    Crowded <- MCCrowded
    PageSizes = {1, 2}
    FixedSize = 1
    MaxChanges = 1
    MaxMoves = 2
SPECIFICATION LiveSpec
CHECK_DEADLOCK FALSE
INVARIANTS
    PagesTypeOK
    SettledShowsAsked
    CollectionSkipsNothing
PROPERTIES
    ShownNeverGoesBack
    EditsSurviveLinks
    ViewsSettle
    SavesSettle
