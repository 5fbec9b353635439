CONSTANTS
    Here = Here
    There = There
    None = None
    Starts = 2
    MaxVersion = 2
    MaxFetches = 2
    MaxNotices = 2
    MaxGhosts = 1
SPECIFICATION Spec
INVARIANTS
    TypeOK
    SettledBoardIsCurrent
    BoardIsOfSelection
    SelectedHereIsHeard
