\* two rooms, two submissions, two successes shown at once
CONSTANTS
    Rooms = {r1, r2}
    MaxSubmissions = 2
    MaxClears = 2
    None = None
SPECIFICATION FairSpec
INVARIANTS
    TypeOK
    AlwaysArmed
PROPERTIES
    BannersStayOnlySo
    ButtonComesBack
