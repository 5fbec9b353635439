\* another player's success while a submission is judged
CONSTANTS
    Rooms = {r1}
    MaxSubmissions = 2
    MaxClears = 1
    None = None
SPECIFICATION Spec
INVARIANT
    OneSubmissionAtATime
