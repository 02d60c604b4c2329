SPECIFICATION FollowSpec
CONSTANTS
    ErpCases = {c1}
    Askers = {ann, bob}
    EndDays = {0, none}
    NoEnd = none
    NoCase = nocase
    Cadence = 1
    Recent = 1
    NumCamps = 2
    LastDay = 2
    MaxReplies = 2
    MaxBreaks = 1
INVARIANTS MirroredOnce Paced
PROPERTIES OverIsOver
