SPECIFICATION Spec
CONSTANTS
    MaxUnanswered = 3
    MaxPostponements = 2
    MaxMissedPromises = 2
    Addresses = {a1, a2}
    Days = {d1, d2}
    Live = TRUE
    LlmDrafts <- MCDrafts
    Inbox <- MCReplies
    MaxReplies = 2
    MaxEdits = 1
SYMMETRY Symmetry
INVARIANTS OnlyCleanIsSent OutsidersAreTold
PROPERTIES DisputeIsHeard
CHECK_DEADLOCK FALSE
