SPECIFICATION Spec
CONSTANTS
    MaxUnanswered = 2
    MaxPostponements = 1
    MaxMissedPromises = 1
    Workers <- OneAgentWorkers
    KindsOf <- OneAgent
    Replies <- AllReplies
    InitStates = {"overdue", "due"}
    Buttons = {"pause", "close", "resume", "restart", "edit"}
    MaxCrashes = 1
INVARIANTS TypeOK BoundedAutonomy
PROPERTIES PaidNotChased NeverAfterOptOut HandOffHolds PaymentKept
