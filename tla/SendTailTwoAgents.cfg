SPECIFICATION FairSpec
CONSTANTS
    MaxUnanswered = 1
    MaxPostponements = 1
    MaxMissedPromises = 1
    Workers <- TwoAgentWorkers
    KindsOf <- TwoAgents
    Replies <- NoReplies
    InitStates = {"overdue", "promise_to_pay", "blocked", "escalation_required"}
    Buttons = {"pause", "close"}
    MaxCrashes = 0
INVARIANTS TailMutex
PROPERTIES RunsEnd ExhaustionReachesHuman
