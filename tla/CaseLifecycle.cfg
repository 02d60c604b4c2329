SPECIFICATION Spec
CONSTANTS
    MaxUnanswered = 2
    MaxPostponements = 2
    MaxMissedPromises = 2
    DueDay = 1
    NudgeInterval = 1
    Horizon = 3
    Replies <- EveryReply
    MaxReplies = 2
INVARIANTS OnePromise OneMissPerPromise ConfirmGrounded DeferralKept PmFirst AlwaysWoken
