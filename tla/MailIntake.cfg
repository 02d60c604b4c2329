SPECIFICATION IntakeFairSpec
CONSTANTS
    Mails <- MixedMails
    KindOf <- MixedKinds
    Window = 3
    MaxCuts = 2
INVARIANTS AppliedOnce
PROPERTIES ReplyGetsItsTurn RepliesImplement
