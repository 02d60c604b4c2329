SPECIFICATION FairSpec
CONSTANTS
    Cases = {c1, c2}
    Stages = {first, final}
    NoStage = nostage
    Week = 2
    MaxDay = 2
    MaxStops = 1
INVARIANTS EachOnce
PROPERTIES ReminderGoesOut CardsImplement DigestsImplement
