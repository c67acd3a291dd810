SPECIFICATION FairSpec
CONSTANTS
    ping = ping
    brief = brief
    Pings = {ping}
    Briefings = {brief}
    Ticks = {t1, t2}
    OpensAt <- Opening
    ClosesAt <- Closing
    Pushed = {}
    LosesAnswers = {brief}
    Horizon = 2
    MaxRefusals = 1
    MaxFaults = 1
    MaxTurns = 2
    NoSlot = NoSlot
INVARIANTS TypeOK NeverTwice OneOwner HistoryIsTrue PingsAreRetried
PROPERTIES CaughtUp Promised
