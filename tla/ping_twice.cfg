SPECIFICATION Spec
CONSTANTS
    ping = ping
    brief = brief
    Pings = {ping}
    Briefings = {brief}
    Ticks = {t1, t2}
    OpensAt <- Opening
    ClosesAt <- Closing
    Pushed = {}
    LosesAnswers = {ping}
    Horizon = 2
    MaxRefusals = 1
    MaxFaults = 1
    MaxTurns = 2
    NoSlot = NoSlot
INVARIANT NeverTwice
