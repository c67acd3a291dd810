SPECIFICATION FairSpec
CONSTANTS
    Conversations = {c1, c2}
    Existing = {c1}
    Questions = {q1, q2}
    Orders = {}
    Attempts = {j1, j2}
    NoConversation = NoConversation
    NoData = NoData
    Asked = Asked
INVARIANTS TypeOK OnlyLeftOrCarriedStray TypedStays AnswersAreSaved
PROPERTY EveryTurnEnds
CHECK_DEADLOCK FALSE
