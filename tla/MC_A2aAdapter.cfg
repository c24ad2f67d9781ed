SPECIFICATION A2aFairSpec
CONSTANTS
    a1 = a1
    acme = acme
    Runs = {1}
    MaxClock = 2
    Chats = {a1}
    Suppliers = {1, 2, 3}
    AtStart = {{2, 3}}
    Names = {acme}
    Likeness <- Resemblance
    PageSize = 2
    Budget = 1
    Hour = 1
    ReplyBudget = 1
INVARIANTS BudgetHolds ClearWinner
PROPERTIES ChatsEnd
CHECK_DEADLOCK FALSE
