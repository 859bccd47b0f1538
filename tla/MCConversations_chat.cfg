\* Messages that overlap, on two channels or, at first, three; the run ends at the bound of messages.
SPECIFICATION Spec
CONSTANTS
    Intents = {"expense", "purchase", "goal"}
    Cash = {"expense"}
    Goals = {"goal"}
    Expense = "expense"
    Purchase = "purchase"
    Keep = 2
    Turns = 5
    Horizon = 1
    Chats <- MCChats
    Rows <- MCRows
    Sessions = {s1, s2, s3}
    Nobody = Nobody
SYMMETRY MCSymmetry
ACTION_CONSTRAINT MCBounds
INVARIANTS
    OncePerQuestion
    AnswersAreTrue
CHECK_DEADLOCK FALSE
