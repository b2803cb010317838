SPECIFICATION OmarSearchSpec
CONSTANTS
    Passes = 2 SearchLast = 2 SearchPages = 2 EmptyTries = 1 PruneDays = 2 LastDate = 2 MaxMistakes = 2
PROPERTIES BudgetKeepsCursor
CHECK_DEADLOCK FALSE
