CONSTANTS
    QueueCapacity = 2
    PipeSize = 1
    MaxPosted = 1
    Budgets <- MCBudgets
SPECIFICATION Spec
INVARIANTS StateMatches AnswersFresh
CHECK_DEADLOCK FALSE
PROPERTIES GuiCatchesUp CommandAnswered ShutdownCompletes
