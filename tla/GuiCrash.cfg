CONSTANTS
    QueueCapacity = 4
    PipeSize = 2
    MaxPosted = 1
    Budgets <- CrashBudgets
SPECIFICATION Spec
INVARIANTS TraySurvives
CHECK_DEADLOCK FALSE
