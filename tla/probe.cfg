SPECIFICATION Spec
CONSTANT Pings = 2
INVARIANT HonestRTT NoMisreportedLoss StreamOkMeansAnswered
PROPERTY BudgetBounds
CHECK_DEADLOCK FALSE
