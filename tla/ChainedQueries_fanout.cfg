SPECIFICATION Spec
CONSTANTS
    Plans <- MCPlans
    Rows = 2
    Limit = 2
INVARIANTS InterruptReachesSubs
CHECK_DEADLOCK FALSE
