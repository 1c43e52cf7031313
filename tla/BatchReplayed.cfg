\* Three records, delivered three times at most.
CONSTANTS
    Records = {1, 2, 3}
    MaxInvocations = 3
SPECIFICATION Spec
INVARIANTS NoSuccessReplayed
CHECK_DEADLOCK FALSE
