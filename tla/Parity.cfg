\* The service over both repositories, two calls after a common beginning.
SPECIFICATION Spec
CONSTANTS
    None = None
    MaxCalls = 2
INVARIANTS
    AnswersAgree
    StraysDiffer
CHECK_DEADLOCK FALSE
