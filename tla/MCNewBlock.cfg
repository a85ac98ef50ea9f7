SPECIFICATION Spec
CONSTANT Lines <- MCLines
CONSTANT MaxLines = 6
CONSTANT Jobs <- MCJobs
CONSTANT Workers = 2
CONSTANT MaxCalls = 1
INVARIANT NoBlockUnchecked
CHECK_DEADLOCK FALSE
