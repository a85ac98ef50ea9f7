SPECIFICATION Spec
CONSTANT Lines <- MCLines
CONSTANT MaxLines = 6
CONSTANT Jobs <- MCJobs
CONSTANT Workers = 2
CONSTANT MaxCalls = 1
INVARIANT TypeOK
INVARIANT ReadersAgree
INVARIANT ExamplesAgree
INVARIANT UnitsHoldSentences
INVARIANT PlainRequestFails
INVARIANT PassMeansChecked
INVARIANT ErrorsInOrder
CHECK_DEADLOCK FALSE
PROPERTY CheckEnds
