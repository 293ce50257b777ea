SPECIFICATION FairSpec
CONSTANTS
    Width = 5
    Requests <- AllRequests
INVARIANTS AnswersRight
PROPERTY EveryOperationEnds
