SPECIFICATION FairSpec
CONSTANTS
    f1 = f1
    f2 = f2
    Files <- MCFiles
    Requests <- MCRequests
    MaxChanges = 2
INVARIANTS
    TimeoutExcludesCommit
    OneLateCommit
    UnseenMeansUnchanged
    ReportsTruthful
PROPERTY EditReturns
CHECK_DEADLOCK FALSE
