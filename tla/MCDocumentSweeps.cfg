SPECIFICATION DSFairSpec
CONSTANTS
    Nothing = Nothing
    k1 = k1
    w1 = w1
    w2 = w2
    NumDocs = 2
    Workers = {w1, w2}
    Replicas = {k1}
    Home <- OneReplica
    Papers <- TwoPapers
    PagesPerPdf = 2
    DocumentsPerTick = 2
    Overfetch = 0
    Windows <- TwoWindows
    PagesPerTick = 1
    MaxPagesPerCall = 1
    MaxFaults = 1
INVARIANT ExtractedMeansPages
INVARIANT RowHasObject
INVARIANT StatusFitsPaper
INVARIANT TickStaysInBudget
INVARIANT WrittenPagesAreNotBilled
PROPERTY EveryPaperSettles
CHECK_DEADLOCK FALSE
