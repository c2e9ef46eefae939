CONSTANTS
    Parts = {"driver", "rtt", "throughput", "backfill", "figures", "tables"}
    Algos <- MCAlgos
    Options <- MCOptions
    Raises <- MCRaises
    MaxTime = 4
    Outputs <- MCOutputs
    Error = 1
    FirstSamples <- MCFirstSamples
    MaxRuns = 2
    PlotInputs <- MCPlotInputs
    CompareInputs <- MCCompareInputs
SPECIFICATION StudySpec
INVARIANTS
    TypesOK
    NothingIsLeftSilently
    RecordsAreFaithful
    FiguresShowTheData
    TablesAddUp
PROPERTIES
    DriverEnds
    NumberIsKept
CHECK_DEADLOCK FALSE
