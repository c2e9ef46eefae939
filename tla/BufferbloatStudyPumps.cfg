CONSTANTS
    Parts = {"driver"}
    Algos <- MCAlgos
    Options <- MCOneScript
    Raises = {}
    MaxTime = 1
    Outputs <- MCOutputs
    Error = 1
    FirstSamples <- MCFirstSamples
    MaxRuns = 1
    PlotInputs <- MCPlotInputs
    CompareInputs <- MCCompareInputs
SPECIFICATION StudySpec
INVARIANTS
    SummaryNamesThePumps
CHECK_DEADLOCK FALSE
