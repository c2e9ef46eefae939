CONSTANTS
    a = a
    b = b
    c = c
    Domain = {a, b, c}
    SiteList <- MCSiteList
    Workers = 2
    Cuts = {"header", "nothing", "in_rank", "in_domain", "after_domain", "late"}
    MaxBadLines = 1
    MaxLines = 4
    Times <- MCTimes
    Codes <- MCCodes
    SampleRows <- MCSampleRows
    MaxRows = 3
    Percentages <- MCPercentages
    MaxRadii <- MCMaxRadii
    KeepGeoAnomalies = FALSE
SPECIFICATION StudySpec
INVARIANTS
    TypesOK
    OneRowPerDomain
    CompleteWhenDone
    MeasurementIsHonest
    CleanFileIsSound
PROPERTIES
    WholeRowsSurvive
    RunEnds
CHECK_DEADLOCK FALSE
