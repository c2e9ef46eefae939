---------------------------- MODULE LatencyStudy ----------------------------
(* Sept3/ping_latency_graph as a whole: measure_websites.py over its list of        *)
(* sites (MeasureSites), what it does for one of them (SiteMeasurement), and          *)
(* clean_results.py over the rows of a results file (SiteCleaning). They are started    *)
(* by hand, one at a time, and share files only, so a behaviour of the study is one     *)
(* of a part of it while the other parts are at rest.                                    *)
EXTENDS MeasureSites

CONSTANTS
    Times, Codes,                                   \* of SiteMeasurement
    SampleRows, MaxRows, Percentages, MaxRadii,     \* of SiteCleaning
    KeepGeoAnomalies                                \* of both

VARIABLES
    part,                                               \* the part that is at work
    targetStage, row, heard,                            \* of SiteMeasurement
    cleanStage, input, options, accepted, rejected, kept, refused   \* of SiteCleaning

Target == INSTANCE SiteMeasurement WITH stage <- targetStage
Cleaning == INSTANCE SiteCleaning WITH stage <- cleanStage

ASSUME TargetAssumption == Target!TimesAssumption /\ Target!CodesAssumption
ASSUME CleaningAssumption ==
    /\ Cleaning!RowsAssumption
    /\ Cleaning!PercentagesAssumption
    /\ Cleaning!RadiiAssumption

targetVars == <<targetStage, row, heard>>
cleanVars == <<cleanStage, input, options, accepted, rejected, kept, refused>>
studyVars == <<part, vars, targetVars, cleanVars>>

Parts == {"sites", "target", "cleaning"}

\* clean_results.py without a line to clean and without an option.
NothingToClean ==
    /\ input = <<>>
    /\ options = [trim |-> Cleaning!None, geoip |-> FALSE,
                  maxRadius |-> Cleaning!None, beyond |-> FALSE]

StudyInit ==
    /\ part \in Parts
    /\ Init
    /\ Target!Init
    /\ Cleaning!Init
    /\ part # "cleaning" => NothingToClean

StudyNext ==
    \/ part = "sites" /\ Next /\ UNCHANGED <<part, targetVars, cleanVars>>
    \/ part = "target" /\ Target!Next /\ UNCHANGED <<part, vars, cleanVars>>
    \/ part = "cleaning" /\ Cleaning!Next /\ UNCHANGED <<part, vars, targetVars>>

StudySpec == StudyInit /\ [][StudyNext]_studyVars /\ Fairness

-----------------------------------------------------------------------------
\* Every part keeps its variables within their types.
TypesOK == TypeOK /\ Target!TypeOK /\ Cleaning!TypeOK

\* What is measured can be relied on: cleaning keeps no row of a measurement of
\* which any part failed, though it never reads the error column, and the fallback
\* to http loses no address that some transfer had reached.
MeasurementIsHonest == Target!KeptRowsHaveNoError /\ Target!AddressIsKept

\* The clean file can be audited against the input and plotted whole, and its trim is
\* bounded and monotone in the percentage.
CleanFileIsSound ==
    /\ Cleaning!Audit
    /\ Cleaning!KeptRowsAreAllPlotted
    /\ Cleaning!DistancesAreBeyondAccuracy
    /\ Cleaning!TrimIsBounded
    /\ Cleaning!TrimIsMonotone
=============================================================================
