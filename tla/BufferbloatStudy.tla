-------------------------- MODULE BufferbloatStudy --------------------------
(* Oct9 as a whole: the driver and the experiments it runs (BufferbloatLab), the     *)
(* two recorders that write while an experiment runs, for the round trip time           *)
(* (RttMonitor) and for the throughput (IperfPump), and what is done with the files       *)
(* afterwards: the backfill of the zero (ExperimentClock), the figures (LabPlots) and      *)
(* the tables (CompareRuns). A recorder and the driver share no memory but the signal      *)
(* that stops the recorder, which it may get at any time; the later programs are           *)
(* started by hand and share files only. So a behaviour of the study is one of a part      *)
(* of it while the other parts are at rest.                                                *)
EXTENDS BufferbloatLab

CONSTANTS
    Parts,                              \* the parts that may be at work
    MaxTime,                            \* of RttMonitor
    Outputs,                            \* of IperfPump
    Error, FirstSamples, MaxRuns,       \* of ExperimentClock
    PlotInputs, CompareInputs           \* Inputs of LabPlots and CompareRuns

VARIABLES
    part,                                                               \* at work
    clock, mode, attempts, alive, ping, path, sent, answers, file,      \* of RttMonitor
    pipe, lines, csv, intervals, summary, errors, refused, pump,        \* of IperfPump
    dir, job, runs, guessed,                                            \* of ExperimentClock
    plotIn, plotPc, out,                                                \* of LabPlots
    tableIn, tablePc, k, tables, skipped, patched, figures, report      \* of CompareRuns

Rtt == INSTANCE RttMonitor
Pump == INSTANCE IperfPump
Clock == INSTANCE ExperimentClock
Plots == INSTANCE LabPlots WITH Inputs <- PlotInputs, in <- plotIn, pc <- plotPc
Compare == INSTANCE CompareRuns WITH Inputs <- CompareInputs, in <- tableIn, pc <- tablePc

ASSUME PartsAssumption ==
    Parts \subseteq {"driver", "rtt", "throughput", "backfill", "figures", "tables"}
ASSUME RecordersAssumption ==
    /\ Rtt!MaxTimeAssumption
    /\ Clock!ErrorAssumption /\ Clock!MaxRunsAssumption /\ Clock!FirstSamplesAssumption
ASSUME InputsAssumption ==
    Pump!OutputsAssumption /\ Plots!InputsAssumption /\ Compare!InputsAssumption

rttVars == <<clock, mode, attempts, alive, ping, path, sent, answers, file>>
pumpVars == <<pipe, lines, csv, intervals, summary, errors, refused, pump>>
clockVars == <<dir, job, runs, guessed>>
plotVars == <<plotIn, plotPc, out>>
tableVars == <<tableIn, tablePc, k, tables, skipped, patched, figures, report>>

studyVars == <<part, vars, rttVars, pumpVars, clockVars, plotVars, tableVars>>

-----------------------------------------------------------------------------
\* What a part at rest has been given.
SomeOutput == CHOOSE o \in Outputs : TRUE
SomeExperiment == CHOOSE d \in Clock!Experiment : TRUE
SomePlot == CHOOSE i \in PlotInputs : TRUE
SomeTable == CHOOSE i \in CompareInputs : TRUE

\* A driver that has ended, after a batch of no experiment.
NoDriver ==
    /\ opts = CHOOSE o \in Options : TRUE
    /\ stage = "ended"
    /\ cur = 1 /\ pc = 1 /\ rcs = <<>>
    /\ procs = {} /\ listening = FALSE /\ waited = "no" /\ client = "none"
    /\ pumps = <<>> /\ extras = {}
    /\ dirs = [d \in Dir |-> {}]

StudyInit ==
    /\ part \in Parts
    /\ IF part = "driver" THEN Init ELSE NoDriver
    /\ Rtt!Init
    /\ (part # "throughput" => pipe = SomeOutput) /\ Pump!Init
    /\ (part # "backfill" => dir = SomeExperiment) /\ Clock!Init
    /\ (part # "figures" => plotIn = SomePlot) /\ Plots!Init
    /\ (part # "tables" => tableIn = SomeTable) /\ Compare!Init

StudyNext ==
    \/ /\ part = "driver" /\ Next
       /\ UNCHANGED <<part, rttVars, pumpVars, clockVars, plotVars, tableVars>>
    \/ /\ part = "rtt" /\ Rtt!Next
       /\ UNCHANGED <<part, vars, pumpVars, clockVars, plotVars, tableVars>>
    \/ /\ part = "throughput" /\ Pump!Next
       /\ UNCHANGED <<part, vars, rttVars, clockVars, plotVars, tableVars>>
    \/ /\ part = "backfill" /\ Clock!Next
       /\ UNCHANGED <<part, vars, rttVars, pumpVars, plotVars, tableVars>>
    \/ /\ part = "figures" /\ Plots!Next
       /\ UNCHANGED <<part, vars, rttVars, pumpVars, clockVars, tableVars>>
    \/ /\ part = "tables" /\ Compare!Next
       /\ UNCHANGED <<part, vars, rttVars, pumpVars, clockVars, plotVars>>

StudySpec == StudyInit /\ [][StudyNext]_studyVars /\ Fairness

-----------------------------------------------------------------------------
\* The part at work keeps its variables within their types; the others do not change
\* theirs. (So is it with the properties below, each of the parts it is about.)
TypesOK ==
    /\ part = "driver" => TypeOK
    /\ part = "rtt" => Rtt!TypeOK
    /\ part = "throughput" => Pump!TypeOK
    /\ part = "backfill" => Clock!TypeOK
    /\ part = "figures" => Plots!TypeOK
    /\ part = "tables" => Compare!TypeOK

\* What an experiment leaves behind, a process, a client that was refused or a file
\* of another experiment, is never left silently: the return code or the wait that
\* gave up says so (run_experiment, run_lab.py:511).
NothingIsLeftSilently ==
    part = "driver" =>
        /\ LeakIsReported
        /\ HangsOnlyAfterFailure
        /\ RefusedOnlyAfterTimeout
        /\ DirectoriesAreNotMixed

\* The recorders write down what was measured, once and when it was: rtt.txt in the
\* order and with the times of sending, throughput.csv line by line of what iperf
\* said, and a zero as close to that of the phases as the files can tell.
RecordsAreFaithful ==
    /\ part = "rtt" => Rtt!LinesInSendOrder /\ Rtt!NoPingAfterSamples
    /\ part = "throughput" => /\ Pump!BadLineLosesItself /\ Pump!IntervalsTile
                              /\ Pump!RowsAddUp /\ Pump!SelfTestPasses
    /\ part = "backfill" => Clock!ZeroIsClose

\* The number run_lab.py measured as the zero is not replaced without --force.
NumberIsKept == Clock!NumberIsKept

\* A figure draws every step between two samples once, in the colour of gaps where it
\* is a gap and only there; the two figures that --max-gap breaks are broken; a value
\* that --cut does not take is on a panel, and one it takes on none of several; and
\* the scripts raise only for the reasons listed.
FiguresShowTheData ==
    part = "figures" =>
        /\ Plots!OneLineBetweenNeighbours
        /\ Plots!BrokenAtMaxGap
        /\ Plots!AxisIsDivided
        /\ Plots!RaisesForAReason

\* Without --no-t0 a table counts each sample of the minute in one phase and reaches
\* the share its percentile names; and a report that is written speaks of every
\* algorithm.
TablesAddUp ==
    part = "tables" =>
        /\ Compare!SamplesAreSharedOut
        /\ Compare!P95IsReached
        /\ Compare!EveryAlgorithmIsReported
=============================================================================
