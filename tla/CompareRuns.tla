----------------------------- MODULE CompareRuns -----------------------------
(* Oct9/report/scripts/compare_runs.py: the tables of main, algorithm by algorithm,  *)
(* then the figures, then the report file. A run is a directory of results: for each  *)
(* algorithm the files of its experiment, as in LabPlots.                               *)
EXTENDS LabSeries

CONSTANT Inputs     \* command lines: [runs, algos, figureAlgos, noT0, smooth]

\* What the constant is; the module that brings the parts together assumes it.
InputsAssumption ==
    \A i \in Inputs :
        /\ i.algos \in Seq(STRING) /\ i.figureAlgos \in Seq(STRING)
        /\ i.runs \in Seq(Range(i.runs))
        /\ \A run \in Range(i.runs), algo \in Range(i.algos) : run[algo] \in Directory
        /\ i.noT0 \in BOOLEAN /\ i.smooth \in Nat

VARIABLES
    in,         \* the command line and what it finds
    pc,         \* "tables", "figures", "done" or "raised"
    k,          \* the algorithm of the list that is next
    tables,     \* for each algorithm reported, the statistics of its runs
    skipped,    \* the algorithms no run has
    patched,    \* read_t0 has been replaced by one that answers None
    figures,    \* the figures drawn: [algo, curves]
    report      \* --out is written

vars == <<in, pc, k, tables, skipped, patched, figures, report>>

TypeOK ==
    /\ in \in Inputs
    /\ pc \in {"tables", "figures", "done", "raised"}
    /\ k \in 1..(1 + Max({Len(in.algos), Len(in.figureAlgos)}))
    /\ \A i \in DOMAIN tables : /\ tables[i].algo \in Range(in.algos)
                                /\ Len(tables[i].cells) = Len(in.runs)
    /\ Range(skipped) \subseteq Range(in.algos)
    /\ patched \in BOOLEAN /\ report \in BOOLEAN
    /\ \A i \in DOMAIN figures : figures[i].algo \in Range(in.figureAlgos)

-----------------------------------------------------------------------------
AlgoAvailable(run, algo) == run[algo].has \cap {"rtt", "qdisc", "server", "client"} # {}
Available(algo) == \E run \in Range(in.runs) : AlgoAvailable(run, algo)

\* run_t0, with read_t0 as it is when it is called.
RunT0(dir, first) == IF patched THEN first ELSE Zero(dir, first)

InPhase(rows, zero, phase) ==
    Values(Sifted(rows, {row \in Range(rows) : In(phase, row.t - zero)}))

\* s[min(len(s) - 1, int(0.95 * len(s)))], where s is sorted and counted from zero.
P95(s) ==
    LET place == (95 * Len(s)) \div 100
    IN  Ordered(s, IF place < Len(s) THEN place ELSE Len(s) - 1)

\* The rows of the server, or those of the client when the phase has none of them.
Throughput(dir, phase) ==
    LET rates(file) == InPhase(SortSeries(ReadRates(file)), 0, phase)
    IN  IF rates(dir.server) # <<>> THEN [of |-> "server", rates |-> rates(dir.server)]
        ELSE IF rates(dir.client) # <<>> THEN [of |-> "client", rates |-> rates(dir.client)]
        ELSE [of |-> "none", rates |-> <<>>]

PhaseStats(dir, phase) ==
    LET rtt == Rows(ReadRtt(dir.rtt))
        queue == LoadQueue(dir.qdisc)
        rtts == IF rtt = <<>> THEN <<>> ELSE InPhase(rtt, RunT0(dir, rtt[1].t), phase)
        bytes == IF queue = <<>> THEN <<>> ELSE InPhase(queue, RunT0(dir, queue[1].t), phase)
    IN  [n |-> Len(rtts),
         rtt |-> IF rtts = <<>> THEN None ELSE Median2(rtts),
         p95 |-> IF rtts = <<>> THEN None ELSE P95(rtts),
         queue |-> IF bytes = <<>> THEN None ELSE Median2(bytes),
         explain |-> rtts # <<>> /\ bytes # <<>> /\ Median2(rtts) # 0 /\ Median2(bytes) > 0,
         thr |-> Throughput(dir, phase).of]

\* read_rtt opens a file it has not looked for.
StatsRaise(dir) == "rtt" \notin dir.has

-----------------------------------------------------------------------------
Init ==
    /\ in \in Inputs
    /\ pc = "tables" /\ k = 1
    /\ tables = <<>> /\ skipped = <<>> /\ figures = <<>>
    /\ patched = FALSE /\ report = FALSE

\* One turn of the loop of main over --algos.
TableOfAlgo ==
    /\ pc = "tables" /\ k <= Len(in.algos)
    /\ LET algo == in.algos[k]
       IN  \/ /\ ~Available(algo)
              /\ skipped' = Append(skipped, algo)
              /\ UNCHANGED tables
           \/ /\ Available(algo)
              /\ \A run \in Range(in.runs) : ~StatsRaise(run[algo])
              /\ tables' = Append(tables, [algo |-> algo,
                     cells |-> [r \in DOMAIN in.runs |->
                                   [p \in Phases |-> PhaseStats(in.runs[r][algo], Phase(p))]]])
              /\ UNCHANGED skipped
    /\ k' = k + 1
    /\ UNCHANGED <<in, pc, patched, figures, report>>

\* What it raises goes through main: nothing has been written yet.
TableRaises ==
    /\ pc = "tables" /\ k <= Len(in.algos)
    /\ Available(in.algos[k])
    /\ \E run \in Range(in.runs) : StatsRaise(run[in.algos[k]])
    /\ pc' = "raised"
    /\ UNCHANGED <<in, k, tables, skipped, patched, figures, report>>

\* --no-t0 replaces read_t0 when the tables are done.
EndTables ==
    /\ pc = "tables" /\ k > Len(in.algos)
    /\ patched' = in.noT0
    /\ pc' = "figures" /\ k' = 1
    /\ UNCHANGED <<in, tables, skipped, figures, report>>

\* _queue_for_figure: twice the interval of the samples, 0.02 s when they are few,
\* and the number of samples in queue_smooth, for which it divides by the interval.
QueueInterval2(queue) == IF Len(queue) > 2 THEN Median2(Diffs(Times(queue))) ELSE 4
QueueWindow(queue) ==
    IF in.smooth = 0 THEN 1
    ELSE Max({1, Rounded(2 * in.smooth, QueueInterval2(queue))})
WindowRaises(queue) == in.smooth > 0 /\ QueueInterval2(queue) = 0

CurvesOfRun(dir) ==
    LET rtt == Rows(ReadRtt(dir.rtt))
        queue == LoadQueue(dir.qdisc)
    IN  [rtt |-> Max({0} \cup Range(Values(rtt))),
         rttZero |-> IF rtt = <<>> THEN None ELSE RunT0(dir, rtt[1].t),
         queueZero |-> IF queue = <<>> THEN None ELSE RunT0(dir, queue[1].t),
         queue |-> RollingMedian2(Values(queue), QueueWindow(queue)),
         window |-> QueueWindow(queue)]

FigureRaises(dir) ==
    \/ "rtt" \notin dir.has
    \/ dir.reproduce /\ "cwnd" \notin dir.has
    \/ WindowRaises(LoadQueue(dir.qdisc))

\* One turn of the loop over --figure-algos: make_figure returns None when no run
\* has a round trip time above zero or a queue.
FigureOfAlgo ==
    /\ pc = "figures" /\ k <= Len(in.figureAlgos)
    /\ LET algo == in.figureAlgos[k]
           curves == [r \in DOMAIN in.runs |-> CurvesOfRun(in.runs[r][algo])]
       IN  /\ Available(algo) => \A run \in Range(in.runs) : ~FigureRaises(run[algo])
           /\ figures' = IF Available(algo) /\ \E c \in Range(curves) : c.rtt > 0 \/ c.queue # <<>>
                         THEN Append(figures, [algo |-> algo, curves |-> curves])
                         ELSE figures
    /\ k' = k + 1
    /\ UNCHANGED <<in, pc, tables, skipped, patched, report>>

FigureRaisesError ==
    /\ pc = "figures" /\ k <= Len(in.figureAlgos)
    /\ Available(in.figureAlgos[k])
    /\ \E run \in Range(in.runs) : FigureRaises(run[in.figureAlgos[k]])
    /\ pc' = "raised"
    /\ UNCHANGED <<in, k, tables, skipped, patched, figures, report>>

WriteReport ==
    /\ pc = "figures" /\ k > Len(in.figureAlgos)
    /\ report' = TRUE
    /\ pc' = "done"
    /\ UNCHANGED <<in, k, tables, skipped, patched, figures>>

Next == TableOfAlgo \/ TableRaises \/ EndTables \/ FigureOfAlgo \/ FigureRaisesError
        \/ WriteReport

Spec == Init /\ [][Next]_vars

-----------------------------------------------------------------------------
RttTimes(dir) ==
    LET rtt == Rows(ReadRtt(dir.rtt))
    IN  IF rtt = <<>> THEN <<>> ELSE [i \in DOMAIN rtt |-> rtt[i].t - Zero(dir, rtt[1].t)]

Cell(i, r) == tables[i].cells[r]

\* The six phases of a table share out the samples of the minute after the zero: each
\* is counted in one phase, though they are cut out of it one by one. (Of tables with
\* --no-t0 nothing is said here: NoT0CountsFromFirst.)
SamplesAreSharedOut ==
    ~in.noT0 => \A i \in DOMAIN tables : \A r \in DOMAIN in.runs :
        LET times == RttTimes(in.runs[r][tables[i].algo])
            n(p) == Cell(i, r)[p].n
        IN  n(1) + n(2) + n(3) + n(4) + n(5) + n(6) =
                Cardinality({j \in DOMAIN times : 0 <= times[j] /\ times[j] < Phase(6).b})

\* The column p95 is such that 95 of 100 samples of the phase are not above it.
P95IsReached ==
    ~in.noT0 => \A i \in DOMAIN tables : \A r \in DOMAIN in.runs : \A p \in Phases :
        LET dir == in.runs[r][tables[i].algo]
            rtts == InPhase(Rows(ReadRtt(dir.rtt)), Zero(dir, ReadRtt(dir.rtt).ts[1]), Phase(p))
        IN  Cell(i, r)[p].n > 0 =>
                100 * Cardinality({j \in DOMAIN rtts : rtts[j] <= Cell(i, r)[p].p95})
                    >= 95 * Len(rtts)

\* A report that is written speaks of every algorithm once: in a table, or as skipped.
EveryAlgorithmIsReported ==
    report => ToSet(in.algos) = ToSet(skipped) \cup {tables[i].algo : i \in DOMAIN tables}

-----------------------------------------------------------------------------
\* What the documentation says and the code does not do. No run is about these.

\* compare_runs.py:342: when only some runs have data of an algorithm the other
\* columns read n/a.
OthersReadNA ==
    pc = "raised" /\ Len(tables) + Len(skipped) < Len(in.algos) =>
        \A run \in Range(in.runs) : AlgoAvailable(run, in.algos[k])

\* compare_runs.py:303: with --no-t0 the first sample is zero, not t0.txt.
NoT0CountsFromFirst ==
    in.noT0 => \A i \in DOMAIN tables : \A r \in DOMAIN in.runs : \A p \in Phases :
        LET rows == Rows(ReadRtt(in.runs[r][tables[i].algo].rtt))
        IN  rows # <<>> => Cell(i, r)[p].n = Len(InPhase(rows, rows[1].t, Phase(p)))

\* compare_runs.py:19: the throughput of the tables is what the server received.
ThroughputIsTheServers ==
    \A i \in DOMAIN tables : \A r \in DOMAIN in.runs : \A p \in Phases :
        "server" \in in.runs[r][tables[i].algo].has => Cell(i, r)[p].thr # "client"

\* compare_runs.py:110: the window is a number of samples.
WindowIsInSamples ==
    \A f \in Range(figures) : \A c \in Range(f.curves) : c.window > 1 =>
        \A i \in DOMAIN c.queue : Len(Window(c.queue, i, c.window \div 2)) <= c.window
=============================================================================
