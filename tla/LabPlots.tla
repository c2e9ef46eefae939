------------------------------ MODULE LabPlots ------------------------------
(* Oct9/report/scripts/plot_bufferbloat.py and plot_exp1_sweep.py: which figures a  *)
(* run of them writes, with which curves, and where it raises. A directory holds the *)
(* files of one experiment: has names those that exist. A figure is a name, the       *)
(* curves in it and the limits of its panels.                                          *)
EXTENDS LabSeries

CONSTANT Inputs     \* what a run finds: [script, exp1, algos, dirs, zoom, maxGap, cut, sweep]

\* What the constant is; the module that brings the parts together assumes it.
InputsAssumption ==
    \A i \in Inputs :
        /\ i.script \in {"exp1", "sweep"}
        /\ i.exp1 \in Directory
        /\ i.algos \in Seq(DOMAIN i.dirs) /\ i.zoom \in Seq(STRING)
        /\ \A a \in DOMAIN i.dirs : i.dirs[a] \in Directory
        /\ i.maxGap \in Int
        /\ i.cut \in Seq([lo : Int, hi : Int])
        /\ i.sweep \in Seq(Directory)

VARIABLES in, pc, out

vars == <<in, pc, out>>

Steps == {"exp1", "exp234", "zoom", "throughput", "sweep", "done", "raised"}
Figures == {"exp1-cwnd", "exp1-qlen", "exp1-rtt", "exp234-rtt", "exp234-zoom",
            "exp234-throughput", "sweep"}

TypeOK ==
    /\ in \in Inputs
    /\ pc \in Steps
    /\ \A k \in DOMAIN out :
        /\ out[k].name \in Figures
        /\ \A c \in Range(out[k].curves) : c.own \cup c.gap \subseteq 1..(Len(c.s) - 1)
        /\ out[k].limits # <<>>
    /\ \A j, k \in DOMAIN out : j # k => out[j].name # out[k].name

-----------------------------------------------------------------------------
\* A series after the zero is taken from its times.
From(zero, rows) == [i \in DOMAIN rows |-> [t |-> rows[i].t - zero, v |-> rows[i].v]]

\* A curve: the samples of s, with the gaps of raw marked.
Curve(s, raw) ==
    LET marked == MarkGaps(s, GapThreshold2(Times(raw)))
    IN  [own |-> marked.own, gap |-> marked.gap, label |-> marked.label, s |-> s, raw |-> raw]

\* Throughput is drawn without marks.
PlainCurve(s) == [own |-> 1..(Len(s) - 1), gap |-> {}, label |-> TRUE, s |-> s, raw |-> s]

Figure(name, curves, limits) == [name |-> name, curves |-> curves, limits |-> limits]
WholeAxis == <<<<0, 0>>>>

Go(next) == pc' = next /\ UNCHANGED in
Raise == pc' = "raised" /\ UNCHANGED <<in, out>>

Init == in \in Inputs /\ pc = in.script /\ out = <<>>

-----------------------------------------------------------------------------
\* plot_exp1. Without a file of the three it is skipped; a file without a sample is
\* not looked for, and its first sample is asked for when there is no t0.txt.
Exp1Zero(dir, series) ==
    IF ReadT0(dir) # None THEN ReadT0(dir) ELSE Min({s[1].t : s \in series})

Exp1Raises(dir) ==
    \/ ~Aligned(ReadQlen(dir.qlen))
    \/ ReadT0(dir) = None /\ \E file \in {ReadCwnd(dir.cwnd), ReadQlen(dir.qlen), ReadRtt(dir.rtt)} :
                                file.ts = <<>>

PlotExp1 ==
    /\ pc = "exp1"
    /\ IF ~{"cwnd", "qlen", "rtt"} \subseteq in.exp1.has
       THEN Go("exp234") /\ UNCHANGED out
       ELSE IF Exp1Raises(in.exp1)
       THEN Raise
       ELSE LET cwnd == SortSeries(ReadCwnd(in.exp1.cwnd))
                qlen == SortSeries(ReadQlen(in.exp1.qlen))
                rtt == SortSeries(ReadRtt(in.exp1.rtt))
                zero == Exp1Zero(in.exp1, {cwnd, qlen, rtt})
                C(rows) == <<Curve(From(zero, rows), From(zero, rows))>>
            IN  /\ out' = out \o <<Figure("exp1-cwnd", C(cwnd), WholeAxis),
                                   Figure("exp1-qlen", C(qlen), WholeAxis),
                                   Figure("exp1-rtt", C(rtt), WholeAxis)>>
                /\ Go("exp234")

\* The rtt series of the algorithms that have one, from each one's own zero.
Drawable(algos) ==
    Sifted(algos, {a \in Range(algos) : /\ "rtt" \in in.dirs[a].has
                                        /\ ReadRtt(in.dirs[a].rtt).ts # <<>>})

RttFromZero(a) ==
    LET rows == SortSeries(ReadRtt(in.dirs[a].rtt))
    IN  From(Zero(in.dirs[a], rows[1].t), rows)

Largest(algos) == Max(UNION {Range(Values(RttFromZero(a))) : a \in Range(algos)})

\* plot_exp234: the curves are broken at max_gap, their gaps are measured before.
PlotExp234 ==
    /\ pc = "exp234"
    /\ LET algos == Drawable(in.algos)
       IN  out' = IF algos = <<>> THEN out
                  ELSE Append(out, Figure("exp234-rtt",
                      [k \in DOMAIN algos |->
                          Curve(BreakGaps(RttFromZero(algos[k]), in.maxGap), RttFromZero(algos[k]))],
                      Limits(ResolveSegments(in.cut, Largest(algos)))))
    /\ Go("zoom")

\* plot_exp234_zoom: the same for the algorithms of --zoom-algos that --algos has
\* too, without max_gap.
PlotZoom ==
    /\ pc = "zoom"
    /\ LET algos == Drawable(Sifted(in.zoom, Range(in.algos)))
       IN  out' = IF algos = <<>> THEN out
                  ELSE Append(out, Figure("exp234-zoom",
                      [k \in DOMAIN algos |-> Curve(RttFromZero(algos[k]), RttFromZero(algos[k]))],
                      Limits(ResolveSegments(in.cut, Largest(algos)))))
    /\ Go("throughput")

\* read_throughput: the rows of an interval, in the order of their end.
ReadThroughput(file, maxGap) == BreakGaps(SortSeries(ReadRates(file)), maxGap)

\* plot_exp234_throughput: a panel for each algorithm, and no algorithm is an error.
PlotThroughput ==
    /\ pc = "throughput"
    /\ LET files == [k \in 1..(2 * Len(in.algos)) |->
                        LET dir == in.dirs[in.algos[(k + 1) \div 2]]
                        IN  IF k % 2 = 1 THEN dir.client ELSE dir.server]
       IN  IF in.algos = <<>>
           THEN Raise
           ELSE LET read == [k \in DOMAIN files |-> ReadThroughput(files[k], in.maxGap)]
                    drawn == Sifted(read, Range(read) \ {<<>>})
                IN  /\ out' = IF drawn = <<>> THEN out
                              ELSE Append(out, Figure("exp234-throughput",
                                  [k \in DOMAIN drawn |-> PlainCurve(drawn[k])], WholeAxis))
                    /\ Go("done")

-----------------------------------------------------------------------------
\* load_one of the sweep: the queue of run_lab, or else that of the lab, and the
\* first line of each file, as it stands there, for the zero.
SweepQueue(dir) ==
    IF ReadQdisc(dir.qdisc).ts # <<>> THEN ReadQdisc(dir.qdisc) ELSE ReadQdisc(dir.qlen)

FilesOf(dir) ==
    [cwnd |-> ReadCwnd(dir.cwnd), qlen |-> SweepQueue(dir), rtt |-> ReadRtt(dir.rtt)]
Starts(files) == {files[k].ts[1] : k \in {f \in DOMAIN files : files[f].ts # <<>>}}

\* A queue whose only line is cut after its time dates the others and draws nothing.
LoadOne(dir) ==
    LET files == FilesOf(dir)
    IN  [k \in DOMAIN files |->
            From(Min(Starts(files)), IF Aligned(files[k]) THEN Rows(files[k]) ELSE <<>>)]

\* smooth, of the queue only, over 0.2 s, with intervals of a microsecond at least;
\* the values are doubled.
Smoothed(rows) ==
    LET dt2 == IF Len(rows) < 2 THEN 0 ELSE Median2(Diffs(Times(rows)))
        values == Smooth2(Values(rows), IF dt2 > 0 THEN Rounded(40, dt2) ELSE 200000)
    IN  [i \in DOMAIN rows |-> [t |-> rows[i].t, v |-> values[i]]]

\* A line of the queue cut after its time leaves more times than values, which
\* cannot be plotted; a queue of that one line has nothing to plot.
SweepRaises(dir) ==
    \/ ~{"cwnd", "rtt"} \subseteq dir.has
    \/ ~Aligned(SweepQueue(dir)) /\ Len(SweepQueue(dir).ts) > 1

\* main of the sweep: the directories that exist and hold a sample, in the order of
\* their maxq. A missing cwnd.txt or rtt.txt is an error.
Sweep ==
    /\ pc = "sweep"
    /\ IF \E d \in Range(in.sweep) : SweepRaises(d)
       THEN Raise
       ELSE LET found == Sifted(in.sweep, {d \in Range(in.sweep) : Starts(FilesOf(d)) # {}})
                loaded == [k \in DOMAIN found |-> LoadOne(found[k])]
                series(key) == [k \in DOMAIN loaded |-> loaded[k][key]]
                ofKey(key) == Sifted(series(key), Range(series(key)) \ {<<>>})
                drawn == ofKey("cwnd")
                         \o [k \in DOMAIN ofKey("qlen") |-> Smoothed(ofKey("qlen")[k])]
                         \o ofKey("rtt")
            IN  /\ out' = IF loaded = <<>> THEN out
                          ELSE Append(out, Figure("sweep",
                              [k \in DOMAIN drawn |-> Curve(drawn[k], drawn[k])], WholeAxis))
                /\ Go("done")

Next == PlotExp1 \/ PlotExp234 \/ PlotZoom \/ PlotThroughput \/ Sweep

Spec == Init /\ [][Next]_vars

-----------------------------------------------------------------------------
Drawn == Range(out)
CurvesOf(names) == UNION {Range(f.curves) : f \in {g \in Drawn : g.name \in names}}

\* Samples further apart than the threshold measured on the unbroken curve. A step to
\* or from the NaN of a broken curve is none.
WiderThanThreshold(c, i) ==
    /\ Nan \notin {c.s[i], c.s[i + 1]}
    /\ 2 * (c.s[i + 1].t - c.s[i].t) > GapThreshold2(Times(c.raw))

\* Between two neighbouring samples of a curve there is one line, in the colour of
\* gaps exactly where they are further apart than the threshold says, else in that
\* of the curve.
OneLineBetweenNeighbours ==
    \A c \in CurvesOf(Figures \ {"exp234-throughput"}) :
        /\ c.own \cap c.gap = {}
        /\ c.own \cup c.gap = 1..(Len(c.s) - 1)
        /\ \A i \in 1..(Len(c.s) - 1) : i \in c.gap <=> WiderThanThreshold(c, i)

TooWide(c, maxGap) ==
    \E i \in 1..(Len(c.s) - 1) : /\ Nan \notin {c.s[i], c.s[i + 1]}
                                 /\ c.s[i + 1].t - c.s[i].t > maxGap

\* With --max-gap no line of exp234-rtt or exp234-throughput crosses a wider gap,
\* though the gaps of the first are marked after the curve has been broken, on a
\* curve with NaNs. (plot_exp234_zoom and plot_exp1 do not break their curves.)
BrokenAtMaxGap ==
    in.maxGap > 0 => \A c \in CurvesOf({"exp234-rtt", "exp234-throughput"}) :
                        ~TooWide(c, in.maxGap)

\* The algorithms of the two figures whose axis --cut is for.
AlgosOf(name) ==
    Drawable(IF name = "exp234-rtt" THEN in.algos ELSE Sifted(in.zoom, Range(in.algos)))
CutFigures == {f \in Drawn : f.name \in {"exp234-rtt", "exp234-zoom"}}

OnPanel(f, y) == \E k \in DOMAIN f.limits : f.limits[k][1] < y /\ y < f.limits[k][2]
InCut(f, y) == \E c \in Range(Cuts(in.cut, Largest(AlgosOf(f.name)))) :
                    100 * c.lo < y /\ y < 100 * c.hi

\* The panels as they are drawn: a value --cut does not take is always on one, and
\* of several panels none shows a value it takes, however the cuts overlap. A panel
\* that is alone shows everything: see CutIsNotShown. (Values between two edges.)
AxisIsDivided ==
    \A f \in CutFigures : \A x \in 1..Largest(AlgosOf(f.name)) :
        LET y == 100 * x - 50
        IN  /\ ~InCut(f, y) => OnPanel(f, y)
            /\ Len(f.limits) > 1 /\ OnPanel(f, y) => ~InCut(f, y)

\* The scripts raise only for a line of a queue cut after its time, for a monitor
\* without a sample when there is no clock, for a sweep with a file missing, or for an
\* empty list of algorithms: in all other cases what can be drawn is drawn.
RaisesForAReason ==
    pc = "raised" =>
        \/ \E file \in {in.exp1.qlen} \cup (UNION {{d.qlen, d.qdisc} : d \in Range(in.sweep)}) :
                \E line \in Range(file) : line.t # None /\ line.v = None
        \/ in.exp1.t0 = None /\ {"cwnd", "qlen", "rtt"} \subseteq in.exp1.has
        \/ \E d \in Range(in.sweep) : ~{"cwnd", "rtt"} \subseteq d.has
        \/ in.algos = <<>>

-----------------------------------------------------------------------------
\* What the documentation says and the code does not do. No run is about these.

\* plot_bufferbloat.py:306: the cut segments do not show on the figure at all.
CutIsNotShown ==
    \A f \in CutFigures : \A x \in 1..Largest(AlgosOf(f.name)) :
        InCut(f, 100 * x - 50) => ~OnPanel(f, 100 * x - 50)

\* plot_bufferbloat.py:684, of --max-gap: lines are broken at intervals above it.
MaxGapBreaksEveryCurve ==
    in.maxGap > 0 => \A c \in CurvesOf(Figures) : ~TooWide(c, in.maxGap)

\* plot_bufferbloat.py:11: the curves of experiment 1 share their zero, the earliest
\* sample of the three monitors.
ZeroIsTheEarliestSample ==
    \A c \in CurvesOf({"exp1-cwnd", "exp1-qlen", "exp1-rtt"}) :
        \A i \in DOMAIN c.s : c.s[i].t >= 0

\* plot_exp1_sweep.py:72: the three curves share as zero the earliest sample of the
\* directory.
SweepStartsAtZero ==
    \A c \in CurvesOf({"sweep"}) : \A i \in DOMAIN c.s : c.s[i].t >= 0

\* plot_exp1_sweep.py:12: one curve per maxq, each named in the legend with its limit.
LegendNamesEveryCurve ==
    \A c \in CurvesOf({"sweep"}) : Len(c.s) > 1 => c.label
=============================================================================
