----------------------------- MODULE LabSeries -----------------------------
(* The functions on measured series that plot_bufferbloat.py, compare_runs.py and  *)
(* plot_exp1_sweep.py (Oct9/report/scripts) are built from. Times are in           *)
(* hundredths of a second. A line of a monitor's file is [t, v]: the number before the first        *)
(* comma and the value looked for after it, None where it cannot be read. A series    *)
(* is a sequence of samples [t, v]; a sample whose fields are None is the NaN that      *)
(* breaks a curve.                                                                     *)
EXTENDS Integers, Sequences, SequencesExt, FiniteSets, FiniteSetsExt, Lists, TLC

None == -99999
Nan == [t |-> None, v |-> None]

Times(lines) == [i \in DOMAIN lines |-> lines[i].t]
Values(lines) == [i \in DOMAIN lines |-> lines[i].v]

-----------------------------------------------------------------------------
\* The readers return two columns.

HasBoth(line) == line.t # None /\ line.v # None
HasTime(line) == line.t # None
Whole(lines) == Sifted(lines, {line \in Range(lines) : HasBoth(line)})
Timed(lines) == Sifted(lines, {line \in Range(lines) : HasTime(line)})

\* The value is matched before the time is read, and both are appended together.
ReadMatched(lines) == [ts |-> Times(Whole(lines)), vs |-> Values(Whole(lines))]

ReadCwnd(lines) == ReadMatched(lines)
ReadRtt(lines) == ReadMatched(lines)

\* read_throughput wants the six columns of a row: one that was cut lacks its kind.
ReadRates(lines) == ReadMatched(lines)

\* The time is appended before the value is read: a line with a time and no value
\* leaves its time behind.
ReadByColumns(lines) == [ts |-> Times(Timed(lines)), vs |-> Values(Whole(lines))]

ReadQlen(lines) == ReadByColumns(lines)
ReadQdisc(lines) == ReadByColumns(lines)

Aligned(columns) == Len(columns.ts) = Len(columns.vs)
Rows(columns) == [i \in DOMAIN columns.ts |-> [t |-> columns.ts[i], v |-> columns.vs[i]]]

\* The pairs of places of a list of which the first goes first in a stable sort: members
\* of which neither goes before the other keep their order.
Stably(list, Before(_, _)) ==
    {p \in (DOMAIN list) \X (DOMAIN list) :
        \/ Before(list[p[1]], list[p[2]])
        \/ ~Before(list[p[2]], list[p[1]]) /\ p[1] < p[2]}

\* argsort(kind="stable").
Earlier(a, b) == a.t < b.t
InTimeOrder(rows) == Arranged(rows, Stably(rows, Earlier))

\* sort_series indexes the values with the order of the times.
SortSeries(columns) == InTimeOrder(Rows(columns))

\* load_queue keeps whole rows only, and sorts them by all their fields.
EarlierOrLess(a, b) == a.t < b.t \/ (a.t = b.t /\ a.v < b.v)
LoadQueue(lines) == Arranged(Whole(lines), Stably(Whole(lines), EarlierOrLess))

-----------------------------------------------------------------------------
\* What a directory of an experiment gives to find its zero: reproduce says that its
\* name begins with "qlen-", t0 is the number in t0.txt, None without the file and
\* without a number in it, and a line of a throughput file is [epoch, t, v].

Line == [epoch : Int, t : Int, v : Nat \cup {None}]
Directory ==
    [has : SUBSET {"cwnd", "qlen", "qdisc", "rtt", "client", "server"},
     reproduce : BOOLEAN, t0 : Int, cwnd : Seq(Line), qlen : Seq(Line), qdisc : Seq(Line),
     rtt : Seq(Line), client : Seq(Line), server : Seq(Line)]

\* _first_interval_epoch: the first row of an interval, all six columns of it.
FirstInterval(file) ==
    LET rows == Whole(file) IN IF rows = <<>> THEN None ELSE rows[1].epoch - rows[1].t

\* read_t0: t0.txt, or else, but for a reproduction, 0.03 s after the start that the
\* first row of the client, or of the server, gives.
ReadT0(dir) ==
    IF dir.t0 # None THEN dir.t0
    ELSE IF dir.reproduce THEN None
    ELSE LET client == FirstInterval(dir.client)
             server == FirstInterval(dir.server)
         IN  IF client # None THEN client + 3
             ELSE IF server # None THEN server + 3 ELSE None

\* read_t0(...) or the time of the first sample.
Zero(dir, first) == IF ReadT0(dir) = None THEN first ELSE ReadT0(dir)

-----------------------------------------------------------------------------
Diffs(ts) == [i \in 1..(Len(ts) - 1) |-> ts[i + 1] - ts[i]]

\* Twice the median, so that the mean of the middle two is an integer.
Median2(s) ==
    LET n == Len(s) IN Ordered(s, (n - 1) \div 2) + Ordered(s, n \div 2)

\* auto_gap_threshold, doubled: max(0.3 s, 5 median intervals).
GapThreshold2(ts) ==
    IF Len(ts) < 3 THEN 60 ELSE Max({60, 5 * Median2(Diffs(ts))})

\* Mutant: the run after a gap starts at the sample before it.
MarkGapsFromBefore(s, th2) ==
    LET gaps == {i \in 1..(Len(s) - 1) : /\ s[i] # Nan /\ s[i + 1] # Nan
                                         /\ 2 * (s[i + 1].t - s[i].t) > th2}
        inOrder == Sifted([i \in DOMAIN s |-> i], gaps)
        starts == <<1>> \o inOrder
        ends == Append(inOrder, Len(s))
    IN  [own |-> UNION {starts[k]..(ends[k] - 1) : k \in DOMAIN starts},
         gap |-> gaps,
         label |-> ends[1] > starts[1]]

\* mark_gaps: the runs between gaps in the curve's colour, the label on the first
\* run if it is drawn, and a line in the colour of gaps across each of them. The
\* number i stands for the line from sample i to sample i + 1.
MarkGaps(s, th2) ==
    LET gaps == {i \in 1..(Len(s) - 1) : /\ s[i] # Nan /\ s[i + 1] # Nan
                                         /\ 2 * (s[i + 1].t - s[i].t) > th2}
        inOrder == Sifted([i \in DOMAIN s |-> i], gaps)
        starts == <<1>> \o [k \in DOMAIN inOrder |-> inOrder[k] + 1]
        ends == Append(inOrder, Len(s))
    IN  [own |-> UNION {starts[k]..(ends[k] - 1) : k \in DOMAIN starts},
         gap |-> gaps,
         label |-> ends[1] > starts[1]]

\* break_gaps: a NaN between two samples more than max_gap apart, if it is not 0.
BreakGaps(s, maxGap) ==
    LET Upto[n \in 0..Len(s)] ==
            IF n = 0 THEN <<>>
            ELSE IF n > 1 /\ s[n].t - s[n - 1].t > maxGap
            THEN Append(Append(Upto[n - 1], Nan), s[n])
            ELSE Append(Upto[n - 1], s[n])
    IN  IF maxGap <= 0 \/ Len(s) < 2 THEN s ELSE Upto[Len(s)]

-----------------------------------------------------------------------------
\* The part of the axis --cut leaves out. Values are in hundredths of a ms here:
\* the axis ends at 1.03 times the largest value.
Top(dataMax) == 103 * dataMax

\* parse_cuts: the parts that are two numbers in order, sorted.
LowerCut(a, b) == a.lo < b.lo \/ (a.lo = b.lo /\ a.hi < b.hi)
ParseCuts(parts) ==
    LET ranges == Sifted(parts, {c \in Range(parts) : c.lo < c.hi})
    IN  Arranged(ranges, Stably(ranges, LowerCut))

\* A cut counts when it ends below the end of the axis.
Cuts(parts, dataMax) ==
    Sifted(ParseCuts(parts), {c \in Range(parts) : 100 * c.hi < Top(dataMax)})

\* One turn of the loop of resolve_segments: what is left between cur and the cut.
Keep(acc, c) ==
    [segs |-> IF 100 * c.lo > acc.cur THEN Append(acc.segs, <<acc.cur, 100 * c.lo>>)
              ELSE acc.segs,
     cur  |-> Max({acc.cur, 100 * c.hi})]

\* What the first cuts leave.
Kept(cuts) ==
    LET Upto[n \in 0..Len(cuts)] ==
            IF n = 0 THEN [segs |-> <<>>, cur |-> 0] ELSE Keep(Upto[n - 1], cuts[n])
    IN  Upto[Len(cuts)]

ResolveSegments(parts, dataMax) ==
    LET acc == Kept(Cuts(parts, dataMax))
        segs == IF acc.cur < Top(dataMax) THEN Append(acc.segs, <<acc.cur, Top(dataMax)>>)
                ELSE acc.segs
    IN  IF segs = <<>> THEN <<<<0, Top(dataMax)>>>> ELSE segs

\* stacked_axes (and make_figure): the limits of the panels, top panel first. A panel
\* that is alone begins at 0, wherever its segment does.
Limits(segments) ==
    IF Len(segments) <= 1 THEN <<<<0, segments[1][2]>>>> ELSE Reverse(segments)

-----------------------------------------------------------------------------
\* int(round(a / b)): a quotient in the middle of two integers goes to the even one.
Rounded(a, b) ==
    LET up == (2 * a + b) \div (2 * b)
    IN  IF (2 * a + b) % (2 * b) = 0 /\ up % 2 = 1 THEN up - 1 ELSE up

\* rolling_median and smooth, doubled: the samples up to half a window away.
Window(values, i, half) ==
    SubSeq(values, Max({1, i - half}), Min({Len(values), i + half}))

RollingMedian2(values, window) ==
    IF window <= 1 \/ Len(values) <= window
    THEN [i \in DOMAIN values |-> 2 * values[i]]
    ELSE [i \in DOMAIN values |-> Median2(Window(values, i, window \div 2))]

\* smooth has no test of the length but the five samples it wants.
Smooth2(values, window) ==
    IF Len(values) < 5 \/ window <= 1
    THEN [i \in DOMAIN values |-> 2 * values[i]]
    ELSE [i \in DOMAIN values |-> Median2(Window(values, i, window \div 2))]

\* dynamic_bw changes the rate every ten seconds.
Rates == <<100, 10, 1, 50, 1, 100>>
Phase(k) == [a |-> 1000 * (k - 1), b |-> 1000 * k, rate |-> Rates[k]]
Phases == DOMAIN Rates

\* Mutant: both ends of a phase belong to it.
InClosed(phase, x) == phase.a <= x /\ x <= phase.b
In(phase, x) == phase.a <= x /\ x < phase.b
=============================================================================
