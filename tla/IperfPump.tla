------------------------------ MODULE IperfPump ------------------------------
(* ThroughputLogger of run_lab.py: a thread that reads what iperf -i 1 prints and   *)
(* writes throughput.csv.                                                            *)
EXTENDS IperfLines, SequencesExt, FiniteSets, Lists

CONSTANT Outputs        \* what iperf may print before it is gone

VARIABLES
    pipe,       \* what it prints this time
    lines,      \* the lines read
    csv,        \* the rows written
    intervals,  \* end and rate of the rows of an interval
    summary,    \* the rate of the last row of kind summary, or None
    errors,     \* parse_errors
    refused,    \* connect_failed
    pump        \* "runs", "ended" or "failed"

vars == <<pipe, lines, csv, intervals, summary, errors, refused, pump>>

None == [v |-> 0, exp |-> 99]

Reports(s) == Sifted(s, {l \in Range(s) : l.what = "report"})

\* _unit_prefix: the letter when it is one of K, M, G, T, and none otherwise.
UnitPrefix(unit) == IF unit \in {"K", "M", "G", "T"} THEN unit ELSE ""

Exponent == [p \in {"", "K", "M", "G", "T"} |->
                CASE p = "" -> -6 [] p = "K" -> -3 [] p = "M" -> 0 [] p = "G" -> 3 [] p = "T" -> 6]

\* _to_mb and _to_mbit: v times ten to the power exp.
Scaled(v, unit) == [v |-> v, exp |-> Exponent[UnitPrefix(unit)]]

Parses(line) == /\ line.ok
                /\ UnitPrefix(line.xunit) \in DOMAIN Exponent
                /\ UnitPrefix(line.runit) \in DOMAIN Exponent

Kind(line) == IF line.start = 0 /\ line.end - line.start > 15 THEN "summary" ELSE "interval"

RowOf(line) ==
    [start |-> line.start, end |-> line.end, mb |-> Scaled(line.xfer, line.xunit),
     mbit |-> Scaled(line.rate, line.runit), kind |-> Kind(line)]

\* What iperf -i 1 reports: one interval after the other, and when it has ended the
\* time from the first to the last of them once more.
InTurn(reports, m) ==
    /\ \A i \in 1..m : Kind(reports[i]) = "interval"
    /\ m > 0 => reports[1].start = 0
    /\ \A i \in 1..(m - 1) : reports[i].end = reports[i + 1].start

Total(reports, m) ==
    m > 0 /\ reports[m + 1].start = 0 /\ reports[m + 1].end = reports[m].end

OutputsAssumption ==
    /\ Outputs \subseteq Seq(PipeLine)
    /\ \A o \in Outputs : \E m \in 0..Len(Reports(o)) :
          /\ InTurn(Reports(o), m)
          /\ Len(Reports(o)) \in {m, m + 1}
          /\ Len(Reports(o)) = m + 1 => Total(Reports(o), m)

RatesOf(s) == {Scaled(l.rate, l.runit) : l \in {r \in Range(Reports(s)) : Parses(r)}}

TypeOK ==
    /\ pipe \in Outputs
    /\ lines \in 0..Len(pipe)
    /\ \A r \in Range(csv) : r.mbit \in RatesOf(pipe) /\ r.kind \in {"interval", "summary"}
    /\ \A i \in Range(intervals) : i.rate \in RatesOf(pipe)
    /\ summary \in RatesOf(pipe) \cup {None}
    /\ errors \in Nat
    /\ refused \in BOOLEAN
    /\ pump \in {"runs", "ended", "failed"}

-----------------------------------------------------------------------------
Init ==
    /\ pipe \in Outputs
    /\ lines = 0 /\ csv = <<>> /\ intervals = <<>> /\ summary = None
    /\ errors = 0 /\ refused = FALSE
    /\ pump = "runs"

Line == pipe[lines + 1]

Read(what) ==
    /\ pump = "runs"
    /\ lines < Len(pipe)
    /\ Line.what = what
    /\ lines' = lines + 1

ReadOther ==
    /\ \/ Read("other") /\ UNCHANGED refused
       \/ Read("refused") /\ refused' = TRUE
    /\ UNCHANGED <<pipe, csv, intervals, summary, errors, pump>>

ReadBadLine ==
    /\ Read("report")
    /\ ~Parses(Line)
    /\ errors' = errors + 1
    /\ UNCHANGED <<pipe, csv, intervals, summary, refused, pump>>

ReadReport ==
    /\ Read("report")
    /\ Parses(Line)
    /\ csv' = Append(csv, RowOf(Line))
    /\ IF Kind(Line) = "summary"
       THEN summary' = RowOf(Line).mbit /\ UNCHANGED intervals
       ELSE /\ intervals' = Append(intervals, [end |-> Line.end, rate |-> RowOf(Line).mbit])
            /\ UNCHANGED summary
    /\ UNCHANGED <<pipe, errors, refused, pump>>

\* A write fails: the exception is caught outside the loop, and nobody reads the
\* pipe any more.
WriteFails ==
    /\ Read("report") \/ Read("other") \/ Read("refused")
    /\ pump' = "failed"
    /\ UNCHANGED <<pipe, csv, intervals, summary, errors, refused>>

EndOfPipe ==
    /\ pump = "runs"
    /\ lines = Len(pipe)
    /\ pump' = "ended"
    /\ UNCHANGED <<pipe, lines, csv, intervals, summary, errors, refused>>

Next == ReadOther \/ ReadBadLine \/ ReadReport \/ WriteFails \/ EndOfPipe

Spec == Init /\ [][Next]_vars

-----------------------------------------------------------------------------
ReadSoFar == SubSeq(pipe, 1, IF pump = "failed" THEN lines - 1 ELSE lines)
GoodSoFar ==
    Sifted(ReadSoFar, {l \in Range(ReadSoFar) : l.what = "report" /\ Parses(l)})

\* A line that cannot be parsed loses itself only (117): the file is the good lines
\* that were read, in their order, also when a write fails half way; and a pump that
\* ended has read all of them.
BadLineLosesItself ==
    /\ Len(csv) = Len(GoodSoFar)
    /\ \A i \in DOMAIN csv : csv[i] = RowOf(GoodSoFar[i])
    /\ pump = "ended" => lines = Len(pipe)

\* The rows of one kind.
OfKind(kind) == Sifted(csv, {row \in Range(csv) : row.kind = kind})

\* The reports of a run longer than a second and a half, read without an error,
\* share out its time: the rows of an interval follow each other from zero to the end
\* of the summary, which is not one of them.
Whole == pump = "ended" /\ errors = 0 /\ summary # None
IntervalsTile ==
    Whole =>
        LET rows == OfKind("interval")
            total == OfKind("summary")
        IN  /\ Len(rows) > 0 /\ Len(total) = 1
            /\ rows[1].start = 0
            /\ \A i \in 1..(Len(rows) - 1) : rows[i].end = rows[i + 1].start
            /\ rows[Len(rows)].end = total[1].end

\* What the script says of the pump in its summary adds up.
RowsAddUp ==
    /\ Len(Reports(ReadSoFar)) = Len(csv) + errors
    /\ Len(intervals) = Len(OfKind("interval"))

\* What selftest expects of it (575-591).
SelfTestPasses ==
    pipe = Sample /\ pump = "ended" =>
        /\ Len(intervals) = 6
        /\ summary # None
        /\ errors = 0
        /\ Len(csv) = Len(intervals) + 1
=============================================================================
