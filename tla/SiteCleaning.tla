---------------------------- MODULE SiteCleaning ----------------------------
(* clean_results.py over one results file: the structural check, the GeoIP        *)
(* accuracy filters, the trim above a percentile, and the two files written at     *)
(* the end. A row is known by its place in the input. `extra` marks a line with    *)
(* more fields than the header, such as MeasureSites leaves behind a cut write:    *)
(* csv.DictWriter refuses such a row.                                              *)
EXTENDS SiteRows, Sequences, SequencesExt, FiniteSets, Lists

CONSTANTS
    SampleRows,             \* the rows an input file may have
    MaxRows,                \* bound: rows of an input file
    Percentages,            \* values of --trim-percentile tried, None for no trim
    MaxRadii,               \* values of --max-accuracy-radius-km tried, or None
    KeepGeoAnomalies

\* What the constants are; the module that brings the parts together assumes it.
RowsAssumption ==
    /\ MaxRows \in Nat
    /\ \A r \in SampleRows :
        /\ r.ip \in IpClasses /\ r.extra \in BOOLEAN
        /\ r.distance \in Nat \cup {None} /\ r.radius \in Nat \cup {None}
        /\ \A m \in METRICS : r[m] \in Nat \cup {None}
PercentagesAssumption == Percentages \subseteq {None} \cup 1..100
RadiiAssumption == MaxRadii \subseteq {None} \cup (Nat \ {0})

VARIABLES
    stage,      \* the step of clean_results that is next, "done" or "failed"
    input,      \* the rows read
    options,    \* [trim, geoip, maxRadius, beyond]: the command line
    accepted,   \* places of the rows still kept, in order
    rejected,   \* places of the rows refused, in the order they were refused
    kept,       \* the rows in --output, or what it held before
    refused     \* the rows in --rejected, or what it held before

vars == <<stage, input, options, accepted, rejected, kept, refused>>

Untouched == <<0>>      \* a file this run has not opened: no row has place 0
Stages == {"structure", "geo", "trim", "write_kept", "write_refused", "done", "failed"}

TypeOK ==
    /\ stage \in Stages
    /\ input \in Seq(SampleRows)
    /\ \A s \in {accepted, rejected} : s \in Seq(DOMAIN input)
    /\ \A f \in {kept, refused} : f = Untouched \/ f \in Seq(DOMAIN input)

-----------------------------------------------------------------------------
\* Mutant: the position is rounded to the nearest rank of the list, from one.
PercentileByRank(values, percentage) ==
    LET rank == ((Len(values) - 1) * percentage) \div 100
    IN 100 * Ordered(values, IF rank = 0 THEN 0 ELSE rank - 1)

\* percentile, a hundred times over: between two neighbours it interpolates.
Percentile(values, percentage) ==
    LET position == (Len(values) - 1) * percentage
        lower == position \div 100
        upper == IF lower + 1 < Len(values) THEN lower + 1 ELSE Len(values) - 1
    IN 100 * Ordered(values, lower)
        + (Ordered(values, upper) - Ordered(values, lower)) * (position % 100)

Column(places, m) == [k \in DOMAIN places |-> input[places[k]][m]]

\* A row is trimmed when any of its metrics is above the threshold of that metric.
Trimmed(places, percentage) ==
    {i \in ToSet(places) :
        \E m \in METRICS : 100 * input[i][m] > Percentile(Column(places, m), percentage)}

\* The accuracy filters, with the radius the database gives for the row's address.
GeoVerdict(row, o) ==
    CASE row.radius = None /\ o.maxRadius # None -> "geo_accuracy_missing"
      [] row.radius # None /\ o.maxRadius # None /\ row.radius > o.maxRadius
            -> "geo_accuracy_too_coarse"
      [] OTHER ->
    CASE o.beyond /\ (row.radius = None \/ row.distance = None)
            -> "geo_distance_or_accuracy_missing"
      [] o.beyond /\ row.radius # None /\ row.distance # None /\ row.distance <= row.radius
            -> "geo_distance_within_accuracy_radius"
      [] OTHER -> "kept"

\* Whether plot_results.py takes a sample of metric m from a row.
Plotted(row, m) == row.c_latency_ms # None /\ row[m] # None
                   /\ row.c_latency_ms > 0 /\ row[m] >= 0

-----------------------------------------------------------------------------
Options ==
    {o \in [trim : Percentages, geoip : BOOLEAN, maxRadius : MaxRadii, beyond : BOOLEAN] :
        (o.maxRadius # None \/ o.beyond) => o.geoip}

Init ==
    /\ stage = "structure"
    /\ input \in UNION {[1..n -> SampleRows] : n \in 0..MaxRows}
    /\ options \in Options
    /\ accepted = <<>> /\ rejected = <<>>
    /\ kept = Untouched /\ refused = Untouched

\* Move the bad places from a list to the end of the refused ones.
Sieve(places, bad) ==
    /\ accepted' = Sifted(places, DOMAIN input \ bad)
    /\ rejected' = rejected \o Sifted(places, bad)

Structure ==
    /\ stage = "structure"
    /\ Sieve([i \in DOMAIN input |-> i],
             {i \in DOMAIN input :
                StructuralRejection(input[i], KeepGeoAnomalies) # "kept"})
    /\ stage' = "geo"
    /\ UNCHANGED <<input, options, kept, refused>>

Geo ==
    /\ stage = "geo"
    /\ IF options.geoip
       THEN Sieve(accepted, {i \in ToSet(accepted) : GeoVerdict(input[i], options) # "kept"})
       ELSE UNCHANGED <<accepted, rejected>>
    /\ stage' = "trim"
    /\ UNCHANGED <<input, options, kept, refused>>

Trim ==
    /\ stage = "trim"
    /\ IF options.trim # None /\ accepted # <<>>
       THEN Sieve(accepted, Trimmed(accepted, options.trim))
       ELSE UNCHANGED <<accepted, rejected>>
    /\ stage' = "write_kept"
    /\ UNCHANGED <<input, options, kept, refused>>

\* The rows of a list that are on the disk when the writer meets a row with extra
\* fields, or all of them.
Writable(places) ==
    LET bad == {k \in DOMAIN places : input[places[k]].extra}
    IN IF bad = {} THEN places
       ELSE SubSeq(places, 1, (CHOOSE k \in bad : \A h \in bad : k <= h) - 1)

\* --output is opened for writing, which empties it, and filled row by row.
WriteKept ==
    /\ stage = "write_kept"
    /\ kept' = Writable(accepted)
    /\ stage' = IF Writable(accepted) = accepted THEN "write_refused" ELSE "failed"
    /\ UNCHANGED <<input, options, accepted, rejected, refused>>

WriteRefused ==
    /\ stage = "write_refused"
    /\ refused' = Writable(rejected)
    /\ stage' = IF Writable(rejected) = rejected THEN "done" ELSE "failed"
    /\ UNCHANGED <<input, options, accepted, rejected, kept>>

Next == Structure \/ Geo \/ Trim \/ WriteKept \/ WriteRefused

Spec == Init /\ [][Next]_vars

-----------------------------------------------------------------------------
\* The clean subset can be audited: when the program succeeds, each row of the
\* input is in exactly one of the two files, once, and the kept ones are in the
\* order of the input.
Audit ==
    stage = "done" =>
        /\ Len(kept) + Len(refused) = Len(input)
        /\ ToSet(kept) \cup ToSet(refused) = DOMAIN input
        /\ \A i, j \in DOMAIN kept : i < j => kept[i] < kept[j]

\* The trim removes no more than its name says: of n rows, each metric can send
\* away those above one threshold, so at most five times the rows that lie above
\* the percentile position; with --trim-percentile 100 that is none.
TrimIsBounded ==
    stage = "trim" /\ accepted # <<>> =>
        \A p \in Percentages \ {None} :
            Cardinality(Trimmed(accepted, p)) * 100
                <= Cardinality(METRICS)
                        * ((Len(accepted) - 1) * (100 - p) + (IF p = 100 THEN 0 ELSE 99))

\* A milder trim keeps every row a stricter one keeps.
TrimIsMonotone ==
    stage = "trim" /\ accepted # <<>> =>
        \A p, q \in Percentages \ {None} :
            p <= q => Trimmed(accepted, q) \subseteq Trimmed(accepted, p)

\* Every curve of a plot of the clean file has as many samples as the file has
\* rows: no kept row is left out by plot_results.py for one metric and not for
\* another.
KeptRowsAreAllPlotted ==
    stage = "done" =>
        \A k \in DOMAIN kept : \A m \in METRICS \ {"c_latency_ms"} : Plotted(input[kept[k]], m)

\* With --require-distance-beyond-accuracy, no kept row has a distance the error
\* radius of its address covers, nor an unknown one.
DistancesAreBeyondAccuracy ==
    stage = "done" /\ options.beyond =>
        \A k \in DOMAIN kept :
            LET row == input[kept[k]]
            IN row.radius # None /\ row.distance # None /\ row.distance > row.radius
=============================================================================
