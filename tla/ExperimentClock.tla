--------------------------- MODULE ExperimentClock ---------------------------
(* The zero of an experiment's clock: run_lab.py writes t0.txt as it starts the rtt   *)
(* monitor, backfill_t0.py writes t0.txt and then t0.source for directories without,  *)
(* and the plots read what they find (ReadT0). One directory; time zero is the moment  *)
(* the phases of the bandwidth are counted from.                                         *)
EXTENDS LabSeries

CONSTANTS
    Error,          \* how far the first row of iperf is from the zero, at most
    FirstSamples,   \* when the monitors' first samples may have been taken
    MaxRuns         \* bound on the experiments of the directory

\* What the constants are; the module that brings the parts together assumes it.
ErrorAssumption == Error \in Nat
MaxRunsAssumption == MaxRuns \in Nat \ {0}
FirstSamplesAssumption == FirstSamples \subseteq Int /\ IsFiniteSet(FirstSamples)

VARIABLES
    dir,        \* what ReadT0 reads, and there (t0.txt exists), source, firsts
    job,        \* the backfill that runs: [step, mode, force, t0]
    runs,       \* how many experiments there have been
    guessed     \* t0.txt was backfilled with --mode first

vars == <<dir, job, runs, guessed>>

Idle == [step |-> "idle", mode |-> "none", force |-> FALSE, t0 |-> None]
Modes == {"iperf", "first"}
Estimates == (-Error)..Error

\* A throughput file whose first row dates the start at e.
FileFrom(e) == <<[epoch |-> 100 + e - 3, t |-> 100, v |-> 1]>>
Throughputs == {<<>>} \cup {FileFrom(e) : e \in Estimates}

TypeOK ==
    /\ dir.reproduce \in BOOLEAN /\ dir.there \in BOOLEAN
    /\ dir.t0 \in {None} \cup Estimates \cup FirstSamples
    /\ dir.t0 # None => dir.there
    /\ dir.source \in Modes \cup {"none"}
    /\ {dir.client, dir.server} \subseteq Throughputs
    /\ dir.firsts \subseteq FirstSamples
    /\ job.step \in {"idle", "opened", "written"}
    /\ runs \in 1..MaxRuns
    /\ guessed \in BOOLEAN

-----------------------------------------------------------------------------
\* An experiment of run_lab.py in a directory it has emptied: t0.txt is written, or
\* an error leaves it out or empty; without traffic there are no rows of iperf.
Experiment ==
    {[reproduce |-> r, there |-> f.there, t0 |-> f.t0, source |-> "none",
      client |-> c, server |-> s, firsts |-> n] :
        r \in BOOLEAN,
        f \in {[there |-> TRUE, t0 |-> 0], [there |-> TRUE, t0 |-> None],
               [there |-> FALSE, t0 |-> None]},
        c \in Throughputs, s \in Throughputs, n \in SUBSET FirstSamples}

Init ==
    /\ dir \in Experiment
    /\ job = Idle /\ runs = 1 /\ guessed = FALSE

RunLab ==
    /\ job = Idle
    /\ runs < MaxRuns
    /\ dir' \in {d \in Experiment : d.reproduce = dir.reproduce}
    /\ runs' = runs + 1
    /\ guessed' = FALSE
    /\ UNCHANGED job

T0FromIperf(d) ==
    IF FirstInterval(d.client) # None THEN FirstInterval(d.client) + 3
    ELSE IF FirstInterval(d.server) # None THEN FirstInterval(d.server) + 3 ELSE None

T0FromFirst(d) == IF d.firsts = {} THEN None ELSE Min(d.firsts)

Estimate(mode) == IF mode = "iperf" THEN T0FromIperf(dir) ELSE T0FromFirst(dir)

\* Mutant: a t0.txt that is there is no obstacle.
BackfillAlways(mode, force) ==
    /\ job = Idle
    /\ Estimate(mode) # None
    /\ job' = [step |-> "opened", mode |-> mode, force |-> force, t0 |-> Estimate(mode)]
    /\ dir' = [dir EXCEPT !.there = TRUE, !.t0 = None]
    /\ UNCHANGED <<runs, guessed>>

\* main of backfill: a t0.txt, even an empty one, is left alone without --force, and
\* a directory without data too. Opening the file empties it.
Backfill(mode, force) ==
    /\ job = Idle
    /\ dir.there => force
    /\ Estimate(mode) # None
    /\ job' = [step |-> "opened", mode |-> mode, force |-> force, t0 |-> Estimate(mode)]
    /\ dir' = [dir EXCEPT !.there = TRUE, !.t0 = None]
    /\ UNCHANGED <<runs, guessed>>

\* The number is 18 bytes at the start of its file: the disk takes it whole or, as in
\* Interrupted, not at all.
WriteT0 ==
    /\ job.step = "opened"
    /\ dir' = [dir EXCEPT !.t0 = job.t0]
    /\ guessed' = (job.mode = "first")
    /\ job' = [job EXCEPT !.step = "written"]
    /\ UNCHANGED runs

WriteSource ==
    /\ job.step = "written"
    /\ dir' = [dir EXCEPT !.source = job.mode]
    /\ job' = Idle
    /\ UNCHANGED <<runs, guessed>>

\* The backfill is interrupted, or a write fails.
Interrupted ==
    /\ job # Idle
    /\ job' = Idle
    /\ UNCHANGED <<dir, runs, guessed>>

Next ==
    \/ RunLab
    \/ \E m \in Modes, f \in BOOLEAN : Backfill(m, f)
    \/ WriteT0 \/ WriteSource
    \/ Interrupted

Spec == Init /\ [][Next]_vars

-----------------------------------------------------------------------------
\* Whatever is written, backfilled, cut short and read by fallback, the zero that
\* the plots of a mitigation read is as close to the clock of its phases as the rows of
\* iperf are, unless somebody asked for the first sample.
ZeroIsClose ==
    ~dir.reproduce /\ ~guessed => ReadT0(dir) \in {None} \cup Estimates

\* What run_lab.py has measured is not replaced by an estimate: a number in t0.txt
\* changes with a new experiment or with --force only.
NumberIsKept ==
    [][runs' = runs /\ dir.t0 # None /\ dir'.t0 # dir.t0 => job'.force]_vars

-----------------------------------------------------------------------------
\* What the documentation says and the code does not do. No run is about it.

\* plot_bufferbloat.py:146: t0.txt holds the exact value of run_lab.py, and is
\* announced as that unless t0.source says otherwise (159).
ExactIsExact ==
    job = Idle /\ dir.t0 # None /\ dir.source = "none" => dir.t0 = 0
=============================================================================
