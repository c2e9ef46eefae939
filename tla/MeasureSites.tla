---------------------------- MODULE MeasureSites ----------------------------
(* The measuring program of Sept3/ping_latency_graph, run again and again over   *)
(* one results file: the list of targets, the thread pool, the rows appended to    *)
(* the file as futures complete, and the three ways a run ends early: a kill, a    *)
(* keyboard interrupt, and a write the disk takes only a part of.                  *)
(* What a row says is in SiteMeasurement; here a row is its domain, and whether    *)
(* the line on the disk is the row that was written.                               *)
EXTENDS Integers, Sequences, FiniteSets

CONSTANTS
    Domain,         \* valid domain names
    SiteList,       \* the lines of --sites: [kind, domain] records
    Workers,        \* --workers
    Cuts,           \* which writes a full disk may cut: a set of WriteCuts
    MaxBadLines,    \* bound: lines a full disk has cut
    MaxLines        \* bound: a file of more lines is not resumed

NoDomain == "nodomain"      \* what a line without a usable domain column names
WriteCuts == {"header", "nothing", "in_rank", "in_domain", "after_domain", "late"}
LineKinds == {"blank", "comment", "header", "ranked", "plain", "undotted"}

ASSUME SitesAssumption ==
    SiteList \in Seq([kind : LineKinds, domain : Domain])
ASSUME WorkersAssumption == Workers \in Nat \ {0}
ASSUME DomainAssumption == NoDomain \notin Domain
ASSUME CutsAssumption == Cuts \subseteq WriteCuts
ASSUME BoundsAssumption == MaxBadLines \in Nat /\ MaxLines \in Nat

VARIABLES
    phase,      \* "idle", "collecting", or "draining" after an exception
    header,     \* the first line of the file: "none", "whole", "named" when it was cut
                \* after "rank,domain,", or "cut" before that
    rows,       \* the other lines of the file, in order
    openLine,   \* "no", or where the last line of the file, without a line end, was
                \* cut: in the "rank" column or "later"
    targets,    \* the domains of the current or last run
    queue,      \* submitted, no worker yet
    running,    \* being measured
    ready,      \* futures that are done and not yet collected
    complete    \* the last run that ended returned 0 (history)

vars == <<phase, header, rows, openLine, targets, queue, running, ready, complete>>
file == <<header, rows, openLine>>

TypeOK ==
    /\ phase \in {"idle", "collecting", "draining"}
    /\ header \in {"none", "whole", "named", "cut"}
    /\ rows \in Seq([domain : Domain \cup {NoDomain}, whole : BOOLEAN])
    /\ openLine \in {"no", "rank", "later"}
    /\ targets \subseteq Domain
    /\ queue \subseteq targets
    /\ running \subseteq targets
    /\ ready \subseteq targets
    /\ complete \in BOOLEAN

-----------------------------------------------------------------------------
\* load_targets: a line names a target when its first field is neither empty, a
\* comment nor a column title, and its domain has a dot.
Usable(line) == line.kind \in {"ranked", "plain"}

FirstUse(i) ==
    /\ Usable(SiteList[i])
    /\ \A j \in 1..(i - 1) : Usable(SiteList[j]) => SiteList[j].domain # SiteList[i].domain

\* The lines that give a target, of which the first `limit` are taken.
TargetLines == {i \in DOMAIN SiteList : FirstUse(i)}
LoadTargets(limit) ==
    {SiteList[i].domain : i \in {k \in TargetLines :
                                    Cardinality({h \in TargetLines : h < k}) < limit}}

\* The place of a target in the list: the pool takes submissions in this order.
Place(d) == CHOOSE i \in TargetLines : SiteList[i].domain = d

\* Mutant: the first line under the header is taken for the header.
CompletedButFirst(h, r) == {r[i].domain : i \in DOMAIN r \ {1}}

\* completed_domains: the domain column of every line, if the header names one. A
\* measurement that failed has a row too, and is not measured again.
CompletedDomains(h, r) ==
    IF h \in {"whole", "named"} THEN {r[i].domain : i \in DOMAIN r} ELSE {}

Pending(limit, done) == LoadTargets(limit) \ done

\* Mutant: a row is written over the end of the last line of the file.
PutAfterTrim(row) ==
    IF rows = <<>> THEN <<row>>
    ELSE [rows EXCEPT ![Len(rows)].whole = FALSE]

\* A row appended to a line that was cut becomes a part of that line, and to a
\* header that was cut a part of the header. A line cut in its rank goes on with
\* the rank of the new row, and so gets the domain of that row.
Put(row) ==
    CASE openLine = "no" -> Append(rows, row)
      [] openLine # "no" /\ rows = <<>> -> rows
      [] openLine = "later" /\ rows # <<>> -> [rows EXCEPT ![Len(rows)].whole = FALSE]
      [] openLine = "rank" /\ rows # <<>> ->
            [rows EXCEPT ![Len(rows)] = [domain |-> row.domain, whole |-> FALSE]]

-----------------------------------------------------------------------------
Init ==
    /\ phase = "idle"
    /\ header = "none" /\ rows = <<>> /\ openLine = "no"
    /\ targets = {} /\ queue = {} /\ running = {} /\ ready = {}
    /\ complete = FALSE

\* run up to the submissions: targets, --no-resume, what the file already has, and
\* a header when the file is empty.
Start(limit, noResume) ==
    /\ phase = "idle"
    /\ LoadTargets(limit) # {}
    /\ targets' = LoadTargets(limit)
    /\ \/ /\ noResume \/ header = "none"
          /\ header' = "whole" /\ rows' = <<>> /\ openLine' = "no"
          /\ queue' = Pending(limit, {})
       \/ /\ ~noResume /\ header # "none"
          /\ Len(rows) <= MaxLines
          /\ queue' = Pending(limit, CompletedDomains(header, rows))
          /\ UNCHANGED file
    /\ phase' = "collecting"
    /\ running' = {} /\ ready' = {}
    /\ complete' = FALSE

\* The disk takes a part of the header, with the title of the domain column or
\* without: the program stops before it submits.
HeaderCut(limit, noResume) ==
    /\ "header" \in Cuts
    /\ phase = "idle"
    /\ LoadTargets(limit) # {}
    /\ noResume \/ header = "none"
    /\ targets' = LoadTargets(limit)
    /\ header' \in {"named", "cut"} /\ rows' = <<>> /\ openLine' = "later"
    /\ complete' = FALSE
    /\ UNCHANGED <<phase, queue, running, ready>>

\* A worker takes the oldest submission. After an exception the pool is left
\* through shutdown(wait=True): the workers go on until the queue is empty.
Take(d) ==
    /\ phase \in {"collecting", "draining"}
    /\ d \in queue
    /\ \A e \in queue : Place(d) <= Place(e)
    /\ Cardinality(running) < Workers
    /\ queue' = queue \ {d}
    /\ running' = running \cup {d}
    /\ UNCHANGED <<phase, file, targets, ready, complete>>

\* measure_target returns or raises: the future is done either way.
Measure(d) ==
    /\ phase \in {"collecting", "draining"}
    /\ d \in running
    /\ running' = running \ {d}
    /\ ready' = ready \cup {d}
    /\ UNCHANGED <<phase, file, targets, queue, complete>>

\* One turn of the as_completed loop: the row is written and flushed. Futures come
\* in the order they complete, which may be any order.
Collect(d) ==
    /\ phase = "collecting"
    /\ d \in ready
    /\ ready' = ready \ {d}
    /\ rows' = Put([domain |-> d, whole |-> TRUE])
    /\ openLine' = "no"
    /\ UNCHANGED <<phase, header, targets, queue, running, complete>>

\* The flush raises, because the disk took nothing of the row, or a part of it that
\* ends in the rank, in the domain or after it. What is left in the buffer goes out
\* when the file is closed, if the disk has room again ("late").
CollectCut(d, cut) ==
    /\ cut \in Cuts \ {"header"}
    /\ phase = "collecting"
    /\ d \in ready
    /\ Cardinality({i \in DOMAIN rows : ~rows[i].whole}) < MaxBadLines
    /\ ready' = ready \ {d}
    /\ \/ cut = "nothing" /\ UNCHANGED <<rows, openLine>>
       \/ /\ cut = "late"
          /\ rows' = Put([domain |-> d, whole |-> TRUE])
          /\ openLine' = "no"
       \/ /\ cut \in {"in_rank", "in_domain", "after_domain"}
          /\ rows' = Put([domain |-> IF cut = "after_domain" THEN d ELSE NoDomain,
                          whole |-> FALSE])
          /\ openLine' = IF cut = "in_rank" THEN "rank" ELSE "later"
    /\ phase' = "draining"
    /\ UNCHANGED <<header, targets, queue, running, complete>>

\* Mutant: the loop ends when every worker is done.
FinishWithoutReady ==
    /\ phase = "collecting"
    /\ queue = {} /\ running = {}
    /\ phase' = "idle"
    /\ complete' = TRUE
    /\ ready' = {}
    /\ UNCHANGED <<file, targets, queue, running>>

\* The loop has collected every future, and run returns 0.
Finish ==
    /\ phase = "collecting"
    /\ queue = {} /\ running = {} /\ ready = {}
    /\ phase' = "idle"
    /\ complete' = TRUE
    /\ UNCHANGED <<file, targets, queue, running, ready>>

\* Ctrl-C in the loop: the exception leaves the pool, which waits for every
\* submission; nothing collects the results any more.
Interrupt ==
    /\ phase = "collecting"
    /\ phase' = "draining"
    /\ UNCHANGED <<file, targets, queue, running, ready, complete>>

\* Mutant: the pool is left only when every result has been collected.
DrainedAndCollected ==
    /\ phase = "draining"
    /\ queue = {} /\ running = {} /\ ready = {}
    /\ phase' = "idle"
    /\ UNCHANGED <<file, targets, queue, running, ready, complete>>

Drained ==
    /\ phase = "draining"
    /\ queue = {} /\ running = {}
    /\ phase' = "idle"
    /\ ready' = {}
    /\ UNCHANGED <<file, targets, queue, running, complete>>

\* The process is killed: the file is all that is left.
Kill ==
    /\ phase # "idle"
    /\ phase' = "idle"
    /\ queue' = {} /\ running' = {} /\ ready' = {}
    /\ UNCHANGED <<file, targets, complete>>

Limits == 1..Len(SiteList)

Next ==
    \/ \E limit \in Limits, noResume \in BOOLEAN :
            Start(limit, noResume) \/ HeaderCut(limit, noResume)
    \/ \E d \in Domain : Take(d) \/ Measure(d) \/ Collect(d)
    \/ \E d \in Domain, cut \in WriteCuts : CollectCut(d, cut)
    \/ Finish
    \/ Interrupt
    \/ Drained
    \/ Kill

Spec == Init /\ [][Next]_vars

\* Every transfer has a timeout (curl) and every ping one (subprocess.run), so a
\* measurement ends; the pool and the loop go on while they have work.
Fairness ==
    /\ \A d \in Domain : WF_vars(Take(d)) /\ WF_vars(Measure(d)) /\ WF_vars(Collect(d))
    /\ WF_vars(Finish)
    /\ WF_vars(Drained)

FairSpec == Spec /\ Fairness

-----------------------------------------------------------------------------
Recorded == {rows[i].domain : i \in DOMAIN rows}

\* No line of the file has been cut by a full disk.
Undamaged ==
    /\ header \in {"none", "whole"} /\ openLine = "no"
    /\ \A i \in DOMAIN rows : rows[i].whole

\* Whatever kills, interrupts, failed writes and resumes there were, no domain has
\* two lines in a file without a cut line: a resume never measures again what a
\* former run wrote. A header without the domain column makes every resume measure
\* everything again.
OneRowPerDomain ==
    Undamaged => \A i, j \in DOMAIN rows : rows[i].domain = rows[j].domain => i = j

\* When run returns 0 over a file without a cut line, every target of that run has
\* a row of its own in the file, the rows of the runs before it included ("an
\* interrupted experiment can be resumed", measure_websites.py:5). Over a cut line
\* it is not so: its domain counts as measured.
CompleteWhenDone == Undamaged /\ complete => targets \subseteq Recorded

\* A row that is whole on the disk stays so, whatever write is cut after it: only
\* --no-resume takes it away, with all the others.
WholeRowsSurvive ==
    [][\A i \in DOMAIN rows :
            rows[i].whole => rows' = <<>> \/ (i \in DOMAIN rows' /\ rows'[i] = rows[i])]_vars

\* A run ends: by itself, or after Ctrl-C or a failed write, when the workers have
\* gone through all that was submitted.
RunEnds == phase # "idle" ~> phase = "idle"
=============================================================================
