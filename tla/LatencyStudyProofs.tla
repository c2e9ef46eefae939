------------------------- MODULE LatencyStudyProofs -------------------------
(***************************************************************************)
(* Theorems about the latency study, for every list of sites, every number *)
(* of workers, all natural times and status codes, and every results file. *)
(* First measuring a list of sites, over any number of runs, kills,        *)
(* interrupts and writes that a full disk cuts: a written row is never     *)
(* damaged by what is written after it, and as long as no line of the file *)
(* was cut, a resumed run measures nothing again and misses nothing.  Then *)
(* the study, which implements the specifications of its parts: a step of  *)
(* it is a step of one part and leaves the others alone, so what is proved *)
(* of a part (SiteMeasurementProofs for one site) holds of the study.      *)
(* Last, cleaning a results file, from the lemmas about lists.             *)
(***************************************************************************)
EXTENDS LatencyStudy, ListsProofs, SequenceTheorems

Row == [domain : Domain \cup {NoDomain}, whole : BOOLEAN]

-----------------------------------------------------------------------------
(* The type invariant. Starting over with other targets leaves the pool's  *)
(* sets within them only because a program that does not run has none.     *)

IdleIsEmpty == phase = "idle" => queue = {} /\ running = {} /\ ready = {}

TypeInv == TypeOK /\ IdleIsEmpty

LEMMA TargetsAreDomains ==
    ASSUME NEW limit \in Limits
    PROVE  LoadTargets(limit) \subseteq Domain
<1>1. \A i \in DOMAIN SiteList : SiteList[i].domain \in Domain
  <2> DEFINE Line == [kind : LineKinds, domain : Domain]
  <2>1. SiteList \in Seq(Line)
    BY SitesAssumption
  <2>2. \A i \in DOMAIN SiteList : SiteList[i] \in Line
    <3> HIDE DEF Line
    <3>1. QED
      BY <2>1
  <2>3. QED
    BY <2>2
<1>2. TargetLines \subseteq DOMAIN SiteList
  BY DEF TargetLines
<1>3. QED
  BY <1>1, <1>2 DEF LoadTargets

LEMMA PutType ==
    ASSUME TypeOK, NEW line \in Row
    PROVE  Put(line) \in Seq(Row)
<1>1. rows \in Seq(Row)
  BY DEF TypeOK, Row
<1>2. CASE openLine = "no"
  BY <1>1, <1>2 DEF Put
<1>3. CASE openLine # "no" /\ rows = <<>>
  BY <1>1, <1>3 DEF Put
<1>4. CASE openLine = "later" /\ rows # <<>>
  <2>1. Put(line) = [rows EXCEPT ![Len(rows)].whole = FALSE]
    BY <1>4 DEF Put
  <2>2. Len(rows) \in 1..Len(rows)
    BY <1>1, <1>4
  <2>3. rows[Len(rows)] \in Row
    BY <1>1, <2>2, ElementOfSeq
  <2>4. [rows[Len(rows)] EXCEPT !.whole = FALSE] \in Row
    BY <2>3 DEF Row
  <2>5. QED
    BY <1>1, <2>1, <2>2, <2>4, ExceptSeq
<1>5. CASE openLine = "rank" /\ rows # <<>>
  <2>1. Put(line) = [rows EXCEPT ![Len(rows)] = [domain |-> line.domain, whole |-> FALSE]]
    BY <1>5 DEF Put
  <2>2. [domain |-> line.domain, whole |-> FALSE] \in Row
    BY DEF Row
  <2>3. Len(rows) \in 1..Len(rows)
    BY <1>1, <1>5
  <2>4. QED
    BY <1>1, <2>1, <2>2, <2>3, ExceptSeq
<1>6. QED
  BY <1>2, <1>3, <1>4, <1>5 DEF TypeOK

LEMMA TypeInit == Init => TypeInv
<1>1. <<>> \in Seq(Row)
  BY EmptySeq
<1>2. QED
  BY <1>1 DEF Init, TypeInv, TypeOK, IdleIsEmpty, Row

LEMMA TypeNext == TypeInv /\ [Next]_vars => TypeInv'
<1> SUFFICES ASSUME TypeOK, IdleIsEmpty, [Next]_vars
             PROVE  TypeOK' /\ IdleIsEmpty' /\ IdleIsEmpty'
  BY DEF TypeInv
<1>1. ASSUME NEW limit \in Limits, NEW noResume \in BOOLEAN, Start(limit, noResume)
      PROVE  TypeOK' /\ IdleIsEmpty'
  <2>1. LoadTargets(limit) \subseteq Domain
    BY TargetsAreDomains
  <2>2. queue' \subseteq targets'
    BY <1>1 DEF Start, Pending
  <2>3. rows' \in Seq(Row)
    <3>1. rows \in Seq(Row) /\ <<>> \in Seq(Row)
      BY EmptySeq DEF TypeOK, Row
    <3>2. QED
      BY <1>1, <3>1 DEF Start, file
  <2>4. header' \in {"none", "whole", "named", "cut"} /\ openLine' \in {"no", "rank", "later"}
    BY <1>1 DEF Start, TypeOK, file
  <2>5. QED
    BY <1>1, <2>1, <2>2, <2>3, <2>4 DEF Start, TypeOK, IdleIsEmpty, Row
<1>2. ASSUME NEW limit \in Limits, NEW noResume \in BOOLEAN, HeaderCut(limit, noResume)
      PROVE  TypeOK' /\ IdleIsEmpty'
  <2>1. LoadTargets(limit) \subseteq Domain
    BY TargetsAreDomains
  <2>2. rows' \in Seq(Row)
    BY <1>2, EmptySeq DEF HeaderCut
  <2>3. queue' = {} /\ running' = {} /\ ready' = {}
    BY <1>2 DEF HeaderCut, IdleIsEmpty
  <2>4. QED
    BY <1>2, <2>1, <2>2, <2>3 DEF HeaderCut, TypeOK, IdleIsEmpty, Row
<1>3. ASSUME NEW d \in Domain, Take(d) \/ Measure(d)
      PROVE  TypeOK' /\ IdleIsEmpty'
  BY <1>3 DEF Take, Measure, TypeOK, IdleIsEmpty, file
<1>4. ASSUME NEW d \in Domain, Collect(d)
      PROVE  TypeOK' /\ IdleIsEmpty'
  <2>1. [domain |-> d, whole |-> TRUE] \in Row
    BY DEF Row
  <2>2. rows' \in Seq(Row)
    BY <1>4, <2>1, PutType DEF Collect
  <2>3. QED
    BY <1>4, <2>2 DEF Collect, TypeOK, IdleIsEmpty, Row
<1>5. ASSUME NEW d \in Domain, NEW cut \in WriteCuts, CollectCut(d, cut)
      PROVE  TypeOK' /\ IdleIsEmpty'
  <2>1. rows' \in Seq(Row)
    <3>1. [domain |-> d, whole |-> TRUE] \in Row
      BY DEF Row
    <3>2. [domain |-> IF cut = "after_domain" THEN d ELSE NoDomain, whole |-> FALSE] \in Row
      BY DEF Row
    <3>3. rows \in Seq(Row)
      BY DEF TypeOK, Row
    <3>4. QED
      BY <1>5, <3>1, <3>2, <3>3, PutType DEF CollectCut
  <2>2. openLine' \in {"no", "rank", "later"}
    BY <1>5 DEF CollectCut, TypeOK
  <2>3. QED
    BY <1>5, <2>1, <2>2 DEF CollectCut, TypeOK, IdleIsEmpty, Row
<1>6. CASE Finish
  BY <1>6 DEF Finish, TypeOK, IdleIsEmpty, file
<1>7. CASE Interrupt
  BY <1>7 DEF Interrupt, TypeOK, IdleIsEmpty, file
<1>8. CASE Drained
  BY <1>8 DEF Drained, TypeOK, IdleIsEmpty, file
<1>9. CASE Kill
  BY <1>9 DEF Kill, TypeOK, IdleIsEmpty, file
<1>10. CASE UNCHANGED vars
  BY <1>10 DEF vars, TypeOK, IdleIsEmpty
<1>11. QED
  BY <1>1, <1>2, <1>3, <1>4, <1>5, <1>6, <1>7, <1>8, <1>9, <1>10 DEF Next

\* The file, the pool and the sets of domains keep their types, whatever write is
\* cut and however often the program runs (measure_websites.py:299-373).
THEOREM TypeCorrect == Spec => []TypeOK
BY TypeInit, TypeNext, PTL DEF Spec, TypeInv

-----------------------------------------------------------------------------
(* A row, once whole on the disk, is not damaged by a later write: only a   *)
(* line that was cut is ever written into, and that one is not whole.      *)

OpenLineIsCut ==
    openLine # "no" =>
        IF rows = <<>> THEN header \in {"named", "cut"} ELSE ~rows[Len(rows)].whole

DiskInv == TypeInv /\ OpenLineIsCut

\* What a write does to the lines that are there already.
LEMMA PutKeepsWholeRows ==
    ASSUME TypeOK, OpenLineIsCut, NEW line \in Row,
           NEW i \in DOMAIN rows, rows[i].whole
    PROVE  i \in DOMAIN Put(line) /\ Put(line)[i] = rows[i]
<1>1. rows \in Seq(Row)
  BY DEF TypeOK, Row
<1>2. rows # <<>> /\ i \in 1..Len(rows) /\ Len(rows) \in 1..Len(rows)
  BY <1>1
<1>3. CASE openLine = "no"
  BY <1>1, <1>2, <1>3, AppendProperties DEF Put
<1>4. CASE openLine # "no"
  <2>1. i # Len(rows)
    BY <1>2, <1>4 DEF OpenLineIsCut
  <2>2. CASE openLine = "later"
    <3>1. Put(line) = [rows EXCEPT ![Len(rows)].whole = FALSE]
      BY <1>2, <2>2 DEF Put
    <3>2. QED
      BY <1>1, <1>2, <2>1, <3>1
  <2>3. CASE openLine = "rank"
    <3>1. Put(line) = [rows EXCEPT ![Len(rows)] = [domain |-> line.domain, whole |-> FALSE]]
      BY <1>2, <2>3 DEF Put
    <3>2. QED
      BY <1>1, <1>2, <2>1, <3>1
  <2>4. QED
    BY <1>4, <2>2, <2>3 DEF TypeOK
<1>5. QED
  BY <1>3, <1>4

\* A write that is cut, or that goes on with a line that was, leaves a last line that
\* is not whole.
LEMMA PutOfCutRow ==
    ASSUME TypeOK, NEW line \in Row, ~line.whole \/ openLine # "no", Put(line) # <<>>
    PROVE  ~Put(line)[Len(Put(line))].whole
<1>1. rows \in Seq(Row)
  BY DEF TypeOK, Row
<1>2. CASE openLine = "no"
  BY <1>1, <1>2, AppendProperties DEF Put
<1>3. CASE openLine # "no"
  <2>1. rows # <<>>
    BY <1>3 DEF Put, TypeOK
  <2>2. Len(rows) \in 1..Len(rows) /\ rows[Len(rows)] \in Row
    BY <1>1, <2>1, ElementOfSeq
  <2>3. CASE openLine = "later"
    <3> DEFINE last == [rows[Len(rows)] EXCEPT !.whole = FALSE]
    <3>1. last \in Row /\ ~last.whole
      BY <2>2 DEF Row
    <3>2. Put(line) = [rows EXCEPT ![Len(rows)] = last]
      BY <2>1, <2>3 DEF Put
    <3> HIDE DEF last
    <3>3. Len(Put(line)) = Len(rows) /\ Put(line)[Len(rows)] = last
      BY <1>1, <2>2, <3>1, <3>2, ExceptSeq
    <3>4. QED
      BY <3>1, <3>3
  <2>4. CASE openLine = "rank"
    <3>1. [domain |-> line.domain, whole |-> FALSE] \in Row
      BY DEF Row
    <3>2. Put(line) = [rows EXCEPT ![Len(rows)] = [domain |-> line.domain, whole |-> FALSE]]
      BY <2>1, <2>4 DEF Put
    <3>3. Len(Put(line)) = Len(rows)
      BY <1>1, <2>2, <3>1, <3>2, ExceptSeq
    <3>4. Put(line)[Len(rows)] = [domain |-> line.domain, whole |-> FALSE]
      BY <1>1, <2>2, <3>1, <3>2, ExceptSeq
    <3>5. QED
      BY <3>3, <3>4
  <2>5. QED
    BY <1>3, <2>3, <2>4 DEF TypeOK
<1>4. QED
  BY <1>2, <1>3

\* A line is never taken away.
LEMMA PutIsEmpty ==
    ASSUME TypeOK, NEW line \in Row, Put(line) = <<>>
    PROVE  rows = <<>>
<1>1. rows \in Seq(Row)
  BY DEF TypeOK, Row
<1>2. CASE openLine = "no"
  BY <1>1, <1>2, AppendProperties DEF Put
<1>3. CASE openLine # "no"
  <2> SUFFICES ASSUME rows # <<>>
               PROVE  FALSE
    OBVIOUS
  <2>1. Len(rows) \in 1..Len(rows) /\ rows[Len(rows)] \in Row
    BY <1>1, ElementOfSeq
  <2>2. PICK e \in Row : Put(line) = [rows EXCEPT ![Len(rows)] = e]
    <3>1. /\ [rows[Len(rows)] EXCEPT !.whole = FALSE] \in Row
          /\ [domain |-> line.domain, whole |-> FALSE] \in Row
      BY <2>1 DEF Row
    <3>2. CASE openLine = "later"
      BY <3>1, <3>2 DEF Put
    <3>3. CASE openLine = "rank"
      BY <3>1, <3>3 DEF Put
    <3>4. QED
      BY <1>3, <3>2, <3>3 DEF TypeOK
  <2>3. Len(Put(line)) = Len(rows)
    BY <1>1, <2>1, <2>2, ExceptSeq
  <2>4. QED
    BY <2>1, <2>3
<1>4. QED
  BY <1>2, <1>3

LEMMA DiskInit == Init => DiskInv
BY TypeInit DEF Init, DiskInv, OpenLineIsCut

LEMMA DiskNext == DiskInv /\ [Next]_vars => DiskInv'
<1> SUFFICES ASSUME TypeInv, OpenLineIsCut, [Next]_vars
             PROVE  OpenLineIsCut'
  BY TypeNext DEF DiskInv
<1>1. ASSUME NEW limit \in Limits, NEW noResume \in BOOLEAN,
             Start(limit, noResume) \/ HeaderCut(limit, noResume)
      PROVE  OpenLineIsCut'
  <2>1. CASE HeaderCut(limit, noResume)
    BY <2>1 DEF HeaderCut, OpenLineIsCut
  <2>2. CASE Start(limit, noResume) /\ openLine' = "no"
    BY <2>2 DEF OpenLineIsCut
  <2>3. CASE Start(limit, noResume) /\ UNCHANGED <<header, rows, openLine>>
    BY <2>3 DEF OpenLineIsCut
  <2>4. QED
    BY <1>1, <2>1, <2>2, <2>3 DEF Start, file
<1>2. ASSUME NEW d \in Domain, Take(d) \/ Measure(d) \/ Collect(d)
      PROVE  OpenLineIsCut'
  BY <1>2 DEF Take, Measure, Collect, OpenLineIsCut, file
<1>3. ASSUME NEW d \in Domain, NEW cut \in WriteCuts, CollectCut(d, cut)
      PROVE  OpenLineIsCut'
  <2>1. CASE UNCHANGED <<rows, openLine>> \/ openLine' = "no"
    BY <1>3, <2>1 DEF CollectCut, OpenLineIsCut
  <2>2. CASE openLine' # "no" /\ ~UNCHANGED <<rows, openLine>>
    <3> DEFINE line == [domain |-> IF cut = "after_domain" THEN d ELSE NoDomain,
                       whole |-> FALSE]
    <3>1. line \in Row /\ ~line.whole
      BY DEF Row
    <3>2. rows' = Put(line) /\ header' = header
      BY <1>3, <2>2 DEF CollectCut
    <3> HIDE DEF line
    <3>3. CASE rows' # <<>>
      BY <3>1, <3>2, <3>3, PutOfCutRow DEF OpenLineIsCut, TypeInv
    <3>4. CASE rows' = <<>>
      <4>1. rows \in Seq(Row)
        BY DEF TypeInv, TypeOK, Row
      <4>2. openLine # "no"
        BY <3>1, <3>2, <3>4, <4>1, AppendProperties DEF Put
      <4>3. rows = <<>>
        BY <3>2, <3>4, <4>1, <4>2, PutIsEmpty, <3>1 DEF TypeInv
      <4>4. QED
        BY <3>2, <3>4, <4>2, <4>3 DEF OpenLineIsCut
    <3>5. QED
      BY <3>3, <3>4
  <2>3. QED
    BY <2>1, <2>2
<1>4. CASE Finish \/ Interrupt \/ Drained \/ Kill \/ UNCHANGED vars
  BY <1>4 DEF Finish, Interrupt, Drained, Kill, vars, OpenLineIsCut, file
<1>5. QED
  BY <1>1, <1>2, <1>3, <1>4 DEF Next

LEMMA StepKeepsWholeRows ==
    ASSUME DiskInv, [Next]_vars
    PROVE  \A i \in DOMAIN rows :
                rows[i].whole => rows' = <<>> \/ (i \in DOMAIN rows' /\ rows'[i] = rows[i])
<1> SUFFICES ASSUME NEW i \in DOMAIN rows, rows[i].whole, rows' # <<>>
             PROVE  i \in DOMAIN rows' /\ rows'[i] = rows[i]
  OBVIOUS
<1>1. CASE UNCHANGED rows
  BY <1>1
<1>2. ASSUME NEW line \in Row, rows' = Put(line)
      PROVE  i \in DOMAIN rows' /\ rows'[i] = rows[i]
  BY <1>2, PutKeepsWholeRows DEF DiskInv, TypeInv
<1>3. ASSUME NEW d \in Domain, Collect(d)
      PROVE  i \in DOMAIN rows' /\ rows'[i] = rows[i]
  <2>1. [domain |-> d, whole |-> TRUE] \in Row
    BY DEF Row
  <2>2. QED
    BY <1>2, <1>3, <2>1 DEF Collect
<1>4. ASSUME NEW d \in Domain, NEW cut \in WriteCuts, CollectCut(d, cut)
      PROVE  i \in DOMAIN rows' /\ rows'[i] = rows[i]
  <2>1. /\ [domain |-> d, whole |-> TRUE] \in Row
        /\ [domain |-> IF cut = "after_domain" THEN d ELSE NoDomain, whole |-> FALSE] \in Row
    BY DEF Row
  <2>2. QED
    BY <1>1, <1>2, <1>4, <2>1 DEF CollectCut
<1>5. ASSUME NEW limit \in Limits, NEW noResume \in BOOLEAN,
             Start(limit, noResume) \/ HeaderCut(limit, noResume)
      PROVE  UNCHANGED rows
  BY <1>5 DEF Start, HeaderCut, file
<1>6. ASSUME NEW d \in Domain, Take(d) \/ Measure(d)
      PROVE  UNCHANGED rows
  BY <1>6 DEF Take, Measure, file
<1>7. ASSUME Finish \/ Interrupt \/ Drained \/ Kill \/ UNCHANGED vars
      PROVE  UNCHANGED rows
  BY <1>7 DEF Finish, Interrupt, Drained, Kill, vars, file
<1>8. QED
  BY <1>1, <1>3, <1>4, <1>5, <1>6, <1>7 DEF Next

\* A row that is whole on the disk is never damaged by the appends that follow a
\* cut write; --no-resume alone removes it (measure_websites.py:310, 356-358).
THEOREM WholeRowsStay == Spec => WholeRowsSurvive
<1>1. DiskInv /\ [Next]_vars =>
        [\A i \in DOMAIN rows :
            rows[i].whole => rows' = <<>> \/ (i \in DOMAIN rows' /\ rows'[i] = rows[i])]_vars
  BY StepKeepsWholeRows
<1>2. QED
  BY <1>1, DiskInit, DiskNext, PTL DEF Spec, WholeRowsSurvive

-----------------------------------------------------------------------------
(* A file of which no write was cut. The inductive invariant says where    *)
(* each target of the run is: in the file, or in exactly one of the pool's *)
(* three sets. It is stated for an undamaged file only: no step repairs a  *)
(* cut line but a start that empties the file.                             *)

HeaderIsWhole ==
    /\ header \in {"none", "whole"}
    /\ header = "none" => phase = "idle" /\ rows = <<>>

RowsAreWhole ==
    /\ openLine = "no"
    /\ \A i \in DOMAIN rows : rows[i].whole /\ rows[i].domain \in Domain

NoDomainTwice == \A i, j \in DOMAIN rows : rows[i].domain = rows[j].domain => i = j

InFlight == queue \cup running \cup ready

InFlightIsApart ==
    /\ queue \cap running = {} /\ queue \cap ready = {} /\ running \cap ready = {}
    /\ InFlight \cap Recorded = {}

NoneIsLost == phase = "collecting" => targets \subseteq InFlight \cup Recorded

DoneIsRecorded == complete => phase = "idle" /\ targets \subseteq Recorded

NoneMissing ==
    /\ HeaderIsWhole
    /\ RowsAreWhole
    /\ NoDomainTwice
    /\ InFlightIsApart
    /\ NoneIsLost
    /\ DoneIsRecorded

RunInv == DiskInv /\ (Undamaged => NoneMissing)

\* The elements of a sequence after an append.
LEMMA AppendElements ==
    ASSUME NEW S, NEW r \in Seq(S), NEW e \in S
    PROVE  /\ Append(r, e) \in Seq(S)
           /\ DOMAIN r = 1..Len(r) /\ Len(r) \in Nat
           /\ DOMAIN Append(r, e) = 1..(Len(r) + 1)
           /\ \A i \in DOMAIN r : Append(r, e)[i] = r[i]
           /\ Append(r, e)[Len(r) + 1] = e
<1>1. DOMAIN r = 1..Len(r) /\ Len(r) \in Nat
  BY LenProperties
<1>2. Append(r, e) \in Seq(S) /\ Len(Append(r, e)) = Len(r) + 1
  BY AppendProperties
<1>3. DOMAIN Append(r, e) = 1..Len(Append(r, e))
  BY <1>2, LenProperties
<1>4. QED
  BY <1>1, <1>2, <1>3, AppendProperties

\* What the append of a row of a domain that the file does not have yet does.
LEMMA AppendOfNewDomain ==
    ASSUME TypeOK, RowsAreWhole, NoDomainTwice,
           NEW d \in Domain, d \notin Recorded,
           rows' = Put([domain |-> d, whole |-> TRUE]), openLine' = "no"
    PROVE  RowsAreWhole' /\ NoDomainTwice' /\ Recorded' = Recorded \cup {d}
<1> DEFINE line == [domain |-> d, whole |-> TRUE]
           n == Len(rows) + 1
<1>1. line \in Row /\ line.domain = d /\ line.whole
  BY DEF Row
<1>2. rows \in Seq(Row)
  BY DEF TypeOK, Row
<1>3. rows' = Append(rows, line)
  BY DEF Put, RowsAreWhole
<1> HIDE DEF line
<1>4. /\ DOMAIN rows = 1..Len(rows) /\ Len(rows) \in Nat
      /\ DOMAIN rows' = 1..(Len(rows) + 1)
      /\ \A i \in DOMAIN rows : rows'[i] = rows[i]
      /\ rows'[Len(rows) + 1] = line
  <2>1. /\ DOMAIN rows = 1..Len(rows) /\ Len(rows) \in Nat
        /\ DOMAIN Append(rows, line) = 1..(Len(rows) + 1)
        /\ \A i \in DOMAIN rows : Append(rows, line)[i] = rows[i]
        /\ Append(rows, line)[Len(rows) + 1] = line
    BY <1>1, <1>2, AppendElements
  <2>2. QED
    BY <1>3, <2>1
<1>5. /\ \A i \in DOMAIN rows' : i \in DOMAIN rows \/ i = n
      /\ \A i \in DOMAIN rows : i \in DOMAIN rows' /\ rows'[i] = rows[i]
      /\ n \in DOMAIN rows' /\ rows'[n] = line
  <2>1. \A i \in DOMAIN rows' : i \in DOMAIN rows \/ i = n
    BY <1>4
  <2>2. \A i \in DOMAIN rows : i \in DOMAIN rows'
    BY <1>4
  <2>3. n \in DOMAIN rows'
    BY <1>4
  <2>4. QED
    BY <1>4, <2>1, <2>2, <2>3
<1> HIDE DEF n
<1>6. Recorded' = Recorded \cup {d}
  <2>1. \A e : e \in Recorded' => e \in Recorded \cup {d}
    <3> SUFFICES ASSUME NEW i \in DOMAIN rows'
                 PROVE  rows'[i].domain \in Recorded \cup {d}
      BY DEF Recorded
    <3>1. CASE i = n
      BY <1>1, <1>5, <3>1
    <3>2. CASE i \in DOMAIN rows
      BY <1>5, <3>2 DEF Recorded
    <3>3. QED
      BY <1>5, <3>1, <3>2
  <2>2. \A e : e \in Recorded => e \in Recorded'
    BY <1>5 DEF Recorded
  <2>3. d \in Recorded'
    BY <1>1, <1>5 DEF Recorded
  <2>4. QED
    BY <2>1, <2>2, <2>3
<1>7. RowsAreWhole'
  BY <1>1, <1>5 DEF RowsAreWhole
<1>8. NoDomainTwice'
  <2> SUFFICES ASSUME NEW i \in DOMAIN rows', NEW j \in DOMAIN rows',
                      rows'[i].domain = rows'[j].domain
               PROVE  i = j
    BY DEF NoDomainTwice
  <2>1. CASE i \in DOMAIN rows /\ j \in DOMAIN rows
    BY <1>5, <2>1 DEF NoDomainTwice
  <2>2. CASE i \in DOMAIN rows /\ j = n
    BY <1>1, <1>5, <2>2 DEF Recorded
  <2>3. CASE i = n /\ j \in DOMAIN rows
    BY <1>1, <1>5, <2>3 DEF Recorded
  <2>4. QED
    BY <1>5, <2>1, <2>2, <2>3
<1>9. QED
  BY <1>6, <1>7, <1>8

LEMMA RunInit == Init => RunInv
BY DiskInit DEF Init, RunInv, NoneMissing, HeaderIsWhole, RowsAreWhole, NoDomainTwice,
                InFlightIsApart, InFlight, Recorded, NoneIsLost, DoneIsRecorded

\* A step that leaves the file as it is leaves an undamaged file undamaged, and no
\* append repairs one.
LEMMA SameFile == UNCHANGED file => Undamaged' = Undamaged /\ Recorded' = Recorded
BY DEF file, Undamaged, Recorded

LEMMA AppendRepairsNothing ==
    ASSUME DiskInv, NEW line \in Row, rows' = Put(line), header' = header, Undamaged'
    PROVE  Undamaged /\ line.whole
<1>1. rows \in Seq(Row)
  BY DEF DiskInv, TypeInv, TypeOK, Row
<1>2. rows' \in Seq(Row)
  BY PutType DEF DiskInv, TypeInv
<1>3. ASSUME ~line.whole \/ openLine # "no"
      PROVE  FALSE
  <2>1. CASE rows' = <<>>
    <3>1. rows = <<>>
      BY <2>1, PutIsEmpty DEF DiskInv, TypeInv
    <3>2. openLine # "no"
      BY <1>1, <2>1, AppendProperties DEF Put
    <3>3. QED
      BY <3>1, <3>2 DEF DiskInv, OpenLineIsCut, Undamaged
  <2>2. CASE rows' # <<>>
    <3>1. ~rows'[Len(rows')].whole
      BY <1>3, <2>2, PutOfCutRow DEF DiskInv, TypeInv
    <3>2. Len(rows') \in DOMAIN rows'
      BY <1>2, <2>2
    <3>3. QED
      BY <3>1, <3>2 DEF Undamaged
  <2>3. QED
    BY <2>1, <2>2
<1>4. rows' = Append(rows, line)
  BY <1>3 DEF Put
<1>5. \A i \in DOMAIN rows : i \in DOMAIN rows' /\ rows'[i] = rows[i]
  BY <1>1, <1>4, AppendElements
<1>6. QED
  BY <1>3, <1>5 DEF Undamaged

LEMMA RunNext == RunInv /\ [Next]_vars => RunInv'
<1> SUFFICES ASSUME RunInv, [Next]_vars, Undamaged'
             PROVE  NoneMissing'
  BY DiskNext DEF RunInv
<1> USE DEF InFlight
<1>1. TypeInv' /\ TypeInv
  BY TypeNext DEF RunInv, DiskInv
<1>2. ASSUME NEW limit \in Limits, NEW noResume \in BOOLEAN, Start(limit, noResume)
      PROVE  NoneMissing'
  <2>1. running' = {} /\ ready' = {} /\ ~complete' /\ phase' = "collecting"
    BY <1>2 DEF Start
  <2>2. CASE header' = "whole" /\ rows' = <<>> /\ openLine' = "no"
             /\ queue' = Pending(limit, {})
    <3>1. Recorded' = {} /\ queue' = targets'
      BY <1>2, <2>2 DEF Start, Recorded, Pending
    <3>2. QED
      BY <2>1, <2>2, <3>1
         DEF NoneMissing, HeaderIsWhole, RowsAreWhole, NoDomainTwice, InFlightIsApart,
             NoneIsLost, DoneIsRecorded
  <2>3. CASE UNCHANGED file /\ queue' = Pending(limit, CompletedDomains(header, rows))
             /\ header # "none"
    <3>1. NoneMissing
      BY <2>3, SameFile DEF RunInv
    <3>2. CompletedDomains(header, rows) = Recorded
      BY <2>3, <3>1 DEF CompletedDomains, Recorded, NoneMissing, HeaderIsWhole
    <3>3. Recorded' = Recorded /\ queue' = targets' \ Recorded
      BY <1>2, <2>3, <3>2, SameFile DEF Start, Pending
    <3>4. QED
      BY <2>1, <2>3, <3>1, <3>3
         DEF NoneMissing, HeaderIsWhole, RowsAreWhole, NoDomainTwice, InFlightIsApart,
             NoneIsLost, DoneIsRecorded, file
  <2>4. QED
    BY <1>2, <2>2, <2>3 DEF Start
<1>3. ASSUME NEW limit \in Limits, NEW noResume \in BOOLEAN, HeaderCut(limit, noResume)
      PROVE  FALSE
  BY <1>3 DEF HeaderCut, Undamaged
<1>4. ASSUME NEW d \in Domain, Take(d) \/ Measure(d)
      PROVE  NoneMissing'
  <2>1. UNCHANGED <<phase, file, targets, complete>>
    BY <1>4 DEF Take, Measure
  <2>2. NoneMissing /\ Recorded' = Recorded
    BY <2>1, SameFile DEF RunInv
  <2>3. InFlightIsApart' /\ InFlight' = InFlight
    BY <1>4, <2>2 DEF Take, Measure, NoneMissing, InFlightIsApart
  <2>4. QED
    BY <2>1, <2>2, <2>3
       DEF NoneMissing, HeaderIsWhole, RowsAreWhole, NoDomainTwice, NoneIsLost,
           DoneIsRecorded, file
<1>5. ASSUME NEW d \in Domain, d \in ready, phase = "collecting", ready' = ready \ {d},
             UNCHANGED <<header, targets, queue, running, complete>>,
             phase' \in {"collecting", "draining"},
             rows' = Put([domain |-> d, whole |-> TRUE]), openLine' = "no"
      PROVE  NoneMissing'
  <2>1. [domain |-> d, whole |-> TRUE] \in Row
    BY DEF Row
  <2>2. NoneMissing
    BY <1>5, <2>1, AppendRepairsNothing DEF RunInv
  <2>3. d \notin Recorded
    BY <1>5, <2>2 DEF NoneMissing, InFlightIsApart
  <2>4. RowsAreWhole' /\ NoDomainTwice' /\ Recorded' = Recorded \cup {d}
    BY <1>1, <1>5, <2>2, <2>3, AppendOfNewDomain DEF NoneMissing, TypeInv
  <2>5. HeaderIsWhole' /\ DoneIsRecorded'
    BY <1>5, <2>2 DEF NoneMissing, HeaderIsWhole, DoneIsRecorded
  <2>6. InFlightIsApart' /\ NoneIsLost'
    BY <1>5, <2>2, <2>4 DEF NoneMissing, InFlightIsApart, NoneIsLost
  <2>7. QED
    BY <2>4, <2>5, <2>6 DEF NoneMissing
<1>6. ASSUME NEW d \in Domain, Collect(d)
      PROVE  NoneMissing'
  BY <1>5, <1>6 DEF Collect
<1>7. ASSUME NEW d \in Domain, NEW cut \in WriteCuts, CollectCut(d, cut)
      PROVE  NoneMissing'
  <2>1. CASE cut = "late"
    BY <1>5, <1>7, <2>1 DEF CollectCut
  <2>2. CASE cut = "nothing"
    <3>1. /\ UNCHANGED <<file, targets, queue, running, complete>>
          /\ phase = "collecting" /\ phase' = "draining" /\ ready' = ready \ {d}
      BY <1>7, <2>2 DEF CollectCut, file
    <3>2. NoneMissing /\ Recorded' = Recorded
      BY <3>1, SameFile DEF RunInv
    <3>3. QED
      BY <3>1, <3>2
         DEF NoneMissing, HeaderIsWhole, RowsAreWhole, NoDomainTwice, InFlightIsApart,
             NoneIsLost, DoneIsRecorded, file
  <2>3. CASE cut \in {"in_rank", "in_domain", "after_domain"}
    <3>1. openLine' # "no"
      BY <1>7, <2>3 DEF CollectCut
    <3>2. QED
      BY <3>1 DEF Undamaged
  <2>4. QED
    BY <1>7, <2>1, <2>2, <2>3 DEF CollectCut
<1>8. CASE Finish \/ Interrupt \/ Drained \/ Kill \/ UNCHANGED vars
  <2>1. UNCHANGED <<file, targets>>
    BY <1>8 DEF Finish, Interrupt, Drained, Kill, vars, file
  <2>2. NoneMissing /\ Recorded' = Recorded
    BY <2>1, SameFile DEF RunInv
  <2>3. /\ queue' \subseteq queue /\ running' \subseteq running /\ ready' \subseteq ready
        /\ phase' # "idle" => phase # "idle"
    BY <1>8 DEF Finish, Interrupt, Drained, Kill, vars
  <2>4. NoneIsLost'
    BY <1>8, <2>1, <2>2
       DEF Finish, Interrupt, Drained, Kill, vars, NoneMissing, NoneIsLost
  <2>5. DoneIsRecorded'
    BY <1>8, <2>1, <2>2
       DEF Finish, Interrupt, Drained, Kill, vars, NoneMissing, NoneIsLost, DoneIsRecorded
  <2>6. QED
    BY <2>1, <2>2, <2>3, <2>4, <2>5
       DEF NoneMissing, HeaderIsWhole, RowsAreWhole, NoDomainTwice, InFlightIsApart, file
<1>9. QED
  BY <1>2, <1>3, <1>4, <1>6, <1>7, <1>8 DEF Next

LEMMA RunInvIsInvariant == Spec => []RunInv
BY RunInit, RunNext, PTL DEF Spec

\* However often the program is killed, interrupted, stopped by a full disk and
\* resumed, no domain has two rows in a file of which no line was cut
\* (measure_websites.py:240-244 and 310-312).
THEOREM NeverMeasuredTwice == Spec => []OneRowPerDomain
<1>1. RunInv => OneRowPerDomain
  BY DEF RunInv, NoneMissing, NoDomainTwice, OneRowPerDomain
<1>2. QED
  BY <1>1, RunInvIsInvariant, PTL

\* A run that returns over such a file has a row of every target in it, the rows of
\* the interrupted runs before it included (measure_websites.py:326-373).
THEOREM ResumedRunIsComplete == Spec => []CompleteWhenDone
<1>1. RunInv => CompleteWhenDone
  BY DEF RunInv, NoneMissing, DoneIsRecorded, CompleteWhenDone
<1>2. QED
  BY <1>1, RunInvIsInvariant, PTL

-----------------------------------------------------------------------------
\* The study and its parts.

Measured == INSTANCE SiteMeasurementProofs WITH stage <- targetStage

\* Whatever the study does is allowed by the specification of each of its parts.
THEOREM StudyImplementsItsParts == StudySpec => Spec /\ Target!Spec /\ Cleaning!Spec
<1>1. StudyInit => Init /\ Target!Init /\ Cleaning!Init
  BY DEF StudyInit
<1>2. [StudyNext]_studyVars
        => [Next]_vars /\ [Target!Next]_(Target!vars) /\ [Cleaning!Next]_(Cleaning!vars)
  BY DEF StudyNext, studyVars, targetVars, cleanVars, vars, Target!vars, Cleaning!vars
<1>3. QED
  BY <1>1, <1>2, PTL DEF StudySpec, Spec, Target!Spec, Cleaning!Spec

-----------------------------------------------------------------------------
\* The measurement of a site, as LatencyStudy instantiates it and as its proofs do.
LEMMA MeasuredIsTarget == Target!Spec => Measured!Spec
<1>1. Target!Init => Measured!Init
  BY DEF Target!Init, Measured!Init, Target!EmptyRow, Measured!EmptyRow,
         Target!None, Measured!None, Target!NoIp, Measured!NoIp
<1>2. ASSUME NEW p PROVE Target!CurlHttps(p) => Measured!CurlHttps(p)
  BY DEF Target!CurlHttps, Measured!CurlHttps, Target!CurlResult, Measured!CurlResult,
         Target!EmptyRow, Measured!EmptyRow, Target!None, Measured!None,
         Target!NoIp, Measured!NoIp, Target!Heard, Measured!Heard
<1>3. ASSUME NEW p PROVE Target!CurlHttp(p) => Measured!CurlHttp(p)
  BY DEF Target!CurlHttp, Measured!CurlHttp, Target!CurlResult, Measured!CurlResult,
         Target!EmptyRow, Measured!EmptyRow, Target!None, Measured!None,
         Target!NoIp, Measured!NoIp, Target!Heard, Measured!Heard,
         Target!UseFallback, Measured!UseFallback
<1>4. ASSUME NEW answer PROVE Target!Ping(answer) => Measured!Ping(answer)
  BY DEF Target!Ping, Measured!Ping, Target!None, Measured!None, Target!NoIp,
         Measured!NoIp
<1>5. Target!WorkerFails => Measured!WorkerFails
  BY DEF Target!WorkerFails, Measured!WorkerFails, Target!EmptyRow, Measured!EmptyRow,
         Target!None, Measured!None, Target!NoIp, Measured!NoIp
<1>6. ASSUME NEW geo PROVE Target!Geography(geo) => Measured!Geography(geo)
  BY DEF Target!Geography, Measured!Geography, Target!AddGeography,
         Measured!AddGeography, Target!None, Measured!None, Target!NoIp,
         Measured!NoIp
<1>7. Target!Clean => Measured!Clean
  BY DEF Target!Clean, Measured!Clean, Target!StructuralRejection,
         Measured!StructuralRejection, Target!METRICS, Measured!METRICS,
         Target!None, Measured!None, Target!NoIp, Measured!NoIp
<1>8. /\ Target!Performs = Measured!Performs /\ Target!GeoAnswers = Measured!GeoAnswers
      /\ Target!None = Measured!None
  BY DEF Target!Performs, Measured!Performs, Target!GeoAnswers, Measured!GeoAnswers,
         Target!IpClasses, Measured!IpClasses, Target!NoIp, Measured!NoIp,
         Target!None, Measured!None
<1>9. [Target!Next]_(Target!vars) => [Measured!Next]_(Measured!vars)
  BY <1>2, <1>3, <1>4, <1>5, <1>6, <1>7, <1>8
     DEF Target!Next, Measured!Next, Target!vars, Measured!vars
<1>10. QED
  BY <1>1, <1>9, PTL DEF Target!Spec, Measured!Spec

\* Cleaning keeps no row of a measurement that failed in any part, and the fallback to
\* http loses no address.
THEOREM MeasurementStaysHonest == StudySpec => []MeasurementIsHonest
<1>1. Measured!TimesAssumption
  BY TargetAssumption DEF Target!TimesAssumption, Measured!TimesAssumption
<1>2. Measured!Spec => []Measured!KeptRowsHaveNoError /\ []Measured!AddressIsKept
  BY <1>1, Measured!KeptRowsAreClean, Measured!FallbackKeepsAddress
<1>3. Measured!KeptRowsHaveNoError /\ Measured!AddressIsKept => MeasurementIsHonest
  BY DEF MeasurementIsHonest, Target!KeptRowsHaveNoError, Target!AddressIsKept,
         Measured!KeptRowsHaveNoError, Measured!AddressIsKept, Target!NoIp, Measured!NoIp
<1>4. QED
  BY <1>2, <1>3, MeasuredIsTarget, StudyImplementsItsParts, PTL

-----------------------------------------------------------------------------
\* No domain is measured twice, a run that ends well has measured all its targets,
\* and a whole row survives every cut write, while the other parts are at work too.
THEOREM StudyKeepsTheFile ==
    StudySpec => []OneRowPerDomain /\ []CompleteWhenDone /\ WholeRowsSurvive
BY StudyImplementsItsParts, NeverMeasuredTwice, ResumedRunIsComplete, WholeRowsStay, PTL

-----------------------------------------------------------------------------
\* The lists of the cleaning are those of Lists, of which ListsProofs speaks.

LEMMA SameCardinality == \A S : Cleaning!Cardinality(S) = Cardinality(S)
  BY DEF Cleaning!Cardinality, Cardinality

LEMMA SameSifted == \A list, S : Cleaning!Sifted(list, S) = Sifted(list, S)
  BY DEF Cleaning!Sifted, Sifted

LEMMA SameOrdered == \A v, k : Cleaning!Ordered(v, k) = Ordered(v, k)
  BY SameCardinality DEF Cleaning!Ordered, Ordered

-----------------------------------------------------------------------------
\* Cleaning: what has been decided of the rows.

Listed(q, i) == \E k \in 1..Len(q) : q[k] = i

CleanTypes ==
    /\ cleanStage \in Cleaning!Stages
    /\ input \in Seq(SampleRows)
    /\ options \in Cleaning!Options
    /\ accepted \in Seq(DOMAIN input)
    /\ rejected \in Seq(DOMAIN input)
    /\ kept = Cleaning!Untouched \/ kept \in Seq(DOMAIN input)
    /\ refused = Cleaning!Untouched \/ refused \in Seq(DOMAIN input)

\* Before the structure is checked no row is on a list.
NothingDecided == cleanStage = "structure" => accepted = <<>> /\ rejected = <<>>

\* Once the structure is checked, each row of the input is on one list, and the kept ones
\* are in the order of the input.
RowsAreDivided ==
    cleanStage # "structure" =>
        /\ Len(accepted) + Len(rejected) = Len(input)
        /\ \A i \in DOMAIN input : Listed(accepted, i) \/ Listed(rejected, i)
        /\ Rising(accepted)

\* The accepted rows have passed the checks that are behind them.
AcceptedPassed ==
    /\ cleanStage # "structure" =>
           \A k \in 1..Len(accepted) :
               Cleaning!StructuralRejection(input[accepted[k]], KeepGeoAnomalies) = "kept"
    /\ cleanStage \notin {"structure", "geo"} /\ options.geoip =>
           \A k \in 1..Len(accepted) : Cleaning!GeoVerdict(input[accepted[k]], options) = "kept"

\* The files that have been written whole are the lists.
FilesAreTheLists ==
    /\ cleanStage \in {"write_refused", "done"} => kept = accepted
    /\ cleanStage = "done" => refused = rejected

CleanInv ==
    /\ CleanTypes
    /\ NothingDecided
    /\ RowsAreDivided
    /\ AcceptedPassed
    /\ FilesAreTheLists

LEMMA CleanInit == Cleaning!Init => CleanInv
<1> SUFFICES ASSUME Cleaning!Init PROVE CleanInv
  OBVIOUS
<1>1. input \in Seq(SampleRows)
  <2>1. PICK n \in 0..MaxRows : input \in [1..n -> SampleRows]
    BY DEF Cleaning!Init
  <2>2. n \in Nat
    BY CleaningAssumption DEF Cleaning!RowsAssumption
  <2>3. QED
    BY <2>1, <2>2
<1>2. CleanTypes
  BY <1>1 DEF CleanTypes, Cleaning!Init, Cleaning!Stages
<1>3. QED
  BY <1>2 DEF CleanInv, Cleaning!Init, NothingDecided, RowsAreDivided, AcceptedPassed, FilesAreTheLists

\* Places of the input are numbers.
LEMMA PlacesAreNumbers ==
    ASSUME input \in Seq(SampleRows), NEW places \in Seq(DOMAIN input)
    PROVE  /\ DOMAIN input = 1..Len(input) /\ Len(input) \in Nat
           /\ DOMAIN input \subseteq Nat /\ places \in Seq(Nat)
           /\ \A k \in 1..Len(places) : places[k] \in DOMAIN input
           /\ Len(places) \in Nat /\ DOMAIN places = 1..Len(places)
<1>1. DOMAIN input = 1..Len(input) /\ Len(input) \in Nat
  OBVIOUS
<1>2. DOMAIN input \subseteq Nat
  BY <1>1
<1>3. /\ \A k \in 1..Len(places) : places[k] \in DOMAIN input
      /\ Len(places) \in Nat /\ DOMAIN places = 1..Len(places)
  OBVIOUS
<1>4. places \in Seq(Nat)
  <2> DEFINE D == DOMAIN input
  <2>1. D \subseteq Nat /\ places \in Seq(D)
    BY <1>2
  <2> HIDE DEF D
  <2>2. QED
    BY <2>1
<1>5. QED
  BY <1>1, <1>2, <1>3, <1>4

\* What the sieve leaves on the two lists.
LEMMA SieveDivides ==
    ASSUME input \in Seq(SampleRows), rejected \in Seq(DOMAIN input),
           NEW places \in Seq(DOMAIN input), NEW bad, Cleaning!Sieve(places, bad)
    PROVE  /\ accepted' \in Seq(DOMAIN input) /\ rejected' \in Seq(DOMAIN input)
           /\ Len(accepted') + Len(rejected') = Len(places) + Len(rejected)
           /\ \A k \in 1..Len(accepted') : accepted'[k] \notin bad /\ Listed(places, accepted'[k])
           /\ \A i \in 1..Len(places) : Listed(accepted', places[i]) \/ Listed(rejected', places[i])
           /\ \A i \in 1..Len(rejected) : Listed(rejected', rejected[i])
           /\ Rising(places) => Rising(accepted')
<1> DEFINE X == DOMAIN input
           S == X \ bad
           a == Sifted(places, S)
           b == Sifted(places, bad)
<1>1. accepted' = a /\ rejected' = rejected \o b
  BY SameSifted DEF Cleaning!Sieve
<1>2. /\ \A k \in 1..Len(places) : places[k] \in X
      /\ Len(places) \in Nat /\ places \in Seq(Nat)
  BY PlacesAreNumbers
<1>3. a \in Seq(X) /\ Sound(a, places, S, Len(places))
  BY SiftedSound
<1>4. b \in Seq(X) /\ Sound(b, places, bad, Len(places))
  BY SiftedSound
<1>5. Len(a) + Len(b) = Len(places)
  <2>1. \A i \in 1..Len(places) : places[i] \in S <=> places[i] \notin bad
    BY <1>2
  <2> HIDE DEF S
  <2>2. QED
    BY <2>1, SiftedDivides
<1>6. Rising(places) => Rising(a)
  BY <1>2, SiftedInOrder
<1> HIDE DEF a, b
<1>7. /\ rejected \o b \in Seq(X) /\ Len(rejected \o b) = Len(rejected) + Len(b)
      /\ \A i \in 1..Len(rejected) : (rejected \o b)[i] = rejected[i]
      /\ \A i \in 1..Len(b) : (rejected \o b)[Len(rejected) + i] = b[i]
  <2>1. rejected \in Seq(X) /\ b \in Seq(X)
    BY <1>4
  <2> HIDE DEF X
  <2>2. QED
    BY <2>1
<1>8. Len(a) \in Nat /\ Len(b) \in Nat /\ Len(rejected) \in Nat
  BY <1>3, <1>4
<1>9. Len(accepted') + Len(rejected') = Len(places) + Len(rejected)
  <2>1. Len(places) \in Nat
    BY <1>2
  <2>2. Len(a) + (Len(rejected) + Len(b)) = Len(places) + Len(rejected)
    BY ONLY <2>1, <1>5, <1>8
  <2>3. QED
    BY <1>1, <1>7, <2>2
<1>10. \A k \in 1..Len(accepted') : accepted'[k] \notin bad /\ Listed(places, accepted'[k])
  BY <1>1, <1>3 DEF Sound, Listed
<1>11. \A i \in 1..Len(rejected) : Listed(rejected', rejected[i])
  <2>1. \A i \in 1..Len(rejected) : i \in 1..Len(rejected \o b)
    BY <1>7, <1>8
  <2>2. QED
    BY <2>1, <1>1, <1>7 DEF Listed
<1>12. ASSUME NEW i \in 1..Len(places)
       PROVE  Listed(accepted', places[i]) \/ Listed(rejected', places[i])
  <2>1. CASE places[i] \in bad
    <3>1. PICK k \in 1..Len(b) : b[k] = places[i]
      BY <2>1, <1>4 DEF Sound
    <3>2. Len(rejected) + k \in 1..Len(rejected \o b)
      BY <1>7, <1>8
    <3>3. (rejected \o b)[Len(rejected) + k] = places[i]
      BY <3>1, <1>7
    <3>4. QED
      BY <3>2, <3>3, <1>1 DEF Listed
  <2>2. CASE places[i] \notin bad
    <3>1. PICK k \in 1..Len(a) : a[k] = places[i]
      BY <2>2, <1>2, <1>3 DEF Sound
    <3>2. QED
      BY <3>1, <1>1 DEF Listed
  <2>3. QED
    BY <2>1, <2>2
<1>13. accepted' \in Seq(X) /\ rejected' \in Seq(X)
  BY <1>1, <1>3, <1>7
<1>14. QED
  BY <1>1, <1>6, <1>9, <1>10, <1>11, <1>12, <1>13

LEMMA StructureStep ==
    ASSUME CleanInv, Cleaning!Structure
    PROVE  CleanInv'
<1> DEFINE places == [i \in DOMAIN input |-> i]
           bad == {i \in DOMAIN input :
                     Cleaning!StructuralRejection(input[i], KeepGeoAnomalies) # "kept"}
<1>1. /\ cleanStage = "structure" /\ cleanStage' = "geo" /\ Cleaning!Sieve(places, bad)
      /\ UNCHANGED <<input, options, kept, refused>>
  BY DEF Cleaning!Structure
<1>2. /\ input \in Seq(SampleRows) /\ accepted = <<>> /\ rejected = <<>>
      /\ kept = Cleaning!Untouched \/ kept \in Seq(DOMAIN input)
  BY <1>1 DEF CleanInv, CleanTypes, NothingDecided
<1>3. /\ places \in Seq(DOMAIN input) /\ Len(places) = Len(input) /\ Len(input) \in Nat
      /\ DOMAIN input = 1..Len(input) /\ \A i \in 1..Len(input) : places[i] = i
  <2>1. DOMAIN input = 1..Len(input) /\ Len(input) \in Nat
    BY <1>2
  <2>2. QED
    BY <2>1
<1>4. Rising(places)
  BY <1>3 DEF Rising
<1>5. rejected \in Seq(DOMAIN input) /\ Len(rejected) = 0
  BY <1>2
<1> HIDE DEF places, bad
<1>6. /\ accepted' \in Seq(DOMAIN input) /\ rejected' \in Seq(DOMAIN input)
      /\ Len(accepted') + Len(rejected') = Len(places) + Len(rejected)
      /\ \A k \in 1..Len(accepted') : accepted'[k] \notin bad /\ Listed(places, accepted'[k])
      /\ \A i \in 1..Len(places) : Listed(accepted', places[i]) \/ Listed(rejected', places[i])
      /\ Rising(accepted')
  BY <1>1, <1>2, <1>3, <1>4, <1>5, SieveDivides
<1>7. CleanTypes'
  BY <1>1, <1>6 DEF CleanInv, CleanTypes, Cleaning!Stages
<1>8. RowsAreDivided'
  <2>1. Len(accepted') + Len(rejected') = Len(input)
    BY <1>3, <1>5, <1>6
  <2>2. \A i \in DOMAIN input : Listed(accepted', i) \/ Listed(rejected', i)
    BY <1>3, <1>6
  <2>3. QED
    BY <2>1, <2>2, <1>1, <1>6 DEF RowsAreDivided
<1>9. AcceptedPassed'
  <2>1. \A k \in 1..Len(accepted') :
            Cleaning!StructuralRejection(input[accepted'[k]], KeepGeoAnomalies) = "kept"
    BY <1>6 DEF bad
  <2>2. QED
    BY <2>1, <1>1 DEF AcceptedPassed
<1>10. FilesAreTheLists'
  BY <1>1 DEF FilesAreTheLists
<1>11. QED
  BY <1>7, <1>8, <1>9, <1>10, <1>1 DEF CleanInv, NothingDecided

\* A later sieve takes accepted rows only, so what is known of them stays known.
LEMMA LaterSieve ==
    ASSUME CleanInv, cleanStage # "structure", NEW bad, Cleaning!Sieve(accepted, bad),
           UNCHANGED input
    PROVE  /\ accepted' \in Seq(DOMAIN input) /\ rejected' \in Seq(DOMAIN input)
           /\ Len(accepted') + Len(rejected') = Len(input)
           /\ \A i \in DOMAIN input : Listed(accepted', i) \/ Listed(rejected', i)
           /\ Rising(accepted')
           /\ \A k \in 1..Len(accepted') :
                  accepted'[k] \notin bad /\ Listed(accepted, accepted'[k])
<1>1. /\ input \in Seq(SampleRows) /\ accepted \in Seq(DOMAIN input)
      /\ rejected \in Seq(DOMAIN input)
      /\ Len(accepted) + Len(rejected) = Len(input)
      /\ \A i \in DOMAIN input : Listed(accepted, i) \/ Listed(rejected, i)
      /\ Rising(accepted)
  BY DEF CleanInv, CleanTypes, RowsAreDivided
<1>2. /\ accepted' \in Seq(DOMAIN input) /\ rejected' \in Seq(DOMAIN input)
      /\ Len(accepted') + Len(rejected') = Len(accepted) + Len(rejected)
      /\ \A k \in 1..Len(accepted') : accepted'[k] \notin bad /\ Listed(accepted, accepted'[k])
      /\ \A i \in 1..Len(accepted) :
             Listed(accepted', accepted[i]) \/ Listed(rejected', accepted[i])
      /\ \A i \in 1..Len(rejected) : Listed(rejected', rejected[i])
      /\ Rising(accepted')
  BY <1>1, SieveDivides
<1>3. ASSUME NEW i \in DOMAIN input PROVE Listed(accepted', i) \/ Listed(rejected', i)
  <2>1. CASE Listed(accepted, i)
    <3>1. PICK k \in 1..Len(accepted) : accepted[k] = i
      BY <2>1 DEF Listed
    <3>2. QED
      BY <3>1, <1>2
  <2>2. CASE Listed(rejected, i)
    <3>1. PICK k \in 1..Len(rejected) : rejected[k] = i
      BY <2>2 DEF Listed
    <3>2. QED
      BY <3>1, <1>2
  <2>3. QED
    BY <2>1, <2>2, <1>1
<1>4. QED
  BY <1>1, <1>2, <1>3

LEMMA GeoStep ==
    ASSUME CleanInv, Cleaning!Geo
    PROVE  CleanInv'
<1> DEFINE bad == {i \in Cleaning!ToSet(accepted) : Cleaning!GeoVerdict(input[i], options) # "kept"}
<1>1. /\ cleanStage = "geo" /\ cleanStage' = "trim"
      /\ IF options.geoip THEN Cleaning!Sieve(accepted, bad) ELSE UNCHANGED <<accepted, rejected>>
      /\ UNCHANGED <<input, options, kept, refused>>
  BY DEF Cleaning!Geo
<1>2. /\ input \in Seq(SampleRows) /\ accepted \in Seq(DOMAIN input)
      /\ \A k \in 1..Len(accepted) :
             Cleaning!StructuralRejection(input[accepted[k]], KeepGeoAnomalies) = "kept"
  BY <1>1 DEF CleanInv, CleanTypes, AcceptedPassed
<1>3. CASE options.geoip
  <2>1. \A i : Listed(accepted, i) /\ i \notin bad => Cleaning!GeoVerdict(input[i], options) = "kept"
    <3>1. \A k \in 1..Len(accepted) : accepted[k] \in Cleaning!ToSet(accepted)
      BY <1>2 DEF Cleaning!ToSet
    <3>2. QED
      BY <3>1 DEF Listed
  <2> HIDE DEF bad
  <2>2. /\ accepted' \in Seq(DOMAIN input) /\ rejected' \in Seq(DOMAIN input)
        /\ Len(accepted') + Len(rejected') = Len(input)
        /\ \A i \in DOMAIN input : Listed(accepted', i) \/ Listed(rejected', i)
        /\ Rising(accepted')
        /\ \A k \in 1..Len(accepted') :
               accepted'[k] \notin bad /\ Listed(accepted, accepted'[k])
    BY <1>1, <1>3, LaterSieve
  <2>3. CleanTypes'
    BY <1>1, <2>2 DEF CleanInv, CleanTypes, Cleaning!Stages
  <2>4. RowsAreDivided'
    BY <1>1, <2>2 DEF RowsAreDivided
  <2>5. AcceptedPassed'
    BY <1>1, <1>2, <2>1, <2>2 DEF AcceptedPassed, Listed
  <2>6. QED
    BY <1>1, <2>3, <2>4, <2>5 DEF CleanInv, NothingDecided, FilesAreTheLists
<1>4. CASE ~options.geoip
  <2>1. CleanTypes'
    BY <1>1, <1>4 DEF CleanInv, CleanTypes, Cleaning!Stages
  <2>2. RowsAreDivided'
    BY <1>1, <1>4 DEF CleanInv, RowsAreDivided, Rising, Listed
  <2>3. AcceptedPassed'
    BY <1>1, <1>2, <1>4 DEF AcceptedPassed
  <2>4. QED
    BY <1>1, <2>1, <2>2, <2>3 DEF CleanInv, NothingDecided, FilesAreTheLists
<1>5. QED
  BY <1>3, <1>4

LEMMA TrimStep ==
    ASSUME CleanInv, Cleaning!Trim
    PROVE  CleanInv'
<1> DEFINE bad == Cleaning!Trimmed(accepted, options.trim)
<1>1. /\ cleanStage = "trim" /\ cleanStage' = "write_kept"
      /\ Cleaning!Sieve(accepted, bad) \/ UNCHANGED <<accepted, rejected>>
      /\ UNCHANGED <<input, options, kept, refused>>
  BY DEF Cleaning!Trim
<1> HIDE DEF bad
<1>2. /\ input \in Seq(SampleRows) /\ accepted \in Seq(DOMAIN input)
      /\ \A k \in 1..Len(accepted) :
             Cleaning!StructuralRejection(input[accepted[k]], KeepGeoAnomalies) = "kept"
      /\ options.geoip =>
             \A k \in 1..Len(accepted) : Cleaning!GeoVerdict(input[accepted[k]], options) = "kept"
  BY <1>1 DEF CleanInv, CleanTypes, AcceptedPassed
<1>3. CASE Cleaning!Sieve(accepted, bad)
  <2>1. /\ accepted' \in Seq(DOMAIN input) /\ rejected' \in Seq(DOMAIN input)
        /\ Len(accepted') + Len(rejected') = Len(input)
        /\ \A i \in DOMAIN input : Listed(accepted', i) \/ Listed(rejected', i)
        /\ Rising(accepted')
        /\ \A k \in 1..Len(accepted') :
               accepted'[k] \notin bad /\ Listed(accepted, accepted'[k])
    BY <1>1, <1>3, LaterSieve
  <2>2. CleanTypes'
    BY <1>1, <2>1 DEF CleanInv, CleanTypes, Cleaning!Stages
  <2>3. RowsAreDivided'
    BY <1>1, <2>1 DEF RowsAreDivided
  <2>4. AcceptedPassed'
    BY <1>1, <1>2, <2>1 DEF AcceptedPassed, Listed
  <2>5. QED
    BY <1>1, <2>2, <2>3, <2>4 DEF CleanInv, NothingDecided, FilesAreTheLists
<1>4. CASE UNCHANGED <<accepted, rejected>>
  <2>1. CleanTypes'
    BY <1>1, <1>4 DEF CleanInv, CleanTypes, Cleaning!Stages
  <2>2. RowsAreDivided'
    BY <1>1, <1>4 DEF CleanInv, RowsAreDivided, Rising, Listed
  <2>3. AcceptedPassed'
    BY <1>1, <1>2, <1>4 DEF AcceptedPassed
  <2>4. QED
    BY <1>1, <2>1, <2>2, <2>3 DEF CleanInv, NothingDecided, FilesAreTheLists
<1>5. QED
  BY <1>1, <1>3, <1>4

LEMMA WritableIsAPart ==
    ASSUME input \in Seq(SampleRows), NEW places \in Seq(DOMAIN input)
    PROVE  Cleaning!Writable(places) \in Seq(DOMAIN input)
<1> DEFINE bad == {k \in DOMAIN places : input[places[k]].extra}
           m == CHOOSE k \in bad : \A h \in bad : k <= h
<1>1. CASE bad = {}
  BY <1>1 DEF Cleaning!Writable
<1>2. CASE bad # {}
  <2>1. bad \subseteq Nat /\ bad \subseteq 1..Len(places)
    OBVIOUS
  <2>2. m \in bad
    BY <1>2, <2>1, LeastNumber
  <2>3. Cleaning!Writable(places) = SubSeq(places, 1, m - 1)
    BY <1>2 DEF Cleaning!Writable
  <2> HIDE DEF m
  <2>4. m \in 1..Len(places)
    BY <2>1, <2>2
  <2> HIDE DEF bad
  <2>5. QED
    BY <2>3, <2>4
<1>3. QED
  BY <1>1, <1>2

LEMMA WriteStep ==
    ASSUME CleanInv, Cleaning!WriteKept \/ Cleaning!WriteRefused
    PROVE  CleanInv'
<1>1. /\ input \in Seq(SampleRows) /\ accepted \in Seq(DOMAIN input)
      /\ rejected \in Seq(DOMAIN input)
  BY DEF CleanInv, CleanTypes
<1>2. /\ Cleaning!Writable(accepted) \in Seq(DOMAIN input)
      /\ Cleaning!Writable(rejected) \in Seq(DOMAIN input)
  BY <1>1, WritableIsAPart
<1>3. /\ cleanStage \notin {"structure", "geo", "trim"}
      /\ cleanStage' \in {"write_refused", "done", "failed"}
      /\ UNCHANGED <<input, options, accepted, rejected>>
  BY DEF Cleaning!WriteKept, Cleaning!WriteRefused
<1>4. CleanTypes'
  BY <1>2, <1>3
     DEF CleanInv, CleanTypes, Cleaning!Stages, Cleaning!WriteKept, Cleaning!WriteRefused
<1>5. RowsAreDivided'
  BY <1>3 DEF CleanInv, RowsAreDivided, Rising, Listed
<1>6. AcceptedPassed'
  BY <1>3 DEF CleanInv, AcceptedPassed
<1>7. FilesAreTheLists'
  BY DEF CleanInv, FilesAreTheLists, Cleaning!WriteKept, Cleaning!WriteRefused
<1>8. QED
  BY <1>3, <1>4, <1>5, <1>6, <1>7 DEF CleanInv, NothingDecided

LEMMA CleanInvariant == Cleaning!Spec => []CleanInv
<1>1. CleanInv /\ [Cleaning!Next]_(Cleaning!vars) => CleanInv'
  <2> SUFFICES ASSUME CleanInv, [Cleaning!Next]_(Cleaning!vars) PROVE CleanInv'
    OBVIOUS
  <2>1. CASE Cleaning!Next
    BY <2>1, StructureStep, GeoStep, TrimStep, WriteStep DEF Cleaning!Next
  <2>2. CASE UNCHANGED Cleaning!vars
    BY <2>2 DEF Cleaning!vars, CleanInv, CleanTypes, NothingDecided, RowsAreDivided,
                AcceptedPassed, FilesAreTheLists, Rising, Listed
  <2>3. QED
    BY <2>1, <2>2
<1>2. QED
  BY <1>1, CleanInit, PTL DEF Cleaning!Spec

-----------------------------------------------------------------------------
\* What cleaning promises of its files.

LEMMA StructureOfKept ==
    ASSUME NEW r \in SampleRows,
           Cleaning!StructuralRejection(r, KeepGeoAnomalies) = "kept"
    PROVE  \A m \in Cleaning!METRICS : r[m] \in Nat /\ r[m] > 0
<1>1. \A m \in Cleaning!METRICS : r[m] \in Nat \cup {Cleaning!None}
  BY CleaningAssumption DEF Cleaning!RowsAssumption
<1>2. \A m \in Cleaning!METRICS : r[m] # Cleaning!None
  BY DEF Cleaning!StructuralRejection
<1>3. \A m \in Cleaning!METRICS : ~(r[m] <= 0)
  BY <1>2 DEF Cleaning!StructuralRejection
<1>4. QED
  BY <1>1, <1>2, <1>3

LEMMA PlottedWhole == CleanInv => Cleaning!KeptRowsAreAllPlotted
<1> SUFFICES ASSUME CleanInv, cleanStage = "done",
                    NEW k \in DOMAIN kept, NEW m \in Cleaning!METRICS \ {"c_latency_ms"}
             PROVE  Cleaning!Plotted(input[kept[k]], m)
  BY DEF Cleaning!KeptRowsAreAllPlotted
<1>1. /\ kept = accepted /\ input \in Seq(SampleRows) /\ accepted \in Seq(DOMAIN input)
      /\ \A i \in 1..Len(accepted) :
             Cleaning!StructuralRejection(input[accepted[i]], KeepGeoAnomalies) = "kept"
  BY DEF CleanInv, CleanTypes, AcceptedPassed, FilesAreTheLists
<1>2. k \in 1..Len(accepted) /\ accepted[k] \in DOMAIN input
  BY <1>1, PlacesAreNumbers
<1>3. input[accepted[k]] \in SampleRows
  <2> DEFINE i == accepted[k]
  <2>1. i \in DOMAIN input
    BY <1>2
  <2> HIDE DEF i
  <2>2. input[i] \in SampleRows
    BY <2>1, <1>1
  <2>3. QED
    BY <2>2 DEF i
<1>4. \A h \in Cleaning!METRICS : input[accepted[k]][h] \in Nat /\ input[accepted[k]][h] > 0
  BY <1>1, <1>2, <1>3, StructureOfKept
<1>5. m \in Cleaning!METRICS /\ "c_latency_ms" \in Cleaning!METRICS
  BY DEF Cleaning!METRICS
<1>6. QED
  BY <1>1, <1>4, <1>5 DEF Cleaning!Plotted, Cleaning!None

LEMMA BeyondAccuracy == CleanInv => Cleaning!DistancesAreBeyondAccuracy
<1> SUFFICES ASSUME CleanInv, cleanStage = "done", options.beyond, NEW k \in DOMAIN kept
             PROVE  /\ input[kept[k]].radius # Cleaning!None
                    /\ input[kept[k]].distance # Cleaning!None
                    /\ input[kept[k]].distance > input[kept[k]].radius
  BY DEF Cleaning!DistancesAreBeyondAccuracy
<1>1. /\ kept = accepted /\ input \in Seq(SampleRows) /\ accepted \in Seq(DOMAIN input)
      /\ options \in Cleaning!Options
  BY DEF CleanInv, CleanTypes, FilesAreTheLists
<1>2. k \in 1..Len(accepted) /\ accepted[k] \in DOMAIN input
  BY <1>1, PlacesAreNumbers
<1>3. options.geoip
  BY <1>1 DEF Cleaning!Options
<1> DEFINE r == input[accepted[k]]
<1>4. r \in SampleRows
  <2> DEFINE i == accepted[k]
  <2>1. i \in DOMAIN input
    BY <1>2
  <2> HIDE DEF i
  <2>2. input[i] \in SampleRows
    BY <2>1, <1>1
  <2>3. QED
    BY <2>2 DEF i
<1>5. Cleaning!GeoVerdict(r, options) = "kept"
  BY <1>2, <1>3 DEF CleanInv, AcceptedPassed
<1> HIDE DEF r
<1>6. r.distance \in Nat \cup {Cleaning!None} /\ r.radius \in Nat \cup {Cleaning!None}
  BY <1>4, CleaningAssumption DEF Cleaning!RowsAssumption
<1>7. r.radius # Cleaning!None /\ r.distance # Cleaning!None
  BY <1>5 DEF Cleaning!GeoVerdict
<1>8. ~(r.distance <= r.radius)
  BY <1>5, <1>7 DEF Cleaning!GeoVerdict
<1>9. r.distance > r.radius
  BY <1>6, <1>7, <1>8
<1>10. QED
  BY <1>1, <1>7, <1>9 DEF r

LEMMA Audited == CleanInv => Cleaning!Audit
<1> SUFFICES ASSUME CleanInv, cleanStage = "done"
             PROVE  /\ Len(kept) + Len(refused) = Len(input)
                    /\ Cleaning!ToSet(kept) \cup Cleaning!ToSet(refused) = DOMAIN input
                    /\ \A i, j \in DOMAIN kept : i < j => kept[i] < kept[j]
  BY DEF Cleaning!Audit
<1>1. /\ kept = accepted /\ refused = rejected
      /\ input \in Seq(SampleRows) /\ accepted \in Seq(DOMAIN input)
      /\ rejected \in Seq(DOMAIN input)
      /\ Len(accepted) + Len(rejected) = Len(input)
      /\ \A i \in DOMAIN input : Listed(accepted, i) \/ Listed(rejected, i)
      /\ Rising(accepted)
  BY DEF CleanInv, CleanTypes, RowsAreDivided, FilesAreTheLists
<1>2. /\ DOMAIN accepted = 1..Len(accepted) /\ DOMAIN rejected = 1..Len(rejected)
      /\ \A k \in 1..Len(accepted) : accepted[k] \in DOMAIN input
      /\ \A k \in 1..Len(rejected) : rejected[k] \in DOMAIN input
  BY <1>1, PlacesAreNumbers
<1>3. Cleaning!ToSet(accepted) \cup Cleaning!ToSet(rejected) = DOMAIN input
  BY <1>1, <1>2 DEF Cleaning!ToSet, Listed
<1>4. QED
  BY <1>1, <1>2, <1>3 DEF Rising

-----------------------------------------------------------------------------
\* The percentile is between two neighbours, and does not fall as the percentage rises.

LEMMA Products ==
    /\ \A a \in Nat : a * 100 = 100 * a
    /\ \A a, r \in Nat : a * r \in Nat
    /\ \A a, r, s \in Nat : r <= s => a * r <= a * s
  OBVIOUS

\* What percentile takes from the list: two neighbours, and how far it is between them.
PositionIn(v, p) == (Len(v) - 1) * p
LowerOf(v, p) == PositionIn(v, p) \div 100
UpperOf(v, p) == IF LowerOf(v, p) + 1 < Len(v) THEN LowerOf(v, p) + 1 ELSE Len(v) - 1

LEMMA PositionInTheList ==
    ASSUME NEW v \in Seq(Nat), Len(v) > 0, NEW p \in 1..100
    PROVE  /\ PositionIn(v, p) \in Nat /\ PositionIn(v, p) <= 100 * (Len(v) - 1)
           /\ PositionIn(v, p) % 100 \in 0..99
           /\ PositionIn(v, p) = 100 * LowerOf(v, p) + (PositionIn(v, p) % 100)
           /\ LowerOf(v, p) \in 0..(Len(v) - 1)
           /\ UpperOf(v, p) \in 0..(Len(v) - 1)
           /\ LowerOf(v, p) <= UpperOf(v, p)
<1> DEFINE n == Len(v) - 1
           x == PositionIn(v, p)
<1>1. n \in Nat /\ p \in Nat /\ p <= 100
  OBVIOUS
<1>2. x = n * p
  BY DEF PositionIn
<1> HIDE DEF x
<1>3. x \in Nat /\ x <= 100 * n
  <2> HIDE DEF n
  <2>1. n * p \in Nat /\ n * p <= n * 100 /\ n * 100 = 100 * n
    BY <1>1, Products
  <2>2. QED
    BY <1>1, <1>2, <2>1
<1>4. x % 100 \in 0..99 /\ x \div 100 \in Nat /\ x = 100 * (x \div 100) + (x % 100)
  BY <1>3
<1>5. x \div 100 \in 0..n
  <2> HIDE DEF n
  <2>1. QED
    BY <1>1, <1>3, <1>4
<1>6. LowerOf(v, p) = x \div 100
  BY DEF LowerOf, x
<1>7. UpperOf(v, p) \in 0..n /\ LowerOf(v, p) <= UpperOf(v, p)
  <2>1. n + 1 = Len(v) /\ LowerOf(v, p) \in 0..n
    BY <1>5, <1>6
  <2>2. UpperOf(v, p) = IF LowerOf(v, p) + 1 < n + 1 THEN LowerOf(v, p) + 1 ELSE n
    BY <2>1 DEF UpperOf
  <2> HIDE DEF n
  <2>3. QED
    BY <2>1, <2>2, <1>1
<1>8. QED
  BY <1>3, <1>4, <1>5, <1>6, <1>7 DEF x

LEMMA PercentileBetween ==
    ASSUME NEW v \in Seq(Nat), Len(v) > 0, NEW p \in 1..100
    PROVE  /\ Cleaning!Percentile(v, p) \in Nat
           /\ Cleaning!Percentile(v, p)
                = 100 * Ordered(v, LowerOf(v, p))
                  + (Ordered(v, UpperOf(v, p)) - Ordered(v, LowerOf(v, p)))
                    * (PositionIn(v, p) % 100)
           /\ 100 * Ordered(v, LowerOf(v, p)) <= Cleaning!Percentile(v, p)
           /\ Cleaning!Percentile(v, p) <= 100 * Ordered(v, UpperOf(v, p))
<1> DEFINE a == Ordered(v, LowerOf(v, p))
           b == Ordered(v, UpperOf(v, p))
           r == PositionIn(v, p) % 100
<1>1. Cleaning!Percentile(v, p) = 100 * a + (b - a) * r
  BY SameOrdered DEF Cleaning!Percentile, LowerOf, UpperOf, PositionIn
<1>2. /\ LowerOf(v, p) \in 0..(Len(v) - 1) /\ UpperOf(v, p) \in 0..(Len(v) - 1)
      /\ LowerOf(v, p) <= UpperOf(v, p) /\ r \in 0..99
  BY PositionInTheList
<1>3. a \in Nat /\ b \in Nat /\ a <= b
  BY <1>2, OrderedIsThere, OrderedRises
<1> HIDE DEF a, b, r
<1>4. ASSUME NEW d \in Nat, d = b - a
      PROVE  d * r \in Nat /\ d * r <= 100 * d
  <2>1. r \in Nat /\ r <= 100
    BY <1>2
  <2>2. d * r \in Nat /\ d * r <= d * 100 /\ d * 100 = 100 * d
    BY <2>1, Products
  <2>3. QED
    BY <2>2
<1>5. (b - a) * r \in Nat /\ (b - a) * r <= 100 * (b - a)
  BY <1>3, <1>4
<1>6. /\ 100 * a + (b - a) * r \in Nat /\ 100 * a <= 100 * a + (b - a) * r
      /\ 100 * a + (b - a) * r <= 100 * b
  <2> DEFINE e == (b - a) * r
  <2>1. e \in Nat /\ e <= 100 * (b - a)
    BY <1>5
  <2> HIDE DEF e
  <2>2. 100 * a + e \in Nat /\ 100 * a <= 100 * a + e /\ 100 * a + e <= 100 * b
    BY <2>1, <1>3
  <2>3. QED
    BY <2>2 DEF e
<1>7. QED
  BY <1>1, <1>6 DEF a, b, r

LEMMA PercentileRises ==
    ASSUME NEW v \in Seq(Nat), Len(v) > 0, NEW p \in 1..100, NEW q \in 1..100, p <= q
    PROVE  Cleaning!Percentile(v, p) <= Cleaning!Percentile(v, q)
<1> DEFINE x == PositionIn(v, p)
           y == PositionIn(v, q)
           lp == LowerOf(v, p)
           lq == LowerOf(v, q)
           F(w) == Cleaning!Percentile(v, w)
           O(k) == Ordered(v, k)
<1>1. x <= y
  <2> DEFINE n == Len(v) - 1
  <2>1. n \in Nat /\ p \in Nat /\ q \in Nat /\ x = n * p /\ y = n * q
    BY DEF PositionIn
  <2> HIDE DEF n, x, y
  <2>2. QED
    BY <2>1, Products
<1>2. /\ x \in Nat /\ x % 100 \in 0..99 /\ x = 100 * lp + (x % 100) /\ lp \in 0..(Len(v) - 1)
      /\ y \in Nat /\ y % 100 \in 0..99 /\ y = 100 * lq + (y % 100) /\ lq \in 0..(Len(v) - 1)
      /\ UpperOf(v, p) \in 0..(Len(v) - 1) /\ UpperOf(v, q) \in 0..(Len(v) - 1)
      /\ lp <= UpperOf(v, p)
  BY PositionInTheList
<1>3. /\ F(p) = 100 * O(lp) + (O(UpperOf(v, p)) - O(lp)) * (x % 100)
      /\ F(q) = 100 * O(lq) + (O(UpperOf(v, q)) - O(lq)) * (y % 100)
  BY PercentileBetween
<1>4. /\ O(lp) \in Nat /\ O(lq) \in Nat /\ O(UpperOf(v, p)) \in Nat
      /\ O(lp) <= O(UpperOf(v, p))
  BY <1>2, OrderedIsThere, OrderedRises
<1> HIDE DEF x, y, lp, lq, F, O
<1>5. ASSUME lp = lq PROVE F(p) <= F(q)
  <2>1. UpperOf(v, p) = UpperOf(v, q)
    BY <1>5 DEF UpperOf, lp, lq
  <2>2. x % 100 <= y % 100
    BY <1>1, <1>2, <1>5
  <2>3. ASSUME NEW d \in Nat, d = O(UpperOf(v, p)) - O(lp)
        PROVE  F(p) <= F(q)
    <3>1. x % 100 \in Nat /\ y % 100 \in Nat
      BY <1>2
    <3>2. d * (x % 100) <= d * (y % 100) /\ d * (x % 100) \in Nat /\ d * (y % 100) \in Nat
      BY <3>1, <2>2, Products
    <3>3. F(p) = 100 * O(lp) + d * (x % 100) /\ F(q) = 100 * O(lp) + d * (y % 100)
      BY <1>3, <1>5, <2>1, <2>3
    <3>4. QED
      BY <3>2, <3>3, <1>4
  <2>4. O(UpperOf(v, p)) - O(lp) \in Nat
    BY <1>4
  <2>5. QED
    BY <2>3, <2>4
<1>6. ASSUME lp # lq PROVE F(p) <= F(q)
  <2>1. lp + 1 <= lq
    <3>1. \A h, l \in Nat, c, d \in 0..99 :
              100 * l + c <= 100 * h + d /\ l # h => l + 1 <= h
      OBVIOUS
    <3>2. lp \in Nat /\ lq \in Nat
      BY <1>2
    <3>3. QED
      BY <3>1, <3>2, <1>1, <1>2, <1>6
  <2>2. UpperOf(v, p) = lp + 1
    BY <2>1, <1>2 DEF UpperOf, lp, lq
  <2>3. O(UpperOf(v, p)) <= O(lq)
    BY <2>1, <2>2, <1>2, OrderedRises DEF O
  <2>4. F(p) \in Nat /\ F(p) <= 100 * O(UpperOf(v, p)) /\ F(q) \in Nat /\ 100 * O(lq) <= F(q)
    BY PercentileBetween DEF F, O, lq
  <2>5. QED
    BY <2>3, <2>4, <1>4
<1>7. F(p) <= F(q)
  BY <1>5, <1>6
<1>8. QED
  BY <1>7 DEF F

-----------------------------------------------------------------------------
\* What the trim takes away.

LEMMA PercentagesAreSo == \A p \in Percentages \ {Cleaning!None} : p \in 1..100
  BY CleaningAssumption DEF Cleaning!PercentagesAssumption

LEMMA ColumnsAreNumbers ==
    ASSUME CleanInv, cleanStage = "trim", NEW m \in Cleaning!METRICS
    PROVE  /\ Cleaning!Column(accepted, m) \in Seq(Nat)
           /\ Len(Cleaning!Column(accepted, m)) = Len(accepted)
           /\ \A k \in 1..Len(accepted) : Cleaning!Column(accepted, m)[k] = input[accepted[k]][m]
<1>1. /\ input \in Seq(SampleRows) /\ accepted \in Seq(DOMAIN input)
      /\ \A k \in 1..Len(accepted) :
             Cleaning!StructuralRejection(input[accepted[k]], KeepGeoAnomalies) = "kept"
  BY DEF CleanInv, CleanTypes, AcceptedPassed
<1>2. /\ DOMAIN accepted = 1..Len(accepted) /\ Len(accepted) \in Nat
      /\ \A k \in 1..Len(accepted) : accepted[k] \in DOMAIN input
  BY <1>1, PlacesAreNumbers
<1>3. \A i \in DOMAIN input : input[i] \in SampleRows
  BY <1>1
<1>4. \A k \in 1..Len(accepted) : input[accepted[k]][m] \in Nat
  BY <1>1, <1>2, <1>3, StructureOfKept
<1> DEFINE n == Len(accepted)
           x(k) == input[accepted[k]][m]
<1>5. Cleaning!Column(accepted, m) = [k \in 1..n |-> x(k)]
  BY <1>2 DEF Cleaning!Column
<1>6. n \in Nat /\ \A k \in 1..n : x(k) \in Nat
  BY <1>2, <1>4
<1> HIDE DEF n, x
<1>7. /\ [k \in 1..n |-> x(k)] \in Seq(Nat) /\ Len([k \in 1..n |-> x(k)]) = n
      /\ \A k \in 1..n : [j \in 1..n |-> x(j)][k] = x(k)
  BY <1>6
<1>8. QED
  BY <1>5, <1>7 DEF n, x

LEMMA MilderTrimKeepsMore == CleanInv => Cleaning!TrimIsMonotone
<1> SUFFICES ASSUME CleanInv, cleanStage = "trim", accepted # <<>>,
                    NEW p \in Percentages \ {Cleaning!None},
                    NEW q \in Percentages \ {Cleaning!None}, p <= q
             PROVE  Cleaning!Trimmed(accepted, q) \subseteq Cleaning!Trimmed(accepted, p)
  BY DEF Cleaning!TrimIsMonotone
<1>1. p \in 1..100 /\ q \in 1..100
  BY PercentagesAreSo
<1>2. accepted \in Seq(DOMAIN input) /\ input \in Seq(SampleRows)
  BY DEF CleanInv, CleanTypes
<1>3. Len(accepted) > 0
  BY <1>2
<1>4. ASSUME NEW i \in Cleaning!ToSet(accepted), NEW m \in Cleaning!METRICS,
             100 * input[i][m] > Cleaning!Percentile(Cleaning!Column(accepted, m), q)
      PROVE  100 * input[i][m] > Cleaning!Percentile(Cleaning!Column(accepted, m), p)
  <2> DEFINE v == Cleaning!Column(accepted, m)
  <2>1. /\ v \in Seq(Nat) /\ Len(v) > 0
        /\ \A k \in 1..Len(accepted) : v[k] = input[accepted[k]][m]
    BY <1>3, ColumnsAreNumbers
  <2>2. PICK k \in 1..Len(accepted) : i = accepted[k]
    BY <1>2 DEF Cleaning!ToSet
  <2>3. input[i][m] \in Nat
    <3>1. v[k] \in Nat
      BY <2>1, ColumnsAreNumbers
    <3>2. QED
      BY <3>1, <2>1, <2>2
  <2> HIDE DEF v
  <2>4. /\ Cleaning!Percentile(v, p) <= Cleaning!Percentile(v, q)
        /\ Cleaning!Percentile(v, p) \in Nat /\ Cleaning!Percentile(v, q) \in Nat
    BY <1>1, <2>1, PercentileRises, PercentileBetween
  <2>5. QED
    BY <1>4, <2>3, <2>4 DEF v
<1>5. QED
  BY <1>4 DEF Cleaning!Trimmed

\* The rows one metric alone sends away.
Above(m, p) ==
    {i \in Cleaning!ToSet(accepted) :
        100 * input[i][m] > Cleaning!Percentile(Cleaning!Column(accepted, m), p)}

\* Of the places of a list, those above the percentile are behind its position.
LEMMA FewAreAbove ==
    ASSUME NEW v \in Seq(Nat), Len(v) > 0, NEW p \in 1..100,
           NEW S \in SUBSET (1..Len(v)),
           \A k \in S : 100 * v[k] > Cleaning!Percentile(v, p)
    PROVE  /\ IsFiniteSet(S) /\ Cardinality(S) \in Nat
           /\ 100 * Cardinality(S) <= (Len(v) - 1) * (100 - p) + (IF p = 100 THEN 0 ELSE 99)
<1> DEFINE n == Len(v)
           l == LowerOf(v, p)
           o == Ordered(v, l)
           N == NotGreater(v, o)
           x == PositionIn(v, p)
<1>1. n \in Nat /\ n > 0 /\ p \in Nat /\ p <= 100 /\ \A k \in 1..n : v[k] \in Nat
  OBVIOUS
<1>2. /\ x \in Nat /\ (x % 100) \in 0..99 /\ x = 100 * l + (x % 100) /\ l \in 0..(n - 1)
  BY PositionInTheList
<1>3. o \in Nat /\ l < Cardinality(N)
  BY <1>2, OrderedIsThere
<1>4. 100 * o <= Cleaning!Percentile(v, p) /\ Cleaning!Percentile(v, p) \in Nat
  BY PercentileBetween
<1>5. x = (n - 1) * p
  BY DEF PositionIn
<1>6. N \in SUBSET (1..n) /\ N = {k \in 1..n : v[k] <= o}
  BY DEF NotGreater
<1> HIDE DEF n, l, o, N, x
<1>7. S \in SUBSET ((1..n) \ N)
  <2>1. ASSUME NEW k \in S PROVE k \in (1..n) \ N
    <3>1. k \in 1..n /\ v[k] \in Nat
      BY <1>1 DEF n
    <3>2. v[k] > o
      BY <3>1, <1>3, <1>4
    <3>3. QED
      BY <3>1, <3>2, <1>3, <1>6
  <2>2. QED
    BY <2>1
<1>8. Cardinality((1..n) \ N) = n - Cardinality(N)
  <2>1. IsFiniteSet(1..n) /\ Cardinality(1..n) = n /\ (1..n) \cap N = N
    BY <1>1, <1>6, AllPlaces
  <2> DEFINE P == 1..n
  <2> HIDE DEF P
  <2>2. IsFiniteSet(P) => Cardinality(P \ N) = Cardinality(P) - Cardinality(P \cap N)
    BY FS_Difference
  <2>3. QED
    BY <2>1, <2>2 DEF P
<1>9. /\ IsFiniteSet(S) /\ Cardinality(S) \in Nat /\ Cardinality(N) \in Nat
      /\ Cardinality(S) <= Cardinality((1..n) \ N)
  <2>1. (1..n) \ N \in SUBSET (1..n) /\ S \in SUBSET (1..n)
    BY <1>7
  <2>2. QED
    BY <2>1, <1>1, <1>6, <1>7, CountPlaces
<1>10. Cardinality(S) <= n - 1 - l
  BY <1>1, <1>2, <1>3, <1>8, <1>9
<1>11. (n - 1) * (100 - p) = 100 * (n - 1) - x
  <2>1. \A a \in Nat, b \in 0..100 : a * (100 - b) = 100 * a - a * b
    OBVIOUS
  <2>2. n - 1 \in Nat /\ p \in 0..100
    BY <1>1
  <2>3. QED
    BY <2>1, <2>2, <1>5
<1>12. p = 100 => x % 100 = 0
  BY <1>1, <1>5
<1>13. 100 * Cardinality(S) <= 100 * (n - 1) - x + (IF p = 100 THEN 0 ELSE 99)
  <2> DEFINE c == Cardinality(S)
             y == x % 100
  <2>1. /\ c \in Nat /\ c <= n - 1 - l /\ y \in 0..99 /\ x = 100 * l + y
        /\ p = 100 => y = 0
    BY <1>2, <1>9, <1>10, <1>12
  <2> HIDE DEF c, y
  <2>2. 100 * c <= 100 * (n - 1) - x + (IF p = 100 THEN 0 ELSE 99)
    BY <2>1, <1>1, <1>2
  <2>3. QED
    BY <2>2 DEF c
<1>14. QED
  BY <1>9, <1>11, <1>13 DEF n

LEMMA AboveIsFew ==
    ASSUME CleanInv, cleanStage = "trim", accepted # <<>>, NEW m \in Cleaning!METRICS,
           NEW p \in 1..100
    PROVE  /\ IsFiniteSet(Above(m, p)) /\ Cardinality(Above(m, p)) \in Nat
           /\ 100 * Cardinality(Above(m, p))
                <= (Len(accepted) - 1) * (100 - p) + (IF p = 100 THEN 0 ELSE 99)
<1> DEFINE v == Cleaning!Column(accepted, m)
           S == {k \in 1..Len(accepted) : 100 * v[k] > Cleaning!Percentile(v, p)}
           f == [k \in S |-> accepted[k]]
<1>1. /\ accepted \in Seq(DOMAIN input) /\ DOMAIN accepted = 1..Len(accepted)
      /\ Len(accepted) \in Nat
  BY PlacesAreNumbers DEF CleanInv, CleanTypes
<1>2. Len(accepted) > 0
  BY <1>1
<1>3. /\ v \in Seq(Nat) /\ Len(v) = Len(accepted)
      /\ \A k \in 1..Len(accepted) : v[k] = input[accepted[k]][m]
  BY ColumnsAreNumbers
<1>4. /\ IsFiniteSet(S) /\ Cardinality(S) \in Nat
      /\ 100 * Cardinality(S) <= (Len(accepted) - 1) * (100 - p) + (IF p = 100 THEN 0 ELSE 99)
  <2>1. S \in SUBSET (1..Len(v)) /\ Len(v) > 0
    BY <1>2, <1>3
  <2>2. \A k \in S : 100 * v[k] > Cleaning!Percentile(v, p)
    OBVIOUS
  <2> HIDE DEF S, v
  <2>3. /\ IsFiniteSet(S) /\ Cardinality(S) \in Nat
        /\ 100 * Cardinality(S) <= (Len(v) - 1) * (100 - p) + (IF p = 100 THEN 0 ELSE 99)
    BY <2>1, <2>2, <1>3, FewAreAbove
  <2>4. QED
    BY <2>3, <1>3
<1>5. \A i \in Above(m, p) : \E k \in S : accepted[k] = i
  <2> SUFFICES ASSUME NEW i \in Above(m, p) PROVE \E k \in S : accepted[k] = i
    OBVIOUS
  <2>1. PICK k \in 1..Len(accepted) : accepted[k] = i
    BY <1>1 DEF Above, Cleaning!ToSet
  <2>2. 100 * input[accepted[k]][m] > Cleaning!Percentile(v, p)
    BY <2>1 DEF Above
  <2>3. k \in S
    BY <2>2, <1>3
  <2>4. QED
    BY <2>1, <2>3
<1>6. \A k \in S : accepted[k] \in Above(m, p)
  <2> SUFFICES ASSUME NEW k \in S PROVE accepted[k] \in Above(m, p)
    OBVIOUS
  <2>1. accepted[k] \in Cleaning!ToSet(accepted)
    BY <1>1 DEF Cleaning!ToSet
  <2>2. 100 * input[accepted[k]][m] > Cleaning!Percentile(v, p)
    BY <1>3
  <2>3. QED
    BY <2>1, <2>2 DEF Above
<1> HIDE DEF S
<1>7. f \in Surjection(S, Above(m, p))
  BY <1>5, <1>6 DEF Surjection
<1>8. /\ IsFiniteSet(Above(m, p))
      /\ Cardinality(Above(m, p)) <= Cardinality(S)
  BY <1>4, <1>7, FS_Surjection
<1>9. Cardinality(Above(m, p)) \in Nat
  BY <1>8, FS_CardinalityType
<1>10. ASSUME NEW a \in Nat, NEW b \in Nat, NEW c \in Int, a <= b, 100 * b <= c
       PROVE  100 * a <= c
  BY <1>10
<1>11. (Len(accepted) - 1) * (100 - p) + (IF p = 100 THEN 0 ELSE 99) \in Int
  BY <1>1
<1>12. QED
  BY <1>4, <1>8, <1>9, <1>10, <1>11

LEMMA TogetherAtMost ==
    ASSUME NEW S, NEW T, IsFiniteSet(S), IsFiniteSet(T)
    PROVE  /\ IsFiniteSet(S \cup T)
           /\ Cardinality(S \cup T) \in Nat /\ Cardinality(S) \in Nat /\ Cardinality(T) \in Nat
           /\ Cardinality(S \cup T) <= Cardinality(S) + Cardinality(T)
<1>1. /\ IsFiniteSet(S \cup T)
      /\ Cardinality(S \cup T) = Cardinality(S) + Cardinality(T) - Cardinality(S \cap T)
  BY FS_Union
<1>2. IsFiniteSet(S \cap T)
  BY FS_Intersection
<1>3. /\ Cardinality(S) \in Nat /\ Cardinality(T) \in Nat /\ Cardinality(S \cap T) \in Nat
      /\ Cardinality(S \cup T) \in Nat
  BY <1>1, <1>2, FS_CardinalityType
<1>4. QED
  BY <1>1, <1>3

LEMMA FiveMetrics == Cardinality(Cleaning!METRICS) = 5
<1>1. IsFiniteSet({}) /\ Cardinality({}) = 0
  BY FS_EmptySet
<1> DEFINE M1 == {} \cup {"c_latency_ms"}
           M2 == M1 \cup {"ping_ms"}
           M3 == M2 \cup {"dns_ms"}
           M4 == M3 \cup {"tcp_transfer_ms"}
           M5 == M4 \cup {"total_time_ms"}
<1>2. IsFiniteSet(M1) /\ Cardinality(M1) = 1
  BY <1>1, FS_AddElement
<1>3. IsFiniteSet(M2) /\ Cardinality(M2) = 2
  BY <1>2, FS_AddElement
<1>4. IsFiniteSet(M3) /\ Cardinality(M3) = 3
  BY <1>3, FS_AddElement
<1>5. IsFiniteSet(M4) /\ Cardinality(M4) = 4
  BY <1>4, FS_AddElement
<1>6. IsFiniteSet(M5) /\ Cardinality(M5) = 5
  BY <1>5, FS_AddElement
<1>7. M5 = Cleaning!METRICS
  BY DEF Cleaning!METRICS
<1>8. QED
  BY <1>6, <1>7

LEMMA TrimTakesLittle == CleanInv => Cleaning!TrimIsBounded
<1> SUFFICES ASSUME CleanInv, cleanStage = "trim", accepted # <<>>,
                    NEW p \in Percentages \ {Cleaning!None}
             PROVE  Cleaning!Cardinality(Cleaning!Trimmed(accepted, p)) * 100
                      <= Cleaning!Cardinality(Cleaning!METRICS)
                           * ((Len(accepted) - 1) * (100 - p) + (IF p = 100 THEN 0 ELSE 99))
  BY DEF Cleaning!TrimIsBounded
<1> DEFINE b == (Len(accepted) - 1) * (100 - p) + (IF p = 100 THEN 0 ELSE 99)
           A1 == Above("c_latency_ms", p)
           A2 == Above("ping_ms", p)
           A3 == Above("dns_ms", p)
           A4 == Above("tcp_transfer_ms", p)
           A5 == Above("total_time_ms", p)
<1>1. p \in 1..100 /\ Len(accepted) \in Nat
  BY PercentagesAreSo, PlacesAreNumbers DEF CleanInv, CleanTypes
<1>2. b \in Int
  BY <1>1
<1>3. \A m \in Cleaning!METRICS :
          /\ IsFiniteSet(Above(m, p)) /\ Cardinality(Above(m, p)) \in Nat
          /\ 100 * Cardinality(Above(m, p)) <= b
  BY <1>1, AboveIsFew
<1>4. Cleaning!Trimmed(accepted, p) = A1 \cup (A2 \cup (A3 \cup (A4 \cup A5)))
  BY DEF Cleaning!Trimmed, Above, Cleaning!METRICS
<1> HIDE DEF b
<1>5. /\ IsFiniteSet(A1) /\ 100 * Cardinality(A1) <= b
      /\ IsFiniteSet(A2) /\ 100 * Cardinality(A2) <= b
      /\ IsFiniteSet(A3) /\ 100 * Cardinality(A3) <= b
      /\ IsFiniteSet(A4) /\ 100 * Cardinality(A4) <= b
      /\ IsFiniteSet(A5) /\ 100 * Cardinality(A5) <= b
  BY <1>3 DEF Cleaning!METRICS
<1> HIDE DEF A1, A2, A3, A4, A5
<1> DEFINE B4 == A4 \cup A5
           B3 == A3 \cup B4
           B2 == A2 \cup B3
           B1 == A1 \cup B2
<1>6. /\ IsFiniteSet(B4) /\ Cardinality(B4) \in Nat
      /\ Cardinality(A4) \in Nat /\ Cardinality(A5) \in Nat
      /\ Cardinality(B4) <= Cardinality(A4) + Cardinality(A5)
  BY <1>5, TogetherAtMost
<1> HIDE DEF B4
<1>7. /\ IsFiniteSet(B3) /\ Cardinality(B3) \in Nat /\ Cardinality(A3) \in Nat
      /\ Cardinality(B3) <= Cardinality(A3) + Cardinality(B4)
  BY <1>5, <1>6, TogetherAtMost
<1> HIDE DEF B3
<1>8. /\ IsFiniteSet(B2) /\ Cardinality(B2) \in Nat /\ Cardinality(A2) \in Nat
      /\ Cardinality(B2) <= Cardinality(A2) + Cardinality(B3)
  BY <1>5, <1>7, TogetherAtMost
<1> HIDE DEF B2
<1>9. /\ Cardinality(B1) \in Nat /\ Cardinality(A1) \in Nat
      /\ Cardinality(B1) <= Cardinality(A1) + Cardinality(B2)
  BY <1>5, <1>8, TogetherAtMost
<1> HIDE DEF B1
<1>10. Cardinality(B1) * 100 <= 5 * b
  BY ONLY <1>2, <1>5, <1>6, <1>7, <1>8, <1>9
<1>11. B1 = Cleaning!Trimmed(accepted, p)
  BY <1>4 DEF B1, B2, B3, B4
<1>12. QED
  BY <1>10, <1>11, FiveMetrics, SameCardinality DEF b

-----------------------------------------------------------------------------
\* Every part keeps its variables within their types: the run over the sites, the
\* measurement of a site and the cleaning of a results file.
THEOREM StudyTypesCorrect == StudySpec => []TypesOK
<1>1. Measured!TimesAssumption
  BY TargetAssumption DEF Target!TimesAssumption, Measured!TimesAssumption
<1>2. Measured!Spec => []Measured!TypeOK
  BY <1>1, Measured!TypeCorrect
<1>3. Measured!TypeOK => Target!TypeOK
  BY DEF Target!TypeOK, Measured!TypeOK, Target!Stages, Measured!Stages,
         Target!Metric, Measured!Metric, Target!IpClasses, Measured!IpClasses,
         Target!NoIp, Measured!NoIp, Target!None, Measured!None,
         Target!ErrorParts, Measured!ErrorParts
<1>4. CleanInv => Cleaning!TypeOK
  BY DEF CleanInv, CleanTypes, Cleaning!TypeOK
<1>5. TypeOK /\ Target!TypeOK /\ Cleaning!TypeOK => TypesOK
  BY DEF TypesOK
<1>6. QED
  BY <1>2, <1>3, <1>4, <1>5, TypeCorrect, CleanInvariant, MeasuredIsTarget,
     StudyImplementsItsParts, PTL

\* clean_results.py: when it succeeds, each row of the input is in one of its two files,
\* once and in order; the kept rows are plotted whole and, if it was asked for, farther
\* away than the error of their position; the trim takes no more rows than its percentage
\* says, and a milder one keeps all that a stricter one keeps.
THEOREM CleaningIsSound == StudySpec => []CleanFileIsSound
<1>1. CleanInv => CleanFileIsSound
  BY Audited, PlottedWhole, BeyondAccuracy, TrimTakesLittle, MilderTrimKeepsMore
     DEF CleanFileIsSound
<1>2. QED
  BY <1>1, CleanInvariant, StudyImplementsItsParts, PTL
=============================================================================
