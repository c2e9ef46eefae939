----------------------- MODULE SiteMeasurementProofs ------------------------
(***************************************************************************)
(* Theorems about one measurement, for any natural times and any status    *)
(* codes (TimesAssumption is a hypothesis of each of them): the            *)
(* error that measure_websites.py notes and the metrics by which           *)
(* clean_results.py chooses its rows never disagree.                       *)
(***************************************************************************)
EXTENDS SiteMeasurement, TLAPS

Row == [ip : IpClasses, http_code : Codes \cup {None}, error : SUBSET ErrorParts,
        c_latency_ms : Metric, ping_ms : Metric, dns_ms : Metric,
        tcp_transfer_ms : Metric, total_time_ms : Metric]

LEMMA EmptyRowType == EmptyRow \in Row
BY DEF EmptyRow, Row, Metric, None, IpClasses, NoIp

LEMMA CurlResultType ==
    ASSUME TimesAssumption, NEW p \in Performs
    PROVE  /\ CurlResult(p) \in Row
           /\ CurlResult(p).error \subseteq {"curl"}
           /\ "curl" \in CurlResult(p).error => CurlResult(p).total_time_ms = None
           /\ CurlResult(p).ping_ms = None /\ CurlResult(p).c_latency_ms = None
<1>1. /\ p.ip \in IpClasses /\ p.code \in Codes /\ p.failed \in BOOLEAN
      /\ p.dns \in Nat /\ p.first \in Nat /\ p.total \in Nat
  BY DEF TimesAssumption, Performs
<1>2. (IF ~p.failed /\ p.first > 0
       THEN (IF p.total > p.first THEN p.total - p.first ELSE 0) ELSE None) \in Metric
  BY <1>1 DEF Metric
<1>3. /\ (IF p.dns > 0 THEN p.dns ELSE None) \in Metric
      /\ (IF p.failed THEN None ELSE p.total) \in Metric
      /\ None \in Metric
  BY <1>1 DEF Metric
<1>4. (IF p.failed THEN {"curl"} ELSE {}) \in SUBSET ErrorParts
  BY DEF ErrorParts
<1>5. QED
  BY <1>1, <1>2, <1>3, <1>4 DEF CurlResult, EmptyRow, Row

-----------------------------------------------------------------------------
\* A part that notes an error has left a metric of its own empty.
ErrorsEmptyMetrics ==
    /\ row.error \cap {"curl", "worker"} # {} => row.total_time_ms = None
    /\ "ping" \in row.error => row.ping_ms = None
    /\ "GeoIP" \in row.error => row.c_latency_ms = None

\* Until a part has run, it has noted no error and its metric is empty.
PartsInOrder ==
    /\ stage \in {"https", "http", "ping"} => row.error \subseteq {"curl"} /\ row.ping_ms = None
    /\ stage \in {"https", "http", "ping", "geo"} =>
            "GeoIP" \notin row.error /\ row.c_latency_ms = None

KeptIsFull == stage = "kept" => \A m \in METRICS : row[m] # None

MeasurementInv == TypeOK /\ ErrorsEmptyMetrics /\ PartsInOrder /\ KeptIsFull

LEMMA MeasurementInit == Init => MeasurementInv
BY EmptyRowType
   DEF Init, MeasurementInv, TypeOK, Row, Stages, ErrorsEmptyMetrics, PartsInOrder,
       KeptIsFull, EmptyRow

LEMMA HeardType ==
    ASSUME TypeOK, NEW p \in Performs
    PROVE  Heard(p) \subseteq IpClasses \ {NoIp}
BY DEF TypeOK, Performs, Heard

LEMMA MeasurementNext ==
    ASSUME TimesAssumption
    PROVE  MeasurementInv /\ [Next]_vars => MeasurementInv'
<1> SUFFICES ASSUME MeasurementInv, [Next]_vars
             PROVE  MeasurementInv'
  OBVIOUS
<1> USE DEF MeasurementInv, ErrorsEmptyMetrics, PartsInOrder, KeptIsFull
<1>0. row \in Row /\ stage \in Stages
  BY DEF TypeOK, Row
<1>1. ASSUME NEW p \in Performs, CurlHttps(p) \/ CurlHttp(p)
      PROVE  MeasurementInv'
  <2>1. row' = CurlResult(p) \/ row' = row
    BY <1>1 DEF CurlHttps, CurlHttp
  <2>2. stage \in {"https", "http"} /\ stage' \in {"http", "ping"}
    BY <1>1 DEF CurlHttps, CurlHttp
  <2>3. TypeOK'
    BY <1>0, <1>1, <2>1, <2>2, CurlResultType, HeardType
       DEF CurlHttps, CurlHttp, TypeOK, Row, Stages
  <2>4. QED
    BY <2>1, <2>2, <2>3, CurlResultType
<1>2. ASSUME NEW answer \in Times \cup {None}, Ping(answer)
      PROVE  MeasurementInv'
  <2>1. answer \in Metric
    BY DEF TimesAssumption, Metric
  <2>2. CASE row.ip = NoIp
    BY <1>0, <1>2, <2>2 DEF Ping, TypeOK, Stages
  <2>3. CASE row.ip # NoIp
    <3> DEFINE found == row.error \cup (IF answer = None THEN {"ping"} ELSE {})
    <3>1. found \in SUBSET ErrorParts
      BY <1>0 DEF Row, ErrorParts
    <3>2. row' = [row EXCEPT !.ping_ms = answer, !.error = found]
      BY <1>2, <2>3 DEF Ping
    <3>3. "ping" \in found => answer = None
      BY <1>2 DEF Ping
    <3>4. found \subseteq {"curl", "ping"} /\ ("curl" \in found <=> "curl" \in row.error)
      BY <1>2 DEF Ping
    <3> HIDE DEF found
    <3>5. /\ row' \in Row /\ row'.error = found /\ row'.ping_ms = answer
          /\ row'.total_time_ms = row.total_time_ms /\ row'.c_latency_ms = row.c_latency_ms
      BY <1>0, <2>1, <3>1, <3>2 DEF Row
    <3>6. stage = "ping" /\ stage' = "geo" /\ heard' = heard
      BY <1>2 DEF Ping
    <3>7. TypeOK'
      BY <3>5, <3>6 DEF TypeOK, Row, Stages
    <3>8. QED
      BY <3>3, <3>4, <3>5, <3>6, <3>7
  <2>4. QED
    BY <2>2, <2>3
<1>3. CASE WorkerFails
  <2>1. [EmptyRow EXCEPT !.error = {"worker"}] \in Row
    BY EmptyRowType DEF Row, ErrorParts
  <2>2. /\ row' = [EmptyRow EXCEPT !.error = {"worker"}]
        /\ stage' = "geo" /\ heard' = {}
    BY <1>3 DEF WorkerFails
  <2>3. row'.error = {"worker"} /\ row'.total_time_ms = None /\ row'.c_latency_ms = None
    BY <2>2 DEF EmptyRow
  <2>4. TypeOK'
    BY <2>1, <2>2 DEF TypeOK, Row, Stages
  <2>5. QED
    BY <2>2, <2>3, <2>4
<1>4. ASSUME NEW geo \in GeoAnswers, Geography(geo)
      PROVE  MeasurementInv'
  <2>1. geo.bound \in Metric /\ None \in Metric
    BY DEF TimesAssumption, GeoAnswers, Metric
  <2>2. stage = "geo" /\ stage' = "csv" /\ heard' = heard /\ row' = AddGeography(row, geo)
    BY <1>4 DEF Geography
  <2>3. CASE row.ip = NoIp
    <3>1. row' = [row EXCEPT !.c_latency_ms = None]
      BY <2>2, <2>3 DEF AddGeography
    <3>2. QED
      BY <1>0, <2>1, <2>2, <3>1 DEF TypeOK, Row, Stages
  <2>4. CASE row.ip # NoIp /\ ~geo.found
    <3> DEFINE noted == row.error \cup {"GeoIP"}
    <3>1. row' = [row EXCEPT !.c_latency_ms = None, !.error = noted]
      BY <2>2, <2>4 DEF AddGeography
    <3>2. noted \in SUBSET ErrorParts
      BY <1>0 DEF Row, ErrorParts
    <3>3. \A part \in {"curl", "worker", "ping"} : part \in noted => part \in row.error
      OBVIOUS
    <3> HIDE DEF noted
    <3>4. /\ row' \in Row /\ row'.error = noted /\ row'.c_latency_ms = None
          /\ row'.total_time_ms = row.total_time_ms /\ row'.ping_ms = row.ping_ms
      BY <1>0, <2>1, <3>1, <3>2 DEF Row
    <3>5. TypeOK'
      BY <2>2, <3>4 DEF TypeOK, Row, Stages
    <3>6. QED
      BY <2>2, <3>3, <3>4, <3>5
  <2>5. CASE row.ip # NoIp /\ geo.found
    <3>1. row' = [row EXCEPT !.c_latency_ms = geo.bound]
      BY <2>2, <2>5 DEF AddGeography, GeoAnswers
    <3>2. QED
      BY <1>0, <2>1, <2>2, <3>1 DEF TypeOK, Row, Stages
  <2>6. QED
    BY <2>3, <2>4, <2>5 DEF GeoAnswers
<1>5. CASE Clean
  <2>1. StructuralRejection(row, KeepGeoAnomalies) = "kept" => \A m \in METRICS : row[m] # None
    BY DEF StructuralRejection
  <2>2. row' = row /\ heard' = heard /\ stage' \in {"kept", "rejected"}
    BY <1>5 DEF Clean
  <2>3. stage' = "kept" => \A m \in METRICS : row[m] # None
    BY <1>5, <2>1 DEF Clean
  <2>4. QED
    BY <2>2, <2>3 DEF TypeOK, Stages
<1>6. CASE UNCHANGED vars
  BY <1>6 DEF vars, TypeOK
<1>7. QED
  BY <1>1, <1>2, <1>3, <1>4, <1>5, <1>6 DEF Next

LEMMA MeasurementInvariant ==
    ASSUME TimesAssumption
    PROVE  Spec => []MeasurementInv
BY MeasurementInit, MeasurementNext, PTL DEF Spec

\* The fields of a row keep their types through every part of a measurement
\* (measure_websites.py:97-237).
THEOREM TypeCorrect ==
    ASSUME TimesAssumption
    PROVE  Spec => []TypeOK
<1>1. MeasurementInv => TypeOK
  BY DEF MeasurementInv
<1>2. QED
  BY <1>1, MeasurementInvariant, PTL

\* clean_results.py keeps no row of a measurement that failed in any part, although
\* it never reads the error column (clean_results.py:23-60).
THEOREM KeptRowsAreClean ==
    ASSUME TimesAssumption
    PROVE  Spec => []KeptRowsHaveNoError
<1>1. MeasurementInv => KeptRowsHaveNoError
  <2> SUFFICES ASSUME MeasurementInv, stage = "kept"
               PROVE  row.error = {}
    BY DEF KeptRowsHaveNoError
  <2>1. row.total_time_ms # None /\ row.ping_ms # None /\ row.c_latency_ms # None
    BY DEF MeasurementInv, KeptIsFull, METRICS
  <2>2. row.error \subseteq ErrorParts
    BY DEF MeasurementInv, TypeOK
  <2>3. QED
    BY <2>1, <2>2 DEF MeasurementInv, ErrorsEmptyMetrics, ErrorParts
<1>2. QED
  BY <1>1, MeasurementInvariant, PTL

-----------------------------------------------------------------------------
\* A row without an address means that no transfer of the target had one.
AddressInv == IF stage = "https" THEN heard = {} ELSE row.ip = NoIp => heard = {}

LEMMA AddressNext == TypeOK /\ AddressInv /\ [Next]_vars => AddressInv'
<1> SUFFICES ASSUME TypeOK, AddressInv, [Next]_vars
             PROVE  AddressInv'
  OBVIOUS
<1> USE DEF AddressInv
<1>1. ASSUME NEW p \in Performs, CurlHttps(p)
      PROVE  AddressInv'
  <2>1. row'.ip = p.ip
    BY <1>1 DEF CurlHttps, CurlResult, EmptyRow
  <2>2. QED
    BY <1>1, <2>1 DEF CurlHttps, Heard
<1>2. ASSUME NEW p \in Performs, CurlHttp(p)
      PROVE  AddressInv'
  <2>1. CurlResult(p).ip = p.ip /\ (CurlResult(p).error = {} => p.ip # NoIp)
    BY DEF CurlResult, EmptyRow, Performs
  <2>2. stage = "http" /\ stage' = "ping" /\ heard' = Heard(p)
    BY <1>2 DEF CurlHttp
  <2>3. CASE UseFallback(row, CurlResult(p))
    <3>1. row' = CurlResult(p)
      BY <1>2, <2>3 DEF CurlHttp
    <3>2. CurlResult(p).error = {} \/ row.ip = NoIp
      BY <2>3 DEF UseFallback
    <3>3. QED
      BY <2>1, <2>2, <3>1, <3>2 DEF Heard
  <2>4. CASE ~UseFallback(row, CurlResult(p))
    <3>1. row' = row /\ row.ip # NoIp
      BY <1>2, <2>4 DEF CurlHttp, UseFallback
    <3>2. QED
      BY <2>2, <3>1
  <2>5. QED
    BY <2>3, <2>4
<1>3. ASSUME NEW answer \in Times \cup {None}, Ping(answer)
      PROVE  AddressInv'
  <2>1. row'.ip = row.ip
    BY <1>3 DEF Ping, TypeOK
  <2>2. QED
    BY <1>3, <2>1 DEF Ping
<1>4. CASE WorkerFails
  BY <1>4 DEF WorkerFails
<1>5. ASSUME NEW geo \in GeoAnswers, Geography(geo)
      PROVE  AddressInv'
  <2>1. row'.ip = row.ip
    BY <1>5 DEF Geography, AddGeography, TypeOK, GeoAnswers
  <2>2. QED
    BY <1>5, <2>1 DEF Geography
<1>6. CASE Clean \/ UNCHANGED vars
  BY <1>6 DEF Clean, vars
<1>7. QED
  BY <1>1, <1>2, <1>3, <1>4, <1>5, <1>6 DEF Next

\* The http fallback never costs the row an address that a transfer of the target
\* connected to (measure_websites.py:176-180).
THEOREM FallbackKeepsAddress ==
    ASSUME TimesAssumption
    PROVE  Spec => []AddressIsKept
<1>1. Init => AddressInv
  BY DEF Init, AddressInv
<1>2. AddressInv => AddressIsKept
  BY DEF AddressInv, AddressIsKept
<1>3. QED
  BY <1>1, <1>2, AddressNext, TypeCorrect, PTL DEF Spec
=============================================================================
