-------------------------- MODULE SiteMeasurement ---------------------------
(* The life of one measurement: https, the http fallback, the ping of the       *)
(* address the transfer used, the GeoIP bound, and much later the structural     *)
(* check of clean_results.py. Curl, ping and the database answer anything they    *)
(* can answer.                                                                    *)
EXTENDS SiteRows, FiniteSets

CONSTANTS
    Times,              \* the times a timer can show, with 0 for "not reached"
    Codes,              \* HTTP status codes
    KeepGeoAnomalies    \* --keep-geo-anomalies of clean_results.py

\* What the constants are; the module that brings the parts together assumes it.
TimesAssumption == Times \subseteq Nat /\ 0 \in Times
CodesAssumption == Codes \subseteq Nat

VARIABLES
    stage,      \* where the measurement is
    row,        \* the fields known so far
    heard       \* addresses some transfer of this target connected to (history)

vars == <<stage, row, heard>>

Stages == {"https", "http", "ping", "geo", "csv", "kept", "rejected"}

Metric == Nat \cup {None}

TypeOK ==
    /\ stage \in Stages
    /\ row \in [ip : IpClasses, http_code : Codes \cup {None}, error : SUBSET ErrorParts,
                c_latency_ms : Metric, ping_ms : Metric, dns_ms : Metric,
                tcp_transfer_ms : Metric, total_time_ms : Metric]
    /\ heard \subseteq IpClasses \ {NoIp}

\* What libcurl reports: the timers are in order, and only a transfer that reached
\* an address can succeed.
Performs ==
    {p \in [failed : BOOLEAN, ip : IpClasses \ {"invalid"}, dns : Times,
            first : Times, total : Times, code : Codes] :
        /\ p.dns <= p.total /\ p.first <= p.total
        /\ ~p.failed => p.ip # NoIp /\ p.total > 0}

Init ==
    /\ stage = "https"
    /\ row = EmptyRow
    /\ heard = {}

Heard(p) == heard \cup (IF p.ip = NoIp THEN {} ELSE {p.ip})

CurlHttps(p) ==
    /\ stage = "https"
    /\ row' = CurlResult(p)
    /\ heard' = Heard(p)
    /\ stage' = IF p.failed THEN "http" ELSE "ping"

CurlHttp(p) ==
    /\ stage = "http"
    /\ row' = IF UseFallback(row, CurlResult(p)) THEN CurlResult(p) ELSE row
    /\ heard' = Heard(p)
    /\ stage' = "ping"

\* ping_minimum_ms runs only for a row with an address; None stands for a missing
\* program, a timeout and an unanswered ping, which all leave an error.
Ping(answer) ==
    /\ stage = "ping"
    /\ row' = IF row.ip = NoIp THEN row
              ELSE [row EXCEPT !.ping_ms = answer,
                               !.error = @ \cup (IF answer = None THEN {"ping"} ELSE {})]
    /\ stage' = "geo"
    /\ UNCHANGED heard

\* future.result() raises: the row carries nothing but its error.
WorkerFails ==
    /\ stage \in {"https", "http", "ping"}
    /\ row' = [EmptyRow EXCEPT !.error = {"worker"}]
    /\ stage' = "geo"
    /\ heard' = {}

Geography(geo) ==
    /\ stage = "geo"
    /\ row' = AddGeography(row, geo)
    /\ stage' = "csv"
    /\ UNCHANGED heard

Clean ==
    /\ stage = "csv"
    /\ stage' = IF StructuralRejection(row, KeepGeoAnomalies) = "kept"
                THEN "kept" ELSE "rejected"
    /\ UNCHANGED <<row, heard>>

GeoAnswers == [found : BOOLEAN, bound : Times \cup {None}]

Next ==
    \/ \E p \in Performs : CurlHttps(p) \/ CurlHttp(p)
    \/ \E answer \in Times \cup {None} : Ping(answer)
    \/ WorkerFails
    \/ \E geo \in GeoAnswers : Geography(geo)
    \/ Clean

Spec == Init /\ [][Next]_vars

-----------------------------------------------------------------------------
\* A row that cleaning keeps carries no error of any part, although cleaning never
\* reads the error field: whatever failed during the measurement (curl, ping,
\* GeoIP, the worker) has left a metric empty.
KeptRowsHaveNoError == stage = "kept" => row.error = {}

\* The address is not lost by the fallback: when any transfer of the target
\* connected, the row names an address, so ping and GeoIP have something to ask.
AddressIsKept == stage \in {"geo", "csv", "kept", "rejected"} /\ heard # {} => row.ip # NoIp
=============================================================================
