------------------------------ MODULE SiteRows ------------------------------
(* One row of the latency experiment of Sept3/ping_latency_graph: how          *)
(* measure_websites.py computes its fields and which rows clean_results.py      *)
(* keeps. Times are natural numbers (milliseconds in a coarse unit), an address  *)
(* is its class, an error text is the set of the parts that contributed to it.   *)
EXTENDS Integers

None == -1                      \* None in Python, the empty field in the CSV
NoIp == "noip"                  \* the empty address

METRICS == {"c_latency_ms", "ping_ms", "dns_ms", "tcp_transfer_ms", "total_time_ms"}

IpClasses == {NoIp, "global", "private", "invalid"}
ErrorParts == {"curl", "ping", "GeoIP", "worker"}

\* The record written when the worker itself failed: rank, domain and error only.
EmptyRow == [ip |-> NoIp, http_code |-> None, error |-> {},
             c_latency_ms |-> None, ping_ms |-> None, dns_ms |-> None,
             tcp_transfer_ms |-> None, total_time_ms |-> None]

\* Mutant: the timers of a transfer that failed are reported too.
CurlResultOfBrokenTransfer(p) ==
    [EmptyRow EXCEPT !.ip = p.ip, !.http_code = p.code,
                     !.error = IF p.failed THEN {"curl"} ELSE {},
                     !.dns_ms = p.dns, !.tcp_transfer_ms = p.total - p.first,
                     !.total_time_ms = p.total]

\* Mutant: the lookup is taken off the transfer as well, and nothing stops it at zero.
CurlResultLessDns(p) ==
    [EmptyRow EXCEPT !.ip = p.ip, !.http_code = p.code,
                     !.error = IF p.failed THEN {"curl"} ELSE {},
                     !.dns_ms = p.dns,
                     !.tcp_transfer_ms = p.total - p.first - p.dns,
                     !.total_time_ms = IF p.failed THEN None ELSE p.total]

\* _curl_once: what the timers of one transfer become. An unanswered or broken
\* transfer keeps its address, its code and its DNS time, and loses the others.
CurlResult(p) ==
    [EmptyRow EXCEPT
        !.ip = p.ip,
        !.http_code = p.code,
        !.error = IF p.failed THEN {"curl"} ELSE {},
        !.dns_ms = IF p.dns > 0 THEN p.dns ELSE None,
        !.tcp_transfer_ms = IF ~p.failed /\ p.first > 0
                            THEN (IF p.total > p.first THEN p.total - p.first ELSE 0)
                            ELSE None,
        !.total_time_ms = IF p.failed THEN None ELSE p.total]

\* measure_target: the result of http replaces that of a failed https when it is
\* good, or when https had not even found an address.
UseFallback(https, http) == http.error = {} \/ https.ip = NoIp

\* add_geography on a row that has an address; geo is the answer of the database.
AddGeography(row, geo) ==
    CASE row.ip = NoIp -> [row EXCEPT !.c_latency_ms = None]
      [] row.ip # NoIp /\ ~geo.found -> [row EXCEPT !.c_latency_ms = None,
                                                    !.error = @ \cup {"GeoIP"}]
      [] row.ip # NoIp /\ geo.found -> [row EXCEPT !.c_latency_ms = geo.bound]

-----------------------------------------------------------------------------
\* structural_rejection: the first reason to refuse a row, or "kept".
StructuralRejection(row, keepGeoAnomalies) ==
    CASE \E m \in METRICS : row[m] = None -> "missing"
      [] OTHER ->
    CASE row.ip \in {NoIp, "invalid"} -> "invalid_ip"
      [] row.ip = "private" -> "non_global_ip"
      [] OTHER ->
    CASE row.http_code = None -> "invalid_http_code"
      [] row.http_code # None /\ ~(200 <= row.http_code /\ row.http_code < 400)
            -> "http_not_2xx_3xx"
      [] OTHER ->
    CASE \E m \in METRICS : row[m] <= 0 -> "non_positive"
      [] OTHER ->
    CASE row.total_time_ms < row.dns_ms + row.tcp_transfer_ms -> "inconsistent_phases"
      [] OTHER ->
    CASE ~keepGeoAnomalies /\ row.ping_ms < row.c_latency_ms -> "ping_below_c_latency"
      [] OTHER -> "kept"
=============================================================================
