--------------------------- MODULE MCLatencyStudy ---------------------------
(* A list of three domains with the lines load_targets skips: a title, a domain    *)
(* that comes twice, a comment, and a name without a dot. Three times, with 0, and    *)
(* codes of each class clean_results.py tells apart. Rows that differ in the metric     *)
(* that is high, in what the database knows of them, and in the reason to refuse them.   *)
EXTENDS LatencyStudy

CONSTANTS a, b, c

Line(kind, domain) == [kind |-> kind, domain |-> domain]
MCSiteList == <<Line("header", a), Line("ranked", a), Line("plain", b), Line("ranked", a),
                Line("comment", c), Line("undotted", b), Line("ranked", c)>>

MCTimes == 0..2
MCCodes == {0, 200, 404}

Rows == INSTANCE SiteRows
Unknown == Rows!None
Good(ping, dns, total) ==
    [ip |-> "global", http_code |-> 200, error |-> {}, c_latency_ms |-> 1,
     ping_ms |-> ping, dns_ms |-> dns, tcp_transfer_ms |-> 1, total_time_ms |-> total,
     distance |-> 9, radius |-> 2, extra |-> FALSE]

MCSampleRows ==
    {Good(1, 1, 4), Good(3, 1, 6), Good(1, 4, 7),
     [Good(2, 2, 5) EXCEPT !.radius = Unknown],
     [Good(2, 2, 6) EXCEPT !.distance = 2],
     [Good(2, 1, 4) EXCEPT !.ip = "private"],
     [Good(1, 1, 5) EXCEPT !.extra = TRUE],
     [Good(1, 1, 5) EXCEPT !.c_latency_ms = 0]}
MCPercentages == {Unknown, 1, 50, 67, 99, 100}
MCMaxRadii == {Unknown, 1, 5}
=============================================================================
