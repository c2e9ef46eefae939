----------------------------- MODULE IperfLines -----------------------------
(* The lines iperf -i 1 prints, as ThroughputLogger of run_lab.py tells them apart:  *)
(* a report of the rate from start to end (tenths of a second) with the letters its    *)
(* units begin with, or another line. ok says that its numbers are numbers: the         *)
(* pattern lets 1.2.3 through.                                                          *)
EXTENDS Integers, Sequences

PipeLine ==
    [what : {"other", "refused"}]
    \cup [what : {"report"}, ok : BOOLEAN, start : Nat, end : Nat,
          xfer : Nat, xunit : STRING, rate : Nat, runit : STRING]

\* SELFTEST_SAMPLE (557): units without a prefix, all three prefixes, the summary.
Other == [what |-> "other"]
Report(start, end, xfer, xunit, rate, runit) ==
    [what |-> "report", ok |-> TRUE, start |-> start, end |-> end,
     xfer |-> xfer, xunit |-> xunit, rate |-> rate, runit |-> runit]
Sample ==
    <<Other, Other, Other, Report(0, 10, 954, "K", 782, "M"), Report(10, 20, 120, "M", 101, "M"),
      Report(20, 30, 125, "M", 105, "M"), Report(30, 40, 0, "B", 0, "b"),
      Report(40, 50, 512, "B", 419, "K"), Report(50, 60, 100, "G", 859, "G"),
      Report(0, 60, 120, "G", 160, "G")>>
=============================================================================
