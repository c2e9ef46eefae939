------------------------- MODULE MCBufferbloatStudy -------------------------
(* Small instances of each part. *)
EXTENDS BufferbloatStudy

\* Batches of up to two experiments, one of them with an algorithm named twice, with
\* --keep-old and without.
MCAlgos == {"taildrop", "codel"}
Command(skip, algos) == [skipReproduce |-> skip, algos |-> algos, keepOld |-> FALSE]
Twice == Command(TRUE, <<"codel", "codel">>)
MCOptions == {Command(FALSE, <<"codel">>), Twice, [Twice EXCEPT !.keepOld = TRUE],
              Command(FALSE, <<>>), Command(TRUE, <<>>)}
MCOneScript == {Command(FALSE, <<>>)}
MCRaises == {"client", "dynamic_bw"}

Lines == INSTANCE IperfLines

\* The sample of the self test, and outputs of up to four intervals and a summary in
\* which any line may be spoiled, after a banner or a refusal.
Refused == [what |-> "refused"]
Reports(n) == [i \in 1..n |-> Lines!Report(10 * (i - 1), 10 * i, 100 + i, "M", 800 + i, "M")]
Whole(n) == Append(Reports(n), Lines!Report(0, 10 * n, 200, "M", 850, "K"))
Spoilt(s, I) == [i \in DOMAIN s |-> IF i \in I THEN [s[i] EXCEPT !.ok = FALSE] ELSE s[i]]
MCOutputs ==
    {Lines!Sample, <<Lines!Other, Refused>>, <<>>}
    \cup {<<Lines!Other>> \o Spoilt(Whole(n), I) : n \in 1..4, I \in SUBSET (1..4)}
    \cup {<<Lines!Other>> \o Reports(n) : n \in 1..3}

\* A monitor that starts before the zero, and one that starts late.
MCFirstSamples == {-40, 55}

-----------------------------------------------------------------------------
\* Files of up to five lines: steady, with one gap, with two, out of order, cut in
\* the last line, empty; cuts that start at zero, overlap or are not a range.
Series == INSTANCE LabSeries
Unread == Series!None
Sample(t, v) == [epoch |-> 1000 + t, t |-> t, v |-> v]
File(times, unit) == [i \in DOMAIN times |-> Sample(times[i], 1 + ((times[i] \div unit) % 7))]
Comment == [epoch |-> Unread, t |-> Unread, v |-> Unread]
Empty == [has |-> {}, reproduce |-> FALSE, t0 |-> Unread, cwnd |-> <<>>, qlen |-> <<>>,
          qdisc |-> <<>>, rtt |-> <<>>, client |-> <<>>, server |-> <<>>]

Steady == File(<<100, 110, 120, 130, 140>>, 10)
OneGap == File(<<100, 110, 120, 200>>, 10)
Lonely == File(<<100, 180, 190, 200>>, 10)
TwoGaps == File(<<100, 190, 200, 330>>, 10)
Inverted == File(<<120, 110, 130>>, 10)
CutShort == Append(File(<<100, 110>>, 10), Sample(120, Unread))

Three == {"cwnd", "qlen", "rtt"}
Exp1Dirs ==
    {[Empty EXCEPT !.reproduce = TRUE, !.has = h, !.t0 = z, !.cwnd = c, !.qlen = q, !.rtt = r] :
        h \in {Three, Three \ {"cwnd"}}, z \in {Unread, 115},
        c \in {<<>>, OneGap}, q \in {<<Comment>> \o Steady, CutShort}, r \in {Lonely, Inverted}}
AlgoDirs == {[Empty EXCEPT !.has = {"rtt"}, !.rtt = r, !.client = c, !.t0 = z] :
                r \in {OneGap, TwoGaps, <<Comment>>}, c \in {<<>>, TwoGaps, CutShort},
                z \in {Unread, 105}}
NoDirs == [a \in {"red", "codel"} |-> Empty]
Range2(lo, hi) == [lo |-> lo, hi |-> hi]
Default == [script |-> "exp1", exp1 |-> Empty, algos |-> <<"red">>, dirs |-> NoDirs,
            zoom |-> <<"red", "codel">>, maxGap |-> 0, cut |-> <<>>, sweep |-> <<>>]
MCPlotInputs ==
    {[Default EXCEPT !.exp1 = d, !.algos = a, !.maxGap = m] :
        d \in Exp1Dirs, a \in {<<>>, <<"red">>}, m \in {0, 50}}
    \cup {[Default EXCEPT !.dirs = [NoDirs EXCEPT !["red"] = d, !["codel"].has = {"rtt"},
                                                  !["codel"].rtt = Lonely],
                          !.algos = a, !.maxGap = m, !.cut = c] :
            d \in AlgoDirs, a \in {<<"red", "codel">>, <<"codel">>}, m \in {0, 50},
            c \in {<<>>, <<Range2(0, 3)>>, <<Range2(3, 4), Range2(2, 5), Range2(5, 2)>>,
                   <<Range2(4, 9), Range2(2, 3)>>}}
    \cup {[Default EXCEPT !.script = "sweep",
                          !.sweep = <<[Empty EXCEPT !.has = h, !.cwnd = c, !.rtt = r,
                                                    !.qdisc = q, !.qlen = Steady],
                                     [Empty EXCEPT !.has = {"cwnd", "rtt"}, !.cwnd = Steady]>>] :
            h \in {{"cwnd", "rtt"}, {"rtt"}}, c \in {<<>>, Lonely}, r \in {OneGap, Inverted},
            q \in {<<>>, Steady, CutShort, <<Sample(120, Unread)>>}}
    \cup {[Default EXCEPT !.script = "sweep",
                          !.sweep = <<[Empty EXCEPT !.has = {"cwnd", "rtt"}, !.cwnd = c,
                                                    !.rtt = r, !.qlen = q]>>] :
            c \in {<<>>, Lonely}, r \in {OneGap, Inverted, <<>>}, q \in {<<>>, Steady}}

-----------------------------------------------------------------------------
\* Two runs of two algorithms. The samples are at the ends of phases, before the
\* zero and after the minute.
Edges == File(<<100, 1100, 1099, 2500, 7100>>, 100)
Early == File(<<95, 105, 300, 400>>, 100)
Queue == File(<<100, 102, 104, 106, 108, 110>>, 100)
AtOnce == File(<<100, 100, 100>>, 100)
TableDirs ==
    {[Empty EXCEPT !.has = {"rtt"} \cup h, !.rtt = r, !.t0 = z,
                   !.qdisc = IF "qdisc" \in h THEN Queue ELSE <<>>,
                   !.server = IF "server" \in h THEN File(<<100, 1200>>, 100) ELSE <<>>,
                   !.client = IF "client" \in h THEN c ELSE <<>>] :
        h \in {{}, {"qdisc", "client", "server"}, {"client"}},
        r \in {Edges, Early, <<>>}, z \in {Unread, 100, 1100},
        c \in {File(<<100, 1200, 2300>>, 100), Append(File(<<100>>, 100), Sample(200, Unread))}}
    \cup {Empty, [Empty EXCEPT !.has = {"qdisc"}, !.qdisc = Queue]}
Results(red, codel) == [a \in {"red", "codel"} |-> IF a = "red" THEN red ELSE codel]
Plain == [Empty EXCEPT !.has = {"rtt"}, !.rtt = Edges]
MCCompareInputs ==
    {[runs |-> <<Results(d, Empty), Results(e, Empty)>>, algos |-> <<"red", "codel">>,
      figureAlgos |-> f, noT0 |-> n, smooth |-> 4] :
        d \in TableDirs, e \in {Plain, Empty}, f \in {<<"red">>, <<>>}, n \in BOOLEAN}
    \cup {[runs |-> <<Results(Plain, [Plain EXCEPT !.reproduce = TRUE, !.has = h])>>,
           algos |-> <<"red">>, figureAlgos |-> <<"codel", "red">>, noT0 |-> FALSE,
           smooth |-> s] : h \in {{"rtt"}, {"rtt", "cwnd"}}, s \in {0, 4}}
    \cup {[runs |-> <<Results([Plain EXCEPT !.qdisc = AtOnce], Empty)>>, algos |-> <<"red">>,
           figureAlgos |-> <<"red">>, noT0 |-> FALSE, smooth |-> s] : s \in {0, 4}}
=============================================================================
