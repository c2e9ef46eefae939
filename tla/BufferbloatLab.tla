--------------------------- MODULE BufferbloatLab ---------------------------
(* Oct9/05-bufferbloat: run_lab.py runs reproduce_bufferbloat.py and               *)
(* mitigate_bufferbloat.py one after another with the functions of utils.py it       *)
(* replaces. A script is the sequence of its calls; a call can raise. Processes        *)
(* started by a script live until somebody stops them: the rtt, cwnd and qlen          *)
(* monitors, the iperf server and client, and the daemon monitors of run_lab           *)
(* ("extras", five of them, started and stopped together).                             *)
EXTENDS Integers, Sequences, SequencesExt, FiniteSets

CONSTANTS
    Algos,          \* the algorithms of mitigate
    Options,        \* command lines: [skipReproduce, algos, keepOld]
    Raises          \* the calls that may raise an exception

VARIABLES
    opts,       \* the command line of this run
    stage,      \* "start", "script", "join", "exit" or "ended"
    cur,        \* the experiment of the plan that runs
    pc,         \* the call of its script that is next
    rcs,        \* the return codes of the experiments that are over
    procs,      \* the processes that are alive: [kind, exp, opened]
    listening,  \* the iperf server of the current experiment listens
    waited,     \* _wait_for_iperf_server: "no", "seen" or "timeout"
    client,     \* the current client: "none", "connected" or "refused"
    pumps,      \* _PUMPS: whose output each thread reads
    extras,     \* _EXTRAS: the experiments whose daemon monitors are registered
    dirs        \* the files of each directory: [file, exp], exp 0 is an old run

vars == <<opts, stage, cur, pc, rcs, procs, listening, waited, client, pumps, extras, dirs>>

ASSUME AlgosAssumption == "qlen" \notin Algos
ASSUME OptionsAssumption ==
    \A o \in Options : /\ o.algos \in Seq(Algos)
                       /\ o.skipReproduce \in BOOLEAN /\ o.keepOld \in BOOLEAN

-----------------------------------------------------------------------------
\* Mutant: the queue monitor is not stopped.
ReproduceWithoutStop ==
    <<"cwnd", "qlen", "rtt", "t0", "server", "wait_server", "extras", "client",
      "sleep", "stop_cwnd", "stop_rtt", "stop_iperf">>

\* The calls of the two scripts. start_iperf is start_iperf_logged, from "server" to
\* "client", and start_rtt_monitor is start_rtt_monitor_logged, "rtt" and "t0".
Reproduce ==
    <<"cwnd", "qlen", "rtt", "t0", "server", "wait_server", "extras", "client",
      "sleep", "stop_cwnd", "stop_qlen", "stop_rtt", "stop_iperf">>

Mitigate ==
    <<"set_qdisc", "server", "wait_server", "extras", "client", "rtt", "t0",
      "dynamic_bw", "stop_rtt", "stop_iperf">>

Script(name) == IF name = "reproduce" THEN Reproduce ELSE Mitigate

\* build_plan: the reproduction first unless it is skipped, then each algorithm
\* named on the command line, as often as it is named.
Plan ==
    (IF opts.skipReproduce THEN <<>> ELSE <<[script |-> "reproduce", dir |-> "qlen"]>>)
        \o [i \in DOMAIN opts.algos |-> [script |-> "mitigate", dir |-> opts.algos[i]]]

Dir == Algos \cup {"qlen"}
Monitors == {"rtt", "cwnd", "qlen"}         \* not daemons
Iperf == {"server", "client"}
Kinds == Monitors \cup Iperf \cup {"extras"}

TypeOK ==
    /\ opts \in Options
    /\ stage \in {"start", "script", "join", "exit", "ended"}
    /\ cur \in 1..(Len(Plan) + 1)
    /\ rcs \in Seq({0, 1}) /\ Len(rcs) \in {cur - 1, cur}
    /\ procs \subseteq [kind : Kinds, exp : 1..Len(Plan), opened : BOOLEAN]
    /\ listening \in BOOLEAN
    /\ waited \in {"no", "seen", "timeout"}
    /\ client \in {"none", "connected", "refused"}
    /\ pumps \in Seq(Iperf) /\ Len(pumps) <= 2
    /\ extras \subseteq 1..Len(Plan)
    /\ dirs \in [Dir -> SUBSET [file : Kinds \cup {"t0"}, exp : 0..Len(Plan)]]

-----------------------------------------------------------------------------
\* main has parsed its arguments; the directories hold an older batch, but for the
\* throughput.csv that --keep-old takes out of them.
OldFiles == {"rtt", "server", "qlen"} \cup (IF opts.keepOld THEN {} ELSE {"client"})

Init ==
    /\ opts \in Options
    /\ stage = "start"
    /\ cur = 1 /\ pc = 1 /\ rcs = <<>>
    /\ procs = {} /\ listening = FALSE /\ waited = "no" /\ client = "none"
    /\ pumps = <<>> /\ extras = {}
    /\ dirs = [d \in Dir |-> {[file |-> k, exp |-> 0] : k \in OldFiles}]

\* Opening a file for writing replaces the file of that name.
Written(dir, file, exp) ==
    [dirs EXCEPT ![dir] = {f \in @ : f.file # file} \cup {[file |-> file, exp |-> exp]}]

\* run_experiment removes the directory of each experiment as it starts it, whatever
\* --keep-old says.
StartExperiment ==
    /\ stage = "start"
    /\ cur <= Len(Plan)
    /\ dirs' = [dirs EXCEPT ![Plan[cur].dir] = {}]
    /\ pumps' = <<>> /\ extras' = {}
    /\ listening' = FALSE /\ waited' = "no" /\ client' = "none"
    /\ pc' = 1
    /\ stage' = "script"
    /\ UNCHANGED <<opts, cur, rcs, procs>>

Call == Script(Plan[cur].script)[pc]
At(call) == stage = "script" /\ pc <= Len(Script(Plan[cur].script)) /\ Call = call
Return == pc' = pc + 1 /\ UNCHANGED <<opts, stage, cur, rcs>>

Spawn(kind) == procs' = procs \cup {[kind |-> kind, exp |-> cur, opened |-> FALSE]}
Dead(kinds) == {p \in procs : p.kind \in kinds}

\* A monitor process starts; it opens its file by itself (Open).
StartMonitor(kind) ==
    /\ At(kind)
    /\ Spawn(kind)
    /\ Return
    /\ UNCHANGED <<listening, waited, client, pumps, extras, dirs>>

\* terminate() of the process the script holds.
StopCall == [rtt |-> "stop_rtt", cwnd |-> "stop_cwnd", qlen |-> "stop_qlen"]

StopMonitor(kind) ==
    /\ At(StopCall[kind])
    /\ procs' = {p \in procs : ~(p.kind = kind /\ p.exp = cur)}
    /\ Return
    /\ UNCHANGED <<listening, waited, client, pumps, extras, dirs>>

\* An error of the file system is written to the terminal and swallowed.
WriteT0 ==
    /\ At("t0")
    /\ dirs' \in {dirs, Written(Plan[cur].dir, "t0", cur)}
    /\ Return
    /\ UNCHANGED <<procs, listening, waited, client, pumps, extras>>

StartServer ==
    /\ At("server")
    /\ Spawn("server")
    /\ pumps' = Append(pumps, "server")
    /\ Return
    /\ UNCHANGED <<listening, waited, client, extras, dirs>>

\* The server process gets to listen(), some time.
ServerListens ==
    /\ stage = "script"
    /\ ~listening
    /\ \E p \in procs : p.kind = "server" /\ p.exp = cur
    /\ listening' = TRUE
    /\ UNCHANGED <<opts, stage, cur, pc, rcs, procs, waited, client, pumps, extras, dirs>>

\* _wait_for_iperf_server: until it listens, or for ten seconds.
WaitServer ==
    /\ At("wait_server")
    /\ \/ listening /\ waited' = "seen"
       \/ ~listening /\ waited' = "timeout"
    /\ Return
    /\ UNCHANGED <<procs, listening, client, pumps, extras, dirs>>

StartExtras ==
    /\ At("extras")
    /\ Spawn("extras")
    /\ extras' = extras \cup {cur}
    /\ Return
    /\ UNCHANGED <<listening, waited, client, pumps, dirs>>

\* The client connects, or is refused and ends at once; its pump is there anyway.
StartClient ==
    /\ At("client")
    /\ IF listening
       THEN Spawn("client") /\ client' = "connected"
       ELSE client' = "refused" /\ UNCHANGED procs
    /\ pumps' = Append(pumps, "client")
    /\ dirs' = Written(Plan[cur].dir, "client", cur)
    /\ Return
    /\ UNCHANGED <<listening, waited, extras>>

\* iperf -t duration+5 is over before the script stops it.
ClientEnds ==
    /\ \E p \in procs : p.kind = "client" /\ procs' = procs \ {p}
    /\ UNCHANGED <<opts, stage, cur, pc, rcs, listening, waited, client, pumps, extras, dirs>>

\* set_qdisc_algo, sleep and dynamic_bw keep the driver busy and start nothing.
Busy ==
    /\ At("set_qdisc") \/ At("sleep") \/ At("dynamic_bw")
    /\ Return
    /\ UNCHANGED <<procs, listening, waited, client, pumps, extras, dirs>>

\* Mutant: only the iperf processes are looked for.
StopIperfOnly ==
    /\ At("stop_iperf")
    /\ procs' = procs \ Dead(Iperf)
    /\ extras' = {}
    /\ Return
    /\ UNCHANGED <<listening, waited, client, pumps, dirs>>

\* stop_iperf_logged: the registered daemons, then every iperf of the machine.
StopIperf ==
    /\ At("stop_iperf")
    /\ procs' = {p \in procs : /\ p.kind \notin Iperf
                               /\ ~(p.kind = "extras" /\ p.exp \in extras)}
    /\ extras' = {}
    /\ Return
    /\ UNCHANGED <<listening, waited, client, pumps, dirs>>

\* A process opens its file for writing in the directory that has its name now.
Open ==
    \E p \in procs :
        /\ ~p.opened
        /\ procs' = (procs \ {p}) \cup {[p EXCEPT !.opened = TRUE]}
        /\ dirs' = Written(Plan[p.exp].dir, p.kind, p.exp)
        /\ UNCHANGED <<opts, stage, cur, pc, rcs, listening, waited, client, pumps, extras>>

\* The script is over, or a call of it raises: run_experiment catches it.
ScriptEnds ==
    /\ stage = "script"
    /\ pc = Len(Script(Plan[cur].script)) + 1
    /\ rcs' = Append(rcs, 0)
    /\ stage' = "join"
    /\ UNCHANGED <<opts, cur, pc, procs, listening, waited, client, pumps, extras, dirs>>

ScriptRaises ==
    /\ stage = "script"
    /\ pc <= Len(Script(Plan[cur].script))
    /\ Call \in Raises
    /\ rcs' = Append(rcs, 1)
    /\ stage' = "join"
    /\ UNCHANGED <<opts, cur, pc, procs, listening, waited, client, pumps, extras, dirs>>

\* The pumps are joined, for five seconds at most, and the summary is printed.
JoinAndSummarize ==
    /\ stage = "join"
    /\ cur' = cur + 1
    /\ stage' = IF cur = Len(Plan) THEN "exit" ELSE "start"
    /\ UNCHANGED <<opts, pc, rcs, procs, listening, waited, client, pumps, extras, dirs>>

\* multiprocessing at exit: the daemons are terminated, then the other children joined.
AtExit == stage = "exit" \/ (stage = "start" /\ Plan = <<>>)

TerminateDaemons ==
    /\ AtExit
    /\ Dead({"extras"}) # {}
    /\ procs' = procs \ Dead({"extras"})
    /\ UNCHANGED <<opts, stage, cur, pc, rcs, listening, waited, client, pumps, extras, dirs>>

Exit ==
    /\ AtExit
    /\ Dead(Monitors \cup {"extras"}) = {}
    /\ stage' = "ended"
    /\ UNCHANGED <<opts, cur, pc, rcs, procs, listening, waited, client, pumps, extras, dirs>>

Driver ==
    \/ StartExperiment
    \/ \E k \in Monitors : StartMonitor(k) \/ StopMonitor(k)
    \/ WriteT0 \/ StartServer \/ WaitServer \/ StartExtras \/ StartClient
    \/ Busy \/ StopIperf
    \/ ScriptEnds \/ JoinAndSummarize \/ TerminateDaemons \/ Exit

Next == Driver \/ ScriptRaises \/ ServerListens \/ ClientEnds \/ Open

Spec == Init /\ [][Next]_vars

\* The driver has no wait without an end but the one for its children at exit.
Fairness == WF_vars(Driver)

FairSpec == Spec /\ Fairness

-----------------------------------------------------------------------------
Old(p) == p.exp < cur

\* A monitor, a daemon or an iperf that outlives its experiment belongs to one
\* whose return code says so; and no iperf outlives the next experiment that
\* ends well.
LeakIsReported ==
    \A p \in procs : Old(p) =>
        /\ rcs[p.exp] = 1
        /\ p.kind \in Iperf => \A k \in (p.exp + 1)..(cur - 1) : rcs[k] = 1

\* The race of utils.start_iperf is closed: a client is refused only when the
\* driver has given up waiting for the server, and said so.
RefusedOnlyAfterTimeout == client = "refused" => waited = "timeout"

\* From the start of an experiment in a directory on, there is no data of an older
\* batch in it; and it is mixed with that of another experiment of this batch only
\* if the earlier of the two has failed and left a process that opens its file late.
DirectoriesAreNotMixed ==
    \A k \in 1..Len(rcs) : \A f, g \in dirs[Plan[k].dir] :
        f.exp < g.exp => f.exp # 0 /\ rcs[f.exp] = 1

\* The driver ends, or is left waiting at exit for a monitor of an experiment whose
\* return code is not 0: without an exception nothing it waits for is alive.
DriverEnds ==
    <>(stage = "ended" \/ (stage = "exit" /\ \E p \in procs : p.kind \in Monitors /\ rcs[p.exp] = 1))

\* A driver that ends leaves no process of an experiment that went well; the
\* driver that cannot end is waiting for a monitor of one that did not.
HangsOnlyAfterFailure ==
    stage \in {"exit", "ended"} =>
        \A p \in procs : rcs[p.exp] = 1 \/ p.kind = "extras"

-----------------------------------------------------------------------------
\* What the documentation says and the code does not do. pumps_named is the run of the
\* first, the second has none.

\* run_lab.py:152 says of _PUMPS that [0] is the client and [1] the server, and
\* summarize prints the rates under these names.
SummaryNamesThePumps ==
    stage = "join" /\ Len(pumps) = 2 => pumps = <<"client", "server">>

\* run_lab.py:601: --keep-old keeps the old output directories, and only the two
\* files this driver writes are removed (661): an old rtt.txt is there until the
\* new monitor opens it.
KeepOldKeepsMonitorFiles ==
    opts.keepOld => \A d \in Dir : \E f \in dirs[d] : f.file = "rtt"
=============================================================================
