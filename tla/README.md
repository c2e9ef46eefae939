# Verification of the Learn_CN_2026_Autumn network labs

The repository holds the laboratories of a computer-network course: user-space
network devices in C that run under mininet, an HTTPS server, and measurement
scripts. This directory holds TLA+ specifications of the protocol logic in them,
TLC configurations that check the specifications on small instances, and proofs
that hold for every value of the constants.

All paths below are relative to `src/`. `PROJECT.json` lists the components, runs,
mutants, theorems and hazards, and maps each definition to its lines of code.

## 1. The system

| Component | Where | State | Operations | Modelled by |
|---|---|---|---|---|
| ARP cache and ARP messages | `Oct29/08-mospf/arpcache.c`, `arp.c` (the same in `Oct16/06-router`) | table of 32 mappings, list of pending requests with their packets, one lock | lookup, append, insert, sweep, handle ARP message, send by ARP | `ArpCache` (promises: `PacketDelivery`) |
| Spanning tree | `Sept24/04-stp/stp.c`, `stp_timer.c`, `main.c` | root, cost and root port of the switch, a priority vector per port, hello timer, one lock | hello timeout, handle BPDU, recompute, send BPDU | `Stp` |
| mOSPF daemon | `Oct29/08-mospf/mospf_daemon.c`, `mospf_database.c`, `mospf_proto.c` | neighbours per interface, link-state database, sequence number, timers | four threads (hello, neighbour check, LSU, database check), hello and LSU handlers, flooding | `Mospf` |
| Route computation | `mospf_update_rtable` and `rtable.c` | routing table (a list) | Dijkstra over the database, clear and refill | `Routes` |
| IP forwarding, ICMP | `ip.c`, `ip_base.c`, `icmp.c` | none of its own | TTL, longest prefix match, errors, echo | planned |
| Learning switch | `Sept17/03-hub+switch/switch/mac.c`, `main.c` | MAC table with last-visit times, one lock | lookup, learn, sweep (30 s) | planned |
| Hub | `Sept17/03-hub+switch/hub` | none | copy a frame to all other ports | planned, with the switch |
| HTTPS server | `Sept10/02-socket/https-server.c` | per connection: state, input, output, file position | handshake, read, write, close over a level-triggered epoll loop; range selection | planned |
| Latency measurement | `Sept3/ping_latency_graph` (`measure_websites.py`, `clean_results.py`, `plot_results.py`) | result file, pool of workers | measure a domain, resume, clean, trim | `SiteMeasurement`, `MeasureSites`, `SiteCleaning`; together `LatencyStudy` |
| Bufferbloat lab | `Oct9/05-bufferbloat` (`run_lab.py`, `utils.py`, the two experiment scripts) | processes, iperf pumps, one directory per experiment | run a batch of experiments, monitors, recorders | `BufferbloatLab`, `RttMonitor`, `IperfPump`, `ExperimentClock`; together `BufferbloatStudy` |
| Bufferbloat plots and reports | `Oct9/report/scripts` (`plot_bufferbloat.py`, `plot_exp1_sweep.py`, `compare_runs.py`, `backfill_t0.py`) | the files they read, the figures and tables they make | zero of the clock, gaps, cuts, phases | `LabSeries`, `LabPlots`, `CompareRuns`, `ExperimentClock` |
| Drivers and netlink | `device_internal.c`, `rtable_internal.c` | sockets | raw I/O | no: no decisions of their own |
| Slides, drawings, topologies, skeletons | other `report` directories, `summary-sept3-oct9` | none | | no: straight-line scripts, old copies |

How they interact. In the router, the receive loop (`ustack_run`) hands a frame to
`handle_arp_packet` or `handle_ip_packet`; IP packets are delivered to the mOSPF
handlers, answered, or forwarded by `longest_prefix_match` and
`iface_send_packet_by_arp`. The mOSPF threads send LSUs along the same path, and
the ARP sweeper sends ICMP errors along it, so three kinds of threads meet in the
ARP cache. The mOSPF threads and the receive loop meet in the neighbour lists, the
database and the routing table. Switches and routers meet only in messages.

The Python programs meet in files. `measure_websites.py` appends to a results file
that its next run reads, `clean_results.py` writes a second one, and `plot_results.py`
draws that. `run_lab.py` runs the experiment scripts with functions of `utils.py`
replaced by its own; its monitors are processes, its pumps threads, and each writes a
file into the directory of the experiment. `backfill_t0.py` adds the zero of the clock
where it is missing, and the plots and tables read the directories.

What is hard in each, and what makes it correct:

* **ARP.** The lock is released between lookup and append, before the first request
  is sent and before timed-out packets are drained; slots are recycled; the sweeper
  compares with a clock it read before it got the lock. Correct: every packet buffer
  has one owner, leaves for its next hop's MAC or is reported, nothing waits for ever.
* **STP.** BPDUs cross on links, switches start in any order and lose what came
  before, one comparison gone wrong leaves a forwarding loop that no ageing repairs.
  Correct: when the network falls silent but for one root, it is the spanning tree.
* **mOSPF.** Floods around cycles, numbers that start over after a crash and wrap,
  tables not rebuilt when a neighbour goes. Correct: floods end, and everything is
  right again within a known time after the last failure.
* **Routes.** Each router breaks ties by the order in which it learned. Correct: next
  hops chosen independently lead along shortest paths, and host traffic does not loop.

* **Latency measurement.** Rows are written as workers finish, a run can be killed,
  interrupted or cut by a full disk and is resumed over its own file; a failed measurement
  must not look like a fast one. Correct: nothing measured twice, nothing forgotten,
  nothing whole lost; no row with a failed part is kept; kept and refused rows add up.
* **Bufferbloat lab.** Calls raise between starting a process and stopping it, a server
  may not listen in time, files of one experiment may land in the directory of another.
  Correct: whatever stays behind belongs to an experiment that reported failure, and the
  driver ends. Recorders must write what happened when it happened, whenever they are
  stopped.
* **Plots and reports.** Files have gaps, disorder, cut lines, and missing zeros. Correct:
  each step between two samples is drawn once and exactly the gaps are marked, a
  divided axis shows what is not cut and nothing that is, each sample is counted in one
  phase.

The full list of hazards, each at its line, is in `PROJECT.json`.

## 2. The modules

| Module | Contents |
|---|---|
| `ArpCache` | the ARP layer, thread by thread; properties and the strengthening `ArpInv` |
| `PacketDelivery` | the abstract specification of the ARP layer |
| `ArpCacheProofs` | theorems about `ArpCache` |
| `MCArpCache` | a router with two interfaces, two hosts, two packets |
| `Stp` | all switches of a network and their links |
| `StpProofs` | theorems about `Stp`: roles, timers, costs, and that a network that falls silent has built the tree |
| `MCStp` | triangle, the ring of `four_node_ring.py`, and a network with parallel links |
| `Mospf` | all routers of a network, clock, failures |
| `MospfProofs` | theorems about `Mospf`: what numbers and tables say, that entries outlive their timeout, and that the network converges |
| `MCMospf` | a line and a triangle of three routers |
| `Routes` | the route computation, and routers learning of each other |
| `RoutesProofs` | theorems about `Routes`: Dijkstra finds the distances, complete tables are shortest paths |
| `MCRoutes` | the network of `topo.py`, with a link less, a link more, and a router cut off |
| `SiteRows` | the rows of a results file, and the functions on them that two programs share |
| `SiteMeasurement` | `measure_target`: HTTPS, HTTP, ping, GeoIP for one domain, until cleaning keeps or refuses its row |
| `SiteMeasurementProofs` | theorems about `SiteMeasurement` |
| `MeasureSites` | the pool and the results file over many runs, kills, interrupts and cut writes |
| `Lists` | sieving a list and picking from it in order, as the Python programs do |
| `ListsProofs` | lemmas about numbers, recursion, and `Lists` |
| `SiteCleaning` | `clean_results.py` sieve by sieve |
| `LatencyStudy`, `MCLatencyStudy` | the three together, and the instance |
| `LatencyStudyProofs` | theorems about `MeasureSites` and `SiteCleaning`; what is proved of the parts holds of the study |
| `BufferbloatLab` | the driver, its scripts, processes, pumps and directories |
| `RttMonitor` | the monitor of the round trip time with its two fallbacks |
| `IperfLines` | the lines iperf prints, and the sample of the self-test |
| `IperfPump` | the thread that turns what iperf prints into `throughput.csv` |
| `ExperimentClock` | `t0.txt` and `t0.source`: experiments, backfills, and what is read back |
| `LabSeries` | readers, sorting, gaps, cuts, medians, phases: operators only |
| `LabPlots` | the figures of `plot_bufferbloat.py` and `plot_exp1_sweep.py` |
| `CompareRuns` | the tables and figures of `compare_runs.py` |
| `BufferbloatStudy`, `MCBufferbloatStudy` | the driver, recorders and reports together, and the instance |
| `BufferbloatStudyProofs` | theorems about the driver, the two recorders, the zero of the clock and the tables |

### ArpCache

An action is one critical section of `arpcache.lock` or one step outside it.
`SendPacketByArp` runs to the end of `arpcache_lookup`; `Transmit`, or `AppendPacket`
and `SendFirstRequest`, are the rest of `iface_send_packet_by_arp`, and `call[t]` says
how far thread t is. `HandleArpPacket` is the receive path with the whole of
`arpcache_insert`: choice of the slot, flush of every request for the address on
whatever interface. The sweeping thread is `SweepWake` (reads the clock),
`SweepLocked` (expires mappings, resends, moves exhausted requests to the timeout
list), `IcmpHostUnreach` (per packet, outside the lock, through the ARP layer again)
and `SweepSleep`.

Data: a packet is a name with the header it carries now; `Via` gives the next hop of
a header and `Error` the header of the ICMP error about it (`NoRoute`: the error
cannot be sent and the packet is freed). An ICMP error takes over the name of the
packet it replaces. Sets stand for the queues, whose order no property depends on.
Ages replace time stamps and saturate (`EntryAgeCap`, `ReqAgeCap`) where the code's
comparisons no longer tell them apart; `MaxLag` bounds the seconds the sweeper can
lose between `time()` and the lock; `asks`, a history variable capped by `AskCap`,
counts requests sent.

### Stp

`HelloTimeout` is `stp_handle_hello_timeout`; `AdoptConfig` and `RefuseConfig` are
the two branches of `stp_handle_config_packet`, with `stp_update_state` (`BestRootPorts`,
`RootOf`, `RootCost`, `Claimed`), the stopping of the timer (`HelloAfter`) and the
sending (`Send`) inside the same step, since all of it runs under `stp->lock`. `chan`
holds the BPDUs on each link in order. `Lose` is a frame that reaches an interface
nobody reads yet. Switch ids are numbers whose order is that of the 64-bit ids.

### Mospf

`Tick` is one second. The daemon's threads wake up once a second and count down; here
`Tick` counts down all timers and `HelloTimeout`, `NbrTimeout`, `LsuTimeout`,
`DbTimeout` handle those that ran out, in any order among themselves and with the
messages, before the next `Tick`: a packet takes microseconds. `HandleHello`,
`DropLsu` and `AcceptLsu` are the handlers, with the flooding and the rebuilding of
the table. Sequence numbers are taken modulo `SeqSpace` and compared as the code
compares (`Newer`: the sign of the 16-bit difference). An LSU carries one TTL: the code
takes one from that of the IP header (64, `DEFAULT_TTL`) and one from that of the LSU (255)
at each router that forwards it (`Onward`), so the first is what stops it. `Crash`, `Restart`, `Cut` and
`Mend` are the environment. The routing table is represented by what it was last
computed from (`View`), so that a stale table is seen as such; `Routes` has the rest.

Not in it: packets that are dropped because the routing table or the ARP cache has no
answer at that moment, several neighbours on one interface, and the races between the
threads of one router, which all touch shared lists without a common lock.

### Routes

`Rebuilt` is `mospf_update_rtable`: `Nodes` and `Edges` from the database list,
`Dijkstra` round by round with the code's order of ties (`Nearest`), `FirstHop`,
`FindRidIp`, first entry of a network wins. The loops of the code are functions along
the list or the rounds, which the proofs can follow. Every network has a mask of its own
length, so that the longest prefix match finds the one entry. `Learn` is the first LSU of
another router arriving; who learns of whom in which order is free, but an LSU is flooded
along links, so only routers that there is a way to are heard of (`Reachable`).

### SiteMeasurement, MeasureSites, SiteCleaning

`SiteMeasurement` follows `measure_target`: `CurlHttps`, `CurlHttp` (only after a failure,
and `UseFallback` decides which row stays), `Ping`, `Geography`, and `WorkerFails` for an
exception anywhere. What curl writes is any record of times in the order in which curl
fills them; `CurlResult` is the arithmetic of `curl_measurement`, with its differences and
the error it derives. `Clean` is the verdict of `clean_results.py` on the row, so that the
properties relate the two programs. `heard` remembers the addresses transfers reached.

In `MeasureSites` a row is its domain and whether the line is the one that was written.
`Start` is everything up to the submissions: the list, `--limit`, `--no-resume`, the domains
already in the file. `Take` and `Measure` are a worker, `Collect` one turn of the
`as_completed` loop, `Finish` the end of it. `Interrupt` (Ctrl-C) and `CollectCut` (a write
the disk takes a part of: up to the rank, the domain, after it, nothing, or late with the
closing of the file) leave the pool through `Drained`; `Kill` leaves the file only. `Put`
says what a row becomes behind a line without an end. Of a header that was cut the model
knows whether it still names the column of the domain (`named`), in which case the next run
skips the domains it finds, or not.

`SiteCleaning` has one action per sieve, `Structure`, `Geo` and `Trim`, and one per file
written, `WriteKept` and `WriteRefused`, either of which may fail at a row with extra
fields. Rows are referred to by their place in the input. `Percentile` is the interpolation
of the code, in hundredths so that it stays whole.

### BufferbloatLab, RttMonitor, IperfPump, ExperimentClock

A script is the sequence of its calls (`Reproduce`, `Mitigate`), with the calls of
`start_iperf_logged` and `start_rtt_monitor_logged` in place of those they replace; `pc` is
the next call, and there is one action per call. A call in `Raises` may raise
(`ScriptRaises`), which `run_experiment` catches. A process opens its file by itself
(`Open`), late if need be, in the directory that then has its name. `Exit` is what
`multiprocessing` does at the end, after `TerminateDaemons` has ended the daemons: other
children are joined, so the driver waits for a monitor that nobody stopped.

`RttMonitor` counts time in steps in which at most one probe is sent. `Probe` is
`_rtt_probe_ok`; `Spawn`, `InstallHandler` are the steps between which a SIGTERM
(`Terminate`) finds the monitor without its handler. The path keeps order and loses
what it likes. `Stamp` is arrival less round trip. In `IperfPump` a line of iperf is a
record of its numbers, its units, and whether its numbers are numbers; the pump reads
on after a bad line and ends with a failed write. In `ExperimentClock` time zero is the
moment the phases are counted from, `Error` is how far the first row of iperf is from
it, and a backfill is the three steps `Backfill` (the file is emptied), `WriteT0` and
`WriteSource`, cut by `Interrupted` anywhere between them. The number itself is one write of
18 bytes into an empty file, which is there or not.

### LabSeries, LabPlots, CompareRuns

`LabSeries` holds the functions as operators: the readers and what each does with a line
cut short (`ReadMatched` and `ReadRates` skip it, `ReadByColumns` keeps its time), `LoadQueue`,
`ReadT0`, `MarkGaps`, `BreakGaps`, `ResolveSegments`, rolling medians, phases. A time is in hundredths
of a second and `None` stands for what is missing. `LabPlots` is `main` of the two plot
scripts, an action per figure; a figure is the curves it gets (which steps are drawn in
the colour of the curve, which as gaps, whether it has a label) and the limits of its
panels. `CompareRuns` fills one table per algorithm, then the figures, then writes the
report, and stops where Python raises. `--gap-threshold` has its default, automatic.

### LatencyStudy, BufferbloatStudy

The programs of a study share files only and are started by hand, one at a time; the
recorders share with the driver the signal that stops them, which they may get at any
moment. So a study is its parts side by side: `part` names the one at work, and the
others keep the values they started with. Each part has its own hazards and none needs
the intermediate states of another; their interfaces, a row, a file, a directory, are the
inputs the next part is given. `BufferbloatStudy` reads its rows and files through
`LabSeries` in all parts, so that what `ExperimentClock` leaves in a directory is read by the
same `ReadT0` that the plots and tables use.

## 3. The runs

| Run | Instance | Shows |
|---|---|---|
| `arp_safety` | 2 senders and the sweeper, 2 slots, 2 hosts, 2 packets and their errors, 2 retries, lag 1 | packets, requests and mappings are conserved and unique; only announced MACs are used; given up only after asking; forgotten only when old or full; implements `PacketDelivery` |
| `arp_liveness` | the same with one slot and one retry, fair | every waiting packet is resolved, old mappings go |
| `arp_five_requests` | as `arp_safety` | violation: six requests go out where the comment says five (see 6) |
| `stp_triangle` | 3 switches in a cycle, hello while at most 6 BPDUs are in flight | roles, roots and claims agree in every interleaving; quiet means tree |
| `stp_ring` | the ring of the lab, at most 4 in flight | quiet means exactly the tree, with the one alternate port |
| `stp_converges` | 3 switches with crossed parallel links, fair | the tree is reached and kept |
| `mospf_settles` | 3 routers in a line, any 2 failures | all is right again 9 seconds after the last failure, which is the least the theorem allows |
| `mospf_flood` | 3 routers in a cycle, 1 failure at any moment, fair | every flood ends |
| `mospf_routes` | the lab's 4 routers, four networks, in one of which r1 is cut off, all orders of learning | complete tables are the shortest paths to what can be reached; host packets never loop |
| `latency_study` | 3 domains in a list of 7 lines, 2 workers, every cut, one bad line; 3 times and 3 codes; files of up to 3 rows of 8 kinds, all options | one row per domain and none missing while no line is cut, whole rows survive, runs end; kept rows hide no failure, the fallback keeps the address; the clean file adds up |
| `bufferbloat_study` | five batches in which the client or the bandwidth changes may raise; 5 moments of the monitor; up to 5 lines of iperf; 2 experiments of a directory; files of up to 5 samples | leftovers are reported and the driver ends; records are in order and complete; a measured zero stays; figures and tables account for each sample |
| `pumps_named` | one reproduction | violation: the pumps are summarized under each other's names (see 6) |

Bounds and why they suffice.

* Two slots are enough for a free, a matching and a full table, which are the three
  cases of `arpcache_insert`; with one slot the two hosts evict each other. Two
  packets to one hop share a request, and one of them has no way back for its error.
  Two threads that send plus the sweeper are the kinds of threads there are.
* Three switches give crossing BPDUs around a cycle. The ring is the lab's own
  topology; the parallel links make port numbers decide. `MaxInFlight` says that
  hellos, two seconds apart, do not outrun messages that take microseconds; with 6,
  all three switches can have fired at once in the triangle.
* The timers of `Mospf` are 1, 4 and 6 seconds instead of 5, 30 and 40, and keep the
  code's order: a neighbour dies (3 hellos) before the next LSU, an entry lives for
  more than one LSU and a hello (`TimersInOrder` in `MospfProofs`), and for less than two. Two failures give crash and restart, cut and
  mend, a failure during the repair of another. Sequence numbers modulo 8 wrap within
  the horizon. The TTL is 2 in `mospf_settles`, which is just enough for three routers in a
  line: with 1 the run finds ends that never hear of each other. In `mospf_flood` it is the
  code's 64, so that it is the refusal of known numbers that ends the floods. Horizon 9 is the smallest that holds: with 8 the run finds a restarted
  router that is still refused. `NetworksSettle` says where it comes from: more than
  LSUINT * (DBTIMEOUT div LSUINT) + LSUINT seconds, which is 4 * 1 + 4 here and
  30 * 1 + 30 for the code's values, so that a network of the lab is right again 61
  seconds after the last failure.
* Two workers and three domains: one is written while one is being measured and one
  waits. The list repeats a domain and has each kind of line that is skipped, so that
  `--limit` counts what it should. `MaxBadLines` 1 is a disk that was full once; a file of
  more than `MaxLines` lines is not resumed, which leaves room for each domain and for the
  lines of a measurement repeated after a cut. Times 0 to 2 have zero, equal and different
  times; the codes are one kept, one refused and none.
* Three rows give a percentile between two ranks and one on a rank, ties, and a metric
  that is high in one row only; there is a row for each reason to refuse.
* The five batches are a reproduction with one algorithm, an algorithm named twice (two
  experiments of one directory), the same with `--keep-old`, a reproduction alone, and an
  empty plan. The calls
  that raise are the one between the processes (`client`) and the one between monitor and
  stop (`dynamic_bw`).
* Five moments let a first probe fail four times, a probe be lost, overtake or be on its
  way when SIGTERM comes. Outputs of iperf have one to four intervals and a summary, any
  subset of them spoilt, and the text of the program's own self test.
* The files are chosen for the branches of the readers: steady, one gap, two gaps, a first
  sample that stands alone, out of order, cut in the last line, empty, missing; cuts that
  start at zero, overlap, touch or run backwards; samples at the ends of phases, before
  zero and after the minute; a queue whose samples carry one time, which the window of
  `compare_runs.py` divides by.
* The programs of the two studies end, so their runs do not check deadlock; `RunEnds` and
  `DriverEnds` say how they end.
* `Settle` ends behaviours, so the two `Mospf` runs and `Routes`, where learning ends,
  do not check deadlock either. All other runs do.

Fairness. `ArpCache`: the threads and the clock run (weak fairness); no neighbour has
to answer. `Stp`: every switch is started and reads its ports (weak); the hello timer
is strongly fair because the bound on messages in flight, not the code, disables it
again and again, while `stp_timer_routine` fires a due timer within 100 us. `Mospf`:
some thread or handler with work to do proceeds (weak fairness of `Work` as a whole).
`MeasureSites`: workers and the collecting loop go on, since every transfer and every ping
has a timeout; nobody has to interrupt. `BufferbloatLab`: the driver goes on, since its only
wait without an end is the one for its children at exit; the iperf server need not listen
and the client need not end. This takes for granted that a command the driver gives to a
Mininet node returns: the monitors share the shells of the nodes with it, and what two
users of one shell do to each other is not modelled. The other parts of the studies need no fairness: their
properties are about every state and step.

Each property has a mutant, a wrong version of one definition that stands beside it
in the module under a comment "Mutant", for which the same run finds the property
violated.

## 4. What is proved

The theorems hold for all values of the constants that satisfy the assumptions of the
modules: any number of threads, packets and slots (`ConstantsAssumption`); any topology of
point-to-point links (`TopologyAssumption`), connected where the tree is concerned
(`PathAssumption`); any network of routers, all timers and any number of failures
(`MospfAssumption`; the three theorems on what happens in time need `TimersInOrder` and
`FloodsReach` besides, see below); any finite set of routers and any links between them (`GraphsAssumption`); any batch of experiments and any set of calls that raise
(`OptionsAssumption` and those beside it), any length of a measurement and any error of the
rows of iperf (`RecordersAssumption`); any output of an iperf that reports interval after
interval and at the end perhaps their sum (`OutputsAssumption`, see below); files of any
content (`InputsAssumption` of `LabPlots` and of `CompareRuns`: rows of numbers, whatever numbers,
and any options of the scripts), whose first samples are finitely many
(`FirstSamplesAssumption`); any list of sites, any number of workers and
any set of ways in which a write can be cut (`SitesAssumption` and those beside it); any
set of times with zero in it (`TimesAssumption`, a hypothesis of the theorems of
`SiteMeasurementProofs`).

`ArpCache`. The invariant `ArpInv` joins type correctness with
`Exclusive` (a packet is in exactly one of the six places), `Once` (within a place,
in one thread's hands, on one request, sent with one MAC), `UniqueRequest`,
`DrainOnly` (a timeout list exists only while the sweeper drains it, so that the next
sweep cannot overwrite it) and `Routed` (mappings are as announced, a packet waits for
the next hop of the header it carries now). `OneOwner` and `RightNeighbour` alone are
not inductive: the first needs to know that the sweeper's list is empty when it is
replaced, the second that a looked-up MAC belongs to the hop of the packet that holds
it. From it: `TypeCorrect`, `OneRequestPerHop`, `OneMappingPerAddress`,
`EveryPacketOwnedOnce`, `SentToItsNextHop`, `ForgetsOnlyWhenOldOrFull`. With
`Counted` (a request was broadcast at least as often as it was retried)
`GivesUpOnlyAfterAsking`. `ImplementsDelivery` is the refinement: under the mapping of
in-hand, queued and doomed packets to `waiting`, every step is a step of
`PacketDelivery` or a stutter.

`Routes`. `RoutesAreShortest` is the correctness of `mospf_update_rtable` in any network: the table
of a router that has heard of all it can reach has the networks that can be reached, each by
a neighbour one step closer to it. `SearchInv` is the invariant of the rounds of `Dijkstra`: what
is visited has its final distance and is no farther than what is not, a finite distance is
one more than that of the predecessor along an edge of the database, and nothing next to a
visited node is more than one step beyond it. From it `FoundIsNear` and `NearIsFound`: what is
found at distance d is d links away, and whatever is d links away is found no farther.
`FirstHopLeadsOn` is about the loop that follows `prev`: it ends at a neighbour, and the node is
one step closer to that neighbour. `RoutesInv` says that a database has the LSAs of routers
that can be reached, each once, and that the table is what was rebuilt from it; where it is
complete its edges are the links (`CompleteKnowsLinks`). `SettledRoutesDoNotLoop` follows: once all
databases are complete each hop is one link closer, so no packet goes round, in any network
and wherever it is sent.

`Stp`. The invariant adds to the checked properties that a switch that is not up has
never heard anything and that what a port or a link holds came from the peer. From it:
`RootOrRootPort`, `HellosComeFromRoots`, `ClaimsFollowBelief` (designated ports claim
what the switch believes now; no port keeps a vector that the switch beats),
`CostsAreReal` (no belief, vector or BPDU ever has a cost below the true distance to
its root, which needs the triangle inequality assumed of `Dist`), and
`KnowledgeOnlyImproves`, the action property.

`QuietNetworksAreTrees` says that a network in which nothing is in flight and one switch
sends hellos has built its tree. `TreeInv` therefore has to account for every link whose
ends disagree: `LinksAgree` says that a BPDU is on its way between them, or that one end is
a root the other has not heard of, or that has not heard of a better one (a `Stranger`).
That is inductive only with `LastIsCurrent` (the newest BPDU on a link is what the port it
left still claims, so that taking it leaves the ends in agreement), with `PortsAreSound` and
`BpdusAreSound` (what is heard is no better than what the other end knows, and is about
a root that was started), and with `RootPortIsBest`. `StepImproves` is the lemma under all
of them. From agreement on every link to the tree the argument goes along least paths,
by the least distance at which a switch could be wrong. For that `PathAssumption` says of
the constant `Dist` what makes it the distance in the topology: from every switch to every
other, some port is the first on a path of that length.

`Mospf`. `MospfInv` is type correctness with `DownIsEmpty` (a second passes when the timers
of running routers are positive, which says nothing of what a stopped one would have left
behind), `RoutesFollowDatabase` and the contents of lists, databases and packets: links that are
in the network. From it `DaemonTypeCorrect`, `StoppedDaemonIsEmpty`, `TableFollowsDatabase`
(every change of the database is followed by a rebuilt table in the same handler; the
neighbours the table was computed for may be old, which is the code's way) and
`RoutesUseRealLinks`. `NumbersNameLinks` is `SeqNamesLinks` under the hypothesis `[]NoWrap`: no
router has come to the last of its 2^16 numbers. It cannot do without: past that, an old
LSU may carry a number that is used again, and only the timers (an entry dies after 40
seconds, a router sends every 30) keep the two apart, which is what `mospf_settles` checks
with eight numbers. `SeqInv` strengthens it: nothing in a database or in flight
carries a number its origin has not reached yet.

The other theorems on `Mospf` are about time. `NeighboursGetSettled` needs no hypothesis:
`HelloInv` counts for every link the seconds to the next hello against the life that is left
in the list of the receiver, so that 3 * HELLOINT + 1 seconds after the last failure the lists
are the links that are there (`NeighboursSettled`). The three that follow assume
`TimersInOrder` (3 * HELLOINT < LSUINT and LSUINT + HELLOINT <= DBTIMEOUT: 15 < 30 and
35 <= 40 in the code, 3 < 4 and 5 <= 6 in the run), `FloodsReach` (there are at most
`DEFAULT_TTL` + 1 routers: 65 in the code, 3 in the run) and `[]LowNumbers`: no router comes to
the second half of its 2^16 numbers, so that `Newer` compares as integers do. A router that
announces itself every 30 seconds comes there after eleven days.

`FloodsReach` counts routers and not hops between them: the copy of an LSU that comes first
need not have taken the shortest way, and it is the one that is forwarded. It is for
`HopsInv`: the TTL of a copy in flight and the number of routers that have stored what it
says, or later news, within this second are together at least `DEFAULT_TTL`, since a router
forwards what it has just stored and stores it once. So a copy that reaches a router to
which it is new, while it is new to yet another, may still be forwarded (`LastHop`). Without
this a flood could end at the last router that is allowed to send it on, and the entries
behind it would not be renewed.

* `EntriesOutliveTheirTimeout` is `ExpiresOnlyAfterFailure`. An entry is `Fresh` when it was accepted
  since the last failure; `AliveInv` says how much life a fresh entry has left, by how long ago
  its origin sent its last LSU. That LSU renews all fresh entries within a second: `SpreadInv`
  says that between two routers with a link, the one that says what o says has been heard by
  the other, or a packet that will be accepted is on its way (a flood has no holes), and
  `ChainInv` that every router with a fresh entry of o is joined to o by such routers. That the
  packet will be accepted is `NewerInv`; that it comes from a router that runs, over a router
  that has just accepted it, and lists the neighbours of now, is `FlightInv`.
* `CalmNetworksConverge` says that from LastOld + LSUINT seconds after the last failure on
  the network has converged, where `LastOld` is LSUINT * (DBTIMEOUT div LSUINT). What delays it
  is the restarted router that numbers from 0. By `NumbersInv` an entry with a number its origin has
  not reached is older than its origin has run, and a running router sends at multiples of LSUINT: the
  last multiple at which an entry can be that old is `LastOld`. Whoever hears o later
  believes it (`Listens`), every router sends once in the LSUINT seconds that follow, and
  what it sends reaches all of `Reached(o)` (`HeardInv`). For this `Reached`, a recursion over the
  number of routers, is shown to be the least set that is closed under links
  (`ReachedIsClosed`, by counting: a ball that is not closed has a router more than the one
  before; `ReachedIsLeast`), which is where the network has to be finite, and to be symmetric
  (`ReachedBothWays`). In the other direction, `ChainInv` with `Reached(o)` for the
  routers in between says that nobody else has an entry of o. `TablesInv` adds that a table computed after
  the neighbours were settled is up to date, although `NbrTimeout` leaves it alone.
* `NetworksSettle` is `SettlesInTime` for every horizon beyond that.

Each part of the invariant is shown for six kinds of steps (`StepKinds`: nothing needed is lost,
a router announces itself, an LSU is accepted, entries expire, a second passes, something
fails), into which each action is put once.

`MeasureSites`. `DiskInv` adds to the types that a line without an end was cut, so that only a
row that is not whole is ever written into: from it `WholeRowsStay`, the action property,
whatever was cut. `RunInv` joins to it `NoneMissing`, which holds while the file is
`Undamaged`. `OneRowPerDomain` is not inductive without `InFlightIsApart` (what is queued,
being measured and ready are disjoint, and none of it is in the file), `CompleteWhenDone` not
without `NoneIsLost` (each target of a run that is collecting is in one of them or in the
file). From it `NeverMeasuredTwice` and `ResumedRunIsComplete`.

`SiteMeasurement`. Cleaning never reads the column `error`, so `KeptRowsAreClean` rests on
`MeasurementInv`: whatever notes an error leaves a metric of its own empty
(`ErrorsEmptyMetrics`), and cleaning keeps full rows only. `FallbackKeepsAddress` rests on
`AddressInv`: a row without an address means that no transfer had one. Together they are `MeasurementIsHonest`.

`LatencyStudy`. `StudyImplementsItsParts`: each step of the study is a step of one part and a
stutter of the others. By it the theorems on the parts become theorems on the study,
`MeasurementStaysHonest` and `StudyKeepsTheFile`, and with the types of `SiteCleaning` also
`StudyTypesCorrect`.

`SiteCleaning`. `CleaningIsSound` is `CleanFileIsSound` for any results file. `CleanInv` says of the two
lists that together they have each row of the input once, that the kept rows are in the
order of the input and have passed the checks that are behind them; for this `ListsProofs`
shows what a sieve leaves of a list (`SiftedSound`, `SiftedDivides`, `SiftedInOrder`), by induction
along the list. The trim is a matter of counting: a value stands at place k of a list
in order when at most k values are below it and more than k are not above it
(`OrderedIsThere`, `OrderedRises`), so the percentile lies between two neighbours, rises with the
percentage (`PercentileRises`: no row that a milder trim takes is kept by a harsher one) and
has no more values above it than the percentage says (`FewAreAbove`).

`BufferbloatLab`. `NothingLeaksSilently` holds because every script is a `SoundScript`: it stops what
it starts after it starts it and ends with `stop_iperf`, so that what still runs has
its stop ahead of it (`StillToStop`) or was left by an experiment that raised
(`LeakIsReported`). `Stages` ties the list of return codes to the experiment that is at
work, `WaitedForServer` the client to the wait before it, `TwoPumps` the pumps to the calls,
and `DirsAreOwned` files to experiments: an old process writes into a new directory only if it
outlived its own experiment, which then failed.

`RttMonitor`. `RttIsFaithful` needs of the path between the probes that it keeps order: `SentInOrder`
says that what is written, answered, on its way back and on its way out are times in
this order. `PingIsHeld` says who holds the process ping at each step of the start, which
is what a SIGTERM at that step leaves behind.

`ExperimentClock`. `ClockInv` follows a backfill through its three writes: between them `t0.txt` is
empty, and what the job will write is an estimate within the error. From it
`ZeroStaysClose` and, as an action property, `MeasuredZeroIsKept`.

`IperfPump`. `PumpInv` is about the lines that were read: the file has the rows of those of them
that parse, in order, the errors count the rest, and intervals and summary are the rows of one
kind. What `IntervalsTile` and the self-test add is about the whole output, so they need to
know what iperf prints: any other lines anywhere between (headers, refusals), intervals of a second each that
begin where the last one ended, and after them, if the client came to its end, one report
from the start of the first to the end of the last. Lines may be spoilt in any way.
Then a file without errors, whose summary was seen, has intervals that tile the time of the
summary (`PumpTiles`), and `SELFTEST_SAMPLE` gives what `selftest` expects (`PumpPasses`). Nothing is
assumed of the place where a write fails. With `RttInv` and `ClockInv` it is `RecordsStayFaithful`.

`CompareRuns`. `TablesAlwaysAddUp` is about reports without `--no-t0` (with it the tables do not
count as the option promises, see 6), and a matter of counting. A phase takes the samples that lie in it
(`PhaseTakes`), adjoining spans add (`SpansAdd`, `SixPhases`: the six phases share out the minute, with
each sample on a border in the later one), and the value at place 95n div 100 of n in order
has at least 95 of 100 not above it (`NinetyFiveReached`). `TableInv` says of each cell of the
tables that it was made from the files of its run and its algorithm.

`LabPlots`. `FiguresStayTrue` is `FiguresShowTheData` for any files, any cuts and any limit of a gap. Under it
are facts about lists, shown by induction along the list. `GapsAreMarked`: the own line of a
curve and its dotted line share out the steps between neighbours, and the dotted ones are exactly
those wider than the threshold. `GapsAreBroken`: `break_gaps` leaves no two neighbours farther apart than
the limit. `CutsAreKept`: half a unit beside the edges, a value is in one of the segments that
are left exactly when it is in no cut; it is inductive only with `KeptOK`, which says how far the
walk over the sorted cuts has come (`CutsAreInOrder`, `KeepKeeps`), and gives `AxisDivides`. The
panels are not the segments, for one that is alone is drawn from zero. What is left to say is
`PanelsShowSegments`: what is in a segment is on a panel, and of several panels none shows
anything else.
`TimesAreOrdered` is `OrderedRises` again, for a stable sort (`Arranged`). `FigInv` says of each figure
that was made that it has a panel and that its curves keep all this (`FigureOK`), that
no figure is made twice, and that a script that raised had a reason in its files (`Reason`).

`BufferbloatStudy`. `LabTypesCorrect` joins the invariants of the six parts with `ClockTypes`. A zero that
was written is an estimate or a first sample; that needs the first samples to be finitely
many, since the least of infinitely many need not be one.

The proofs have a lemma per action, each with the conjuncts that it can disturb, and
the temporal theorems combine them.

## 5. Only model-checked

Liveness (`EveryPacketResolved`, `OldMappingGoes`, `Converges`, `FloodEnds`, `RunEnds`,
`DriverEnds`): the prover has no rules for fairness that could be used here.

`SettlesInTime` and `ExpiresOnlyAfterFailure` of `Mospf` where sequence numbers wrap: the theorems stop
at half of them, the run goes through all of its eight.

`HostPacketsDoNotLoop` of `Routes` is about the time while databases are not complete
and differ from router to router. It is a property of networks like the lab's and no theorem:
in a ring of five it fails (see 6).

## 6. What the models say about the code

* `arpcache.c:203`, finding `arp_five_requests`. The comment on `arpcache_sweep`
  speaks of 5 requests; the one that `arpcache_append_packet` sends is not counted, so
  a packet is given up after 6.
* A packet whose error is addressed to the router itself starts an endless sequence of
  ICMP errors, each of which is sent by ARP, waits in vain, and begets the next
  (`MCArpCache`, header "self"). `EveryPacketResolved` excludes it by name.
* STP does not age vectors. Between running switches the model's links lose nothing;
  with a lost BPDU the tree is not promised.
* Packets for the network of a link between routers can go round while databases
  differ. In the lab the networks of hosts are free of it. In a ring of five routers they
  are not: a router learns of its own links from the LSUs of others only, so two
  neighbours that are both two links away from a host, and have heard of each other and
  of the router of the host, each know one way to it, through the other (`Routes` with five
  routers and `Stub` one of them shows it in four steps). It ends when they have heard of
  the rest (`SettledRoutesDoNotLoop`).
* A restarted mOSPF router is refused for as long as its old entries live. With the timers of the
  lab a network needs up to 61 seconds after a failure (`NetworksSettle`), longer than an
  entry lives.
* `run_lab.py:267`, finding `pumps_named`. `start_iperf_logged` appends the pump of the server
  first; the comment on `_PUMPS` (`run_lab.py:152`, "[0]=客户端速率, [1]=服务端(线上)速率") and the
  summary (`run_lab.py:473`) take the first for that of the client.
* `measure_websites.py:244`. A row that was cut after its domain, or inside its rank so that
  the next row is glued to it, counts as measured when the run is resumed, where the
  docstring says that "an interrupted experiment can be resumed" (`measure_websites.py:4`).
  `CompleteWhenDone` therefore speaks of an `Undamaged` file; what holds of any file is
  `WholeRowsSurvive`.

* `compare_runs.py:140` divides by the median interval of the queue, which is zero when most
  samples carry one time: the program ends before it writes its report (`WindowRaises`).

More statements of the documentation that the code does not keep stand at the end of the
modules, under "What the documentation says and the code does not do". The first five
are about what a program promises to do, the next four about what a curve or a cell means,
the last three about a number, a label and a window. The properties that are checked and
proved leave them out by their hypotheses: `AxisIsDivided` speaks of axes with several
panels, `BrokenAtMaxGap` of the two figures that are broken, `SamplesAreSharedOut` and
`P95IsReached` of reports without `--no-t0`, `ZeroIsClose` of the error of an estimate as well.

No run of the project is about these statements. Who wants to see one fail with the
constants of `BufferbloatStudy.cfg` names it there as an invariant of its part, through a
definition like `part = "figures" => Plots!CutIsNotShown` in the MC module.

| Statement | Module | Where it is said | What the code does |
|---|---|---|---|
| `CutIsNotShown` | `LabPlots` | `plot_bufferbloat.py:306` "挖掉的段完全不出现在图上" | a panel that is alone is drawn from 0, so a cut from 0 takes nothing off the axis (331; `Limits`) |
| `MaxGapBreaksEveryCurve` | `LabPlots` | `plot_bufferbloat.py:684` "相邻样本间隔超过该秒数就断开折线" | `plot_exp1` does not use `--max-gap`, `plot_exp234_zoom` does not get it (711; `PlotExp1`, `PlotZoom`) |
| `NoT0CountsFromFirst` | `CompareRuns` | `compare_runs.py:303` "退回以第一条样本为 0" | the tables are made before `read_t0` is replaced (377; `EndTables`) |
| `OthersReadNA` | `CompareRuns` | `compare_runs.py:342` "其余列为 n/a" | `read_rtt` opens a file nobody looked for and raises (78; `StatsRaise`) |
| `KeepOldKeepsMonitorFiles` | `BufferbloatLab` | `run_lab.py:601` "保留旧输出目录（默认先删掉）" | each experiment empties its directory (517; `StartExperiment`) |
| `ExactIsExact` | `ExperimentClock` | `plot_bufferbloat.py:146` "run_lab.py 在 start_rtt_monitor 时写下的精确值" | a backfill cut before its note leaves an estimate announced as exact (`backfill_t0.py:80`; `Interrupted`) |
| `ZeroIsTheEarliestSample` | `LabPlots` | `plot_bufferbloat.py:11` "三个监视器里最早的一次采样" | `t0.txt` goes first, samples before it are at negative times (414; `Exp1Zero`) |
| `SweepStartsAtZero` | `LabPlots` | `plot_exp1_sweep.py:72` "该目录里最早的样本时刻为 0" | the least first line; files can be out of order (78; `Starts`) |
| `ThroughputIsTheServers` | `CompareRuns` | `compare_runs.py:19` "服务端实际收到" | a phase without a row of the server shows the client's (88; `Throughput`) |
| `SixProbesBeforeThreads` | `RttMonitor` | `run_lab.py:399` "ping 探测 6 次均失败" | four probes (360; `Probe`) |
| `LegendNamesEveryCurve` | `LabPlots` | `plot_exp1_sweep.py:12` "另外在 legend 里标注" | a curve whose first sample stands alone has no label (`plot_bufferbloat.py:209`; `MarkGaps`) |
| `WindowIsInSamples` | `CompareRuns` | `compare_runs.py:110` "窗口=样本数" | an even window takes one sample more (117; `Window`) |

### Not modelled

`download_sites.py` (one download and a rename); colours, layout and wording of figures,
slides and drawings; the regression lines of `plot_results.py`; what tc, the queue and iperf
do with packets, and the parsing in the queue and tcp monitors of `utils.py`; two users of the
shell of one Mininet node, whose outputs are arbitrary in `RttMonitor`; and, of the C
programs, the components marked planned above and the races between the threads of the
mOSPF daemon.

## 7. Plan

Done: ARP layer with its abstract specification and proofs, STP with its proofs, the
mOSPF network with proofs of its safety and of its convergence in time, the route computation, the latency study with
proofs about its results file and its rows, the bufferbloat study with proofs about the
driver, the recorders, the clock, the figures and the tables, and proofs about the route computation and
the cleaning of results.

Next, in this order:

1. `MospfThreads`: one router's threads and receive loop step by step: the unlocked
   `sequence_num`, neighbour lists, database and routing table; which accesses can
   meet, what an LSU then says, and which packets meet a half-built table.
2. `HttpsServer`: the connection automaton against an abstract "header, then exactly
   the promised bytes, or the connection closes"; fairness of the 64 KB quantum;
   `SelectRange` as an operator against the set of byte positions it should name.
3. `MacTable`: the learning switch under a lock with sweeper and hosts that move, and
   its proofs; the hub's ring as the network in which a frame never dies.
4. `Forwarding`: TTL, longest prefix match against its definition, ICMP errors,
   composed with `ArpCache` to replace its constants `Via` and `Error`.
5. Proofs: `MacTable`,
   `HttpsServer` safety and refinement.
