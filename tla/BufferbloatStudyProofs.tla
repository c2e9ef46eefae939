----------------------- MODULE BufferbloatStudyProofs -----------------------
(***************************************************************************)
(* Safety of the parts of BufferbloatStudy for every batch of experiments, *)
(* every set of calls that may raise, every output of iperf, every length  *)
(* of a measurement, every number of runs of a directory and all files the *)
(* figures and the tables are made of: of the driver, of the recorders of  *)
(* the round trip time and of the throughput, of the zero of an            *)
(* experiment's clock, of the figures and of the tables.  Each has an      *)
(* inductive invariant, and a step of the study is a step of one part.     *)
(***************************************************************************)
EXTENDS BufferbloatStudy, ListsProofs

-----------------------------------------------------------------------------
\* The driver.

\* The call that ends what a call has started.
StopperOf ==
    [rtt |-> "stop_rtt", cwnd |-> "stop_cwnd", qlen |-> "stop_qlen",
     server |-> "stop_iperf", client |-> "stop_iperf", extras |-> "stop_iperf"]

\* A script ends with stop_iperf, stops what it starts after it started it, and
\* starts the client after it waited for the server.
SoundScript(s) ==
    /\ Len(s) \in Nat \ {0}
    /\ \A i \in 1..Len(s) : s[i] = "stop_iperf" <=> i = Len(s)
    /\ \A i \in 1..Len(s) : s[i] \in Kinds =>
          \E j \in (i + 1)..Len(s) : s[j] = StopperOf[s[i]]
    /\ \E i \in 1..Len(s) : s[i] = "wait_server"
    /\ \A i, j \in 1..Len(s) : s[i] = "wait_server" /\ s[j] = "client" => i < j
    /\ \A i, j \in 1..Len(s) : s[i] = "wait_server" /\ s[j] = "wait_server" => i = j
    /\ \A i, j \in 1..Len(s) : s[i] \in Iperf /\ s[j] = "server" => j <= i
    /\ \A i, j \in 1..Len(s) : s[i] = "client" /\ s[j] = "client" => i = j

LEMMA ReproduceIsSound == SoundScript(Reproduce)
<1>1. /\ Len(Reproduce) = 13
      /\ Reproduce[1] = "cwnd" /\ Reproduce[2] = "qlen" /\ Reproduce[3] = "rtt"
      /\ Reproduce[4] = "t0" /\ Reproduce[5] = "server" /\ Reproduce[6] = "wait_server"
      /\ Reproduce[7] = "extras" /\ Reproduce[8] = "client" /\ Reproduce[9] = "sleep"
      /\ Reproduce[10] = "stop_cwnd" /\ Reproduce[11] = "stop_qlen"
      /\ Reproduce[12] = "stop_rtt" /\ Reproduce[13] = "stop_iperf"
    BY DEF Reproduce
<1>2. \A i \in 1..13 : Reproduce[i] = "stop_iperf" <=> i = 13
    BY <1>1
<1>3. \A i \in 1..13 : Reproduce[i] = "wait_server" <=> i = 6
    BY <1>1
<1>4. \A i \in 1..13 : Reproduce[i] = "client" <=> i = 8
    BY <1>1
<1>5. \A i \in 1..13 : Reproduce[i] = "server" <=> i = 5
    BY <1>1
<1>6. ASSUME NEW i \in 1..13, Reproduce[i] \in Kinds
      PROVE  \E j \in (i + 1)..13 : Reproduce[j] = StopperOf[Reproduce[i]]
  <2>1. i \in {1, 2, 3, 5, 7, 8}
      BY <1>1, <1>6 DEF Kinds, Monitors, Iperf
  <2>2. CASE i = 1
      BY <2>2, <1>1 DEF StopperOf
  <2>3. CASE i = 2
      BY <2>3, <1>1 DEF StopperOf
  <2>4. CASE i = 3
      BY <2>4, <1>1 DEF StopperOf
  <2>5. CASE i \in {5, 7, 8}
      BY <2>5, <1>1 DEF StopperOf
  <2> QED BY <2>1, <2>2, <2>3, <2>4, <2>5
<1> QED BY <1>1, <1>2, <1>3, <1>4, <1>5, <1>6 DEF SoundScript, Iperf

LEMMA MitigateIsSound == SoundScript(Mitigate)
<1>1. /\ Len(Mitigate) = 10
      /\ Mitigate[1] = "set_qdisc" /\ Mitigate[2] = "server" /\ Mitigate[3] = "wait_server"
      /\ Mitigate[4] = "extras" /\ Mitigate[5] = "client" /\ Mitigate[6] = "rtt"
      /\ Mitigate[7] = "t0" /\ Mitigate[8] = "dynamic_bw"
      /\ Mitigate[9] = "stop_rtt" /\ Mitigate[10] = "stop_iperf"
    BY DEF Mitigate
<1>2. \A i \in 1..10 : Mitigate[i] = "stop_iperf" <=> i = 10
    BY <1>1
<1>3. \A i \in 1..10 : Mitigate[i] = "wait_server" <=> i = 3
    BY <1>1
<1>4. \A i \in 1..10 : Mitigate[i] = "client" <=> i = 5
    BY <1>1
<1>5. \A i \in 1..10 : Mitigate[i] = "server" <=> i = 2
    BY <1>1
<1>6. ASSUME NEW i \in 1..10, Mitigate[i] \in Kinds
      PROVE  \E j \in (i + 1)..10 : Mitigate[j] = StopperOf[Mitigate[i]]
  <2>1. i \in {2, 4, 5, 6}
      BY <1>1, <1>6 DEF Kinds, Monitors, Iperf
  <2>2. CASE i = 6
      BY <2>2, <1>1 DEF StopperOf
  <2>3. CASE i \in {2, 4, 5}
      BY <2>3, <1>1 DEF StopperOf
  <2> QED BY <2>1, <2>2, <2>3
<1> QED BY <1>1, <1>2, <1>3, <1>4, <1>5, <1>6 DEF SoundScript, Iperf

LEMMA ScriptsAreSound == \A name : SoundScript(Script(name))
    BY ReproduceIsSound, MitigateIsSound DEF Script

\* The plan is a sequence of scripts and directories.
LEMMA PlanIsSeq ==
    ASSUME opts \in Options
    PROVE  /\ Plan \in Seq([script : {"reproduce", "mitigate"}, dir : Dir])
           /\ Len(Plan) \in Nat
           /\ \A i \in 1..Len(Plan) : Plan[i].dir \in Dir
<1> DEFINE E == [script : {"reproduce", "mitigate"}, dir : Dir]
           a == IF opts.skipReproduce THEN <<>> ELSE <<[script |-> "reproduce", dir |-> "qlen"]>>
           b == [i \in DOMAIN opts.algos |-> [script |-> "mitigate", dir |-> opts.algos[i]]]
<1>1. a \in Seq(E)
  <2>1. [script |-> "reproduce", dir |-> "qlen"] \in E
      BY DEF Dir
  <2> HIDE DEF E
  <2>2. CASE opts.skipReproduce
      BY <2>2
  <2>3. CASE ~opts.skipReproduce
      BY <2>1, <2>3
  <2> QED BY <2>2, <2>3
<1>2. b \in Seq(E)
  <2>1. opts.algos \in Seq(Algos)
      BY OptionsAssumption
  <2>2. DOMAIN opts.algos = 1..Len(opts.algos) /\ Len(opts.algos) \in Nat
      BY <2>1
  <2>3. \A i \in 1..Len(opts.algos) : opts.algos[i] \in Dir
      BY <2>1 DEF Dir
  <2> QED BY <2>2, <2>3
<1>3. Plan = a \o b
    BY DEF Plan
<1> HIDE DEF a, b, E
<1>4. Plan \in Seq(E)
    BY <1>1, <1>2, <1>3
<1>5. Len(Plan) \in Nat /\ \A i \in 1..Len(Plan) : Plan[i] \in E
    BY <1>4
<1>6. \A i \in 1..Len(Plan) : Plan[i].dir \in Dir
    BY <1>5 DEF E
<1> QED BY <1>4, <1>5, <1>6 DEF E

-----------------------------------------------------------------------------
\* The calls of the experiment that runs, and the experiments that have been started.
Calls == Script(Plan[cur].script)
Started(n) == n < cur \/ (n = cur /\ stage \in {"script", "join"})

LabTypes ==
    /\ opts \in Options
    /\ stage \in {"start", "script", "join", "exit", "ended"}
    /\ cur \in 1..(Len(Plan) + 1)
    /\ pc \in Nat \ {0}
    /\ rcs \in Seq({0, 1})
    /\ procs \subseteq [kind : Kinds, exp : 1..Len(Plan), opened : BOOLEAN]
    /\ listening \in BOOLEAN
    /\ waited \in {"no", "seen", "timeout"}
    /\ client \in {"none", "connected", "refused"}
    /\ pumps \in Seq(Iperf)
    /\ extras \subseteq 1..Len(Plan)
    /\ dirs \in [Dir -> SUBSET [file : Kinds \cup {"t0"}, exp : 0..Len(Plan)]]

\* Where the driver is, and the return codes there are by then.
Stages ==
    /\ stage = "start" => Len(rcs) = cur - 1 /\ (cur <= Len(Plan) \/ Len(Plan) = 0)
    /\ stage = "script" => cur <= Len(Plan) /\ Len(rcs) = cur - 1 /\ pc <= Len(Calls) + 1
    /\ stage = "join" => /\ cur <= Len(Plan) /\ Len(rcs) = cur /\ pc <= Len(Calls) + 1
                         /\ rcs[cur] = 0 => pc = Len(Calls) + 1
    /\ stage \in {"exit", "ended"} => cur = Len(Plan) + 1 /\ Len(rcs) = cur - 1

\* What a script has started it has still to stop, as long as nothing raises.
StillToStop ==
    \A p \in procs :
        /\ Started(p.exp)
        /\ p.exp = cur /\ stage = "script" =>
              /\ \E i \in pc..Len(Calls) : Calls[i] = StopperOf[p.kind]
              /\ p.kind = "extras" => cur \in extras
        /\ p.exp = cur /\ stage = "join" => rcs[cur] = 1
        /\ p.kind \in Iperf =>
              /\ stage = "script" => pc <= Len(Calls)
              /\ stage = "join" => rcs[cur] = 1

\* The client is started after the wait for the server, which is done once.
WaitedForServer ==
    /\ RefusedOnlyAfterTimeout
    /\ stage = "script" =>
          /\ waited = "no" => \E i \in pc..Len(Calls) : Calls[i] = "wait_server"
          /\ waited = "seen" => listening
          /\ client = "refused" => \A i \in pc..Len(Calls) : Calls[i] # "wait_server"

\* The server is started before the client, each once.
TwoPumps ==
    /\ Len(pumps) <= 2
    /\ stage = "script" =>
          /\ (\E i \in pc..Len(Calls) : Calls[i] = "server") => Len(pumps) = 0
          /\ (\E i \in pc..Len(Calls) : Calls[i] = "client") => Len(pumps) <= 1

\* A directory holds files of an old batch until its first experiment starts, and
\* files of an older experiment after that of a newer one if the older has failed.
DirsAreOwned ==
    \A d \in Dir : \A f \in dirs[d] :
        /\ f.exp = 0 => \A n \in 1..Len(Plan) : Started(n) => Plan[n].dir # d
        /\ f.exp > 0 => Started(f.exp) /\ Plan[f.exp].dir = d
        /\ \A n \in 1..Len(Plan) :
              0 < f.exp /\ f.exp < n /\ Started(n) /\ Plan[n].dir = d => rcs[f.exp] = 1

LabInv ==
    /\ LabTypes
    /\ Stages
    /\ LeakIsReported
    /\ StillToStop
    /\ WaitedForServer
    /\ TwoPumps
    /\ DirsAreOwned

-----------------------------------------------------------------------------
\* What steps have in common.

LEMMA PlanKept ==
    ASSUME opts' = opts
    PROVE  Plan' = Plan
    BY DEF Plan

\* A call, whatever it does: it leaves of the processes those it does not stop, and
\* may start one of its name.
LEMMA CallKeepsProcesses ==
    ASSUME LabInv, stage = "script", pc <= Len(Calls), Return,
           \A p \in procs' :
              \/ p \in procs /\ (p.exp = cur => Calls[pc] # StopperOf[p.kind])
              \/ p.exp = cur /\ p.kind \in Kinds /\ p.kind = Calls[pc],
           \A p \in procs' : p.exp = cur /\ p.kind = "extras" => cur \in extras',
           Calls[pc] = "stop_iperf" => \A p \in procs' : p.kind \notin Iperf
    PROVE  Stages' /\ LeakIsReported' /\ StillToStop' /\ Calls' = Calls
<1>1. Plan' = Plan /\ Calls' = Calls
    BY PlanKept DEF Return, Calls
<1>2. SoundScript(Calls)
    BY ScriptsAreSound DEF Calls
<1>3. /\ pc' = pc + 1 /\ cur' = cur /\ rcs' = rcs /\ stage' = stage
      /\ pc \in Nat \ {0} /\ cur \in Nat
      /\ \A p \in procs : p.exp \in Nat /\ p.kind \in Kinds
      /\ Len(Calls) \in Nat
    BY PlanIsSeq, <1>2 DEF LabInv, LabTypes, Return, SoundScript
<1>4. Stages'
    BY <1>1, <1>3 DEF LabInv, Stages
<1>5. LeakIsReported'
    BY <1>3 DEF LabInv, LeakIsReported, Old
<1>6. StillToStop'
  <2> SUFFICES ASSUME NEW p \in procs'
               PROVE  /\ Started(p.exp)'
                      /\ p.exp = cur => \E i \in (pc + 1)..Len(Calls) : Calls[i] = StopperOf[p.kind]
                      /\ p.kind \in Iperf => pc + 1 <= Len(Calls)
      BY <1>1, <1>3 DEF StillToStop
  <2>1. Started(p.exp)'
      BY <1>3 DEF LabInv, StillToStop, Started
  <2>2. p.exp = cur => \E i \in (pc + 1)..Len(Calls) : Calls[i] = StopperOf[p.kind]
    <3> SUFFICES ASSUME p.exp = cur
                 PROVE  \E i \in (pc + 1)..Len(Calls) : Calls[i] = StopperOf[p.kind]
        OBVIOUS
    <3>1. CASE p \in procs /\ Calls[pc] # StopperOf[p.kind]
      <4>1. PICK i \in pc..Len(Calls) : Calls[i] = StopperOf[p.kind]
          BY <3>1 DEF LabInv, StillToStop
      <4>2. i \in (pc + 1)..Len(Calls)
          BY <4>1, <3>1, <1>3
      <4> QED BY <4>1, <4>2
    <3>2. CASE p.kind \in Kinds /\ p.kind = Calls[pc]
        BY <3>2, <1>2, <1>3 DEF SoundScript
    <3> QED BY <3>1, <3>2
  <2>3. p.kind \in Iperf => pc + 1 <= Len(Calls)
      BY <1>2, <1>3 DEF SoundScript
  <2> QED BY <2>1, <2>2, <2>3
<1> QED BY <1>1, <1>4, <1>5, <1>6

\* A call that is not the wait.
LEMMA CallKeepsWait ==
    ASSUME LabInv, stage = "script", pc <= Len(Calls), Return, Calls' = Calls,
           Calls[pc] # "wait_server", UNCHANGED <<listening, waited, client>>
    PROVE  WaitedForServer'
<1>1. /\ pc' = pc + 1 /\ stage' = stage /\ pc \in Nat \ {0} /\ Len(Calls) \in Nat
    BY ScriptsAreSound DEF LabInv, LabTypes, Return, Calls, SoundScript
<1>2. \A i \in pc..Len(Calls) : Calls[i] = "wait_server" => i \in (pc + 1)..Len(Calls)
    BY <1>1
<1> QED BY <1>1, <1>2 DEF LabInv, WaitedForServer, RefusedOnlyAfterTimeout

\* A call that starts no pump.
LEMMA CallKeepsPumps ==
    ASSUME LabInv, stage = "script", pc <= Len(Calls), Return, Calls' = Calls, pumps' = pumps
    PROVE  TwoPumps'
<1>1. /\ pc' = pc + 1 /\ stage' = stage /\ pc \in Nat \ {0} /\ Len(Calls) \in Nat
    BY ScriptsAreSound DEF LabInv, LabTypes, Return, Calls, SoundScript
<1> QED BY <1>1 DEF LabInv, TwoPumps

\* A step that touches no file.
LEMMA DirsKept ==
    ASSUME LabInv, UNCHANGED <<opts, cur, rcs, dirs>>,
           stage' \in {"script", "join"} <=> stage \in {"script", "join"}
    PROVE  DirsAreOwned'
<1>1. Plan' = Plan
    BY PlanKept
<1>2. \A n : Started(n)' <=> Started(n)
    BY DEF Started
<1> QED BY <1>1, <1>2 DEF LabInv, DirsAreOwned

\* A file written for an experiment that runs, or that has failed.
LEMMA DirsWritten ==
    ASSUME LabInv, NEW e \in 1..Len(Plan), Started(e), e < cur => rcs[e] = 1,
           NEW name \in Kinds \cup {"t0"}, dirs' = Written(Plan[e].dir, name, e),
           UNCHANGED <<opts, cur, rcs, stage>>
    PROVE  /\ DirsAreOwned'
           /\ dirs' \in [Dir -> SUBSET [file : Kinds \cup {"t0"}, exp : 0..Len(Plan)]]
<1>1. Plan' = Plan
    BY PlanKept
<1>2. \A n : Started(n)' <=> Started(n)
    BY DEF Started
<1>3. cur \in Nat /\ Len(Plan) \in Nat /\ \A n \in 1..Len(Plan) : Plan[n].dir \in Dir
    BY PlanIsSeq DEF LabInv, LabTypes
<1> DEFINE new == [file |-> name, exp |-> e]
<1>4. new \in [file : Kinds \cup {"t0"}, exp : 0..Len(Plan)] /\ new.exp = e
    BY <1>3
<1>5. \A d \in Dir : \A f \in dirs'[d] : f \in dirs[d] \/ (d = Plan[e].dir /\ f = new)
    BY <1>3 DEF LabInv, LabTypes, Written
<1>6. dirs' \in [Dir -> SUBSET [file : Kinds \cup {"t0"}, exp : 0..Len(Plan)]]
  <2>1. dirs' = [dirs EXCEPT ![Plan[e].dir] = {f \in @ : f.file # name} \cup {new}]
      BY DEF Written
  <2> HIDE DEF new
  <2> QED BY <2>1, <1>3, <1>4 DEF LabInv, LabTypes
<1> HIDE DEF new
<1>7. DirsAreOwned'
  <2> SUFFICES ASSUME NEW d \in Dir, NEW f \in dirs'[d]
               PROVE  /\ f.exp = 0 => \A n \in 1..Len(Plan) : Started(n) => Plan[n].dir # d
                      /\ f.exp > 0 => Started(f.exp) /\ Plan[f.exp].dir = d
                      /\ \A n \in 1..Len(Plan) :
                            0 < f.exp /\ f.exp < n /\ Started(n) /\ Plan[n].dir = d
                              => rcs[f.exp] = 1
      BY <1>1, <1>2 DEF DirsAreOwned
  <2>1. CASE f \in dirs[d]
      BY <2>1 DEF LabInv, DirsAreOwned
  <2>2. CASE d = Plan[e].dir /\ f = new
    <3>1. \A n \in 1..Len(Plan) : e < n /\ Started(n) => rcs[e] = 1
        BY <1>3 DEF Started
    <3> QED BY <2>2, <3>1, <1>4
  <2> QED BY <2>1, <2>2, <1>5
<1> QED BY <1>6, <1>7

\* A process that is started.
LEMMA SpawnTyped ==
    ASSUME procs \subseteq [kind : Kinds, exp : 1..Len(Plan), opened : BOOLEAN],
           cur \in 1..Len(Plan), NEW kind \in Kinds, Spawn(kind)
    PROVE  /\ \A p \in procs' : p \in procs \/ (p.exp = cur /\ p.kind = kind)
           /\ procs' \subseteq [kind : Kinds, exp : 1..Len(Plan), opened : BOOLEAN]
<1> DEFINE new == [kind |-> kind, exp |-> cur, opened |-> FALSE]
<1>1. new \in [kind : Kinds, exp : 1..Len(Plan), opened : BOOLEAN]
    OBVIOUS
<1>2. new.kind = kind /\ new.exp = cur
    OBVIOUS
<1>3. procs' = procs \cup {new}
    BY DEF Spawn
<1> HIDE DEF new
<1> QED BY <1>1, <1>2, <1>3

-----------------------------------------------------------------------------
\* The invariant of the driver.

LEMMA LabInit == Init => LabInv
<1> SUFFICES ASSUME Init PROVE LabInv
    OBVIOUS
<1> USE DEF Init, OldFiles
<1>1. Len(Plan) \in Nat /\ Plan \in Seq([script : {"reproduce", "mitigate"}, dir : Dir])
    BY PlanIsSeq
<1>2. LabTypes
  <2>1. dirs \in [Dir -> SUBSET [file : Kinds \cup {"t0"}, exp : 0..Len(Plan)]]
      BY <1>1 DEF Kinds, Monitors, Iperf
  <2>2. cur \in 1..(Len(Plan) + 1) /\ rcs \in Seq({0, 1}) /\ pumps \in Seq(Iperf)
      BY <1>1
  <2>3. /\ procs \subseteq [kind : Kinds, exp : 1..Len(Plan), opened : BOOLEAN]
        /\ extras \subseteq 1..Len(Plan)
      OBVIOUS
  <2>4. /\ opts \in Options /\ stage = "start" /\ pc = 1 /\ listening \in BOOLEAN
        /\ waited = "no" /\ client = "none"
      OBVIOUS
  <2> HIDE DEF Init
  <2> QED BY <2>1, <2>2, <2>3, <2>4 DEF LabTypes
<1>3. Stages
    BY <1>1 DEF Stages
<1>4. LeakIsReported /\ StillToStop /\ WaitedForServer /\ TwoPumps
    BY DEF LeakIsReported, StillToStop, WaitedForServer, RefusedOnlyAfterTimeout, TwoPumps
<1>5. DirsAreOwned
  <2>1. \A d \in Dir : \A f \in dirs[d] : f.exp = 0
      OBVIOUS
  <2>2. \A n \in 1..Len(Plan) : ~Started(n)
      BY <1>1 DEF Started
  <2> QED BY <2>1, <2>2 DEF DirsAreOwned
<1> QED BY <1>2, <1>3, <1>4, <1>5 DEF LabInv

LEMMA LabStartExperiment ==
    ASSUME LabInv, StartExperiment
    PROVE  LabInv'
<1> USE DEF StartExperiment
<1>1. Plan' = Plan /\ Calls' = Calls
    BY PlanKept DEF Calls
<1>2. SoundScript(Calls)
    BY ScriptsAreSound DEF Calls
<1>3. /\ cur \in Nat /\ Len(Plan) \in Nat
      /\ \A n \in 1..Len(Plan) : Plan[n].dir \in Dir
      /\ \A p \in procs : p.exp \in Nat /\ p.exp < cur
      /\ \A n : Started(n)' <=> Started(n) \/ n = cur
    BY PlanIsSeq DEF LabInv, LabTypes, StillToStop, Started
<1>4. LabTypes'
  <2>1. dirs' \in [Dir -> SUBSET [file : Kinds \cup {"t0"}, exp : 0..Len(Plan)]]
      BY DEF LabInv, LabTypes
  <2>2. /\ pumps' \in Seq(Iperf) /\ extras' \subseteq 1..Len(Plan)
        /\ UNCHANGED <<opts, cur, rcs, procs>> /\ stage' = "script" /\ pc' = 1
        /\ waited' = "no" /\ client' = "none"
      OBVIOUS
  <2>3. listening' \in BOOLEAN
      OBVIOUS
  <2> HIDE DEF StartExperiment
  <2> QED BY <1>1, <2>1, <2>2, <2>3 DEF LabInv, LabTypes
<1>5. Stages'
    BY <1>1, <1>2 DEF LabInv, Stages, SoundScript
<1>6. LeakIsReported'
    BY DEF LabInv, LeakIsReported, Old
<1>7. StillToStop'
  <2> SUFFICES ASSUME NEW p \in procs
               PROVE  Started(p.exp)' /\ p.exp # cur /\ 1 <= Len(Calls)
      BY <1>1 DEF StillToStop
  <2> QED BY <1>2, <1>3 DEF LabInv, StillToStop, SoundScript
<1>8. WaitedForServer'
    BY <1>1, <1>2 DEF WaitedForServer, RefusedOnlyAfterTimeout, SoundScript
<1>9. TwoPumps'
    BY DEF TwoPumps
<1>10. DirsAreOwned'
  <2> SUFFICES ASSUME NEW d \in Dir, NEW f \in dirs'[d]
               PROVE  /\ f.exp = 0 => \A n \in 1..Len(Plan) : Started(n)' => Plan[n].dir # d
                      /\ f.exp > 0 => Started(f.exp)' /\ Plan[f.exp].dir = d
                      /\ \A n \in 1..Len(Plan) :
                            0 < f.exp /\ f.exp < n /\ Started(n)' /\ Plan[n].dir = d
                              => rcs[f.exp] = 1
      BY <1>1 DEF DirsAreOwned
  <2>1. d # Plan[cur].dir /\ f \in dirs[d]
      BY <1>3 DEF LabInv, LabTypes
  <2> QED BY <2>1, <1>3 DEF LabInv, DirsAreOwned
<1> QED BY <1>4, <1>5, <1>6, <1>7, <1>8, <1>9, <1>10 DEF LabInv

\* A call that starts a process, and no other than the wait.
LEMMA LabStarts ==
    ASSUME LabInv, NEW kind \in Kinds, At(kind),
           \/ kind \in Monitors /\ StartMonitor(kind)
           \/ kind = "server" /\ StartServer
           \/ kind = "extras" /\ StartExtras
    PROVE  LabInv'
<1>1. /\ stage = "script" /\ pc <= Len(Calls) /\ Calls[pc] = kind /\ Return
      /\ Spawn(kind) /\ UNCHANGED <<listening, waited, client, dirs>>
    BY DEF At, Call, Calls, StartMonitor, StartServer, StartExtras
<1>2. SoundScript(Calls)
    BY ScriptsAreSound DEF Calls
<1>3. /\ cur \in 1..Len(Plan) /\ Len(Plan) \in Nat /\ pc \in 1..Len(Calls) /\ Len(Calls) \in Nat
    BY <1>1, <1>2, PlanIsSeq DEF LabInv, LabTypes, Stages, SoundScript
<1>4. kind # "wait_server" /\ kind # "stop_iperf" /\ \A q \in Kinds : StopperOf[q] # kind
    BY DEF Kinds, Monitors, Iperf, StopperOf
<1>5. /\ \A p \in procs' : p \in procs \/ (p.exp = cur /\ p.kind = kind)
      /\ procs' \subseteq [kind : Kinds, exp : 1..Len(Plan), opened : BOOLEAN]
    BY <1>1, <1>3, SpawnTyped DEF LabInv, LabTypes
<1>6. /\ extras \subseteq extras' /\ extras' \subseteq 1..Len(Plan)
      /\ kind = "extras" => cur \in extras'
    BY <1>3 DEF LabInv, LabTypes, StartMonitor, StartServer, StartExtras, Monitors
<1>7. \A p \in procs' : p.exp = cur /\ p.kind = "extras" => cur \in extras'
    BY <1>1, <1>5, <1>6 DEF LabInv, StillToStop
<1>8. \A p \in procs : p.kind \in Kinds
    BY DEF LabInv, LabTypes
<1>9. Stages' /\ LeakIsReported' /\ StillToStop' /\ Calls' = Calls
    BY <1>1, <1>3, <1>4, <1>5, <1>7, <1>8, CallKeepsProcesses
<1>10. Plan' = Plan
    BY <1>1, PlanKept DEF Return
<1>11. pumps' \in Seq(Iperf) /\ TwoPumps'
  <2>1. CASE kind = "server"
    <3>1. pumps' = Append(pumps, "server")
        BY <2>1 DEF StartServer, StartMonitor, StartExtras, Monitors
    <3>2. Len(pumps) = 0 /\ pumps \in Seq(Iperf)
        BY <2>1, <1>1, <1>3 DEF LabInv, LabTypes, TwoPumps
    <3>3. pumps' \in Seq(Iperf) /\ Len(pumps') = 1
        BY <3>1, <3>2 DEF Iperf
    <3>4. \A i \in (pc + 1)..Len(Calls) : Calls[i] # "server"
        BY <2>1, <1>1, <1>2, <1>3 DEF SoundScript, Iperf
    <3> QED BY <3>3, <3>4, <1>1, <1>9 DEF TwoPumps, Return
  <2>2. CASE kind # "server"
    <3>1. pumps' = pumps
        BY <2>2 DEF StartMonitor, StartServer, StartExtras
    <3> QED BY <3>1, <1>1, <1>9, CallKeepsPumps DEF LabInv, LabTypes
  <2> QED BY <2>1, <2>2
<1>12. WaitedForServer'
    BY <1>1, <1>4, <1>9, CallKeepsWait
<1>13. DirsAreOwned'
    BY <1>1, DirsKept DEF Return
<1>14. LabTypes'
    BY <1>1, <1>3, <1>5, <1>6, <1>10, <1>11 DEF LabInv, LabTypes, Return
<1> QED BY <1>9, <1>11, <1>12, <1>13, <1>14 DEF LabInv

LEMMA LabStartClient ==
    ASSUME LabInv, StartClient
    PROVE  LabInv'
<1>1. /\ stage = "script" /\ pc <= Len(Calls) /\ Calls[pc] = "client" /\ Return
    BY DEF At, Call, Calls, StartClient
<1>2. SoundScript(Calls)
    BY ScriptsAreSound DEF Calls
<1>3. /\ cur \in 1..Len(Plan) /\ Len(Plan) \in Nat /\ pc \in 1..Len(Calls) /\ Len(Calls) \in Nat
      /\ "client" \in Kinds
    BY <1>1, <1>2, PlanIsSeq DEF LabInv, LabTypes, Stages, SoundScript, Kinds, Iperf
<1>4. \A q \in Kinds : StopperOf[q] # "client"
    BY DEF Kinds, Monitors, Iperf, StopperOf
<1>5. /\ \A p \in procs' : p \in procs \/ (p.exp = cur /\ p.kind = "client")
      /\ procs' \subseteq [kind : Kinds, exp : 1..Len(Plan), opened : BOOLEAN]
  <2>1. procs' = procs \/ Spawn("client")
      BY DEF StartClient
  <2> QED BY <2>1, <1>3, SpawnTyped DEF LabInv, LabTypes
<1>6. \A p \in procs' : p.exp = cur /\ p.kind = "extras" => cur \in extras'
    BY <1>1, <1>5 DEF LabInv, StillToStop, StartClient
<1>7. \A p \in procs : p.kind \in Kinds
    BY DEF LabInv, LabTypes
<1>8. Stages' /\ LeakIsReported' /\ StillToStop' /\ Calls' = Calls
    BY <1>1, <1>3, <1>4, <1>5, <1>6, <1>7, CallKeepsProcesses
<1>9. Plan' = Plan
    BY <1>1, PlanKept DEF Return
<1>10. pumps' \in Seq(Iperf) /\ TwoPumps'
  <2>1. pumps' = Append(pumps, "client") /\ pumps \in Seq(Iperf) /\ Len(pumps) <= 1
      BY <1>1, <1>3 DEF StartClient, LabInv, LabTypes, TwoPumps
  <2>2. pumps' \in Seq(Iperf) /\ Len(pumps') <= 2
      BY <2>1 DEF Iperf
  <2>3. \A i \in (pc + 1)..Len(Calls) : Calls[i] # "client" /\ Calls[i] # "server"
      BY <1>1, <1>2, <1>3 DEF SoundScript, Iperf
  <2> QED BY <2>2, <2>3, <1>1, <1>8 DEF TwoPumps, Return
<1>11. WaitedForServer'
  <2>1. \A i \in pc..Len(Calls) : Calls[i] # "wait_server"
      BY <1>1, <1>2, <1>3 DEF SoundScript
  <2>2. waited # "no" /\ (~listening => waited = "timeout")
      BY <2>1, <1>1 DEF LabInv, LabTypes, WaitedForServer
  <2>3. \A i \in (pc + 1)..Len(Calls) : Calls[i] # "wait_server"
      BY <2>1, <1>3
  <2>4. /\ listening' = listening /\ waited' = waited /\ stage' = stage /\ pc' = pc + 1
        /\ client' = "refused" => ~listening
      BY <1>1 DEF StartClient, Return
  <2> QED BY <2>2, <2>3, <2>4, <1>1, <1>8 DEF LabInv, WaitedForServer, RefusedOnlyAfterTimeout
<1>12. /\ DirsAreOwned'
       /\ dirs' \in [Dir -> SUBSET [file : Kinds \cup {"t0"}, exp : 0..Len(Plan)]]
  <2>1. dirs' = Written(Plan[cur].dir, "client", cur) /\ Started(cur)
      BY <1>1 DEF StartClient, Started
  <2>2. UNCHANGED <<opts, cur, rcs, stage>> /\ cur \in 1..Len(Plan) /\ ~(cur < cur)
      BY <1>1, <1>3 DEF Return
  <2> QED BY <2>1, <2>2, <1>3, DirsWritten
<1>13. LabTypes'
    BY <1>1, <1>3, <1>5, <1>9, <1>10, <1>12 DEF LabInv, LabTypes, Return, StartClient
<1> QED BY <1>8, <1>10, <1>11, <1>12, <1>13 DEF LabInv

LEMMA LabStopMonitor ==
    ASSUME LabInv, NEW kind \in Monitors, StopMonitor(kind)
    PROVE  LabInv'
<1>1. /\ stage = "script" /\ pc <= Len(Calls) /\ Calls[pc] = StopCall[kind] /\ Return
      /\ procs' = {p \in procs : ~(p.kind = kind /\ p.exp = cur)}
      /\ UNCHANGED <<listening, waited, client, pumps, extras, dirs>>
    BY DEF At, Call, Calls, StopMonitor
<1>2. /\ StopCall[kind] \notin {"wait_server", "stop_iperf"}
      /\ \A q \in Kinds : StopperOf[q] = StopCall[kind] => q = kind
    BY DEF Kinds, Monitors, Iperf, StopperOf, StopCall
<1>3. \A p \in procs : p.kind \in Kinds
    BY DEF LabInv, LabTypes
<1>4. \A p \in procs' : p.exp = cur /\ p.kind = "extras" => cur \in extras'
    BY <1>1 DEF LabInv, StillToStop
<1>5. Stages' /\ LeakIsReported' /\ StillToStop' /\ Calls' = Calls
    BY <1>1, <1>2, <1>3, <1>4, CallKeepsProcesses
<1>6. WaitedForServer' /\ TwoPumps'
    BY <1>1, <1>2, <1>5, CallKeepsWait, CallKeepsPumps
<1>7. DirsAreOwned'
    BY <1>1, DirsKept DEF Return
<1>8. LabTypes'
    BY <1>1, PlanKept DEF LabInv, LabTypes, Return
<1> QED BY <1>5, <1>6, <1>7, <1>8 DEF LabInv

LEMMA LabWriteT0 ==
    ASSUME LabInv, WriteT0
    PROVE  LabInv'
<1>1. /\ stage = "script" /\ pc <= Len(Calls) /\ Calls[pc] = "t0" /\ Return
      /\ UNCHANGED <<procs, listening, waited, client, pumps, extras>>
    BY DEF At, Call, Calls, WriteT0
<1>2. \A q \in Kinds : StopperOf[q] # "t0"
    BY DEF Kinds, Monitors, Iperf, StopperOf
<1>3. \A p \in procs : p.kind \in Kinds
    BY DEF LabInv, LabTypes
<1>4. \A p \in procs' : p.exp = cur /\ p.kind = "extras" => cur \in extras'
    BY <1>1 DEF LabInv, StillToStop
<1>5. Stages' /\ LeakIsReported' /\ StillToStop' /\ Calls' = Calls
    BY <1>1, <1>2, <1>3, <1>4, CallKeepsProcesses
<1>6. WaitedForServer' /\ TwoPumps'
    BY <1>1, <1>5, CallKeepsWait, CallKeepsPumps
<1>7. Plan' = Plan
    BY <1>1, PlanKept DEF Return
<1>8. /\ DirsAreOwned'
      /\ dirs' \in [Dir -> SUBSET [file : Kinds \cup {"t0"}, exp : 0..Len(Plan)]]
  <2>1. CASE dirs' = dirs
      BY <2>1, <1>1, DirsKept DEF Return, LabInv, LabTypes
  <2>2. CASE dirs' = Written(Plan[cur].dir, "t0", cur)
    <3>1. cur \in 1..Len(Plan) /\ Started(cur) /\ ~(cur < cur)
        BY <1>1, PlanIsSeq DEF LabInv, LabTypes, Stages, Started
    <3> QED BY <2>2, <3>1, <1>1, DirsWritten DEF Return
  <2> QED BY <2>1, <2>2 DEF WriteT0
<1>9. LabTypes'
    BY <1>1, <1>7, <1>8 DEF LabInv, LabTypes, Return
<1> QED BY <1>5, <1>6, <1>8, <1>9 DEF LabInv

LEMMA LabWaitOrBusy ==
    ASSUME LabInv, WaitServer \/ Busy
    PROVE  LabInv'
<1>1. /\ stage = "script" /\ pc <= Len(Calls) /\ Return
      /\ Calls[pc] \in {"wait_server", "set_qdisc", "sleep", "dynamic_bw"}
      /\ UNCHANGED <<procs, listening, client, pumps, extras, dirs>>
    BY DEF At, Call, Calls, WaitServer, Busy
<1>2. \A q \in Kinds : StopperOf[q] # Calls[pc]
    BY <1>1 DEF Kinds, Monitors, Iperf, StopperOf
<1>3. \A p \in procs : p.kind \in Kinds
    BY DEF LabInv, LabTypes
<1>4. \A p \in procs' : p.exp = cur /\ p.kind = "extras" => cur \in extras'
    BY <1>1 DEF LabInv, StillToStop
<1>5. Stages' /\ LeakIsReported' /\ StillToStop' /\ Calls' = Calls
    BY <1>1, <1>2, <1>3, <1>4, CallKeepsProcesses
<1>6. WaitedForServer' /\ waited' \in {"no", "seen", "timeout"}
  <2>1. CASE WaitServer
    <3>1. SoundScript(Calls)
        BY ScriptsAreSound DEF Calls
    <3>2. /\ Calls[pc] = "wait_server" /\ pc \in 1..Len(Calls) /\ Len(Calls) \in Nat
          /\ pc' = pc + 1 /\ stage' = stage
        BY <2>1, <3>1, <1>1 DEF WaitServer, At, Call, Calls, Return, SoundScript, LabInv, LabTypes
    <3>3. \A i \in (pc + 1)..Len(Calls) : Calls[i] # "wait_server"
        BY <3>1, <3>2 DEF SoundScript
    <3>4. client # "refused"
        BY <1>1, <3>2 DEF LabInv, WaitedForServer
    <3>5. waited' = IF listening THEN "seen" ELSE "timeout"
        BY <2>1 DEF WaitServer
    <3> QED BY <1>1, <1>5, <3>2, <3>3, <3>4, <3>5 DEF WaitedForServer, RefusedOnlyAfterTimeout
  <2>2. CASE Busy
    <3>1. Calls[pc] # "wait_server" /\ waited' = waited
        BY <2>2 DEF Busy, At, Call, Calls
    <3> QED BY <3>1, <1>1, <1>5, CallKeepsWait DEF LabInv, LabTypes
  <2> QED BY <2>1, <2>2
<1>7. TwoPumps' /\ DirsAreOwned'
    BY <1>1, <1>5, CallKeepsPumps, DirsKept DEF Return
<1>8. LabTypes'
    BY <1>1, <1>6, PlanKept DEF LabInv, LabTypes, Return
<1> QED BY <1>5, <1>6, <1>7, <1>8 DEF LabInv

LEMMA LabStopIperf ==
    ASSUME LabInv, StopIperf
    PROVE  LabInv'
<1>1. /\ stage = "script" /\ pc <= Len(Calls) /\ Calls[pc] = "stop_iperf" /\ Return
      /\ procs' = {p \in procs : /\ p.kind \notin Iperf
                                 /\ ~(p.kind = "extras" /\ p.exp \in extras)}
      /\ extras' = {} /\ UNCHANGED <<listening, waited, client, pumps, dirs>>
    BY DEF At, Call, Calls, StopIperf
<1>2. \A q \in Kinds : StopperOf[q] = "stop_iperf" => q \in Iperf \/ q = "extras"
    BY DEF Kinds, Monitors, Iperf, StopperOf
<1>3. \A p \in procs : p.kind \in Kinds
    BY DEF LabInv, LabTypes
<1>4. \A p \in procs : p.exp = cur /\ p.kind = "extras" => cur \in extras
    BY <1>1 DEF LabInv, StillToStop
<1>5. /\ \A p \in procs' : p \in procs /\ (p.exp = cur => Calls[pc] # StopperOf[p.kind])
      /\ \A p \in procs' : p.exp = cur /\ p.kind = "extras" => cur \in extras'
      /\ \A p \in procs' : p.kind \notin Iperf
    BY <1>1, <1>2, <1>3, <1>4
<1>6. Stages' /\ LeakIsReported' /\ StillToStop' /\ Calls' = Calls
    BY <1>1, <1>5, CallKeepsProcesses
<1>7. WaitedForServer' /\ TwoPumps' /\ DirsAreOwned'
    BY <1>1, <1>6, CallKeepsWait, CallKeepsPumps, DirsKept DEF Return
<1>8. LabTypes'
    BY <1>1, PlanKept DEF LabInv, LabTypes, Return
<1> QED BY <1>6, <1>7, <1>8 DEF LabInv

\* The steps of the processes while the driver does nothing.
LEMMA LabServerListens ==
    ASSUME LabInv, ServerListens
    PROVE  LabInv'
<1>1. /\ listening' = TRUE
      /\ UNCHANGED <<opts, stage, cur, pc, rcs, procs, waited, client, pumps, extras, dirs>>
    BY DEF ServerListens
<1>2. Plan' = Plan /\ Calls' = Calls /\ \A n : Started(n)' <=> Started(n)
    BY <1>1, PlanKept DEF Calls, Started
<1>3. Stages' /\ LeakIsReported' /\ StillToStop' /\ TwoPumps'
    BY <1>1, <1>2 DEF LabInv, Stages, LeakIsReported, Old, StillToStop, TwoPumps
<1>4. WaitedForServer'
    BY <1>1, <1>2 DEF LabInv, WaitedForServer, RefusedOnlyAfterTimeout
<1>5. DirsAreOwned'
    BY <1>1, DirsKept
<1>6. LabTypes'
    BY <1>1, <1>2 DEF LabInv, LabTypes
<1> QED BY <1>3, <1>4, <1>5, <1>6 DEF LabInv

LEMMA LabFewerProcesses ==
    ASSUME LabInv, procs' \subseteq procs,
           UNCHANGED <<opts, stage, cur, pc, rcs, listening, waited, client, pumps, extras, dirs>>
    PROVE  LabInv'
<1>1. Plan' = Plan /\ Calls' = Calls /\ \A n : Started(n)' <=> Started(n)
    BY PlanKept DEF Calls, Started
<1>2. Stages' /\ LeakIsReported'
    BY <1>1 DEF LabInv, Stages, LeakIsReported, Old
<1>3. StillToStop'
    BY <1>1 DEF LabInv, StillToStop
<1>4. WaitedForServer' /\ TwoPumps'
    BY <1>1 DEF LabInv, WaitedForServer, RefusedOnlyAfterTimeout, TwoPumps
<1>5. DirsAreOwned'
    BY DirsKept
<1>6. LabTypes'
    BY <1>1 DEF LabInv, LabTypes
<1> QED BY <1>2, <1>3, <1>4, <1>5, <1>6 DEF LabInv

LEMMA LabOpen ==
    ASSUME LabInv, Open
    PROVE  LabInv'
<1>1. PICK p \in procs :
          /\ procs' = (procs \ {p}) \cup {[p EXCEPT !.opened = TRUE]}
          /\ dirs' = Written(Plan[p.exp].dir, p.kind, p.exp)
          /\ UNCHANGED <<opts, stage, cur, pc, rcs, listening, waited, client, pumps, extras>>
    BY DEF Open
<1>2. Plan' = Plan /\ Calls' = Calls /\ \A n : Started(n)' <=> Started(n)
    BY <1>1, PlanKept DEF Calls, Started
<1> DEFINE new == [p EXCEPT !.opened = TRUE]
<1>3. p \in [kind : Kinds, exp : 1..Len(Plan), opened : BOOLEAN]
    BY DEF LabInv, LabTypes
<1>4. /\ new \in [kind : Kinds, exp : 1..Len(Plan), opened : BOOLEAN]
      /\ new.kind = p.kind /\ new.exp = p.exp
    BY <1>3
<1> HIDE DEF new
<1>5. \A q \in procs' : \E r \in procs : q.kind = r.kind /\ q.exp = r.exp
    BY <1>1, <1>4 DEF new
<1>6. Stages' /\ LeakIsReported'
    BY <1>1, <1>2, <1>5 DEF LabInv, Stages, LeakIsReported, Old
<1>7. StillToStop'
    BY <1>1, <1>2, <1>5 DEF LabInv, StillToStop
<1>8. WaitedForServer' /\ TwoPumps'
    BY <1>1, <1>2 DEF LabInv, WaitedForServer, RefusedOnlyAfterTimeout, TwoPumps
<1>9. /\ DirsAreOwned'
      /\ dirs' \in [Dir -> SUBSET [file : Kinds \cup {"t0"}, exp : 0..Len(Plan)]]
  <2>1. p.exp \in 1..Len(Plan) /\ p.kind \in Kinds \cup {"t0"}
      BY <1>3
  <2>2. Started(p.exp) /\ (p.exp < cur => rcs[p.exp] = 1)
      BY DEF LabInv, StillToStop, LeakIsReported, Old
  <2> QED BY <1>1, <2>1, <2>2, DirsWritten
<1>10. procs' \subseteq [kind : Kinds, exp : 1..Len(Plan), opened : BOOLEAN]
    BY <1>1, <1>4 DEF LabInv, LabTypes, new
<1>11. LabTypes'
    BY <1>1, <1>2, <1>9, <1>10 DEF LabInv, LabTypes
<1> QED BY <1>6, <1>7, <1>8, <1>9, <1>11 DEF LabInv

\* The end of a script, well or not: a script that ends well has stopped everything.
LEMMA LabScriptOver ==
    ASSUME LabInv, ScriptEnds \/ ScriptRaises
    PROVE  LabInv'
<1>1. PICK rc \in {0, 1} :
          /\ stage = "script" /\ stage' = "join" /\ rcs' = Append(rcs, rc)
          /\ rc = 0 => pc = Len(Calls) + 1
          /\ UNCHANGED <<opts, cur, pc, procs, listening, waited, client, pumps, extras, dirs>>
    BY DEF ScriptEnds, ScriptRaises, Calls
<1>2. Plan' = Plan /\ Calls' = Calls /\ \A n : Started(n)' <=> Started(n)
    BY <1>1, PlanKept DEF Calls, Started
<1>3. /\ cur \in 1..Len(Plan) /\ Len(Plan) \in Nat /\ Len(Calls) \in Nat
      /\ Len(rcs) = cur - 1 /\ rcs \in Seq({0, 1})
      /\ \A p \in procs : p.exp \in Nat \ {0} /\ p.exp <= cur
    BY <1>1, PlanIsSeq, ScriptsAreSound
       DEF LabInv, LabTypes, Stages, StillToStop, Started, Calls, SoundScript
<1>4. /\ rcs' \in Seq({0, 1}) /\ Len(rcs') = cur /\ rcs'[cur] = rc
      /\ \A i \in 1..(cur - 1) : rcs'[i] = rcs[i]
    BY <1>1, <1>3
<1>5. Stages'
    BY <1>1, <1>2, <1>3, <1>4 DEF LabInv, Stages
<1>6. LeakIsReported'
  <2> SUFFICES ASSUME NEW p \in procs, p.exp < cur
               PROVE  /\ rcs'[p.exp] = 1
                      /\ p.kind \in Iperf => \A i \in (p.exp + 1)..(cur - 1) : rcs'[i] = 1
      BY <1>1 DEF LeakIsReported, Old
  <2>1. /\ rcs[p.exp] = 1
        /\ p.kind \in Iperf => \A i \in (p.exp + 1)..(cur - 1) : rcs[i] = 1
      BY DEF LabInv, LeakIsReported, Old
  <2>2. p.exp \in 1..(cur - 1) /\ \A i \in (p.exp + 1)..(cur - 1) : i \in 1..(cur - 1)
      BY <1>3
  <2> QED BY <2>1, <2>2, <1>4
<1>7. StillToStop'
  <2> SUFFICES ASSUME NEW p \in procs, p.exp = cur \/ p.kind \in Iperf, rc = 0
               PROVE  FALSE
      BY <1>1, <1>2, <1>4 DEF LabInv, StillToStop
  <2>1. pc = Len(Calls) + 1 /\ \A i : i \notin pc..Len(Calls)
      BY <1>1, <1>3
  <2> QED BY <2>1, <1>1, <1>3 DEF LabInv, StillToStop
<1>8. WaitedForServer' /\ TwoPumps'
    BY <1>1 DEF LabInv, WaitedForServer, RefusedOnlyAfterTimeout, TwoPumps
<1>9. DirsAreOwned'
  <2> SUFFICES ASSUME NEW d \in Dir, NEW f \in dirs[d], NEW n \in 1..Len(Plan),
                      0 < f.exp, f.exp < n, Started(n), Plan[n].dir = d
               PROVE  rcs'[f.exp] = 1
      BY <1>1, <1>2 DEF LabInv, DirsAreOwned
  <2>1. rcs[f.exp] = 1
      BY DEF LabInv, DirsAreOwned
  <2>2. f.exp \in 1..(cur - 1)
    <3>1. f.exp \in 0..Len(Plan)
        BY DEF LabInv, LabTypes
    <3> QED BY <3>1, <1>3 DEF Started
  <2> QED BY <2>1, <2>2, <1>4
<1>10. LabTypes'
    BY <1>1, <1>2, <1>4 DEF LabInv, LabTypes
<1> QED BY <1>5, <1>6, <1>7, <1>8, <1>9, <1>10 DEF LabInv

LEMMA LabJoinAndSummarize ==
    ASSUME LabInv, JoinAndSummarize
    PROVE  LabInv'
<1>1. /\ stage = "join" /\ cur' = cur + 1
      /\ stage' = IF cur = Len(Plan) THEN "exit" ELSE "start"
      /\ UNCHANGED <<opts, pc, rcs, procs, listening, waited, client, pumps, extras, dirs>>
    BY DEF JoinAndSummarize
<1>2. /\ Plan' = Plan /\ cur \in 1..Len(Plan) /\ Len(Plan) \in Nat /\ Len(rcs) = cur
      /\ \A p \in procs : p.exp \in Nat
    BY <1>1, PlanKept, PlanIsSeq DEF LabInv, LabTypes, Stages
<1>3. \A n \in Nat : Started(n)' <=> Started(n)
    BY <1>1, <1>2 DEF Started
<1>4. stage' \in {"exit", "start"} /\ (stage' = "exit" <=> cur = Len(Plan))
    BY <1>1
<1>5. Stages'
    BY <1>1, <1>2, <1>4 DEF Stages
<1>6. LeakIsReported'
  <2> SUFFICES ASSUME NEW p \in procs, p.exp < cur + 1
               PROVE  /\ rcs[p.exp] = 1
                      /\ p.kind \in Iperf => \A i \in (p.exp + 1)..cur : rcs[i] = 1
      BY <1>1, <1>2 DEF LeakIsReported, Old
  <2>1. CASE p.exp = cur
      BY <2>1, <1>1, <1>2 DEF LabInv, StillToStop
  <2>2. CASE p.exp < cur
    <3>1. p.kind \in Iperf => rcs[cur] = 1
        BY <1>1 DEF LabInv, StillToStop
    <3>2. \A i \in (p.exp + 1)..cur : i = cur \/ i \in (p.exp + 1)..(cur - 1)
        BY <1>2
    <3> QED BY <2>2, <3>1, <3>2 DEF LabInv, LeakIsReported, Old
  <2> QED BY <2>1, <2>2, <1>2
<1>7. StillToStop'
    BY <1>1, <1>2, <1>3, <1>4 DEF LabInv, StillToStop
<1>8. WaitedForServer' /\ TwoPumps'
    BY <1>1, <1>4 DEF LabInv, WaitedForServer, RefusedOnlyAfterTimeout, TwoPumps
<1>9. DirsAreOwned'
  <2>1. \A d \in Dir : \A f \in dirs[d] : f.exp \in Nat
      BY DEF LabInv, LabTypes
  <2> QED BY <1>1, <1>2, <1>3, <2>1 DEF LabInv, DirsAreOwned
<1>10. LabTypes'
    BY <1>1, <1>2, <1>4 DEF LabInv, LabTypes
<1> QED BY <1>5, <1>6, <1>7, <1>8, <1>9, <1>10 DEF LabInv

LEMMA LabExit ==
    ASSUME LabInv, Exit
    PROVE  LabInv'
<1>1. /\ stage = "exit" \/ (stage = "start" /\ Len(Plan) = 0)
      /\ stage' = "ended"
      /\ UNCHANGED <<opts, cur, pc, rcs, procs, listening, waited, client, pumps, extras, dirs>>
    BY DEF Exit, AtExit
<1>2. Plan' = Plan /\ cur \in 1..(Len(Plan) + 1) /\ Len(Plan) \in Nat
    BY <1>1, PlanKept, PlanIsSeq DEF LabInv, LabTypes
<1>3. \A n : Started(n)' <=> Started(n)
    BY <1>1 DEF Started
<1>4. Stages'
    BY <1>1, <1>2 DEF LabInv, Stages
<1>5. LeakIsReported' /\ StillToStop'
    BY <1>1, <1>3 DEF LabInv, LeakIsReported, Old, StillToStop
<1>6. WaitedForServer' /\ TwoPumps'
    BY <1>1 DEF LabInv, WaitedForServer, RefusedOnlyAfterTimeout, TwoPumps
<1>7. DirsAreOwned'
    BY <1>1, DirsKept
<1>8. LabTypes'
    BY <1>1, <1>2 DEF LabInv, LabTypes
<1> QED BY <1>4, <1>5, <1>6, <1>7, <1>8 DEF LabInv

LEMMA LabStep == LabInv /\ [Next]_vars => LabInv'
<1> SUFFICES ASSUME LabInv, [Next]_vars PROVE LabInv'
    OBVIOUS
<1>1. CASE StartExperiment
    BY <1>1, LabStartExperiment
<1>2. ASSUME NEW kind \in Monitors, StartMonitor(kind) PROVE LabInv'
  <2>1. kind \in Kinds /\ At(kind)
      BY <1>2 DEF Kinds, StartMonitor
  <2> QED BY <1>2, <2>1, LabStarts
<1>3. ASSUME NEW kind \in Monitors, StopMonitor(kind) PROVE LabInv'
    BY <1>3, LabStopMonitor
<1>4. CASE WriteT0
    BY <1>4, LabWriteT0
<1>5. CASE StartServer
  <2>1. PICK kind \in Kinds : kind = "server"
      BY DEF Kinds, Iperf
  <2>2. At(kind)
      BY <1>5, <2>1 DEF StartServer
  <2> QED BY <1>5, <2>1, <2>2, LabStarts
<1>6. CASE WaitServer \/ Busy
    BY <1>6, LabWaitOrBusy
<1>7. CASE StartExtras
  <2>1. PICK kind \in Kinds : kind = "extras"
      BY DEF Kinds, Iperf
  <2>2. At(kind)
      BY <1>7, <2>1 DEF StartExtras
  <2> QED BY <1>7, <2>1, <2>2, LabStarts
<1>8. CASE StartClient
    BY <1>8, LabStartClient
<1>9. CASE StopIperf
    BY <1>9, LabStopIperf
<1>10. CASE ScriptEnds \/ ScriptRaises
    BY <1>10, LabScriptOver
<1>11. CASE JoinAndSummarize
    BY <1>11, LabJoinAndSummarize
<1>12. CASE Exit
    BY <1>12, LabExit
<1>13. CASE ServerListens
    BY <1>13, LabServerListens
<1>14. CASE ClientEnds
  <2>1. procs' \subseteq procs
      BY <1>14 DEF ClientEnds
  <2> QED BY <1>14, <2>1, LabFewerProcesses DEF ClientEnds
<1>15. CASE Open
    BY <1>15, LabOpen
<1>16. CASE UNCHANGED vars
    BY <1>16, LabFewerProcesses DEF vars
<1>17. CASE TerminateDaemons
  <2>1. procs' \subseteq procs
      BY <1>17 DEF TerminateDaemons
  <2> QED BY <1>17, <2>1, LabFewerProcesses DEF TerminateDaemons
<1> QED BY <1>1, <1>2, <1>3, <1>4, <1>5, <1>6, <1>7, <1>8, <1>9, <1>10, <1>11, <1>12,
           <1>13, <1>14, <1>15, <1>16, <1>17 DEF Next, Driver

\* What the invariant says of the driver.
LEMMA LabInvIsSafe ==
    ASSUME LabInv
    PROVE  /\ TypeOK
           /\ LeakIsReported /\ HangsOnlyAfterFailure
           /\ RefusedOnlyAfterTimeout /\ DirectoriesAreNotMixed
<1>1. /\ cur \in 1..(Len(Plan) + 1) /\ Len(Plan) \in Nat
      /\ \A n \in 1..Len(Plan) : Plan[n].dir \in Dir
    BY PlanIsSeq DEF LabInv, LabTypes
<1>2. Len(rcs) \in {cur - 1, cur}
    BY DEF LabInv, LabTypes, Stages
<1>3. TypeOK
    BY <1>2 DEF TypeOK, LabInv, LabTypes, TwoPumps
<1>4. HangsOnlyAfterFailure
  <2> SUFFICES ASSUME stage \in {"exit", "ended"}, NEW p \in procs
               PROVE  rcs[p.exp] = 1
      BY DEF HangsOnlyAfterFailure
  <2>1. p.exp < cur
      BY DEF LabInv, StillToStop, Started
  <2> QED BY <2>1 DEF LabInv, LeakIsReported, Old
<1>5. DirectoriesAreNotMixed
  <2> SUFFICES ASSUME NEW n \in 1..Len(rcs), NEW f \in dirs[Plan[n].dir],
                      NEW g \in dirs[Plan[n].dir], f.exp < g.exp
               PROVE  f.exp # 0 /\ rcs[f.exp] = 1
      BY DEF DirectoriesAreNotMixed
  <2>1. n \in 1..Len(Plan) /\ Started(n)
      BY <1>1, <1>2 DEF LabInv, LabTypes, Stages, Started
  <2>2. Plan[n].dir \in Dir
      BY <1>1, <2>1
  <2>3. f.exp \in 0..Len(Plan) /\ g.exp \in 0..Len(Plan)
      BY <2>2 DEF LabInv, LabTypes
  <2>4. f.exp # 0
      BY <2>1, <2>2 DEF LabInv, DirsAreOwned
  <2>5. Started(g.exp) /\ Plan[g.exp].dir = Plan[n].dir
      BY <2>2, <2>3 DEF LabInv, DirsAreOwned
  <2>6. g.exp \in 1..Len(Plan) /\ 0 < f.exp
      BY <2>3, <2>4
  <2> QED BY <2>2, <2>4, <2>5, <2>6 DEF LabInv, DirsAreOwned
<1> QED BY <1>3, <1>4, <1>5 DEF LabInv, WaitedForServer

\* The driver keeps its variables within their types, and whatever it leaves behind,
\* a process, a client that was refused or a file of another experiment, is announced
\* by a return code or by the wait that gave up: for every batch, and wherever a call
\* of a script raises.
THEOREM NothingLeaksSilently ==
    StudySpec => [](NothingIsLeftSilently /\ (part = "driver" => TypeOK))
<1> DEFINE Inv == part = "driver" => LabInv
<1>1. StudyInit => Inv
    BY LabInit DEF StudyInit
<1>2. Inv /\ [StudyNext]_studyVars => Inv'
  <2> SUFFICES ASSUME Inv, [StudyNext]_studyVars PROVE Inv'
      OBVIOUS
  <2>1. part' = part /\ ([Next]_vars \/ part # "driver")
      BY DEF StudyNext, studyVars
  <2> QED BY <2>1, LabStep
<1>3. Inv => NothingIsLeftSilently /\ (part = "driver" => TypeOK)
    BY LabInvIsSafe DEF NothingIsLeftSilently
<1> QED BY <1>1, <1>2, <1>3, PTL DEF StudySpec

-----------------------------------------------------------------------------
\* The recorder of the round trip time.

AnswersOf(probes, now) == [sent : probes, arrived : 0..now]

RttTypes ==
    /\ clock \in 0..MaxTime
    /\ mode \in {"probing", "spawned", "opened", "single", "stopwait", "threads"}
    /\ attempts \in 0..4 /\ (mode = "probing" => attempts < 4)
    /\ alive \in BOOLEAN
    /\ ping \in {"none", "runs", "gone"}
    /\ sent \subseteq 0..clock
    /\ path \in Seq(sent)
    /\ answers \in Seq(AnswersOf(sent, clock))
    /\ \A i \in 1..Len(answers) : answers[i].sent <= answers[i].arrived
    /\ file \in Seq(sent)
    /\ mode = "stopwait" => Len(path) + Len(answers) <= 1
    /\ mode = "probing" => path = <<>> /\ answers = <<>>

\* What is in the file was sent before what is answered and not yet written, and that
\* before what is on its way.
SentInOrder ==
    /\ \A i, j \in 1..Len(file) : i < j => file[i] < file[j]
    /\ \A i, j \in 1..Len(answers) : i < j => answers[i].sent < answers[j].sent
    /\ \A i, j \in 1..Len(path) : i < j => path[i] < path[j]
    /\ \A i \in 1..Len(file), j \in 1..Len(answers) : file[i] < answers[j].sent
    /\ \A i \in 1..Len(file), j \in 1..Len(path) : file[i] < path[j]
    /\ \A i \in 1..Len(answers), j \in 1..Len(path) : answers[i].sent < path[j]

\* The ping of the monitor runs from the time it is started to the SIGTERM, which
\* it survives as long as the handler is not there and nothing is written.
PingIsHeld ==
    /\ ping = "runs" => mode \in {"opened", "single"}
    /\ ~alive /\ mode = "single" => ping # "runs"
    /\ file # <<>> => mode \in {"single", "stopwait", "threads"}

RttInv ==
    /\ RttTypes
    /\ PingIsHeld
    /\ mode = "threads" => attempts = 4
    /\ mode # "threads" => SentInOrder

\* The first of a sequence and the rest of it.
LEMMA HeadAndTail ==
    ASSUME NEW S, NEW s \in Seq(S), s # <<>>
    PROVE  /\ Head(s) \in S /\ Head(s) = s[1] /\ 1 \in 1..Len(s)
           /\ Tail(s) \in Seq(S) /\ Len(Tail(s)) = Len(s) - 1
           /\ \A i \in 1..Len(Tail(s)) : Tail(s)[i] = s[i + 1] /\ i + 1 \in 1..Len(s)
    OBVIOUS

\* A member taken out of a sequence.
LEMMA RemovedFrom ==
    ASSUME NEW S, NEW s \in Seq(S), NEW n \in 1..Len(s)
    PROVE  /\ Rtt!RemoveAt(s, n) \in Seq(S)
           /\ \A i \in 1..Len(Rtt!RemoveAt(s, n)) : \E j \in 1..Len(s) : Rtt!RemoveAt(s, n)[i] = s[j]
<1> DEFINE a == SubSeq(s, 1, n - 1)
           b == SubSeq(s, n + 1, Len(s))
           r == a \o b
<1>1. a \in Seq(S) /\ Len(a) = n - 1 /\ \A i \in 1..(n - 1) : a[i] = s[i]
    OBVIOUS
<1>2. b \in Seq(S) /\ Len(b) = Len(s) - n /\ \A i \in 1..(Len(s) - n) : b[i] = s[n + i]
    OBVIOUS
<1>3. Rtt!RemoveAt(s, n) = r
    BY DEF Rtt!RemoveAt
<1>4. Len(s) \in Nat /\ n \in Nat /\ 1 <= n /\ n <= Len(s)
    OBVIOUS
<1> HIDE DEF a, b
<1>5. /\ r \in Seq(S) /\ Len(r) = Len(a) + Len(b)
      /\ \A i \in 1..Len(a) : r[i] = a[i]
      /\ \A i \in 1..Len(b) : r[Len(a) + i] = b[i]
  <2>1. a \in Seq(S) /\ b \in Seq(S)
      BY <1>1, <1>2
  <2>2. /\ a \o b \in Seq(S) /\ Len(a \o b) = Len(a) + Len(b)
        /\ \A i \in 1..Len(a) : (a \o b)[i] = a[i]
        /\ \A i \in 1..Len(b) : (a \o b)[Len(a) + i] = b[i]
      BY <2>1
  <2> QED BY <2>2 DEF r
<1> HIDE DEF r
<1>6. Len(r) = Len(s) - 1
    BY <1>1, <1>2, <1>4, <1>5
<1>7. ASSUME NEW i \in 1..Len(r) PROVE \E j \in 1..Len(s) : r[i] = s[j]
  <2>1. i \in Int /\ 1 <= i /\ i <= Len(s) - 1
      BY <1>4, <1>6
  <2>2. CASE i <= n - 1
    <3>1. i \in 1..(n - 1) /\ i \in 1..Len(a) /\ i \in 1..Len(s)
        BY <2>1, <2>2, <1>1, <1>4
    <3>2. r[i] = s[i]
        BY <3>1, <1>1, <1>5
    <3> QED BY <3>1, <3>2
  <2>3. CASE i > n - 1
    <3> DEFINE m == i - (n - 1)
    <3>1. m \in 1..(Len(s) - n) /\ m \in 1..Len(b) /\ Len(a) + m = i
          /\ n + m = i + 1 /\ i + 1 \in 1..Len(s)
        BY <2>1, <2>3, <1>1, <1>2, <1>4
    <3> HIDE DEF m
    <3>2. r[i] = b[m] /\ b[m] = s[i + 1]
        BY <3>1, <1>2, <1>5
    <3> QED BY <3>1, <3>2
  <2> QED BY <2>1, <2>2, <2>3, <1>4
<1> QED BY <1>3, <1>5, <1>7

LEMMA SeqGrows ==
    ASSUME NEW S, NEW T, S \subseteq T, NEW s \in Seq(S)
    PROVE  s \in Seq(T)
    OBVIOUS

LEMMA AnswersAreRecords ==
    ASSUME NEW S, NEW now, NEW a \in AnswersOf(S, now)
    PROVE  a.sent \in S /\ a.arrived \in 0..now
    BY DEF AnswersOf

LEMMA AnswersGrow ==
    ASSUME NEW S, NEW T, S \subseteq T, NEW now \in Nat, NEW later \in Nat, now <= later
    PROVE  AnswersOf(S, now) \subseteq AnswersOf(T, later)
    BY DEF AnswersOf

LEMMA RttInit == Rtt!Init => RttInv
<1> SUFFICES ASSUME Rtt!Init PROVE RttInv
    OBVIOUS
<1> USE DEF Rtt!Init
<1>1. MaxTime \in Nat
    BY RecordersAssumption DEF Rtt!MaxTimeAssumption
<1>2. /\ path \in Seq(sent) /\ file \in Seq(sent)
      /\ answers \in Seq(AnswersOf(sent, clock))
      /\ Len(path) = 0 /\ Len(file) = 0 /\ Len(answers) = 0
    OBVIOUS
<1>3. alive \in BOOLEAN
    OBVIOUS
<1>4. RttTypes
    BY <1>1, <1>2, <1>3 DEF RttTypes
<1>5. PingIsHeld
    BY DEF PingIsHeld
<1>6. SentInOrder
    BY <1>2 DEF SentInOrder
<1> QED BY <1>4, <1>5, <1>6 DEF RttInv

\* A probe that is sent is the last on the path, and later than all that were sent.
LEMMA RttSends ==
    ASSUME RttInv, clock \notin sent, Rtt!Send, mode # "probing",
           mode = "stopwait" => path = <<>> /\ answers = <<>>,
           UNCHANGED <<clock, mode, attempts, alive, ping, answers, file>>
    PROVE  RttInv'
<1>1. /\ sent' = sent \cup {clock} /\ path' = Append(path, clock)
      /\ clock \in Nat /\ sent \subseteq 0..clock /\ path \in Seq(sent)
      /\ file \in Seq(sent) /\ answers \in Seq(AnswersOf(sent, clock))
    BY DEF Rtt!Send, RttInv, RttTypes
<1>2. sent' \subseteq 0..clock /\ sent \subseteq sent' /\ clock \in sent'
    BY <1>1
<1>3. /\ path \in Seq(sent') /\ file' \in Seq(sent')
      /\ answers' \in Seq(AnswersOf(sent', clock))
  <2>1. AnswersOf(sent, clock) \subseteq AnswersOf(sent', clock)
      BY <1>1, <1>2, AnswersGrow
  <2>2. path \in Seq(sent') /\ file \in Seq(sent')
      BY <1>1, <1>2, SeqGrows
  <2>3. answers \in Seq(AnswersOf(sent', clock))
      BY <1>1, <2>1, SeqGrows
  <2> QED BY <2>2, <2>3
<1>4. /\ path' \in Seq(sent') /\ Len(path') = Len(path) + 1
      /\ \A i \in 1..Len(path) : path'[i] = path[i]
      /\ path'[Len(path) + 1] = clock
    BY <1>1, <1>2, <1>3
<1>5. RttTypes'
  <2>1. mode = "stopwait" => Len(path') + Len(answers) <= 1
      BY <1>4
  <2> QED BY <1>2, <1>3, <1>4, <2>1 DEF RttInv, RttTypes
<1>6. PingIsHeld' /\ (mode' = "threads" => attempts' = 4)
    BY DEF RttInv, PingIsHeld
<1>7. ASSUME mode # "threads" PROVE SentInOrder'
  <2>1. /\ \A i \in 1..Len(path) : path[i] < clock
        /\ \A i \in 1..Len(file) : file[i] < clock
        /\ \A i \in 1..Len(answers) : answers[i].sent < clock
    <3>1. \A x \in sent : x < clock
        BY <1>1
    <3>2. \A i \in 1..Len(answers) : answers[i].sent \in sent
      <4> SUFFICES ASSUME NEW i \in 1..Len(answers) PROVE answers[i].sent \in sent
          OBVIOUS
      <4>1. answers[i] \in AnswersOf(sent, clock)
          BY <1>1
      <4> QED BY <4>1, AnswersAreRecords
    <3>3. /\ \A i \in 1..Len(path) : path[i] \in sent
          /\ \A i \in 1..Len(file) : file[i] \in sent
        BY <1>1
    <3> QED BY <3>1, <3>2, <3>3
  <2>2. \A i \in 1..Len(path') : path'[i] = clock \/ (i \in 1..Len(path) /\ path'[i] = path[i])
      BY <1>1, <1>4
  <2>3. \A i, j \in 1..Len(path') : i < j => path'[i] < path'[j]
    <3> SUFFICES ASSUME NEW i \in 1..Len(path'), NEW j \in 1..Len(path'), i < j
                 PROVE  path'[i] < path'[j]
        OBVIOUS
    <3>1. i \in 1..Len(path) /\ Len(path) \in Nat
        BY <1>1, <1>4
    <3>2. CASE j = Len(path) + 1
        BY <3>1, <3>2, <1>4, <2>1
    <3>3. CASE j \in 1..Len(path)
        BY <3>1, <3>3, <1>4, <1>7 DEF RttInv, SentInOrder
    <3> QED BY <3>1, <3>2, <3>3, <1>4
  <2>4. /\ \A i \in 1..Len(file), j \in 1..Len(path') : file[i] < path'[j]
        /\ \A i \in 1..Len(answers), j \in 1..Len(path') : answers[i].sent < path'[j]
      BY <1>7, <2>1, <2>2 DEF RttInv, SentInOrder
  <2> QED BY <1>7, <2>3, <2>4 DEF RttInv, SentInOrder
<1> QED BY <1>5, <1>6, <1>7 DEF RttInv

\* The oldest probe leaves the path, answered or lost.
LEMMA RttLeavesPath ==
    ASSUME RttInv, Rtt!Answered \/ Rtt!Lost
    PROVE  RttInv'
<1>1. /\ path # <<>> /\ path' = Tail(path)
      /\ UNCHANGED <<clock, mode, attempts, alive, ping, sent, file>>
      /\ answers' \in {answers, Append(answers, [sent |-> Head(path), arrived |-> clock])}
    BY DEF Rtt!Answered, Rtt!Lost
<1>2. /\ clock \in Nat /\ sent \subseteq 0..clock /\ path \in Seq(sent)
      /\ answers \in Seq(AnswersOf(sent, clock))
    BY DEF RttInv, RttTypes
<1>3. /\ Head(path) \in sent /\ Head(path) = path[1] /\ 1 \in 1..Len(path)
      /\ path' \in Seq(sent) /\ Len(path') = Len(path) - 1
      /\ \A i \in 1..Len(path') : path'[i] = path[i + 1] /\ i + 1 \in 1..Len(path)
    BY <1>1, <1>2, HeadAndTail
<1> DEFINE new == [sent |-> Head(path), arrived |-> clock]
<1>4. /\ new \in AnswersOf(sent, clock) /\ new.sent <= new.arrived
      /\ new.sent = path[1]
  <2>1. Head(path) \in 0..clock
      BY <1>2, <1>3
  <2>2. new.sent = Head(path) /\ new.arrived = clock
      OBVIOUS
  <2>3. new \in AnswersOf(sent, clock)
      BY <1>2, <1>3 DEF AnswersOf
  <2> QED BY <2>1, <2>2, <2>3, <1>2, <1>3
<1> HIDE DEF new
<1>5. /\ answers' \in Seq(AnswersOf(sent, clock))
      /\ Len(answers') \in {Len(answers), Len(answers) + 1}
      /\ \A i \in 1..Len(answers') : \/ i \in 1..Len(answers) /\ answers'[i] = answers[i]
                                     \/ i = Len(answers) + 1 /\ answers'[i] = new
  <2>1. CASE answers' = answers
      BY <2>1, <1>2
  <2>2. CASE answers' = Append(answers, new)
      BY <2>2, <1>2, <1>4
  <2> QED BY <2>1, <2>2, <1>1 DEF new
<1>6. RttTypes'
  <2>1. \A i \in 1..Len(answers') : answers'[i].sent <= answers'[i].arrived
      BY <1>4, <1>5 DEF RttInv, RttTypes
  <2>2. mode = "stopwait" => Len(path') + Len(answers') <= 1
      BY <1>2, <1>3, <1>5 DEF RttInv, RttTypes
  <2> QED BY <1>1, <1>3, <1>5, <2>1, <2>2 DEF RttInv, RttTypes
<1>7. PingIsHeld' /\ (mode' = "threads" => attempts' = 4)
    BY <1>1 DEF RttInv, PingIsHeld
<1>8. ASSUME mode # "threads" PROVE SentInOrder'
  <2>1. SentInOrder
      BY <1>8 DEF RttInv
  <2>2. /\ \A i, j \in 1..Len(path') : i < j => path'[i] < path'[j]
        /\ \A i \in 1..Len(file), j \in 1..Len(path') : file[i] < path'[j]
        /\ \A j \in 1..Len(path') : path[1] < path'[j]
        /\ \A i \in 1..Len(file) : file[i] < path[1]
        /\ \A i \in 1..Len(answers) : answers[i].sent < path[1]
        /\ \A i \in 1..Len(answers), j \in 1..Len(path') : answers[i].sent < path'[j]
    <3> DEFINE n == Len(path)
    <3>1. n \in Nat /\ Len(path') = n - 1 /\ 1 <= n
        BY <1>2, <1>3
    <3>2. \A i \in 1..(n - 1) : path'[i] = path[i + 1]
        BY <1>3, <3>1
    <3>3. \A i, j \in 1..n : i < j => path[i] < path[j]
        BY <2>1 DEF SentInOrder
    <3>4. /\ \A i \in 1..Len(file), j \in 1..n : file[i] < path[j]
          /\ \A i \in 1..Len(answers), j \in 1..n : answers[i].sent < path[j]
        BY <2>1 DEF SentInOrder
    <3> HIDE DEF n
    <3>5. \A i \in 1..(n - 1) : i + 1 \in 1..n /\ 1 < i + 1 /\ 1 \in 1..n
        BY <3>1
    <3>6. /\ \A i, j \in 1..(n - 1) : i < j => path'[i] < path'[j]
          /\ \A j \in 1..(n - 1) : path[1] < path'[j]
        BY <3>1, <3>2, <3>3, <3>5
    <3>7. /\ \A i \in 1..Len(file), j \in 1..(n - 1) : file[i] < path'[j]
          /\ \A i \in 1..Len(file) : file[i] < path[1]
          /\ \A i \in 1..Len(answers) : answers[i].sent < path[1]
          /\ \A i \in 1..Len(answers), j \in 1..(n - 1) : answers[i].sent < path'[j]
        BY <3>1, <3>2, <3>4, <3>5
    <3> QED BY <3>1, <3>6, <3>7
  <2>3. \A i, j \in 1..Len(answers') : i < j => answers'[i].sent < answers'[j].sent
    <3> SUFFICES ASSUME NEW i \in 1..Len(answers'), NEW j \in 1..Len(answers'), i < j
                 PROVE  answers'[i].sent < answers'[j].sent
        OBVIOUS
    <3>1. i \in 1..Len(answers) /\ answers'[i] = answers[i]
        BY <1>2, <1>5
    <3>2. CASE j \in 1..Len(answers) /\ answers'[j] = answers[j]
        BY <3>1, <3>2, <2>1 DEF SentInOrder
    <3>3. CASE answers'[j] = new
        BY <3>1, <3>3, <1>4, <2>2
    <3> QED BY <3>2, <3>3, <1>5
  <2>4. \A i \in 1..Len(file), j \in 1..Len(answers') : file[i] < answers'[j].sent
      BY <1>4, <1>5, <2>1, <2>2 DEF SentInOrder
  <2>5. \A i \in 1..Len(answers'), j \in 1..Len(path') : answers'[i].sent < path'[j]
      BY <1>4, <1>5, <2>2
  <2> QED BY <1>1, <2>1, <2>2, <2>3, <2>4, <2>5 DEF SentInOrder
<1> QED BY <1>6, <1>7, <1>8, <1>1 DEF RttInv

\* The steps that move no probe: the clock, the mode and the ping.
LEMMA RttModeSteps ==
    ASSUME RttInv,
           \/ Rtt!Tick \/ Rtt!Probe \/ Rtt!Spawn \/ Rtt!InstallHandler \/ Rtt!Terminate
           \/ UNCHANGED rttVars
    PROVE  RttInv'
<1>1. /\ UNCHANGED <<path, sent, answers, file>>
      /\ clock' \in Nat /\ clock <= clock' /\ clock' \in 0..MaxTime /\ clock \in Nat
    BY RecordersAssumption
       DEF Rtt!MaxTimeAssumption, Rtt!Tick, Rtt!Probe, Rtt!Spawn, Rtt!InstallHandler,
           Rtt!Terminate, rttVars, RttInv, RttTypes
<1>2. /\ mode' \in {"probing", "spawned", "opened", "single", "stopwait", "threads"}
      /\ attempts' \in 0..4 /\ (mode' = "probing" => attempts' < 4)
      /\ ping' \in {"none", "runs", "gone"}
      /\ mode' = "threads" => attempts' = 4
    BY DEF Rtt!Tick, Rtt!Probe, Rtt!Spawn, Rtt!InstallHandler, Rtt!Terminate, Rtt!Attempts,
           rttVars, RttInv, RttTypes
<1>3. alive' \in BOOLEAN
  <2>1. alive' = alive \/ alive' = FALSE
      BY DEF Rtt!Tick, Rtt!Probe, Rtt!Spawn, Rtt!InstallHandler, Rtt!Terminate, rttVars
  <2> QED BY <2>1 DEF RttInv, RttTypes
<1>4. answers' \in Seq(AnswersOf(sent', clock'))
  <2>1. AnswersOf(sent, clock) \subseteq AnswersOf(sent', clock')
      BY <1>1, AnswersGrow
  <2>2. answers \in Seq(AnswersOf(sent, clock))
      BY DEF RttInv, RttTypes
  <2> QED BY <1>1, <2>1, <2>2, SeqGrows
<1>5. mode' = "stopwait" => Len(path') + Len(answers') <= 1
  <2>1. mode' = "stopwait" => mode = "stopwait" \/ mode = "probing"
      BY DEF Rtt!Tick, Rtt!Probe, Rtt!Spawn, Rtt!InstallHandler, Rtt!Terminate, rttVars
  <2>2. path = <<>> /\ answers = <<>> => Len(path) + Len(answers) <= 1
      OBVIOUS
  <2> QED BY <2>1, <2>2, <1>1 DEF RttInv, RttTypes
<1>6. mode' = "probing" => mode = "probing"
    BY DEF Rtt!Tick, Rtt!Probe, Rtt!Spawn, Rtt!InstallHandler, Rtt!Terminate, rttVars
<1>7. RttTypes'
    BY <1>1, <1>2, <1>3, <1>4, <1>5, <1>6 DEF RttInv, RttTypes
<1>8. PingIsHeld'
    BY DEF RttInv, RttTypes, PingIsHeld, Rtt!Tick, Rtt!Probe, Rtt!Spawn, Rtt!InstallHandler,
           Rtt!Terminate, Rtt!Attempts, rttVars
<1>9. mode' # "threads" => SentInOrder'
  <2>1. mode' # "threads" => mode # "threads"
      BY DEF Rtt!Tick, Rtt!Probe, Rtt!Spawn, Rtt!InstallHandler, Rtt!Terminate, rttVars
  <2> QED BY <1>1, <2>1 DEF RttInv, SentInOrder
<1> QED BY <1>2, <1>7, <1>8, <1>9 DEF RttInv

\* The oldest answer is written, with the time it was sent.
LEMMA RttWriteLine ==
    ASSUME RttInv, Rtt!WriteLine
    PROVE  RttInv'
<1>1. /\ answers # <<>> /\ answers' = Tail(answers) /\ mode \in {"single", "stopwait"}
      /\ file' = Append(file, Rtt!Stamp(Head(answers)))
      /\ UNCHANGED <<clock, mode, attempts, alive, ping, path, sent>>
    BY DEF Rtt!WriteLine
<1>2. /\ clock \in Nat /\ sent \subseteq 0..clock /\ path \in Seq(sent) /\ file \in Seq(sent)
      /\ answers \in Seq(AnswersOf(sent, clock)) /\ SentInOrder
    BY <1>1 DEF RttInv, RttTypes
<1> DEFINE n == Len(answers)
           m == Len(file)
<1>3. /\ Head(answers) \in AnswersOf(sent, clock) /\ Head(answers) = answers[1]
      /\ answers' \in Seq(AnswersOf(sent, clock)) /\ Len(answers') = n - 1
      /\ \A i \in 1..(n - 1) : answers'[i] = answers[i + 1] /\ i + 1 \in 1..n
      /\ n \in Nat /\ 1 <= n /\ m \in Nat
    BY <1>1, <1>2, HeadAndTail
<1>4. Rtt!Stamp(Head(answers)) = answers[1].sent /\ answers[1].sent \in sent
  <2>1. answers[1].sent \in sent /\ answers[1].arrived \in 0..clock
      BY <1>3, AnswersAreRecords
  <2>2. \A x \in sent \cup (0..clock) : x \in Nat
      BY <1>2
  <2>3. Rtt!Stamp(Head(answers)) = answers[1].arrived - (answers[1].arrived - answers[1].sent)
      BY <1>3 DEF Rtt!Stamp
  <2> QED BY <2>1, <2>2, <2>3
<1>5. /\ file' \in Seq(sent) /\ Len(file') = m + 1 /\ file'[m + 1] = answers[1].sent
      /\ \A i \in 1..m : file'[i] = file[i]
    BY <1>1, <1>2, <1>4
<1> HIDE DEF n, m
<1>6. RttTypes'
  <2>1. \A i \in 1..(n - 1) : answers'[i].sent <= answers'[i].arrived
      BY <1>3 DEF RttInv, RttTypes, n
  <2>2. mode = "stopwait" => Len(path) + Len(answers') <= 1
      BY <1>2, <1>3 DEF RttInv, RttTypes, n
  <2> QED BY <1>1, <1>3, <1>5, <2>1, <2>2 DEF RttInv, RttTypes
<1>7. PingIsHeld'
    BY <1>1 DEF RttInv, PingIsHeld
<1>8. SentInOrder'
  <2>1. /\ \A i, j \in 1..m : i < j => file[i] < file[j]
        /\ \A i, j \in 1..n : i < j => answers[i].sent < answers[j].sent
        /\ \A i, j \in 1..Len(path) : i < j => path[i] < path[j]
        /\ \A i \in 1..m, j \in 1..n : file[i] < answers[j].sent
        /\ \A i \in 1..m, j \in 1..Len(path) : file[i] < path[j]
        /\ \A i \in 1..n, j \in 1..Len(path) : answers[i].sent < path[j]
      BY <1>2 DEF SentInOrder, n, m
  <2>2. 1 \in 1..n /\ \A i \in 1..(n - 1) : 1 < i + 1
      BY <1>3
  <2>3. \A i \in 1..(m + 1) : \/ i \in 1..m /\ file'[i] = file[i]
                              \/ i = m + 1 /\ file'[i] = answers[1].sent
      BY <1>3, <1>5
  <2>4. \A i, j \in 1..(m + 1) : i < j => file'[i] < file'[j]
    <3> SUFFICES ASSUME NEW i \in 1..(m + 1), NEW j \in 1..(m + 1), i < j
                 PROVE  file'[i] < file'[j]
        OBVIOUS
    <3>1. i \in 1..m /\ file'[i] = file[i]
        BY <1>3, <1>5
    <3>2. CASE j \in 1..m /\ file'[j] = file[j]
        BY <3>1, <3>2, <2>1
    <3>3. CASE file'[j] = answers[1].sent
        BY <3>1, <3>3, <2>1, <2>2
    <3> QED BY <3>2, <3>3, <2>3
  <2>5. \A i, j \in 1..(n - 1) : i < j => answers'[i].sent < answers'[j].sent
    <3> SUFFICES ASSUME NEW i \in 1..(n - 1), NEW j \in 1..(n - 1), i < j
                 PROVE  answers'[i].sent < answers'[j].sent
        OBVIOUS
    <3>1. i + 1 \in 1..n /\ j + 1 \in 1..n /\ i + 1 < j + 1
        BY <1>3
    <3>2. answers'[i] = answers[i + 1] /\ answers'[j] = answers[j + 1]
        BY <1>3
    <3> QED BY <3>1, <3>2, <2>1
  <2>6. \A i \in 1..(m + 1), j \in 1..(n - 1) : file'[i] < answers'[j].sent
      BY <1>3, <2>1, <2>2, <2>3
  <2>7. \A i \in 1..(m + 1), j \in 1..Len(path) : file'[i] < path[j]
      BY <2>1, <2>2, <2>3
  <2>8. \A i \in 1..(n - 1), j \in 1..Len(path) : answers'[i].sent < path[j]
      BY <1>3, <2>1
  <2> QED BY <1>1, <1>3, <1>5, <2>1, <2>4, <2>5, <2>6, <2>7, <2>8 DEF SentInOrder
<1> QED BY <1>1, <1>6, <1>7, <1>8 DEF RttInv

\* Any answer is written: of the threads the order is not known.
LEMMA RttThreadWrites ==
    ASSUME RttInv, Rtt!ThreadWrites
    PROVE  RttInv'
<1>1. /\ mode = "threads" /\ UNCHANGED <<clock, mode, attempts, alive, ping, path, sent>>
    BY DEF Rtt!ThreadWrites
<1>2. PICK i \in 1..Len(answers) : /\ file' = Append(file, answers[i].sent)
                                  /\ answers' = Rtt!RemoveAt(answers, i)
    BY DEF Rtt!ThreadWrites, RttInv, RttTypes
<1>3. /\ clock \in Nat /\ sent \subseteq 0..clock /\ file \in Seq(sent)
      /\ answers \in Seq(AnswersOf(sent, clock))
      /\ \A j \in 1..Len(answers) : answers[j].sent <= answers[j].arrived
    BY DEF RttInv, RttTypes
<1>4. /\ answers' \in Seq(AnswersOf(sent, clock))
      /\ \A n \in 1..Len(answers') : \E j \in 1..Len(answers) : answers'[n] = answers[j]
  <2> DEFINE S == AnswersOf(sent, clock)
  <2>1. answers \in Seq(S)
      BY <1>3
  <2> HIDE DEF S
  <2>2. /\ Rtt!RemoveAt(answers, i) \in Seq(S)
        /\ \A n \in 1..Len(Rtt!RemoveAt(answers, i)) :
              \E j \in 1..Len(answers) : Rtt!RemoveAt(answers, i)[n] = answers[j]
      BY <2>1, RemovedFrom, Zenon
  <2>3. answers' = Rtt!RemoveAt(answers, i)
      BY <1>2
  <2> QED BY <2>2, <2>3, Zenon DEF S
<1>5. file' \in Seq(sent)
  <2>1. answers[i].sent \in sent
      BY <1>3, AnswersAreRecords
  <2> QED BY <1>2, <1>3, <2>1
<1>6. RttTypes'
    BY <1>1, <1>3, <1>4, <1>5 DEF RttInv, RttTypes
<1> QED BY <1>1, <1>6 DEF RttInv, PingIsHeld

LEMMA RttStep == RttInv /\ (Rtt!Next \/ UNCHANGED rttVars) => RttInv'
<1> SUFFICES ASSUME RttInv, Rtt!Next \/ UNCHANGED rttVars PROVE RttInv'
    OBVIOUS
<1>1. CASE Rtt!PingSends
  <2>1. mode \in {"opened", "single"}
      BY <1>1 DEF Rtt!PingSends, RttInv, PingIsHeld
  <2> QED BY <1>1, <2>1, RttSends DEF Rtt!PingSends
<1>2. CASE Rtt!ThreadSends
    BY <1>2, RttSends DEF Rtt!ThreadSends
<1>3. CASE Rtt!StopWaitSends
    BY <1>3, RttSends DEF Rtt!StopWaitSends
<1>4. CASE Rtt!Answered \/ Rtt!Lost
    BY <1>4, RttLeavesPath
<1>5. CASE Rtt!WriteLine
    BY <1>5, RttWriteLine
<1>6. CASE Rtt!ThreadWrites
    BY <1>6, RttThreadWrites
<1>7. CASE \/ Rtt!Tick \/ Rtt!Probe \/ Rtt!Spawn \/ Rtt!InstallHandler \/ Rtt!Terminate
           \/ UNCHANGED rttVars
    BY <1>7, RttModeSteps
<1> QED BY <1>1, <1>2, <1>3, <1>4, <1>5, <1>6, <1>7 DEF Rtt!Next

LEMMA RttInvIsSafe ==
    ASSUME RttInv
    PROVE  Rtt!TypeOK /\ Rtt!LinesInSendOrder /\ Rtt!NoPingAfterSamples
<1>1. file \in Seq(sent)
    BY DEF RttInv, RttTypes
<1>2. \A i \in DOMAIN file : file[i] \in sent
    BY <1>1
<1>3. mode # "threads" => \A i \in 1..(Len(file) - 1) : file[i] < file[i + 1]
  <2> SUFFICES ASSUME mode # "threads", NEW i \in 1..(Len(file) - 1)
               PROVE  file[i] < file[i + 1]
      OBVIOUS
  <2>1. i \in 1..Len(file) /\ i + 1 \in 1..Len(file) /\ i < i + 1
      BY <1>1
  <2> QED BY <2>1 DEF RttInv, SentInOrder
<1>4. Rtt!LinesInSendOrder
    BY <1>2, <1>3 DEF Rtt!LinesInSendOrder, Rtt!Attempts, RttInv, Rtt!Range
<1>5. Rtt!NoPingAfterSamples
    BY DEF Rtt!NoPingAfterSamples, RttInv, PingIsHeld
<1>6. \A a \in Rtt!Range(answers) : a.sent \in sent /\ a.arrived \in a.sent..clock
  <2> SUFFICES ASSUME NEW i \in 1..Len(answers)
               PROVE  /\ answers[i].sent \in sent
                      /\ answers[i].arrived \in answers[i].sent..clock
      BY DEF Rtt!Range, RttInv, RttTypes
  <2>1. answers[i] \in AnswersOf(sent, clock) /\ answers[i].sent <= answers[i].arrived
      BY DEF RttInv, RttTypes
  <2>2. answers[i].sent \in sent /\ answers[i].arrived \in 0..clock
      BY <2>1, AnswersAreRecords
  <2>3. \A x \in sent : x \in Nat
      BY DEF RttInv, RttTypes
  <2> QED BY <2>1, <2>2, <2>3 DEF RttInv, RttTypes
<1>7. Rtt!Range(path) \subseteq sent /\ Rtt!Range(file) \subseteq 0..clock
  <2>1. path \in Seq(sent) /\ sent \subseteq 0..clock
      BY DEF RttInv, RttTypes
  <2>2. /\ \A i \in DOMAIN path : path[i] \in sent
        /\ \A i \in DOMAIN file : file[i] \in sent
      BY <2>1, <1>1
  <2> QED BY <2>1, <2>2 DEF Rtt!Range
<1>8. Rtt!TypeOK
    BY <1>6, <1>7 DEF Rtt!TypeOK, Rtt!Modes, Rtt!Attempts, RttInv, RttTypes
<1> QED BY <1>4, <1>5, <1>8

\* The recorder keeps its variables within their types, rtt.txt has the times of sending
\* in the order of sending unless the monitor has fallen back to the threads, and a
\* ping outlives the monitor only if nothing is written yet: for every length of the
\* measurement.
THEOREM RttIsFaithful ==
    StudySpec => [](part = "rtt" =>
                       Rtt!TypeOK /\ Rtt!LinesInSendOrder /\ Rtt!NoPingAfterSamples)
<1>1. StudyInit => RttInv
    BY RttInit DEF StudyInit
<1>2. RttInv /\ [StudyNext]_studyVars => RttInv'
  <2> SUFFICES ASSUME RttInv, [StudyNext]_studyVars PROVE RttInv'
      OBVIOUS
  <2>1. Rtt!Next \/ UNCHANGED rttVars
      BY DEF StudyNext, studyVars
  <2> QED BY <2>1, RttStep
<1>3. RttInv => (part = "rtt" =>
                    Rtt!TypeOK /\ Rtt!LinesInSendOrder /\ Rtt!NoPingAfterSamples)
    BY RttInvIsSafe
<1> QED BY <1>1, <1>2, <1>3, PTL DEF StudySpec

-----------------------------------------------------------------------------
\* The zero of an experiment's clock.

\* What the rows of a throughput file can make of the zero.
DirOK(d) ==
    /\ {"reproduce", "there", "t0", "source", "client", "server", "firsts"} \subseteq DOMAIN d
    /\ {d.client, d.server} \subseteq Clock!Throughputs
    /\ d.t0 # Clock!None => d.there

ClockInv ==
    /\ DirOK(dir)
    /\ runs \in Nat
    /\ ~guessed => dir.t0 \in {Clock!None} \cup Clock!Estimates
    /\ {"step", "mode", "force", "t0"} \subseteq DOMAIN job
    /\ job.step \in {"idle", "opened", "written"}
    /\ job # Clock!Idle => job.step # "idle"
    /\ job.step = "opened" =>
          /\ dir.there /\ dir.t0 = Clock!None
          /\ job.mode \in {"iperf", "first"}
          /\ job.mode = "iperf" => job.t0 \in {Clock!None} \cup Clock!Estimates

LEMMA ErrorIsNat == Error \in Nat
    BY RecordersAssumption DEF Clock!ErrorAssumption

LEMMA ClockSifts == \A list, S : Clock!Sifted(list, S) = Sifted(list, S)
    BY DEF Clock!Sifted, Sifted

\* A whole row is kept.
LEMMA WholeRowIsKept ==
    ASSUME NEW x, Clock!HasBoth(x)
    PROVE  Clock!Whole(<<x>>) # <<>> /\ Clock!Whole(<<x>>)[1] = x
<1> DEFINE S == {line \in Clock!Range(<<x>>) : Clock!HasBoth(line)}
           q == Sifted(<<x>>, S)
<1>1. Clock!Whole(<<x>>) = q
    BY ClockSifts DEF Clock!Whole
<1>2. <<x>> \in Seq({x}) /\ <<x>>[1] = x /\ Len(<<x>>) = 1 /\ 1 \in 1..1 /\ 1 \in DOMAIN <<x>>
    OBVIOUS
<1>3. x \in S
    BY <1>2 DEF Clock!Range
<1>4. q \in Seq({x}) /\ Sound(q, <<x>>, S, 1)
    BY <1>2, SiftedSound
<1> HIDE DEF q, S
<1>5. PICK j \in 1..Len(q) : q[j] = x
    BY <1>2, <1>3, <1>4 DEF Sound
<1>6. Len(q) \in Nat /\ 1 \in 1..Len(q)
    BY <1>4, <1>5
<1>7. q # <<>> /\ q[1] \in {x}
    BY <1>4, <1>6
<1> QED BY <1>1, <1>7

LEMMA NoRowIsKept == Clock!Whole(<<>>) = <<>>
<1> DEFINE S == {line \in Clock!Range(<<>>) : Clock!HasBoth(line)}
           q == Sifted(<<>>, S)
<1>1. Clock!Whole(<<>>) = q
    BY ClockSifts DEF Clock!Whole
<1>2. q \in Seq({})
  <2>1. <<>> \in Seq({})
      OBVIOUS
  <2> QED BY <2>1, SiftedSound
<1> QED BY <1>1, <1>2

\* A row dates the zero within the error, or the file has none.
LEMMA RowsDateTheZero ==
    ASSUME NEW rows \in Clock!Throughputs
    PROVE  \/ Clock!FirstInterval(rows) = Clock!None
           \/ Clock!FirstInterval(rows) + 3 \in Clock!Estimates
<1>1. CASE rows = <<>>
    BY <1>1, NoRowIsKept DEF Clock!FirstInterval
<1>2. ASSUME NEW e \in Clock!Estimates, rows = Clock!FileFrom(e)
      PROVE  Clock!FirstInterval(rows) + 3 \in Clock!Estimates
  <2>1. e \in Int
      BY ErrorIsNat DEF Clock!Estimates
  <2> DEFINE x == [epoch |-> 100 + e - 3, t |-> 100, v |-> 1]
  <2>2. rows = <<x>> /\ Clock!HasBoth(x)
      BY <1>2 DEF Clock!FileFrom, Clock!HasBoth, Clock!None
  <2>5. Clock!Whole(rows) # <<>> /\ Clock!Whole(rows)[1] = x
    <3> HIDE DEF x
    <3> QED BY <2>2, WholeRowIsKept
  <2>3. Clock!FirstInterval(rows) = (100 + e - 3) - 100
      BY <2>5 DEF Clock!FirstInterval
  <2>4. Clock!FirstInterval(rows) + 3 = e
      BY <2>1, <2>3
  <2> QED BY <2>4
<1> QED BY <1>1, <1>2 DEF Clock!Throughputs

LEMMA ExperimentsAreSound ==
    ASSUME NEW d \in Clock!Experiment
    PROVE  DirOK(d) /\ d.t0 \in {Clock!None} \cup Clock!Estimates
<1>1. 0 \in Clock!Estimates
    BY ErrorIsNat DEF Clock!Estimates
<1>2. PICK r \in BOOLEAN,
           f \in {[there |-> TRUE, t0 |-> 0], [there |-> TRUE, t0 |-> Clock!None],
                  [there |-> FALSE, t0 |-> Clock!None]},
           c \in Clock!Throughputs, s \in Clock!Throughputs, n \in SUBSET FirstSamples :
             d = [reproduce |-> r, there |-> f.there, t0 |-> f.t0, source |-> "none",
                  client |-> c, server |-> s, firsts |-> n]
    BY DEF Clock!Experiment
<1>3. f.t0 \in {0, Clock!None} /\ (f.t0 # Clock!None => f.there)
    BY <1>2
<1> QED BY <1>1, <1>2, <1>3 DEF DirOK

LEMMA ClockInit == Clock!Init => ClockInv
    BY ExperimentsAreSound DEF Clock!Init, ClockInv, Clock!Idle

LEMMA ClockStep ==
    ASSUME ClockInv, Clock!Next \/ UNCHANGED clockVars
    PROVE  /\ ClockInv'
           /\ runs' = runs /\ dir.t0 # Clock!None /\ dir'.t0 # dir.t0 => job'.force
<1> USE DEF ClockInv
<1>1. CASE Clock!RunLab
  <2>1. /\ dir' \in Clock!Experiment /\ guessed' = FALSE /\ job' = job /\ job = Clock!Idle
        /\ runs < MaxRuns /\ runs' = runs + 1
      BY <1>1 DEF Clock!RunLab
  <2> QED BY <2>1, ExperimentsAreSound DEF Clock!Idle
<1>2. ASSUME NEW mo \in Clock!Modes, NEW fo \in BOOLEAN, Clock!Backfill(mo, fo)
      PROVE  /\ ClockInv'
             /\ dir.t0 # Clock!None => job'.force
  <2>1. /\ job' = [step |-> "opened", mode |-> mo, force |-> fo, t0 |-> Clock!Estimate(mo)]
        /\ dir' = [dir EXCEPT !.there = TRUE, !.t0 = Clock!None]
        /\ guessed' = guessed /\ (dir.there => fo) /\ runs' = runs
      BY <1>2 DEF Clock!Backfill
  <2>2. DirOK(dir') /\ dir'.there /\ dir'.t0 = Clock!None
      BY <2>1 DEF DirOK
  <2>3. mo = "iperf" => Clock!Estimate(mo) \in {Clock!None} \cup Clock!Estimates
      BY RowsDateTheZero DEF Clock!Estimate, Clock!T0FromIperf, DirOK
  <2>4. mo \in {"iperf", "first"}
      BY DEF Clock!Modes
  <2> QED BY <2>1, <2>2, <2>3, <2>4 DEF Clock!Idle, DirOK
<1>3. CASE Clock!WriteT0
  <2>1. /\ job.step = "opened" /\ dir' = [dir EXCEPT !.t0 = job.t0]
        /\ guessed' = (job.mode = "first") /\ job' = [job EXCEPT !.step = "written"]
        /\ runs' = runs
      BY <1>3 DEF Clock!WriteT0
  <2>2. /\ dir.there /\ dir.t0 = Clock!None /\ job.mode \in {"iperf", "first"}
        /\ job.mode = "iperf" => job.t0 \in {Clock!None} \cup Clock!Estimates
      BY <2>1
  <2>3. DirOK(dir') /\ dir'.t0 = job.t0
    <3>1. dir.there /\ dir'.there = dir.there /\ dir'.t0 = job.t0
        BY <2>1, <2>2 DEF DirOK
    <3> QED BY <2>1, <3>1 DEF DirOK
  <2> QED BY <2>1, <2>2, <2>3
<1>4. CASE Clock!WriteSource
  <2>1. /\ dir' = [dir EXCEPT !.source = job.mode] /\ job' = Clock!Idle
        /\ guessed' = guessed /\ runs' = runs
      BY <1>4 DEF Clock!WriteSource
  <2>2. DirOK(dir') /\ dir'.t0 = dir.t0
      BY <2>1 DEF DirOK
  <2> QED BY <2>1, <2>2 DEF Clock!Idle
<1>5. CASE Clock!Interrupted
    BY <1>5 DEF Clock!Interrupted, Clock!Idle
<1>6. CASE UNCHANGED clockVars
    BY <1>6 DEF clockVars
<1> QED BY <1>1, <1>2, <1>3, <1>4, <1>5, <1>6 DEF Clock!Next

LEMMA ZeroIsRead ==
    ASSUME ClockInv
    PROVE  Clock!ZeroIsClose
    BY RowsDateTheZero DEF ClockInv, DirOK, Clock!ZeroIsClose, Clock!ReadT0

\* The zero that the plots of a mitigation read is as close to that of its phases as
\* the rows of iperf are, however the backfill is used and interrupted, unless somebody
\* asked for the first sample: for every error of the rows and any number of runs.
THEOREM ZeroStaysClose == StudySpec => []Clock!ZeroIsClose
<1>1. StudyInit => ClockInv
    BY ClockInit DEF StudyInit
<1>2. ClockInv /\ [StudyNext]_studyVars => ClockInv'
  <2> SUFFICES ASSUME ClockInv, [StudyNext]_studyVars PROVE ClockInv'
      OBVIOUS
  <2>1. Clock!Next \/ UNCHANGED clockVars
      BY DEF StudyNext, studyVars
  <2> QED BY <2>1, ClockStep
<1>3. ClockInv => Clock!ZeroIsClose
    BY ZeroIsRead
<1> QED BY <1>1, <1>2, <1>3, PTL DEF StudySpec

\* A number that is in t0.txt changes with a new experiment or with --force only.
THEOREM MeasuredZeroIsKept == StudySpec => NumberIsKept
<1>1. StudyInit => ClockInv
    BY ClockInit DEF StudyInit
<1>2. ClockInv /\ [StudyNext]_studyVars
        => /\ ClockInv'
           /\ [runs' = runs /\ dir.t0 # Clock!None /\ dir'.t0 # dir.t0 => job'.force]_(Clock!vars)
  <2> SUFFICES ASSUME ClockInv, [StudyNext]_studyVars
               PROVE  /\ ClockInv'
                      /\ runs' = runs /\ dir.t0 # Clock!None /\ dir'.t0 # dir.t0 => job'.force
      OBVIOUS
  <2>1. Clock!Next \/ UNCHANGED clockVars
      BY DEF StudyNext, studyVars
  <2> QED BY <2>1, ClockStep
<1> QED BY <1>1, <1>2, PTL DEF StudySpec, NumberIsKept, Clock!NumberIsKept
-----------------------------------------------------------------------------
\* The tables.

LEMMA CompareSifts == \A list, S : Compare!Sifted(list, S) = Sifted(list, S)
    BY DEF Compare!Sifted, Sifted

LEMMA CompareCounts == \A S : Compare!Cardinality(S) = Cardinality(S)
    BY DEF Compare!Cardinality, Cardinality

LEMMA CompareOrders == \A values, n : Compare!Ordered(values, n) = Ordered(values, n)
    BY CompareCounts DEF Compare!Ordered, Ordered

\* What a monitor's file gives is a series.
Samples == [t : Int, v : Nat]

LEMMA WholeRows ==
    ASSUME NEW lines0 \in Seq(Compare!Line)
    PROVE  /\ Compare!Rows(Compare!ReadRtt(lines0)) \in Seq(Samples)
           /\ \A i \in 1..Len(Compare!Rows(Compare!ReadRtt(lines0))) :
                 Compare!ReadRtt(lines0).ts[i] = Compare!Rows(Compare!ReadRtt(lines0))[i].t
<1> DEFINE S == {line \in Compare!Range(lines0) : Compare!HasBoth(line)}
           whole == Compare!Whole(lines0)
<1>1. whole = Sifted(lines0, S)
    BY CompareSifts DEF Compare!Whole
<1>2. whole \in Seq(Compare!Line) /\ Sound(whole, lines0, S, Len(lines0))
    BY <1>1, SiftedSound
<1>3. ASSUME NEW i \in 1..Len(whole)
      PROVE  whole[i].t \in Int /\ whole[i].v \in Nat
  <2>1. whole[i] \in S /\ whole[i] \in Compare!Line
      BY <1>2 DEF Sound
  <2>2. whole[i].v # Compare!None
      BY <2>1 DEF Compare!HasBoth
  <2> QED BY <2>1, <2>2 DEF Compare!Line
<1>4. DOMAIN whole = 1..Len(whole) /\ Len(whole) \in Nat
    BY <1>2
<1> HIDE DEF whole
<1> DEFINE read == Compare!ReadRtt(lines0)
           ts == [i \in DOMAIN whole |-> whole[i].t]
           vs == [i \in DOMAIN whole |-> whole[i].v]
<1>5. read.ts = ts /\ read.vs = vs /\ read.ts = Compare!Times(whole)
    BY DEF Compare!ReadRtt, Compare!ReadMatched, Compare!Times, Compare!Values, whole
<1>6. Compare!Rows(read) = [i \in 1..Len(whole) |-> [t |-> whole[i].t, v |-> whole[i].v]]
    BY <1>4, <1>5 DEF Compare!Rows
<1>7. \A i \in 1..Len(whole) : [t |-> whole[i].t, v |-> whole[i].v] \in Samples
    BY <1>3 DEF Samples
<1>8. Compare!Rows(read) \in Seq(Samples) /\ Len(Compare!Rows(read)) = Len(whole)
    BY <1>4, <1>6, <1>7
<1>9. \A i \in 1..Len(whole) : read.ts[i] = Compare!Rows(read)[i].t
    BY <1>4, <1>5, <1>6
<1> QED BY <1>8, <1>9

\* The samples of a span of time.
Between(rows, zero, a, b) == {i \in 1..Len(rows) : a <= rows[i].t - zero /\ rows[i].t - zero < b}
Count(rows, zero, a, b) == Cardinality(Between(rows, zero, a, b))
CountOf(rows, zero, p) == Count(rows, zero, 1000 * (p - 1), 1000 * p)

\* A phase takes the samples of its ten seconds, and as many numbers as samples.
LEMMA PhaseTakes ==
    ASSUME NEW rows \in Seq(Samples), NEW zero \in Int, NEW p \in 1..6
    PROVE  /\ Compare!InPhase(rows, zero, Compare!Phase(p)) \in Seq(Nat)
           /\ Len(Compare!InPhase(rows, zero, Compare!Phase(p))) =
                 CountOf(rows, zero, p)
<1> DEFINE S == {row \in Compare!Range(rows) : Compare!In(Compare!Phase(p), row.t - zero)}
           sifted == Sifted(rows, S)
           taken == {i \in 1..Len(rows) : rows[i] \in S}
<1>1. Compare!InPhase(rows, zero, Compare!Phase(p)) = [i \in DOMAIN sifted |-> sifted[i].v]
    BY CompareSifts DEF Compare!InPhase, Compare!Values
<1>2. /\ sifted \in Seq(Samples)
      /\ Len(sifted) = Cardinality(taken)
    BY SiftedSound, SiftedCounts
<1> HIDE DEF sifted
<1>3. \A i \in 1..Len(sifted) : sifted[i].v \in Nat
  <2>1. \A i \in 1..Len(sifted) : sifted[i] \in Samples
      BY <1>2
  <2> QED BY <2>1 DEF Samples
<1>4. ASSUME NEW i \in 1..Len(rows)
      PROVE  rows[i] \in S <=> /\ 1000 * (p - 1) <= rows[i].t - zero
                               /\ rows[i].t - zero < 1000 * p
    BY DEF Compare!Range, Compare!In, Compare!Phase
<1>5. taken = Between(rows, zero, 1000 * (p - 1), 1000 * p)
    BY <1>4 DEF Between
<1>6. DOMAIN sifted = 1..Len(sifted) /\ Len(sifted) \in Nat
    BY <1>2
<1> DEFINE numbers == [i \in 1..Len(sifted) |-> sifted[i].v]
<1>7. numbers \in Seq(Nat) /\ Len(numbers) = Len(sifted)
    BY <1>3, <1>6
<1>8. Compare!InPhase(rows, zero, Compare!Phase(p)) = numbers
    BY <1>1, <1>6
<1> HIDE DEF numbers
<1>9. Len(numbers) = CountOf(rows, zero, p)
  <2> HIDE DEF taken
  <2>1. Cardinality(taken) = CountOf(rows, zero, p)
      BY <1>5 DEF CountOf, Count
  <2> QED BY <1>2, <1>7, <2>1
<1> QED BY <1>7, <1>8, <1>9

\* Two neighbouring spans of time share out their samples.
LEMMA SpansAdd ==
    ASSUME NEW rows \in Seq(Samples), NEW zero \in Int, NEW a \in Int, NEW b \in Int, NEW c \in Int,
           a <= b, b <= c
    PROVE  /\ Count(rows, zero, a, b) \in Nat /\ Count(rows, zero, b, c) \in Nat
           /\ Count(rows, zero, a, c) = Count(rows, zero, a, b) + Count(rows, zero, b, c)
<1> DEFINE A == Between(rows, zero, a, b)
           B == Between(rows, zero, b, c)
<1>1. Len(rows) \in Nat /\ \A i \in 1..Len(rows) : rows[i].t - zero \in Int
  <2>1. \A i \in 1..Len(rows) : rows[i] \in Samples
      OBVIOUS
  <2> QED BY <2>1 DEF Samples
<1>2. A \subseteq 1..Len(rows) /\ B \subseteq 1..Len(rows)
    BY DEF Between
<1>3. /\ IsFiniteSet(A) /\ IsFiniteSet(B)
      /\ Cardinality(A) \in Nat /\ Cardinality(B) \in Nat
    BY <1>1, <1>2, CountPlaces
<1>4. A \cap B = {}
    BY <1>1 DEF Between
<1>5. A \cup B = Between(rows, zero, a, c)
    BY <1>1 DEF Between
<1>6. Cardinality(A \cup B) = Cardinality(A) + Cardinality(B)
  <2> HIDE DEF A, B
  <2>1. Cardinality(A \cap B) = 0
      BY <1>4, FS_EmptySet
  <2>2. Cardinality(A \cup B) = Cardinality(A) + Cardinality(B) - Cardinality(A \cap B)
      BY <1>3, FS_Union
  <2> QED BY <1>3, <2>1, <2>2
<1> QED BY <1>3, <1>5, <1>6 DEF Count

LEMMA SixPhases ==
    ASSUME NEW rows \in Seq(Samples), NEW zero \in Int
    PROVE  LET n(p) == Len(Compare!InPhase(rows, zero, Compare!Phase(p)))
           IN  n(1) + n(2) + n(3) + n(4) + n(5) + n(6)
                 = Count(rows, zero, 0, 6000)
<1> DEFINE n(p) == Len(Compare!InPhase(rows, zero, Compare!Phase(p)))
           C(a, b) == Count(rows, zero, a, b)
<1>1. \A p \in 1..6 : n(p) = CountOf(rows, zero, p)
    BY PhaseTakes
<1> HIDE DEF n
<1>2. /\ n(1) = C(0, 1000) /\ n(2) = C(1000, 2000) /\ n(3) = C(2000, 3000)
      /\ n(4) = C(3000, 4000) /\ n(5) = C(4000, 5000) /\ n(6) = C(5000, 6000)
  <2>1. n(1) = C(1000 * (1 - 1), 1000 * 1) /\ n(2) = C(1000 * (2 - 1), 1000 * 2)
      BY <1>1 DEF CountOf
  <2>2. n(3) = C(1000 * (3 - 1), 1000 * 3) /\ n(4) = C(1000 * (4 - 1), 1000 * 4)
      BY <1>1 DEF CountOf
  <2>3. n(5) = C(1000 * (5 - 1), 1000 * 5) /\ n(6) = C(1000 * (6 - 1), 1000 * 6)
      BY <1>1 DEF CountOf
  <2> HIDE DEF C
  <2> QED BY <2>1, <2>2, <2>3
<1>3. /\ C(0, 1000) \in Nat /\ C(1000, 2000) \in Nat
      /\ C(0, 2000) = C(0, 1000) + C(1000, 2000)
    BY SpansAdd
<1>4. C(2000, 3000) \in Nat /\ C(0, 3000) = C(0, 2000) + C(2000, 3000)
    BY SpansAdd
<1>5. C(3000, 4000) \in Nat /\ C(0, 4000) = C(0, 3000) + C(3000, 4000)
    BY SpansAdd
<1>6. C(4000, 5000) \in Nat /\ C(0, 5000) = C(0, 4000) + C(4000, 5000)
    BY SpansAdd
<1>7. C(5000, 6000) \in Nat /\ C(0, 6000) = C(0, 5000) + C(5000, 6000)
    BY SpansAdd
<1> HIDE DEF C
<1>9. n(1) + n(2) + n(3) + n(4) + n(5) + n(6) = C(0, 6000)
    BY <1>2, <1>3, <1>4, <1>5, <1>6, <1>7
<1> QED BY <1>9 DEF n, C

\* At least 95 of 100 numbers are not above the one p95 shows.
LEMMA NinetyFiveReached ==
    ASSUME NEW s \in Seq(Nat), s # <<>>
    PROVE  100 * Cardinality({i \in DOMAIN s : s[i] <= Compare!P95(s)}) >= 95 * Len(s)
<1> DEFINE place == (95 * Len(s)) \div 100
<1>1. Len(s) \in Nat /\ Len(s) > 0
    OBVIOUS
<1>2. place \in 0..(Len(s) - 1)
    BY <1>1
<1>3. Compare!P95(s) = Ordered(s, place)
    BY <1>2, CompareOrders DEF Compare!P95
<1>4. place < Cardinality(NotGreater(s, Compare!P95(s)))
  <2> HIDE DEF place
  <2> QED BY <1>2, <1>3, OrderedIsThere
<1>5. NotGreater(s, Compare!P95(s)) = {i \in DOMAIN s : s[i] <= Compare!P95(s)}
    BY DEF NotGreater
<1>6. NotGreater(s, Compare!P95(s)) \subseteq 1..Len(s)
    BY DEF NotGreater
<1>7. Cardinality(NotGreater(s, Compare!P95(s))) \in Nat
    BY <1>1, <1>6, CountPlaces
<1>8. 100 * Cardinality(NotGreater(s, Compare!P95(s))) >= 95 * Len(s)
  <2>1. PICK c \in Nat : c = Cardinality(NotGreater(s, Compare!P95(s)))
      BY <1>7
  <2>2. PICK l \in Nat : l = Len(s)
      BY <1>1
  <2>3. (95 * l) \div 100 < c
      BY <1>4, <2>1, <2>2
  <2>4. 100 * c >= 95 * l
      BY <2>3
  <2> QED BY <2>1, <2>2, <2>4
<1> QED BY <1>5, <1>8

\* The zero is a time.
LEMMA ZeroIsTime ==
    ASSUME NEW d \in Compare!Directory, NEW first \in Int
    PROVE  Compare!Zero(d, first) \in Int
<1>1. /\ d.t0 \in Int /\ d.client \in Seq(Compare!Line) /\ d.server \in Seq(Compare!Line)
    BY DEF Compare!Directory
<1>2. Compare!None \in Int
    BY DEF Compare!None
<1>3. ASSUME NEW f \in Seq(Compare!Line)
      PROVE  Compare!FirstInterval(f) \in Int
  <2> DEFINE rows == Compare!Whole(f)
  <2>3. rows \in Seq(Compare!Line)
      BY CompareSifts, SiftedSound DEF Compare!Whole
  <2>4. Compare!FirstInterval(f) = IF rows = <<>> THEN Compare!None ELSE rows[1].epoch - rows[1].t
      BY DEF Compare!FirstInterval
  <2> HIDE DEF rows
  <2>1. CASE rows = <<>>
      BY <1>2, <2>1, <2>4
  <2>2. CASE rows # <<>>
    <3>1. rows[1] \in Compare!Line
        BY <2>2, <2>3
    <3>2. rows[1].epoch \in Int /\ rows[1].t \in Int
        BY <3>1 DEF Compare!Line
    <3> QED BY <2>2, <2>4, <3>2
  <2> QED BY <2>1, <2>2
<1>4. Compare!FirstInterval(d.client) \in Int /\ Compare!FirstInterval(d.server) \in Int
    BY <1>1, <1>3
<1>5. Compare!ReadT0(d) \in Int
    BY <1>1, <1>2, <1>4 DEF Compare!ReadT0
<1> QED BY <1>5 DEF Compare!Zero

\* What the tables count and order: the round trip times of a phase.
RttRows(d) == Compare!Rows(Compare!ReadRtt(d.rtt))
RttZero(d) == Compare!Zero(d, RttRows(d)[1].t)
RttsOf(d, p) ==
    IF RttRows(d) = <<>> THEN <<>> ELSE Compare!InPhase(RttRows(d), RttZero(d), Compare!Phase(p))

LEMMA RttsAreNumbers ==
    ASSUME NEW d \in Compare!Directory
    PROVE  /\ RttRows(d) \in Seq(Samples)
           /\ RttRows(d) # <<>> => /\ RttZero(d) \in Int
                                  /\ RttRows(d)[1].t = Compare!ReadRtt(d.rtt).ts[1]
           /\ \A p \in 1..6 : RttsOf(d, p) \in Seq(Nat)
<1>1. d.rtt \in Seq(Compare!Line)
    BY DEF Compare!Directory
<1>2. RttRows(d) \in Seq(Samples)
    BY <1>1, WholeRows DEF RttRows
<1>3. ASSUME RttRows(d) # <<>>
      PROVE  RttZero(d) \in Int /\ RttRows(d)[1].t = Compare!ReadRtt(d.rtt).ts[1]
  <2>1. 1 \in 1..Len(RttRows(d)) /\ RttRows(d)[1] \in Samples
      BY <1>2, <1>3
  <2>2. RttRows(d)[1].t \in Int
      BY <2>1 DEF Samples
  <2>3. RttRows(d)[1].t = Compare!ReadRtt(d.rtt).ts[1]
      BY <1>1, <2>1, WholeRows DEF RttRows
  <2> QED BY <2>2, <2>3, ZeroIsTime DEF RttZero
<1>4. ASSUME NEW p \in 1..6
      PROVE  RttsOf(d, p) \in Seq(Nat)
  <2>1. CASE RttRows(d) = <<>>
      BY <2>1 DEF RttsOf
  <2>2. CASE RttRows(d) # <<>>
      BY <1>2, <1>3, <2>2, PhaseTakes DEF RttsOf
  <2> QED BY <2>1, <2>2
<1> QED BY <1>2, <1>3, <1>4

\* The cell of a phase, when read_t0 has not been replaced.
CellOK(d, p, cell) ==
    /\ cell.n = Len(RttsOf(d, p))
    /\ RttsOf(d, p) # <<>> => cell.p95 = Compare!P95(RttsOf(d, p))

LEMMA StatsAreOK ==
    ASSUME ~patched, NEW d, NEW p \in 1..6
    PROVE  CellOK(d, p, Compare!PhaseStats(d, Compare!Phase(p)))
<1>1. \A first : Compare!RunT0(d, first) = Compare!Zero(d, first)
    BY DEF Compare!RunT0
<1>2. /\ Compare!PhaseStats(d, Compare!Phase(p)).n = Len(RttsOf(d, p))
      /\ RttsOf(d, p) # <<>> =>
            Compare!PhaseStats(d, Compare!Phase(p)).p95 = Compare!P95(RttsOf(d, p))
    BY <1>1 DEF Compare!PhaseStats, RttsOf, RttZero, RttRows
<1> QED BY <1>2 DEF CellOK

LEMMA CellsShareOut ==
    ASSUME NEW d \in Compare!Directory, NEW cells, \A p \in 1..6 : CellOK(d, p, cells[p])
    PROVE  LET times == Compare!RttTimes(d)
               n(p) == cells[p].n
           IN  n(1) + n(2) + n(3) + n(4) + n(5) + n(6) = Compare!Cardinality(
                   {j \in DOMAIN times : 0 <= times[j] /\ times[j] < Compare!Phase(6).b})
<1> DEFINE times == Compare!RttTimes(d)
           n(p) == cells[p].n
           minute == {j \in DOMAIN times : 0 <= times[j] /\ times[j] < Compare!Phase(6).b}
           rows == RttRows(d)
<1>1. rows \in Seq(Samples)
    BY RttsAreNumbers
<1>2. \A p \in 1..6 : n(p) = Len(RttsOf(d, p))
    BY DEF CellOK
<1>3. CASE rows = <<>>
  <2>1. times = <<>> /\ DOMAIN times = {}
      BY <1>3 DEF Compare!RttTimes, RttRows
  <2>2. minute = {}
      BY <2>1
  <2>3. \A p \in 1..6 : n(p) = 0
    <3>1. \A p \in 1..6 : RttsOf(d, p) = <<>>
        BY <1>3 DEF RttsOf
    <3> QED BY <1>2, <3>1
  <2>4. Compare!Cardinality(minute) = 0
    <3> HIDE DEF minute
    <3>1. Cardinality({}) = 0
        BY FS_EmptySet
    <3> QED BY <2>2, <3>1, CompareCounts
  <2> QED BY <2>3, <2>4
<1>4. CASE rows # <<>>
  <2> DEFINE zero == RttZero(d)
             phase(p) == Len(Compare!InPhase(rows, zero, Compare!Phase(p)))
  <2>1. zero \in Int
      BY <1>4, RttsAreNumbers
  <2>2. times = [i \in DOMAIN rows |-> rows[i].t - zero]
      BY <1>4 DEF Compare!RttTimes, RttRows, RttZero
  <2>3. \A p \in 1..6 : n(p) = phase(p)
    <3>1. \A p \in 1..6 : RttsOf(d, p) = Compare!InPhase(rows, zero, Compare!Phase(p))
        BY <1>4 DEF RttsOf
    <3> QED BY <1>2, <3>1
  <2>4. phase(1) + phase(2) + phase(3) + phase(4) + phase(5) + phase(6) = Count(rows, zero, 0, 6000)
    <3> HIDE DEF rows, zero
    <3> QED BY <1>1, <2>1, SixPhases
  <2>5. Compare!Phase(6).b = 6000
      BY DEF Compare!Phase
  <2>6. DOMAIN rows = 1..Len(rows)
      BY <1>1
  <2>7. minute = Between(rows, zero, 0, 6000)
    <3> HIDE DEF rows, zero
    <3> QED BY <2>2, <2>5, <2>6 DEF Between
  <2>8. Compare!Cardinality(minute) = Count(rows, zero, 0, 6000)
    <3> HIDE DEF minute, rows, zero
    <3> QED BY <2>7, CompareCounts DEF Count
  <2> HIDE DEF n, phase, minute
  <2>9. /\ n(1) = phase(1) /\ n(2) = phase(2) /\ n(3) = phase(3)
        /\ n(4) = phase(4) /\ n(5) = phase(5) /\ n(6) = phase(6)
      BY <2>3
  <2> QED BY <2>4, <2>8, <2>9 DEF n, minute
<1> QED BY <1>3, <1>4

LEMMA CellsReach ==
    ASSUME NEW d \in Compare!Directory, NEW p \in 1..6, NEW cell, CellOK(d, p, cell), cell.n > 0
    PROVE  LET rtts == Compare!InPhase(Compare!Rows(Compare!ReadRtt(d.rtt)),
                                       Compare!Zero(d, Compare!ReadRtt(d.rtt).ts[1]),
                                       Compare!Phase(p))
           IN  100 * Compare!Cardinality({j \in DOMAIN rtts : rtts[j] <= cell.p95})
                   >= 95 * Len(rtts)
<1> DEFINE rtts == RttsOf(d, p)
           reached == {j \in DOMAIN rtts : rtts[j] <= Compare!P95(rtts)}
<1>1. rtts \in Seq(Nat) /\ cell.n = Len(rtts)
    BY RttsAreNumbers DEF CellOK
<1>2. rtts # <<>>
    BY <1>1
<1>3. RttRows(d) # <<>>
    BY <1>2 DEF RttsOf
<1>4. rtts = Compare!InPhase(Compare!Rows(Compare!ReadRtt(d.rtt)),
                             Compare!Zero(d, Compare!ReadRtt(d.rtt).ts[1]), Compare!Phase(p))
    BY <1>3, RttsAreNumbers DEF RttsOf, RttZero, RttRows
<1>5. cell.p95 = Compare!P95(rtts)
    BY <1>2 DEF CellOK
<1> HIDE DEF rtts
<1>6. 100 * Cardinality(reached) >= 95 * Len(rtts)
    BY <1>1, <1>2, NinetyFiveReached
<1>7. {j \in DOMAIN rtts : rtts[j] <= cell.p95} = reached
    BY <1>5
<1>8. 100 * Compare!Cardinality({j \in DOMAIN rtts : rtts[j] <= cell.p95}) >= 95 * Len(rtts)
  <2> HIDE DEF reached
  <2> QED BY <1>6, <1>7, CompareCounts
<1> QED BY <1>4, <1>8

-----------------------------------------------------------------------------
\* The invariant of the tables.
IsList(q) == \E S : q \in Seq(S)

LEMMA ListGrows ==
    ASSUME NEW q, IsList(q), NEW e
    PROVE  /\ IsList(Append(q, e)) /\ Len(q) \in Nat /\ Len(Append(q, e)) = Len(q) + 1
           /\ \A i \in 1..Len(q) : Append(q, e)[i] = q[i]
           /\ Append(q, e)[Len(q) + 1] = e
           /\ DOMAIN q = 1..Len(q) /\ DOMAIN Append(q, e) = 1..(Len(q) + 1)
<1>1. PICK S : q \in Seq(S)
    BY DEF IsList
<1> DEFINE T == S \cup {e}
<1>2. q \in Seq(T) /\ e \in T
    BY <1>1
<1> HIDE DEF T
<1>3. Append(q, e) \in Seq(T)
    BY <1>2
<1> QED BY <1>2, <1>3, OneMore DEF IsList

TableOK(t) ==
    /\ \E j \in 1..Len(tableIn.algos) : t.algo = tableIn.algos[j]
    /\ IsList(t.cells) /\ Len(t.cells) = Len(tableIn.runs)
    /\ \A r \in DOMAIN tableIn.runs : \A p \in 1..6 :
          CellOK(tableIn.runs[r][t.algo], p, t.cells[r][p])

\* The algorithm has a table or is skipped.
Spoken(algo, done, without) ==
    \/ \E i \in DOMAIN done : done[i].algo = algo
    \/ \E i \in DOMAIN without : without[i] = algo

TableInv ==
    /\ tableIn \in CompareInputs
    /\ k \in Nat \ {0}
    /\ k <= Len(tableIn.algos) + 1 \/ k <= Len(tableIn.figureAlgos) + 1
    /\ patched \in BOOLEAN /\ report \in BOOLEAN
    /\ tablePc \in {"tables", "figures", "done", "raised"}
    /\ tablePc = "tables" => ~patched /\ k <= Len(tableIn.algos) + 1
    /\ IsList(tables) /\ IsList(skipped) /\ IsList(figures)
    /\ \A i \in DOMAIN tables : TableOK(tables[i])
    /\ \A i \in DOMAIN skipped :
          \E j \in 1..Len(tableIn.algos) : skipped[i] = tableIn.algos[j]
    /\ \A i \in DOMAIN figures :
          \E j \in 1..Len(tableIn.figureAlgos) : figures[i].algo = tableIn.figureAlgos[j]
    /\ tablePc = "tables" => \A j \in 1..(k - 1) : Spoken(tableIn.algos[j], tables, skipped)
    /\ tablePc \in {"figures", "done"} =>
          \A j \in 1..Len(tableIn.algos) : Spoken(tableIn.algos[j], tables, skipped)
    /\ report => tablePc = "done"

LEMMA InputsAreLists ==
    ASSUME NEW i \in CompareInputs
    PROVE  /\ i.algos \in Seq(STRING) /\ i.figureAlgos \in Seq(STRING)
           /\ IsList(i.runs) /\ DOMAIN i.runs = 1..Len(i.runs) /\ Len(i.runs) \in Nat
           /\ \A r \in 1..Len(i.runs), j \in 1..Len(i.algos) : i.runs[r][i.algos[j]] \in Compare!Directory
           /\ i.noT0 \in BOOLEAN
<1>1. /\ i.algos \in Seq(STRING) /\ i.figureAlgos \in Seq(STRING) /\ i.noT0 \in BOOLEAN
      /\ i.runs \in Seq(Compare!Range(i.runs))
      /\ \A run \in Compare!Range(i.runs), algo \in Compare!Range(i.algos) :
            run[algo] \in Compare!Directory
    BY InputsAssumption DEF Compare!InputsAssumption
<1>2. DOMAIN i.runs = 1..Len(i.runs) /\ Len(i.runs) \in Nat
    BY <1>1
<1>3. ASSUME NEW r \in 1..Len(i.runs), NEW j \in 1..Len(i.algos)
      PROVE  i.runs[r][i.algos[j]] \in Compare!Directory
  <2>1. i.runs[r] \in Compare!Range(i.runs)
      BY <1>2 DEF Compare!Range
  <2>2. i.algos[j] \in Compare!Range(i.algos)
      BY <1>1 DEF Compare!Range
  <2> QED BY <1>1, <2>1, <2>2
<1> QED BY <1>1, <1>2, <1>3 DEF IsList

LEMMA EmptyIsList == IsList(<<>>) /\ DOMAIN <<>> = {}
    BY DEF IsList

LEMMA TableInit == Compare!Init => TableInv
<1> SUFFICES ASSUME Compare!Init PROVE TableInv
    OBVIOUS
<1>1. Len(tableIn.algos) \in Nat /\ Len(tableIn.figureAlgos) \in Nat
    BY InputsAreLists DEF Compare!Init
<1>2. /\ tableIn \in CompareInputs /\ tablePc = "tables" /\ k = 1
      /\ tables = <<>> /\ skipped = <<>> /\ figures = <<>>
      /\ patched = FALSE /\ report = FALSE
    BY DEF Compare!Init
<1>3. k <= Len(tableIn.algos) + 1 /\ 1..(k - 1) = {}
    BY <1>1, <1>2
<1>4. /\ IsList(tables) /\ IsList(skipped) /\ IsList(figures)
      /\ DOMAIN tables = {} /\ DOMAIN skipped = {} /\ DOMAIN figures = {}
    BY <1>2, EmptyIsList, Zenon
<1>5. patched \in BOOLEAN /\ report \in BOOLEAN
    BY <1>2, Zenon
<1>6. tableIn \in CompareInputs /\ k \in Nat \ {0}
    BY <1>2
<1> QED BY <1>2, <1>3, <1>4, <1>5, <1>6 DEF TableInv

\* A table is added for an algorithm of the list.
LEMMA TableIsAdded ==
    ASSUME TableInv, tablePc = "tables", NEW j \in 1..Len(tableIn.algos)
    PROVE  TableOK([algo |-> tableIn.algos[j],
                    cells |-> [r \in DOMAIN tableIn.runs |->
                        [p \in Compare!Phases |->
                            Compare!PhaseStats(tableIn.runs[r][tableIn.algos[j]], Compare!Phase(p))]]])
<1> DEFINE stats(r, p) == Compare!PhaseStats(tableIn.runs[r][tableIn.algos[j]], Compare!Phase(p))
           row(r) == [p \in Compare!Phases |-> stats(r, p)]
           cells == [r \in DOMAIN tableIn.runs |-> row(r)]
           S == {row(r) : r \in DOMAIN tableIn.runs}
           t == [algo |-> tableIn.algos[j], cells |-> cells]
<1>1. DOMAIN tableIn.runs = 1..Len(tableIn.runs) /\ Len(tableIn.runs) \in Nat
    BY InputsAreLists DEF TableInv
<1>2. Compare!Phases = 1..6
    BY DEF Compare!Phases, Compare!Rates
<1>3. \A r, p : p \in 1..6 => CellOK(tableIn.runs[r][tableIn.algos[j]], p, stats(r, p))
    BY StatsAreOK DEF TableInv
<1> HIDE DEF stats
<1>4. \A r \in DOMAIN tableIn.runs : \A p \in 1..6 : cells[r][p] = stats(r, p)
    BY <1>2
<1>5. \A r \in DOMAIN tableIn.runs : row(r) \in S
    OBVIOUS
<1> HIDE DEF row
<1>6. cells \in Seq(S) /\ Len(cells) = Len(tableIn.runs)
  <2> HIDE DEF S
  <2> QED BY <1>1, <1>5
<1> HIDE DEF S, cells
<1>7. t.algo = tableIn.algos[j] /\ t.cells = cells
    OBVIOUS
<1>8. IsList(t.cells) /\ Len(t.cells) = Len(tableIn.runs)
    BY <1>6, <1>7 DEF IsList
<1>9. \A r \in DOMAIN tableIn.runs : \A p \in 1..6 :
          CellOK(tableIn.runs[r][t.algo], p, t.cells[r][p])
    BY <1>3, <1>4, <1>7
<1>10. TableOK(t)
    BY <1>7, <1>8, <1>9 DEF TableOK
<1> QED BY <1>10 DEF t, cells, row, stats

LEMMA TableOfAlgoKeeps == ASSUME TableInv, Compare!TableOfAlgo PROVE TableInv'
<1> DEFINE algo == tableIn.algos[k]
           new == [algo |-> algo, cells |-> [r \in DOMAIN tableIn.runs |->
                      [p \in Compare!Phases |->
                          Compare!PhaseStats(tableIn.runs[r][algo], Compare!Phase(p))]]]
<1>1. /\ tablePc = "tables" /\ k <= Len(tableIn.algos) /\ k' = k + 1
      /\ UNCHANGED <<tableIn, tablePc, patched, figures, report>>
      /\ \/ skipped' = Append(skipped, algo) /\ tables' = tables
         \/ tables' = Append(tables, new) /\ skipped' = skipped
    BY DEF Compare!TableOfAlgo
<1>2. k \in Nat \ {0} /\ Len(tableIn.algos) \in Nat /\ k \in 1..Len(tableIn.algos)
    BY <1>1, InputsAreLists DEF TableInv
<1>3. \A t : TableOK(t)' <=> TableOK(t)
    BY <1>1 DEF TableOK
<1>4. TableOK(new) /\ new.algo = algo
    BY <1>1, <1>2, TableIsAdded
<1> HIDE DEF new
<1>5. /\ IsList(tables') /\ IsList(skipped')
      /\ \A i \in DOMAIN tables' : TableOK(tables'[i])
      /\ \A i \in DOMAIN skipped' : \E j \in 1..Len(tableIn.algos) : skipped'[i] = tableIn.algos[j]
      /\ Spoken(algo, tables', skipped')
      /\ \A a : Spoken(a, tables, skipped) => Spoken(a, tables', skipped')
  <2>1. CASE skipped' = Append(skipped, algo) /\ tables' = tables
    <3>1. /\ IsList(skipped') /\ DOMAIN skipped = 1..Len(skipped) /\ Len(skipped) \in Nat
          /\ DOMAIN skipped' = 1..(Len(skipped) + 1)
          /\ \A i \in 1..Len(skipped) : skipped'[i] = skipped[i]
          /\ skipped'[Len(skipped) + 1] = algo
        BY <2>1, ListGrows DEF TableInv
    <3> QED BY <1>2, <2>1, <3>1 DEF TableInv, Spoken
  <2>2. CASE tables' = Append(tables, new) /\ skipped' = skipped
    <3>1. /\ IsList(tables') /\ DOMAIN tables = 1..Len(tables) /\ Len(tables) \in Nat
          /\ DOMAIN tables' = 1..(Len(tables) + 1)
          /\ \A i \in 1..Len(tables) : tables'[i] = tables[i]
          /\ tables'[Len(tables) + 1] = new
        BY <2>2, ListGrows DEF TableInv
    <3> QED BY <1>2, <1>4, <2>2, <3>1 DEF TableInv, Spoken
  <2> QED BY <1>1, <2>1, <2>2
<1>6. \A j \in 1..(k' - 1) : Spoken(tableIn'.algos[j], tables', skipped')
  <2>1. ASSUME NEW j \in 1..(k' - 1)
        PROVE  Spoken(tableIn.algos[j], tables', skipped')
    <3>1. CASE j = k
        BY <1>5, <3>1
    <3>2. CASE j \in 1..(k - 1)
        BY <1>1, <1>5, <3>2 DEF TableInv
    <3> QED BY <1>1, <1>2, <3>1, <3>2
  <2> QED BY <1>1, <2>1
<1> HIDE DEF algo
<1> QED BY <1>1, <1>2, <1>3, <1>5, <1>6 DEF TableInv

LEMMA FigureOfAlgoKeeps == ASSUME TableInv, Compare!FigureOfAlgo PROVE TableInv'
<1> DEFINE algo == tableIn.figureAlgos[k]
           curves == [r \in DOMAIN tableIn.runs |-> Compare!CurvesOfRun(tableIn.runs[r][algo])]
           new == [algo |-> algo, curves |-> curves]
<1>1. /\ tablePc = "figures" /\ k <= Len(tableIn.figureAlgos) /\ k' = k + 1
      /\ UNCHANGED <<tableIn, tablePc, tables, skipped, patched, report>>
      /\ figures' = Append(figures, new) \/ figures' = figures
    BY DEF Compare!FigureOfAlgo
<1>2. k \in Nat \ {0} /\ Len(tableIn.figureAlgos) \in Nat /\ k \in 1..Len(tableIn.figureAlgos)
    BY <1>1, InputsAreLists DEF TableInv
<1>3. new.algo = tableIn.figureAlgos[k]
    OBVIOUS
<1> HIDE DEF new
<1>4. /\ IsList(figures')
      /\ \A i \in DOMAIN figures' :
            \E j \in 1..Len(tableIn.figureAlgos) : figures'[i].algo = tableIn.figureAlgos[j]
  <2>1. CASE figures' = Append(figures, new)
    <3>1. /\ IsList(figures') /\ DOMAIN figures = 1..Len(figures) /\ Len(figures) \in Nat
          /\ DOMAIN figures' = 1..(Len(figures) + 1)
          /\ \A i \in 1..Len(figures) : figures'[i] = figures[i]
          /\ figures'[Len(figures) + 1] = new
        BY <2>1, ListGrows DEF TableInv
    <3> QED BY <1>2, <1>3, <3>1 DEF TableInv
  <2>2. CASE figures' = figures
      BY <2>2 DEF TableInv
  <2> QED BY <1>1, <2>1, <2>2
<1>5. \A t : TableOK(t)' <=> TableOK(t)
    BY <1>1 DEF TableOK
<1> QED BY <1>1, <1>2, <1>4, <1>5 DEF TableInv

LEMMA TableStep == TableInv /\ (Compare!Next \/ UNCHANGED tableVars) => TableInv'
<1> SUFFICES ASSUME TableInv, Compare!Next \/ UNCHANGED tableVars PROVE TableInv'
    OBVIOUS
<1>1. CASE Compare!TableOfAlgo
    BY <1>1, TableOfAlgoKeeps
<1>2. CASE Compare!FigureOfAlgo
    BY <1>2, FigureOfAlgoKeeps
<1>3. ASSUME UNCHANGED <<tableIn, tables, skipped>>
      PROVE  \A t : TableOK(t)' <=> TableOK(t)
    BY <1>3 DEF TableOK
<1>4. Len(tableIn.algos) \in Nat /\ Len(tableIn.figureAlgos) \in Nat /\ tableIn.noT0 \in BOOLEAN
    BY InputsAreLists DEF TableInv
<1>5. CASE Compare!TableRaises \/ Compare!FigureRaisesError
    BY <1>3, <1>5 DEF Compare!TableRaises, Compare!FigureRaisesError, TableInv
<1>6. CASE Compare!EndTables
  <2>1. /\ tablePc = "tables" /\ k > Len(tableIn.algos)
        /\ patched' = tableIn.noT0 /\ tablePc' = "figures" /\ k' = 1
        /\ UNCHANGED <<tableIn, tables, skipped, figures, report>>
      BY <1>6 DEF Compare!EndTables
  <2>2. \A j \in 1..Len(tableIn.algos) : j \in 1..(k - 1)
      BY <1>4, <2>1 DEF TableInv
  <2> QED BY <1>3, <1>4, <2>1, <2>2 DEF TableInv
<1>7. CASE Compare!WriteReport
    BY <1>3, <1>7 DEF Compare!WriteReport, TableInv
<1>8. CASE UNCHANGED tableVars
    BY <1>3, <1>8 DEF tableVars, TableInv
<1> QED BY <1>1, <1>2, <1>5, <1>6, <1>7, <1>8 DEF Compare!Next

LEMMA TableInvIsSafe ==
    ASSUME TableInv
    PROVE  /\ Compare!TypeOK
           /\ Compare!SamplesAreSharedOut
           /\ Compare!P95IsReached
           /\ Compare!EveryAlgorithmIsReported
<1> USE DEF TableInv
<1>1. /\ tableIn \in CompareInputs
      /\ tableIn.algos \in Seq(STRING) /\ tableIn.figureAlgos \in Seq(STRING)
      /\ DOMAIN tableIn.runs = 1..Len(tableIn.runs)
      /\ DOMAIN tableIn.algos = 1..Len(tableIn.algos) /\ Len(tableIn.algos) \in Nat
      /\ DOMAIN tableIn.figureAlgos = 1..Len(tableIn.figureAlgos) /\ Len(tableIn.figureAlgos) \in Nat
    BY InputsAreLists
<1>2. ASSUME NEW i \in DOMAIN tables, NEW r \in DOMAIN tableIn.runs
      PROVE  /\ tableIn.runs[r][tables[i].algo] \in Compare!Directory
             /\ \A p \in 1..6 : CellOK(tableIn.runs[r][tables[i].algo], p, Compare!Cell(i, r)[p])
  <2>1. TableOK(tables[i])
      OBVIOUS
  <2>2. PICK j \in 1..Len(tableIn.algos) : tables[i].algo = tableIn.algos[j]
      BY <2>1 DEF TableOK
  <2>3. tableIn.runs[r][tables[i].algo] \in Compare!Directory
      BY <1>1, <2>2, InputsAreLists
  <2> QED BY <2>1, <2>3 DEF TableOK, Compare!Cell
<1>3. Compare!SamplesAreSharedOut
  <2> SUFFICES ASSUME NEW i \in DOMAIN tables, NEW r \in DOMAIN tableIn.runs
               PROVE  LET times == Compare!RttTimes(tableIn.runs[r][tables[i].algo])
                          n(p) == Compare!Cell(i, r)[p].n
                      IN  n(1) + n(2) + n(3) + n(4) + n(5) + n(6) = Compare!Cardinality(
                              {j \in DOMAIN times : 0 <= times[j] /\ times[j] < Compare!Phase(6).b})
      BY DEF Compare!SamplesAreSharedOut
  <2> QED BY <1>2, CellsShareOut
<1>4. Compare!P95IsReached
  <2> SUFFICES ASSUME NEW i \in DOMAIN tables, NEW r \in DOMAIN tableIn.runs,
                      NEW p \in Compare!Phases, Compare!Cell(i, r)[p].n > 0
               PROVE  LET d == tableIn.runs[r][tables[i].algo]
                          rtts == Compare!InPhase(Compare!Rows(Compare!ReadRtt(d.rtt)),
                                                  Compare!Zero(d, Compare!ReadRtt(d.rtt).ts[1]),
                                                  Compare!Phase(p))
                      IN  100 * Compare!Cardinality(
                                    {j \in DOMAIN rtts : rtts[j] <= Compare!Cell(i, r)[p].p95})
                              >= 95 * Len(rtts)
      BY DEF Compare!P95IsReached
  <2>1. p \in 1..6
      BY DEF Compare!Phases, Compare!Rates
  <2> DEFINE d == tableIn.runs[r][tables[i].algo]
             cell == Compare!Cell(i, r)[p]
  <2>2. d \in Compare!Directory /\ CellOK(d, p, cell) /\ cell.n > 0
      BY <1>2, <2>1
  <2> HIDE DEF d, cell
  <2>3. LET rtts == Compare!InPhase(Compare!Rows(Compare!ReadRtt(d.rtt)),
                                    Compare!Zero(d, Compare!ReadRtt(d.rtt).ts[1]),
                                    Compare!Phase(p))
        IN  100 * Compare!Cardinality({j \in DOMAIN rtts : rtts[j] <= cell.p95})
                >= 95 * Len(rtts)
      BY <2>1, <2>2, CellsReach
  <2> QED BY <2>3 DEF d, cell
<1>5. Compare!EveryAlgorithmIsReported
  <2> SUFFICES ASSUME report
               PROVE  Compare!ToSet(tableIn.algos) = Compare!ToSet(skipped) \cup
                                                       {tables[i].algo : i \in DOMAIN tables}
      BY DEF Compare!EveryAlgorithmIsReported
  <2>1. \A j \in 1..Len(tableIn.algos) : Spoken(tableIn.algos[j], tables, skipped)
      OBVIOUS
  <2>2. \A i \in DOMAIN tables : \E j \in 1..Len(tableIn.algos) : tables[i].algo = tableIn.algos[j]
      BY DEF TableOK
  <2>3. ASSUME NEW a \in Compare!ToSet(tableIn.algos)
        PROVE  a \in Compare!ToSet(skipped) \cup {tables[i].algo : i \in DOMAIN tables}
    <3>1. PICK j \in 1..Len(tableIn.algos) : a = tableIn.algos[j]
        BY <1>1 DEF Compare!ToSet
    <3>2. Spoken(a, tables, skipped)
        BY <2>1, <3>1
    <3> QED BY <3>2 DEF Compare!ToSet, Spoken
  <2>4. ASSUME NEW a \in Compare!ToSet(skipped) \cup {tables[i].algo : i \in DOMAIN tables}
        PROVE  a \in Compare!ToSet(tableIn.algos)
    <3>1. \E j \in 1..Len(tableIn.algos) : a = tableIn.algos[j]
        BY <2>2 DEF Compare!ToSet
    <3> QED BY <1>1, <3>1 DEF Compare!ToSet
  <2> QED BY <2>3, <2>4
<1>6. k \in 1..(1 + Compare!Max({Len(tableIn.algos), Len(tableIn.figureAlgos)}))
  <2>1. ASSUME NEW a \in Nat, NEW b \in Nat
        PROVE  Compare!Max({a, b}) \in Nat /\ a <= Compare!Max({a, b}) /\ b <= Compare!Max({a, b})
    <3>1. \E x \in {a, b} : \A y \in {a, b} : x >= y
        OBVIOUS
    <3> QED BY <3>1 DEF Compare!Max
  <2>2. /\ Compare!Max({Len(tableIn.algos), Len(tableIn.figureAlgos)}) \in Nat
        /\ Len(tableIn.algos) <= Compare!Max({Len(tableIn.algos), Len(tableIn.figureAlgos)})
        /\ Len(tableIn.figureAlgos) <= Compare!Max({Len(tableIn.algos), Len(tableIn.figureAlgos)})
      BY <1>1, <2>1
  <2> QED BY <1>1, <2>2
<1>7. \A i \in DOMAIN tables : /\ tables[i].algo \in Compare!Range(tableIn.algos)
                              /\ Len(tables[i].cells) = Len(tableIn.runs)
    BY <1>1 DEF TableOK, Compare!Range
<1>8. /\ Compare!Range(skipped) \subseteq Compare!Range(tableIn.algos)
      /\ \A i \in DOMAIN figures : figures[i].algo \in Compare!Range(tableIn.figureAlgos)
    BY <1>1 DEF Compare!Range
<1>9. Compare!TypeOK
    BY <1>1, <1>6, <1>7, <1>8 DEF Compare!TypeOK
<1> QED BY <1>3, <1>4, <1>5, <1>9

\* Whatever runs are compared: a table counts each sample of the minute in one phase, its
\* p95 is such that 95 of 100 samples are not above it, and a report speaks of every
\* algorithm.
THEOREM TablesAlwaysAddUp == StudySpec => []TablesAddUp
<1>1. StudyInit => TableInv
    BY TableInit DEF StudyInit
<1>2. TableInv /\ [StudyNext]_studyVars => TableInv'
  <2> SUFFICES ASSUME TableInv, [StudyNext]_studyVars PROVE TableInv'
      OBVIOUS
  <2>1. Compare!Next \/ UNCHANGED tableVars
      BY DEF StudyNext, studyVars
  <2> QED BY <2>1, TableStep
<1>3. TableInv => TablesAddUp
    BY TableInvIsSafe DEF TablesAddUp
<1> QED BY <1>1, <1>2, <1>3, PTL DEF StudySpec

-----------------------------------------------------------------------------
\* The recorder of the throughput.

LEMMA PumpSifts == \A list, S : Pump!Sifted(list, S) = Sifted(list, S)
    BY DEF Pump!Sifted, Sifted

IsReport(l) == l.what = "report"
IsGood(l) == IsReport(l) /\ Pump!Parses(l)

ReportLines == {l \in Pump!PipeLine : IsReport(l)}
GoodLines == {l \in Pump!PipeLine : IsGood(l)}
IntervalLines == {l \in GoodLines : Pump!Kind(l) = "interval"}
PumpRows == {Pump!RowOf(l) : l \in GoodLines}
IntervalRows == {row \in PumpRows : row.kind = "interval"}

LEMMA RowsOfLines ==
    ASSUME NEW l \in GoodLines
    PROVE  /\ Pump!RowOf(l) \in PumpRows
           /\ Pump!RowOf(l).kind = Pump!Kind(l) /\ Pump!Kind(l) \in {"interval", "summary"}
           /\ Pump!RowOf(l) \in IntervalRows <=> l \in IntervalLines
           /\ Pump!RowOf(l).start = l.start /\ Pump!RowOf(l).end = l.end
           /\ Pump!RowOf(l).mbit = Pump!Scaled(l.rate, l.runit)
<1>1. /\ Pump!RowOf(l) \in PumpRows
      /\ Pump!Kind(l) \in {"interval", "summary"}
    BY DEF PumpRows, Pump!Kind
<1>2. /\ Pump!RowOf(l).kind = Pump!Kind(l)
      /\ Pump!RowOf(l).start = l.start /\ Pump!RowOf(l).end = l.end
      /\ Pump!RowOf(l).mbit = Pump!Scaled(l.rate, l.runit)
    BY DEF Pump!RowOf
<1> QED BY <1>1, <1>2 DEF IntervalRows, IntervalLines

\* What has been written of the lines s: rows, n of them of an interval, and e lines that
\* could not be parsed.
PumpWritten(s, rows, n, e) ==
    /\ rows \in Seq(PumpRows)
    /\ Len(rows) = Len(Sifted(s, GoodLines))
    /\ \A i \in 1..Len(rows) : rows[i] = Pump!RowOf(Sifted(s, GoodLines)[i])
    /\ Len(Sifted(s, ReportLines)) = Len(rows) + e
    /\ n = Len(Sifted(s, IntervalLines)) /\ n = Len(Sifted(rows, IntervalRows))

LEMMA OtherLineWritten ==
    ASSUME NEW s \in Seq(Pump!PipeLine), NEW l \in Pump!PipeLine, ~IsReport(l),
           NEW rows, NEW n, NEW e, PumpWritten(s, rows, n, e)
    PROVE  PumpWritten(Append(s, l), rows, n, e)
<1>1. l \notin GoodLines /\ l \notin ReportLines /\ l \notin IntervalLines
    BY DEF GoodLines, ReportLines, IntervalLines, IsGood
<1>2. /\ Sifted(Append(s, l), GoodLines) = Sifted(s, GoodLines)
      /\ Sifted(Append(s, l), ReportLines) = Sifted(s, ReportLines)
      /\ Sifted(Append(s, l), IntervalLines) = Sifted(s, IntervalLines)
    BY <1>1, SiftedAppend
<1> QED BY <1>2 DEF PumpWritten

LEMMA BadLineWritten ==
    ASSUME NEW s \in Seq(Pump!PipeLine), NEW l \in Pump!PipeLine, IsReport(l), ~Pump!Parses(l),
           NEW rows, NEW n, NEW e \in Nat, PumpWritten(s, rows, n, e)
    PROVE  PumpWritten(Append(s, l), rows, n, e + 1)
<1>1. l \notin GoodLines /\ l \in ReportLines /\ l \notin IntervalLines
    BY DEF GoodLines, ReportLines, IntervalLines, IsGood
<1>2. /\ Sifted(Append(s, l), GoodLines) = Sifted(s, GoodLines)
      /\ Sifted(Append(s, l), ReportLines) = Append(Sifted(s, ReportLines), l)
      /\ Sifted(Append(s, l), IntervalLines) = Sifted(s, IntervalLines)
    BY <1>1, SiftedAppend
<1>3. Sifted(s, ReportLines) \in Seq(Pump!PipeLine)
    BY SiftedSound
<1>4. /\ Len(Sifted(Append(s, l), ReportLines)) = Len(Sifted(s, ReportLines)) + 1
      /\ Len(Sifted(s, ReportLines)) \in Nat
    BY <1>2, <1>3, OneMore
<1>5. Len(rows) \in Nat /\ Len(Sifted(s, ReportLines)) = Len(rows) + e
    BY DEF PumpWritten
<1>6. Len(Sifted(Append(s, l), ReportLines)) = Len(rows) + (e + 1)
    BY <1>4, <1>5
<1> QED BY <1>2, <1>6 DEF PumpWritten

LEMMA GoodLineWritten ==
    ASSUME NEW s \in Seq(Pump!PipeLine), NEW l \in Pump!PipeLine, IsGood(l),
           NEW rows, NEW n, NEW e \in Nat, PumpWritten(s, rows, n, e)
    PROVE  PumpWritten(Append(s, l), Append(rows, Pump!RowOf(l)),
                       IF Pump!Kind(l) = "interval" THEN n + 1 ELSE n, e)
<1> DEFINE row == Pump!RowOf(l)
           good == Sifted(s, GoodLines)
           reports == Sifted(s, ReportLines)
           among == Sifted(s, IntervalLines)
           marked == Sifted(rows, IntervalRows)
<1>1. /\ l \in GoodLines /\ l \in ReportLines
      /\ l \in IntervalLines <=> Pump!Kind(l) = "interval"
    BY DEF GoodLines, ReportLines, IntervalLines, IsGood
<1>2. /\ row \in PumpRows /\ rows \in Seq(PumpRows)
      /\ row \in IntervalRows <=> Pump!Kind(l) = "interval"
    BY <1>1, RowsOfLines DEF PumpWritten
<1>3. /\ Sifted(Append(s, l), GoodLines) = Append(good, l)
      /\ Sifted(Append(s, l), ReportLines) = Append(reports, l)
      /\ Sifted(Append(s, l), IntervalLines) =
            IF Pump!Kind(l) = "interval" THEN Append(among, l) ELSE among
    BY <1>1, SiftedAppend
<1>4. Sifted(Append(rows, row), IntervalRows) =
          IF Pump!Kind(l) = "interval" THEN Append(marked, row) ELSE marked
    BY <1>2, SiftedAppend
<1>5. /\ good \in Seq(Pump!PipeLine) /\ reports \in Seq(Pump!PipeLine)
      /\ among \in Seq(Pump!PipeLine) /\ marked \in Seq(PumpRows)
    BY <1>2, SiftedSound
<1>6. /\ Len(rows) = Len(good) /\ \A i \in 1..Len(rows) : rows[i] = Pump!RowOf(good[i])
      /\ Len(reports) = Len(rows) + e /\ n = Len(among) /\ n = Len(marked)
    BY DEF PumpWritten
<1>7. row = Pump!RowOf(l)
    OBVIOUS
<1> HIDE DEF row, good, reports, among, marked
<1>8. /\ Append(rows, row) \in Seq(PumpRows)
      /\ Len(rows) \in Nat /\ Len(Append(rows, row)) = Len(rows) + 1
      /\ \A i \in 1..Len(rows) : Append(rows, row)[i] = rows[i]
      /\ Append(rows, row)[Len(rows) + 1] = row
    BY <1>2, OneMore
<1>9. /\ Len(Append(good, l)) = Len(good) + 1
      /\ \A i \in 1..Len(good) : Append(good, l)[i] = good[i]
      /\ Append(good, l)[Len(good) + 1] = l
    BY <1>5, OneMore
<1>10. Len(Append(reports, l)) = Len(reports) + 1 /\ Len(reports) \in Nat
    BY <1>5, OneMore
<1>11. Len(Append(among, l)) = Len(among) + 1 /\ Len(Append(marked, row)) = Len(marked) + 1
    BY <1>2, <1>5, OneMore
<1>12. ASSUME NEW i \in 1..(Len(rows) + 1)
       PROVE  Append(rows, row)[i] = Pump!RowOf(Append(good, l)[i])
  <2>1. CASE i \in 1..Len(rows)
      BY <1>6, <1>8, <1>9, <2>1
  <2>2. CASE i = Len(rows) + 1
    <3>1. Append(rows, row)[i] = row
        BY <1>8, <2>2
    <3>2. Append(good, l)[i] = l
        BY <1>6, <1>9, <2>2
    <3> QED BY <1>7, <3>1, <3>2, Zenon
  <2>3. i \in 1..Len(rows) \/ i = Len(rows) + 1
      BY <1>8
  <2> QED BY <2>1, <2>2, <2>3, Zenon
<1>13. /\ Len(Append(rows, row)) = Len(Sifted(Append(s, l), GoodLines))
       /\ Len(Sifted(Append(s, l), ReportLines)) = Len(Append(rows, row)) + e
    BY <1>3, <1>6, <1>8, <1>9, <1>10
<1>14. LET m == IF Pump!Kind(l) = "interval" THEN n + 1 ELSE n
       IN  /\ m = Len(Sifted(Append(s, l), IntervalLines))
           /\ m = Len(Sifted(Append(rows, row), IntervalRows))
    BY <1>3, <1>4, <1>6, <1>11
<1>15. \A i \in 1..Len(Append(rows, row)) :
           Append(rows, row)[i] = Pump!RowOf(Sifted(Append(s, l), GoodLines)[i])
    BY <1>3, <1>8, <1>12
<1> QED BY <1>8, <1>13, <1>14, <1>15 DEF PumpWritten, row

-----------------------------------------------------------------------------
\* The lines that count: all that have been read, but for the one a write failed at.
Upto(n) == SubSeq(pipe, 1, n)
Counted == IF pump = "failed" THEN lines - 1 ELSE lines

PumpInv ==
    /\ pipe \in Outputs
    /\ lines \in 0..Len(pipe)
    /\ pump \in {"runs", "ended", "failed"}
    /\ pump = "failed" => lines > 0
    /\ pump = "ended" => lines = Len(pipe)
    /\ errors \in Nat
    /\ refused \in BOOLEAN
    /\ PumpWritten(Upto(Counted), csv, Len(intervals), errors)
    /\ IsList(intervals)
    /\ \A i \in DOMAIN intervals : intervals[i].rate \in Pump!RatesOf(pipe)
    /\ summary \in Pump!RatesOf(pipe) \cup {Pump!None}
    /\ summary = Pump!None <=> \A i \in 1..Len(csv) : csv[i].kind = "interval"

LEMMA OutputsAreLines ==
    ASSUME NEW o \in Outputs
    PROVE  o \in Seq(Pump!PipeLine)
    BY InputsAssumption DEF Pump!OutputsAssumption

LEMMA PrefixGrows ==
    ASSUME NEW X, NEW q \in Seq(X), NEW n \in Nat, n < Len(q)
    PROVE  /\ SubSeq(q, 1, n) \in Seq(X) /\ q[n + 1] \in X
           /\ SubSeq(q, 1, n + 1) = Append(SubSeq(q, 1, n), q[n + 1])
<1>1. /\ SubSeq(q, 1, n) \in Seq(X) /\ Len(SubSeq(q, 1, n)) = n
      /\ \A i \in 1..n : SubSeq(q, 1, n)[i] = q[i]
    OBVIOUS
<1>2. /\ SubSeq(q, 1, n + 1) \in Seq(X) /\ Len(SubSeq(q, 1, n + 1)) = n + 1
      /\ \A i \in 1..(n + 1) : SubSeq(q, 1, n + 1)[i] = q[i]
    OBVIOUS
<1>3. q[n + 1] \in X
    OBVIOUS
<1> DEFINE a == SubSeq(q, 1, n)
           b == SubSeq(q, 1, n + 1)
<1> HIDE DEF a, b
<1>4. /\ Append(a, q[n + 1]) \in Seq(X) /\ Len(Append(a, q[n + 1])) = n + 1
      /\ \A i \in 1..n : Append(a, q[n + 1])[i] = q[i]
      /\ Append(a, q[n + 1])[n + 1] = q[n + 1]
    BY <1>1, <1>3, OneMore DEF a
<1>5. \A i \in 1..(n + 1) : Append(a, q[n + 1])[i] = b[i]
    BY <1>2, <1>4 DEF b
<1>6. b = Append(a, q[n + 1])
    BY <1>2, <1>4, <1>5 DEF b
<1> QED BY <1>1, <1>3, <1>6 DEF a, b

\* The rate of a good line is one of those of the output, and a number.
LEMMA RateIsThere ==
    ASSUME NEW q \in Seq(Pump!PipeLine), NEW i \in 1..Len(q), IsGood(q[i])
    PROVE  /\ Pump!RowOf(q[i]).mbit \in Pump!RatesOf(q)
           /\ Pump!RowOf(q[i]).mbit # Pump!None
<1> DEFINE S == {l \in Pump!Range(q) : l.what = "report"}
<1>1. Pump!Reports(q) = Sifted(q, S)
    BY PumpSifts DEF Pump!Reports
<1>2. q[i] \in S
    BY DEF Pump!Range, IsGood, IsReport
<1>3. Pump!Reports(q) \in Seq(Pump!PipeLine) /\ \E j \in 1..Len(Pump!Reports(q)) : Pump!Reports(q)[j] = q[i]
  <2>1. /\ Sifted(q, S) \in Seq(Pump!PipeLine)
        /\ Sound(Sifted(q, S), q, S, Len(q))
      BY SiftedSound
  <2> HIDE DEF S
  <2>2. \E j \in 1..Len(Sifted(q, S)) : Sifted(q, S)[j] = q[i]
      BY <1>2, <2>1 DEF Sound
  <2> QED BY <1>1, <2>1, <2>2
<1>4. q[i] \in Pump!Range(Pump!Reports(q)) /\ Pump!Parses(q[i])
    BY <1>3 DEF Pump!Range, IsGood
<1>5. Pump!Scaled(q[i].rate, q[i].runit) \in Pump!RatesOf(q)
    BY <1>4 DEF Pump!RatesOf
<1>6. Pump!Exponent[Pump!UnitPrefix(q[i].runit)] \in {-6, -3, 0, 3, 6}
    BY DEF Pump!Exponent, Pump!UnitPrefix
<1>7. Pump!Scaled(q[i].rate, q[i].runit).exp # 99
    BY <1>6 DEF Pump!Scaled
<1>8. Pump!RowOf(q[i]).mbit = Pump!Scaled(q[i].rate, q[i].runit)
    BY DEF Pump!RowOf
<1> QED BY <1>5, <1>7, <1>8 DEF Pump!None

LEMMA PumpInit == Pump!Init => PumpInv
<1> SUFFICES ASSUME Pump!Init PROVE PumpInv
    OBVIOUS
<1>1. /\ pipe \in Outputs /\ lines = 0 /\ csv = <<>> /\ intervals = <<>>
      /\ summary = Pump!None /\ errors = 0 /\ pump = "runs"
    BY DEF Pump!Init
<1>2. refused \in BOOLEAN
    BY Zenon DEF Pump!Init
<1>3. pipe \in Seq(Pump!PipeLine)
    BY <1>1, OutputsAreLines
<1>4. Upto(Counted) = <<>>
    BY <1>1, <1>3 DEF Upto, Counted
<1>5. \A S : Sifted(<<>>, S) = <<>>
  <2> SUFFICES ASSUME NEW S PROVE Sifted(<<>>, S) = <<>>
      OBVIOUS
  <2>1. <<>> \in Seq({})
      OBVIOUS
  <2>2. Sifted(<<>>, S) \in Seq({})
      BY <2>1, SiftedSound
  <2> QED BY <2>2
<1>6. PumpWritten(<<>>, <<>>, 0, 0)
    BY <1>5 DEF PumpWritten
<1>7. PumpWritten(Upto(Counted), csv, Len(intervals), errors)
  <2>1. Len(intervals) = 0
      BY <1>1
  <2> QED BY <1>1, <1>4, <1>6, <2>1
<1>8. IsList(intervals) /\ DOMAIN intervals = {} /\ Len(csv) = 0
    BY <1>1, EmptyIsList
<1> QED BY <1>1, <1>2, <1>3, <1>7, <1>8 DEF PumpInv

LEMMA LineIsRead ==
    ASSUME PumpInv, pump = "runs", lines < Len(pipe),
           lines' = lines + 1, pipe' = pipe, pump' = pump
    PROVE  /\ Upto(Counted) \in Seq(Pump!PipeLine) /\ pipe[lines + 1] \in Pump!PipeLine
           /\ lines + 1 \in 1..Len(pipe) /\ lines' \in 0..Len(pipe)
           /\ Upto(Counted)' = Append(Upto(Counted), pipe[lines + 1])
<1>1. pipe \in Seq(Pump!PipeLine) /\ lines \in Nat
    BY OutputsAreLines DEF PumpInv
<1>2. Counted = lines /\ Counted' = lines + 1
    BY DEF Counted
<1>3. /\ SubSeq(pipe, 1, lines) \in Seq(Pump!PipeLine) /\ pipe[lines + 1] \in Pump!PipeLine
      /\ SubSeq(pipe, 1, lines + 1) = Append(SubSeq(pipe, 1, lines), pipe[lines + 1])
    BY <1>1, PrefixGrows
<1>4. Upto(Counted) = SubSeq(pipe, 1, lines) /\ Upto(Counted)' = SubSeq(pipe, 1, lines + 1)
    BY <1>2 DEF Upto
<1>5. lines + 1 \in 1..Len(pipe) /\ lines' \in 0..Len(pipe)
    BY <1>1
<1> QED BY <1>3, <1>4, <1>5

LEMMA PumpReadsOther == ASSUME PumpInv, Pump!ReadOther PROVE PumpInv'
<1>1. /\ pump = "runs" /\ lines < Len(pipe) /\ lines' = lines + 1
      /\ pipe[lines + 1].what \in {"other", "refused"}
      /\ UNCHANGED <<pipe, csv, intervals, summary, errors, pump>>
    BY DEF Pump!ReadOther, Pump!Read, Pump!Line
<1>2. refused' \in BOOLEAN
    BY DEF Pump!ReadOther, PumpInv
<1>3. /\ Upto(Counted) \in Seq(Pump!PipeLine) /\ pipe[lines + 1] \in Pump!PipeLine
      /\ lines' \in 0..Len(pipe)
      /\ Upto(Counted)' = Append(Upto(Counted), pipe[lines + 1])
    BY <1>1, LineIsRead
<1>4. PumpWritten(Upto(Counted), csv, Len(intervals), errors)
    BY DEF PumpInv
<1>5. PumpWritten(Append(Upto(Counted), pipe[lines + 1]), csv, Len(intervals), errors)
    BY <1>1, <1>3, <1>4, OtherLineWritten DEF IsReport
<1>6. PumpWritten(Upto(Counted), csv, Len(intervals), errors)'
    BY <1>1, <1>3, <1>5
<1> QED BY <1>1, <1>2, <1>3, <1>6 DEF PumpInv

LEMMA PumpReadsBad == ASSUME PumpInv, Pump!ReadBadLine PROVE PumpInv'
<1>1. /\ pump = "runs" /\ lines < Len(pipe) /\ lines' = lines + 1
      /\ pipe[lines + 1].what = "report" /\ ~Pump!Parses(pipe[lines + 1])
      /\ errors' = errors + 1
      /\ UNCHANGED <<pipe, csv, intervals, summary, refused, pump>>
    BY DEF Pump!ReadBadLine, Pump!Read, Pump!Line
<1>2. errors \in Nat /\ errors' \in Nat
    BY <1>1 DEF PumpInv
<1>3. /\ Upto(Counted) \in Seq(Pump!PipeLine) /\ pipe[lines + 1] \in Pump!PipeLine
      /\ lines' \in 0..Len(pipe)
      /\ Upto(Counted)' = Append(Upto(Counted), pipe[lines + 1])
    BY <1>1, LineIsRead
<1>4. PumpWritten(Upto(Counted), csv, Len(intervals), errors)
    BY DEF PumpInv
<1>5. PumpWritten(Append(Upto(Counted), pipe[lines + 1]), csv, Len(intervals), errors + 1)
    BY <1>1, <1>2, <1>3, <1>4, BadLineWritten DEF IsReport
<1>6. PumpWritten(Upto(Counted), csv, Len(intervals), errors)'
    BY <1>1, <1>3, <1>5
<1> QED BY <1>1, <1>2, <1>3, <1>6 DEF PumpInv

LEMMA PumpReadsReport == ASSUME PumpInv, Pump!ReadReport PROVE PumpInv'
<1> DEFINE line == pipe[lines + 1]
           row == Pump!RowOf(line)
           new == [end |-> line.end, rate |-> row.mbit]
<1>1. /\ pump = "runs" /\ lines < Len(pipe) /\ lines' = lines + 1
      /\ IsGood(line) /\ csv' = Append(csv, row)
      /\ IF Pump!Kind(line) = "summary"
         THEN summary' = row.mbit /\ intervals' = intervals
         ELSE intervals' = Append(intervals, new) /\ summary' = summary
      /\ UNCHANGED <<pipe, errors, refused, pump>>
    BY DEF Pump!ReadReport, Pump!Read, Pump!Line, IsGood, IsReport
<1>2. /\ Upto(Counted) \in Seq(Pump!PipeLine) /\ line \in Pump!PipeLine
      /\ lines' \in 0..Len(pipe) /\ lines + 1 \in 1..Len(pipe)
      /\ Upto(Counted)' = Append(Upto(Counted), line)
    BY <1>1, LineIsRead
<1>3. pipe \in Seq(Pump!PipeLine)
    BY OutputsAreLines DEF PumpInv
<1>4. row.mbit \in Pump!RatesOf(pipe) /\ row.mbit # Pump!None
    BY <1>1, <1>2, <1>3, RateIsThere
<1>5. line \in GoodLines
    BY <1>1, <1>2 DEF GoodLines
<1>6. /\ row \in PumpRows /\ row.kind = Pump!Kind(line)
      /\ Pump!Kind(line) \in {"interval", "summary"}
    BY <1>5, RowsOfLines
<1>7. new.rate = row.mbit
    OBVIOUS
<1>8. PumpWritten(Upto(Counted), csv, Len(intervals), errors) /\ errors \in Nat
    BY DEF PumpInv
<1>9. PumpWritten(Append(Upto(Counted), line), Append(csv, row),
                  IF Pump!Kind(line) = "interval" THEN Len(intervals) + 1 ELSE Len(intervals), errors)
    BY <1>1, <1>2, <1>8, GoodLineWritten
<1> HIDE DEF new
<1>10. /\ csv \in Seq(PumpRows) /\ Len(csv) \in Nat /\ Len(csv') = Len(csv) + 1
       /\ \A i \in 1..Len(csv) : csv'[i] = csv[i]
       /\ csv'[Len(csv) + 1] = row
  <2>1. csv \in Seq(PumpRows)
      BY <1>8 DEF PumpWritten
  <2> HIDE DEF row
  <2> QED BY <1>1, <1>6, <2>1, OneMore
<1>11. /\ IsList(intervals')
       /\ \A i \in DOMAIN intervals' : intervals'[i].rate \in Pump!RatesOf(pipe)
       /\ Len(intervals') = IF Pump!Kind(line) = "interval" THEN Len(intervals) + 1 ELSE Len(intervals)
  <2>1. CASE Pump!Kind(line) = "summary"
      BY <1>1, <2>1 DEF PumpInv
  <2>2. CASE Pump!Kind(line) = "interval"
    <3>1. intervals' = Append(intervals, new)
        BY <1>1, <2>2
    <3>2. /\ IsList(intervals') /\ DOMAIN intervals = 1..Len(intervals) /\ Len(intervals) \in Nat
          /\ Len(intervals') = Len(intervals) + 1
          /\ DOMAIN intervals' = 1..(Len(intervals) + 1)
          /\ \A i \in 1..Len(intervals) : intervals'[i] = intervals[i]
          /\ intervals'[Len(intervals) + 1] = new
        BY <3>1, ListGrows DEF PumpInv
    <3> HIDE DEF row, line
    <3> QED BY <1>4, <1>7, <2>2, <3>2 DEF PumpInv
  <2> QED BY <1>6, <2>1, <2>2
<1>12. /\ summary' \in Pump!RatesOf(pipe) \cup {Pump!None}
       /\ summary' = Pump!None <=> \A i \in 1..Len(csv') : csv'[i].kind = "interval"
  <2> HIDE DEF row, line
  <2>1. Len(csv) + 1 \in 1..Len(csv')
      BY <1>10
  <2>2. CASE Pump!Kind(line) = "summary"
    <3>1. csv'[Len(csv) + 1].kind # "interval"
        BY <1>6, <1>10, <2>2
    <3> QED BY <1>1, <1>4, <2>1, <2>2, <3>1
  <2>3. CASE Pump!Kind(line) = "interval"
    <3>1. csv'[Len(csv) + 1].kind = "interval"
        BY <1>6, <1>10, <2>3
    <3>2. (\A i \in 1..Len(csv') : csv'[i].kind = "interval")
              <=> \A i \in 1..Len(csv) : csv[i].kind = "interval"
        BY <1>10, <3>1
    <3>3. summary' = summary
        BY <1>1, <2>3
    <3> QED BY <3>2, <3>3 DEF PumpInv
  <2> QED BY <1>6, <2>2, <2>3
<1>13. PumpWritten(Upto(Counted), csv, Len(intervals), errors)'
  <2> HIDE DEF row, line
  <2> QED BY <1>1, <1>2, <1>9, <1>11
<1> HIDE DEF row, line
<1> QED BY <1>1, <1>2, <1>11, <1>12, <1>13 DEF PumpInv

LEMMA PumpStep == PumpInv /\ (Pump!Next \/ UNCHANGED pumpVars) => PumpInv'
<1> SUFFICES ASSUME PumpInv, Pump!Next \/ UNCHANGED pumpVars PROVE PumpInv'
    OBVIOUS
<1>1. Len(pipe) \in Nat
    BY OutputsAreLines DEF PumpInv
<1>2. CASE Pump!WriteFails
  <2>1. /\ pump = "runs" /\ lines < Len(pipe) /\ lines' = lines + 1 /\ pump' = "failed"
        /\ UNCHANGED <<pipe, csv, intervals, summary, errors, refused>>
      BY <1>2 DEF Pump!WriteFails, Pump!Read
  <2>2. lines \in Nat /\ Counted' = lines /\ Counted = lines
      BY <2>1 DEF PumpInv, Counted
  <2>3. Upto(Counted)' = Upto(Counted)
      BY <2>1, <2>2 DEF Upto
  <2>4. PumpWritten(Upto(Counted), csv, Len(intervals), errors)'
      BY <2>1, <2>3 DEF PumpInv
  <2>5. lines' \in 0..Len(pipe) /\ lines' > 0
      BY <1>1, <2>1, <2>2
  <2> QED BY <2>1, <2>4, <2>5 DEF PumpInv
<1>3. CASE Pump!EndOfPipe
  <2>1. /\ pump = "runs" /\ lines = Len(pipe) /\ pump' = "ended"
        /\ UNCHANGED <<pipe, lines, csv, intervals, summary, errors, refused>>
      BY <1>3 DEF Pump!EndOfPipe
  <2>2. Counted' = Counted
      BY <2>1 DEF Counted
  <2>3. PumpWritten(Upto(Counted), csv, Len(intervals), errors)'
      BY <2>1, <2>2 DEF PumpInv, Upto
  <2> QED BY <2>1, <2>3 DEF PumpInv
<1>4. CASE UNCHANGED pumpVars
  <2>1. UNCHANGED <<pipe, lines, csv, intervals, summary, errors, refused, pump>>
      BY <1>4 DEF pumpVars
  <2>2. Upto(Counted)' = Upto(Counted)
      BY <2>1 DEF Upto, Counted
  <2> QED BY <2>1, <2>2 DEF PumpInv
<1> QED BY <1>2, <1>3, <1>4, PumpReadsOther, PumpReadsBad, PumpReadsReport DEF Pump!Next

\* The lists the properties speak of.
SummaryRows == {row \in PumpRows : row.kind = "summary"}

LEMMA ReportsAreSifted ==
    ASSUME NEW s \in Seq(Pump!PipeLine)
    PROVE  Pump!Reports(s) = Sifted(s, ReportLines)
<1> DEFINE S == {l \in Pump!Range(s) : l.what = "report"}
<1>1. Pump!Reports(s) = Sifted(s, S)
    BY PumpSifts DEF Pump!Reports
<1>2. \A i \in 1..Len(s) : s[i] \in Pump!PipeLine /\ s[i] \in Pump!Range(s)
    BY DEF Pump!Range
<1>3. \A i \in 1..Len(s) : s[i] \in S <=> s[i] \in ReportLines
    BY <1>2 DEF ReportLines, IsReport
<1> HIDE DEF S
<1>4. Sifted(s, S) = Sifted(s, ReportLines)
    BY <1>3, SiftedAgree
<1> QED BY <1>1, <1>4

LEMMA GoodAreSifted ==
    ASSUME PumpInv
    PROVE  /\ Pump!ReadSoFar = Upto(Counted) /\ Upto(Counted) \in Seq(Pump!PipeLine)
           /\ Pump!GoodSoFar = Sifted(Upto(Counted), GoodLines)
<1> DEFINE s == Upto(Counted)
           S == {l \in Pump!Range(s) : l.what = "report" /\ Pump!Parses(l)}
<1>1. pipe \in Seq(Pump!PipeLine) /\ Counted \in 0..Len(pipe)
  <2>1. pipe \in Seq(Pump!PipeLine)
      BY OutputsAreLines DEF PumpInv
  <2>2. lines \in 0..Len(pipe) /\ (pump = "failed" => lines > 0) /\ Len(pipe) \in Nat
      BY <2>1 DEF PumpInv
  <2> QED BY <2>1, <2>2 DEF Counted
<1>2. s \in Seq(Pump!PipeLine)
    BY <1>1 DEF Upto
<1>3. Pump!ReadSoFar = s
    BY DEF Pump!ReadSoFar, Upto, Counted
<1>4. Pump!GoodSoFar = Sifted(s, S)
    BY <1>3, PumpSifts DEF Pump!GoodSoFar
<1> HIDE DEF s
<1>5. \A i \in 1..Len(s) : s[i] \in Pump!PipeLine /\ s[i] \in Pump!Range(s)
    BY <1>2 DEF Pump!Range
<1>6. \A i \in 1..Len(s) : s[i] \in S <=> s[i] \in GoodLines
    BY <1>5 DEF GoodLines, IsGood, IsReport
<1> HIDE DEF S
<1>7. Sifted(s, S) = Sifted(s, GoodLines)
    BY <1>2, <1>6, SiftedAgree
<1> QED BY <1>2, <1>3, <1>4, <1>7 DEF s

LEMMA KindsAreSifted ==
    ASSUME csv \in Seq(PumpRows)
    PROVE  /\ Pump!OfKind("interval") = Sifted(csv, IntervalRows)
           /\ Pump!OfKind("summary") = Sifted(csv, SummaryRows)
<1> DEFINE S(kind) == {row \in Pump!Range(csv) : row.kind = kind}
<1>1. \A kind : Pump!OfKind(kind) = Sifted(csv, S(kind))
    BY PumpSifts DEF Pump!OfKind
<1>2. \A i \in 1..Len(csv) : csv[i] \in PumpRows /\ csv[i] \in Pump!Range(csv)
    BY DEF Pump!Range
<1>3. /\ \A i \in 1..Len(csv) : csv[i] \in S("interval") <=> csv[i] \in IntervalRows
      /\ \A i \in 1..Len(csv) : csv[i] \in S("summary") <=> csv[i] \in SummaryRows
    BY <1>2 DEF IntervalRows, SummaryRows
<1> HIDE DEF S
<1>4. /\ Sifted(csv, S("interval")) = Sifted(csv, IntervalRows)
      /\ Sifted(csv, S("summary")) = Sifted(csv, SummaryRows)
    BY <1>3, SiftedAgree
<1> QED BY <1>1, <1>4

\* Each row is that of a good line of the output.
LEMMA RowsAreOfPipe ==
    ASSUME PumpInv, NEW i \in 1..Len(csv)
    PROVE  \E j \in 1..Len(pipe) : IsGood(pipe[j]) /\ csv[i] = Pump!RowOf(pipe[j])
<1> DEFINE s == Upto(Counted)
           good == Sifted(s, GoodLines)
<1>1. s \in Seq(Pump!PipeLine)
    BY GoodAreSifted
<1>2. Len(csv) = Len(good) /\ csv[i] = Pump!RowOf(good[i])
    BY DEF PumpInv, PumpWritten
<1>3. Sound(good, s, GoodLines, Len(s))
    BY <1>1, SiftedSound
<1>4. good[i] \in GoodLines /\ \E j \in 1..Len(s) : s[j] = good[i]
  <2> HIDE DEF good, s
  <2> QED BY <1>2, <1>3 DEF Sound
<1>5. pipe \in Seq(Pump!PipeLine) /\ Counted \in 0..Len(pipe)
  <2>1. pipe \in Seq(Pump!PipeLine)
      BY OutputsAreLines DEF PumpInv
  <2>2. lines \in 0..Len(pipe) /\ (pump = "failed" => lines > 0) /\ Len(pipe) \in Nat
      BY <2>1 DEF PumpInv
  <2> QED BY <2>1, <2>2 DEF Counted
<1>6. Len(s) = Counted /\ \A j \in 1..Len(s) : s[j] = pipe[j] /\ j \in 1..Len(pipe)
    BY <1>5 DEF Upto
<1> HIDE DEF s, good
<1>7. PICK j \in 1..Len(s) : s[j] = good[i]
    BY <1>4
<1>8. j \in 1..Len(pipe) /\ pipe[j] = good[i]
    BY <1>6, <1>7
<1>9. IsGood(pipe[j])
    BY <1>4, <1>8 DEF GoodLines
<1> QED BY <1>2, <1>8, <1>9

LEMMA PumpTyped == ASSUME PumpInv PROVE Pump!TypeOK
<1>1. csv \in Seq(PumpRows) /\ pipe \in Seq(Pump!PipeLine)
    BY OutputsAreLines DEF PumpInv, PumpWritten
<1>2. ASSUME NEW i \in 1..Len(csv)
      PROVE  csv[i].mbit \in Pump!RatesOf(pipe) /\ csv[i].kind \in {"interval", "summary"}
  <2>1. PICK j \in 1..Len(pipe) : IsGood(pipe[j]) /\ csv[i] = Pump!RowOf(pipe[j])
      BY RowsAreOfPipe
  <2>2. pipe[j] \in GoodLines
      BY <1>1, <2>1 DEF GoodLines
  <2>3. Pump!RowOf(pipe[j]).mbit \in Pump!RatesOf(pipe)
      BY <1>1, <2>1, RateIsThere
  <2>4. Pump!RowOf(pipe[j]).kind \in {"interval", "summary"}
      BY <2>2, RowsOfLines
  <2> QED BY <2>1, <2>3, <2>4
<1>3. \A r \in Pump!Range(csv) : \E i \in 1..Len(csv) : r = csv[i]
    BY <1>1 DEF Pump!Range
<1>4. \A r \in Pump!Range(csv) : r.mbit \in Pump!RatesOf(pipe) /\ r.kind \in {"interval", "summary"}
    BY <1>2, <1>3
<1>5. \A i \in Pump!Range(intervals) : i.rate \in Pump!RatesOf(pipe)
    BY DEF Pump!Range, PumpInv
<1> QED BY <1>4, <1>5 DEF Pump!TypeOK, PumpInv

LEMMA PumpWritesGood ==
    ASSUME PumpInv
    PROVE  Pump!BadLineLosesItself /\ Pump!RowsAddUp
<1>1. /\ Pump!ReadSoFar = Upto(Counted) /\ Upto(Counted) \in Seq(Pump!PipeLine)
      /\ Pump!GoodSoFar = Sifted(Upto(Counted), GoodLines)
    BY GoodAreSifted
<1>2. PumpWritten(Upto(Counted), csv, Len(intervals), errors)
    BY DEF PumpInv
<1>3. csv \in Seq(PumpRows) /\ DOMAIN csv = 1..Len(csv)
    BY <1>2 DEF PumpWritten
<1>4. Pump!BadLineLosesItself
    BY <1>1, <1>2, <1>3 DEF Pump!BadLineLosesItself, PumpWritten, PumpInv
<1>5. Pump!Reports(Pump!ReadSoFar) = Sifted(Upto(Counted), ReportLines)
    BY <1>1, ReportsAreSifted
<1>6. Pump!RowsAddUp
    BY <1>2, <1>3, <1>5, KindsAreSifted DEF Pump!RowsAddUp, PumpWritten
<1> QED BY <1>4, <1>6

\* Of a list without a bad line the good lines are all that are reports.
LEMMA NoneIsBad ==
    ASSUME NEW s \in Seq(Pump!PipeLine),
           Len(Sifted(s, GoodLines)) = Len(Sifted(s, ReportLines))
    PROVE  Sifted(s, GoodLines) = Sifted(s, ReportLines)
<1> DEFINE G == {i \in 1..Len(s) : s[i] \in GoodLines}
           R == {i \in 1..Len(s) : s[i] \in ReportLines}
<1>1. G \subseteq R
    BY DEF GoodLines, ReportLines, IsGood
<1>2. Cardinality(G) = Cardinality(R)
  <2>1. Len(Sifted(s, GoodLines)) = Cardinality(G)
      BY SiftedCounts
  <2>2. Len(Sifted(s, ReportLines)) = Cardinality(R)
      BY SiftedCounts
  <2> HIDE DEF G, R
  <2> QED BY <2>1, <2>2
<1>3. IsFiniteSet(R)
    BY CountPlaces
<1>4. G = R
  <2> HIDE DEF G, R
  <2> QED BY <1>1, <1>2, <1>3, FS_Subset
<1>5. \A i \in 1..Len(s) : s[i] \in GoodLines <=> s[i] \in ReportLines
    BY <1>4
<1> QED BY <1>5, SiftedAgree

LEMMA EndedHasReadAll ==
    ASSUME PumpInv, pump = "ended"
    PROVE  Upto(Counted) = pipe /\ pipe \in Seq(Pump!PipeLine)
<1>1. pipe \in Seq(Pump!PipeLine) /\ Counted = Len(pipe)
    BY OutputsAreLines DEF PumpInv, Counted
<1>2. SubSeq(pipe, 1, Len(pipe)) = pipe
    BY <1>1
<1> QED BY <1>1, <1>2 DEF Upto

LEMMA PumpTiles == ASSUME PumpInv PROVE Pump!IntervalsTile
<1> SUFFICES ASSUME Pump!Whole
             PROVE  LET rows == Pump!OfKind("interval")
                        total == Pump!OfKind("summary")
                    IN  /\ Len(rows) > 0 /\ Len(total) = 1
                        /\ rows[1].start = 0
                        /\ \A i \in 1..(Len(rows) - 1) : rows[i].end = rows[i + 1].start
                        /\ rows[Len(rows)].end = total[1].end
    BY DEF Pump!IntervalsTile
<1> DEFINE reports == Sifted(pipe, ReportLines)
           rows == Sifted(csv, IntervalRows)
           total == Sifted(csv, SummaryRows)
<1>1. pump = "ended" /\ errors = 0 /\ summary # Pump!None
    BY DEF Pump!Whole
<1>2. Upto(Counted) = pipe /\ pipe \in Seq(Pump!PipeLine) /\ pipe \in Outputs
    BY <1>1, EndedHasReadAll DEF PumpInv
<1>3. PumpWritten(pipe, csv, Len(intervals), 0)
    BY <1>1, <1>2 DEF PumpInv
<1>4. csv \in Seq(PumpRows) /\ Len(csv) \in Nat
    BY <1>3 DEF PumpWritten
<1>5. Len(reports) = Len(csv) /\ Sifted(pipe, GoodLines) = reports
  <2>1. Len(csv) = Len(Sifted(pipe, GoodLines)) /\ Len(reports) = Len(csv) + 0
      BY <1>3 DEF PumpWritten
  <2>2. Len(reports) = Len(csv)
      BY <1>4, <2>1
  <2> QED BY <1>2, <2>1, <2>2, NoneIsBad
<1>6. \A i \in 1..Len(csv) : /\ reports[i] \in GoodLines /\ csv[i] = Pump!RowOf(reports[i])
  <2>1. Sound(Sifted(pipe, GoodLines), pipe, GoodLines, Len(pipe))
      BY <1>2, SiftedSound
  <2>2. \A i \in 1..Len(csv) : csv[i] = Pump!RowOf(Sifted(pipe, GoodLines)[i])
      BY <1>3 DEF PumpWritten
  <2> HIDE DEF reports
  <2> QED BY <1>5, <2>1, <2>2 DEF Sound
<1>7. PICK m \in 0..Len(reports) :
          /\ Pump!InTurn(reports, m)
          /\ Len(reports) \in {m, m + 1}
          /\ Len(reports) = m + 1 => Pump!Total(reports, m)
  <2>1. Pump!Reports(pipe) = reports
      BY <1>2, ReportsAreSifted
  <2> HIDE DEF reports
  <2> QED BY <1>2, <2>1, InputsAssumption DEF Pump!OutputsAssumption
<1> HIDE DEF reports
<1>8. \A i \in 1..Len(csv) :
          /\ csv[i].kind = Pump!Kind(reports[i]) /\ csv[i].kind \in {"interval", "summary"}
          /\ csv[i].start = reports[i].start /\ csv[i].end = reports[i].end
    BY <1>6, RowsOfLines
<1>9. /\ m \in Nat /\ Len(csv) = m + 1 /\ m > 0
      /\ \A i \in 1..m : csv[i].kind = "interval"
      /\ csv[m + 1].kind = "summary"
  <2>1. \A i \in 1..m : i \in 1..Len(csv) /\ Pump!Kind(reports[i]) = "interval"
      BY <1>4, <1>5, <1>7 DEF Pump!InTurn
  <2>2. PICK i \in 1..Len(csv) : csv[i].kind # "interval"
      BY <1>1 DEF PumpInv
  <2>3. i \notin 1..m
      BY <1>8, <2>1, <2>2
  <2>4. m \in Nat /\ Len(csv) = m + 1 /\ i = m + 1
      BY <1>4, <1>5, <1>7, <2>3
  <2>5. m > 0
      BY <1>5, <1>7, <2>4 DEF Pump!Total
  <2> QED BY <1>8, <2>1, <2>2, <2>4, <2>5
<1>10. /\ reports[1].start = 0
       /\ \A i \in 1..(m - 1) : reports[i].end = reports[i + 1].start
       /\ reports[m + 1].end = reports[m].end
    BY <1>5, <1>7, <1>9 DEF Pump!InTurn, Pump!Total
<1>11. \A i \in 1..Len(csv) : /\ csv[i] \in IntervalRows <=> i <= m
                              /\ csv[i] \in SummaryRows <=> i = m + 1
  <2> SUFFICES ASSUME NEW i \in 1..Len(csv)
               PROVE  /\ csv[i] \in IntervalRows <=> i <= m
                      /\ csv[i] \in SummaryRows <=> i = m + 1
      OBVIOUS
  <2>1. csv[i] \in PumpRows
      BY <1>4
  <2>2. CASE i <= m
      BY <1>9, <2>1, <2>2 DEF IntervalRows, SummaryRows
  <2>3. CASE i = m + 1
      BY <1>9, <2>1, <2>3 DEF IntervalRows, SummaryRows
  <2> QED BY <1>9, <2>2, <2>3
<1>12. Len(rows) = m /\ \A i \in 1..m : rows[i] = csv[i]
  <2>1. m \in 0..Len(csv)
      BY <1>9
  <2> QED BY <1>4, <1>11, <2>1, SiftedFirst
<1>13. Len(total) = 1 /\ total[1] = csv[m + 1]
  <2>1. \A i \in 1..Len(csv) : csv[i] \in IntervalRows <=> csv[i] \notin SummaryRows
      BY <1>9, <1>11
  <2>2. Len(rows) + Len(total) = Len(csv)
      BY <1>4, <2>1, SiftedDivides
  <2>3. total \in Seq(PumpRows) /\ Sound(total, csv, SummaryRows, Len(csv))
      BY <1>4, SiftedSound
  <2> HIDE DEF rows, total
  <2>4. Len(total) = 1
    <3>1. PICK t \in Nat : t = Len(total)
        BY <2>3
    <3>2. m \in Nat /\ m + t = m + 1
        BY <1>9, <1>12, <2>2, <3>1
    <3>3. t = 1
        BY <3>2
    <3> QED BY <3>1, <3>3
  <2>5. PICK i \in 1..Len(csv) : total[1] \in SummaryRows /\ csv[i] = total[1]
      BY <2>3, <2>4 DEF Sound
  <2>6. i = m + 1
      BY <1>11, <2>5
  <2> QED BY <2>4, <2>5, <2>6
<1>14. Pump!OfKind("interval") = rows /\ Pump!OfKind("summary") = total
    BY <1>4, KindsAreSifted
<1> HIDE DEF rows, total
<1>15. \A i \in 1..m : i \in 1..Len(csv)
    BY <1>9
<1>16. /\ rows[1].start = 0
       /\ rows[m].end = total[1].end
  <2>1. 1 \in 1..m /\ m \in 1..m /\ m + 1 \in 1..Len(csv)
      BY <1>9
  <2>2. rows[1].start = reports[1].start /\ rows[m].end = reports[m].end
      BY <1>8, <1>12, <1>15, <2>1
  <2>3. total[1].end = reports[m + 1].end
      BY <1>8, <1>13, <2>1
  <2> QED BY <1>10, <2>2, <2>3
<1>17. ASSUME NEW i \in 1..(m - 1)
       PROVE  rows[i].end = rows[i + 1].start
  <2>1. i \in 1..m /\ i + 1 \in 1..m
      BY <1>9
  <2>2. rows[i].end = reports[i].end /\ rows[i + 1].start = reports[i + 1].start
      BY <1>8, <1>12, <1>15, <2>1
  <2> QED BY <1>10, <2>2
<1> QED BY <1>9, <1>12, <1>13, <1>14, <1>16, <1>17

LEMMA SmallIntervals == Cardinality(4..10) = 7 /\ Cardinality(4..9) = 6
<1>1. 4 \in Int /\ 9 \in Int /\ 10 \in Int
    OBVIOUS
<1>2. /\ Cardinality(4..10) = IF 4 > 10 THEN 0 ELSE 10 - 4 + 1
      /\ Cardinality(4..9) = IF 4 > 9 THEN 0 ELSE 9 - 4 + 1
    BY <1>1, FS_Interval, Zenon
<1> QED BY <1>2

\* The text of the self test.
LEMMA SampleLines ==
    /\ Len(Pump!Sample) = 10
    /\ \A i \in 1..3 : ~IsReport(Pump!Sample[i])
    /\ \A i \in 4..10 : IsGood(Pump!Sample[i])
    /\ \A i \in 4..9 : Pump!Kind(Pump!Sample[i]) = "interval"
    /\ Pump!Kind(Pump!Sample[10]) = "summary"
<1>1. Len(Pump!Sample) = 10
    BY DEF Pump!Sample
<1>2. \A i \in 1..3 : ~IsReport(Pump!Sample[i])
    BY DEF Pump!Sample, Pump!Other, IsReport
<1>3. \A l : Pump!UnitPrefix(l.xunit) \in DOMAIN Pump!Exponent
          /\ Pump!UnitPrefix(l.runit) \in DOMAIN Pump!Exponent
    BY DEF Pump!UnitPrefix, Pump!Exponent
<1>4. \A a, b, x, xu, r, ru :
          /\ IsGood(Pump!Report(a, b, x, xu, r, ru))
          /\ Pump!Report(a, b, x, xu, r, ru).start = a /\ Pump!Report(a, b, x, xu, r, ru).end = b
  <2> SUFFICES ASSUME NEW a, NEW b, NEW x, NEW xu, NEW r, NEW ru
               PROVE  /\ IsGood(Pump!Report(a, b, x, xu, r, ru))
                      /\ Pump!Report(a, b, x, xu, r, ru).start = a
                      /\ Pump!Report(a, b, x, xu, r, ru).end = b
      OBVIOUS
  <2> DEFINE l == Pump!Report(a, b, x, xu, r, ru)
  <2>1. l.start = a /\ l.end = b /\ l.what = "report"
      BY DEF Pump!Report
  <2>2. l.ok = TRUE
      BY Zenon DEF Pump!Report
  <2> HIDE DEF l
  <2>3. Pump!Parses(l)
      BY <1>3, <2>2, Zenon DEF Pump!Parses
  <2>4. IsGood(l)
      BY <2>1, <2>3 DEF IsGood, IsReport
  <2> QED BY <2>1, <2>4 DEF l
<1>5. /\ IsGood(Pump!Sample[4]) /\ IsGood(Pump!Sample[5]) /\ IsGood(Pump!Sample[6])
      /\ IsGood(Pump!Sample[7]) /\ IsGood(Pump!Sample[8]) /\ IsGood(Pump!Sample[9])
      /\ IsGood(Pump!Sample[10])
    BY <1>4 DEF Pump!Sample
<1>6. /\ Pump!Sample[4].start = 0 /\ Pump!Sample[4].end = 10
      /\ Pump!Sample[5].start = 10 /\ Pump!Sample[6].start = 20 /\ Pump!Sample[7].start = 30
      /\ Pump!Sample[8].start = 40 /\ Pump!Sample[9].start = 50
      /\ Pump!Sample[10].start = 0 /\ Pump!Sample[10].end = 60
    BY <1>4 DEF Pump!Sample
<1>7. \A i \in 4..9 : Pump!Kind(Pump!Sample[i]) = "interval"
    BY <1>6 DEF Pump!Kind
<1>8. Pump!Kind(Pump!Sample[10]) = "summary"
    BY <1>6 DEF Pump!Kind
<1>9. \A i \in 4..10 : IsGood(Pump!Sample[i])
    BY <1>5
<1> QED BY <1>1, <1>2, <1>7, <1>8, <1>9

LEMMA PumpPasses == ASSUME PumpInv PROVE Pump!SelfTestPasses
<1> SUFFICES ASSUME pipe = Pump!Sample, pump = "ended"
             PROVE  /\ Len(intervals) = 6 /\ summary # Pump!None /\ errors = 0
                    /\ Len(csv) = Len(intervals) + 1
    BY DEF Pump!SelfTestPasses
<1>1. Upto(Counted) = pipe /\ pipe \in Seq(Pump!PipeLine)
    BY EndedHasReadAll
<1>2. PumpWritten(pipe, csv, Len(intervals), errors) /\ errors \in Nat
    BY <1>1 DEF PumpInv
<1>3. /\ Len(pipe) = 10 /\ \A i \in 1..10 : pipe[i] \in Pump!PipeLine
    BY <1>1, SampleLines
<1>4. \A i \in 1..10 : /\ pipe[i] \in GoodLines <=> i \in 4..10
                       /\ pipe[i] \in ReportLines <=> i \in 4..10
                       /\ pipe[i] \in IntervalLines <=> i \in 4..9
  <2> SUFFICES ASSUME NEW i \in 1..10
               PROVE  /\ pipe[i] \in GoodLines <=> i \in 4..10
                      /\ pipe[i] \in ReportLines <=> i \in 4..10
                      /\ pipe[i] \in IntervalLines <=> i \in 4..9
      OBVIOUS
  <2>1. CASE i \in 1..3
      BY <1>3, <2>1, SampleLines DEF GoodLines, ReportLines, IntervalLines, IsGood
  <2>2. CASE i \in 4..9
      BY <1>3, <2>2, SampleLines DEF GoodLines, ReportLines, IntervalLines, IsGood
  <2>3. CASE i = 10
      BY <1>3, <2>3, SampleLines DEF GoodLines, ReportLines, IntervalLines, IsGood
  <2> QED BY <2>1, <2>2, <2>3
<1>5. Cardinality(4..10) = 7 /\ Cardinality(4..9) = 6
    BY SmallIntervals
<1>6. Len(Sifted(pipe, GoodLines)) = 7
  <2> DEFINE T == {i \in 1..Len(pipe) : pipe[i] \in GoodLines}
  <2>1. T = 4..10
      BY <1>3, <1>4
  <2>2. Len(Sifted(pipe, GoodLines)) = Cardinality(T)
      BY <1>1, SiftedCounts
  <2> HIDE DEF T
  <2> QED BY <1>5, <2>1, <2>2
<1>7. Len(Sifted(pipe, ReportLines)) = 7
  <2> DEFINE T == {i \in 1..Len(pipe) : pipe[i] \in ReportLines}
  <2>1. T = 4..10
      BY <1>3, <1>4
  <2>2. Len(Sifted(pipe, ReportLines)) = Cardinality(T)
      BY <1>1, SiftedCounts
  <2> HIDE DEF T
  <2> QED BY <1>5, <2>1, <2>2
<1>8. Len(Sifted(pipe, IntervalLines)) = 6
  <2> DEFINE T == {i \in 1..Len(pipe) : pipe[i] \in IntervalLines}
  <2>1. T = 4..9
      BY <1>3, <1>4
  <2>2. Len(Sifted(pipe, IntervalLines)) = Cardinality(T)
      BY <1>1, SiftedCounts
  <2> HIDE DEF T
  <2> QED BY <1>5, <2>1, <2>2
<1>9. Len(csv) = 7 /\ errors = 0 /\ Len(intervals) = 6 /\ Len(Sifted(csv, IntervalRows)) = 6
  <2>1. /\ Len(csv) = 7 /\ 7 = Len(csv) + errors
        /\ Len(intervals) = 6 /\ Len(Sifted(csv, IntervalRows)) = 6
      BY <1>2, <1>6, <1>7, <1>8 DEF PumpWritten
  <2> QED BY <1>2, <2>1
<1>10. summary # Pump!None
  <2> SUFFICES ASSUME summary = Pump!None PROVE FALSE
      OBVIOUS
  <2>1. csv \in Seq(PumpRows)
      BY <1>2 DEF PumpWritten
  <2>2. \A i \in 1..Len(csv) : csv[i].kind = "interval" /\ csv[i] \in PumpRows
      BY <2>1 DEF PumpInv
  <2>3. \A i \in 1..Len(csv) : csv[i] \in IntervalRows <=> i <= Len(csv)
      BY <2>2 DEF IntervalRows
  <2>4. Len(csv) \in 0..Len(csv)
      BY <2>1
  <2>5. Len(Sifted(csv, IntervalRows)) = Len(csv)
      BY <2>1, <2>3, <2>4, SiftedFirst
  <2> QED BY <1>9, <2>5
<1> QED BY <1>9, <1>10

LEMMA PumpInvIsSafe ==
    ASSUME PumpInv
    PROVE  /\ Pump!TypeOK
           /\ Pump!BadLineLosesItself /\ Pump!IntervalsTile
           /\ Pump!RowsAddUp /\ Pump!SelfTestPasses
    BY PumpTyped, PumpWritesGood, PumpTiles, PumpPasses

\* What is recorded is what happened: rtt.txt has the times of sending in order unless
\* the threads write it, a line iperf prints that is no report of its loses itself only,
\* the intervals of throughput.csv tile the run and add up to its summary, the self-test
\* of run_lab.py passes, and the zero the plots read is as close as the rows can tell:
\* for every length of a measurement, every output of iperf and every number of runs.
THEOREM RecordsStayFaithful == StudySpec => []RecordsAreFaithful
<1> DEFINE Inv == RttInv /\ PumpInv /\ ClockInv
<1>1. StudyInit => Inv
    BY RttInit, PumpInit, ClockInit DEF StudyInit
<1>2. Inv /\ [StudyNext]_studyVars => Inv'
  <2> SUFFICES ASSUME Inv, [StudyNext]_studyVars PROVE Inv'
      OBVIOUS
  <2>1. RttInv'
    <3>1. Rtt!Next \/ UNCHANGED rttVars
        BY DEF StudyNext, studyVars
    <3> QED BY <3>1, RttStep
  <2>2. PumpInv'
    <3>1. Pump!Next \/ UNCHANGED pumpVars
        BY DEF StudyNext, studyVars
    <3> QED BY <3>1, PumpStep
  <2>3. ClockInv'
    <3>1. Clock!Next \/ UNCHANGED clockVars
        BY DEF StudyNext, studyVars
    <3> QED BY <3>1, ClockStep
  <2> QED BY <2>1, <2>2, <2>3
<1>3. Inv => RecordsAreFaithful
    BY RttInvIsSafe, PumpInvIsSafe, ZeroIsRead DEF RecordsAreFaithful
<1> QED BY <1>1, <1>2, <1>3, PTL DEF StudySpec

-----------------------------------------------------------------------------
\* The figures.

LEMMA PlotSifts == \A list, S : Plots!Sifted(list, S) = Sifted(list, S)
    BY DEF Plots!Sifted, Sifted

LEMMA PlotCounts == \A S : Plots!Cardinality(S) = Cardinality(S)
    BY DEF Plots!Cardinality, Cardinality

LEMMA PlotOrders == \A values, n : Plots!Ordered(values, n) = Ordered(values, n)
    BY PlotCounts DEF Plots!Ordered, Ordered

LEMMA PlotArranges == \A list, less : Plots!Arranged(list, less) = Arranged(list, less)
    BY DEF Plots!Arranged, Arranged, Plots!Cardinality, Cardinality

\* A list of samples that have a time.
IsTimed(s) == IsList(s) /\ \A i \in 1..Len(s) : s[i].t \in Int

\* Between two samples a curve is drawn once, in the colour of gaps where the gap is too
\* wide and only there.
Wide(s, i, th2) == /\ s[i] # Plots!Nan /\ s[i + 1] # Plots!Nan
                   /\ 2 * (s[i + 1].t - s[i].t) > th2
Marked(s, th2, m) ==
    /\ m.own \cap m.gap = {}
    /\ m.own \cup m.gap = 1..(Len(s) - 1)
    /\ \A i \in 1..(Len(s) - 1) : i \in m.gap <=> Wide(s, i, th2)

LEMMA GapsAreMarked ==
    ASSUME NEW s, IsTimed(s), NEW th2
    PROVE  Marked(s, th2, Plots!MarkGaps(s, th2))
<1> DEFINE n == Len(s)
           G == {i \in 1..(n - 1) : Wide(s, i, th2)}
           places == [i \in DOMAIN s |-> i]
           q == Sifted(places, G)
           starts == <<1>> \o [j \in DOMAIN q |-> q[j] + 1]
           ends == Append(q, n)
           own == UNION {starts[j]..(ends[j] - 1) : j \in DOMAIN starts}
           m == Plots!MarkGaps(s, th2)
<1>1. n \in Nat /\ DOMAIN s = 1..n
    BY DEF IsTimed, IsList
<1>2. m.own = own /\ m.gap = G
    BY DEF Plots!MarkGaps, Wide, Plots!Sifted, Sifted
<1> HIDE DEF m
<1>3. /\ places \in Seq(Nat) /\ Len(places) = n /\ Rising(places)
      /\ \A i \in 1..n : places[i] = i
    BY <1>1 DEF Rising
<1> HIDE DEF places
<1>4. q \in Seq(Nat) /\ Sound(q, places, G, n) /\ Rising(q)
    BY <1>3, SiftedSound, SiftedInOrder
<1> HIDE DEF q
<1>5. PICK c \in Nat : c = Len(q)
    BY <1>4
<1>6. /\ \A j \in 1..c : q[j] \in G /\ q[j] \in 1..(n - 1)
      /\ \A g \in G : \E j \in 1..c : q[j] = g
      /\ \A i, j \in 1..c : i < j => q[i] < q[j]
  <2>1. \A g \in G : g \in 1..n /\ places[g] = g
      BY <1>1, <1>3
  <2> QED BY <1>4, <1>5, <2>1 DEF Sound, Rising
<1>7. /\ DOMAIN starts = 1..(c + 1) /\ starts[1] = 1
      /\ \A j \in 2..(c + 1) : starts[j] = q[j - 1] + 1
  <2> DEFINE r == [j \in DOMAIN q |-> q[j] + 1]
  <2>1. r \in Seq(Nat) /\ Len(r) = c /\ \A j \in 1..c : r[j] = q[j] + 1
      BY <1>4, <1>5
  <2> HIDE DEF r
  <2>2. <<1>> \in Seq(Nat) /\ Len(<<1>>) = 1 /\ <<1>>[1] = 1
      OBVIOUS
  <2>3. /\ <<1>> \o r \in Seq(Nat) /\ Len(<<1>> \o r) = c + 1
        /\ \A j \in 1..(c + 1) : (<<1>> \o r)[j] = IF j <= 1 THEN 1 ELSE r[j - 1]
      BY <2>1, <2>2
  <2> QED BY <2>1, <2>3 DEF r
<1>8. /\ \A j \in 1..c : ends[j] = q[j]
      /\ ends[c + 1] = n
    BY <1>1, <1>4, <1>5, OneMore
<1> HIDE DEF starts, ends
<1>9. ASSUME NEW x \in own
      PROVE  x \in 1..(n - 1) /\ x \notin G
  <2>1. PICK j \in 1..(c + 1) : x \in starts[j]..(ends[j] - 1)
      BY <1>7
  <2>2. j = 1 \/ (j \in 2..(c + 1) /\ j - 1 \in 1..c)
      BY <1>5
  <2>3. j = c + 1 \/ j \in 1..c
      BY <1>5
  <2>4. starts[j] \in Nat /\ 1 <= starts[j]
      BY <1>6, <1>7, <2>2
  <2>5. ends[j] \in Nat /\ ends[j] <= n
      BY <1>1, <1>6, <1>8, <2>3
  <2>6. x \in 1..(n - 1)
      BY <1>1, <2>1, <2>4, <2>5
  <2>7. ASSUME x \in G PROVE FALSE
    <3>1. PICK i \in 1..c : q[i] = x
        BY <1>6, <2>7
    <3>2. i < j
      <4>1. CASE j \in 1..c
        <5>1. q[i] < q[j]
            BY <1>6, <1>8, <2>1, <3>1, <4>1
        <5>2. ~(j < i) /\ j # i
            BY <1>6, <3>1, <4>1, <5>1
        <5> QED BY <5>2, <4>1
      <4>2. CASE j = c + 1
          BY <4>2, <1>5
      <4> QED BY <2>3, <4>1, <4>2
    <3>3. j \in 2..(c + 1) /\ j - 1 \in 1..c
        BY <2>2, <3>2
    <3>4. q[j - 1] < q[i]
        BY <1>6, <1>7, <2>1, <3>1, <3>3
    <3>5. i # j - 1 /\ ~(i < j - 1)
        BY <1>6, <3>3, <3>4
    <3> QED BY <3>2, <3>3, <3>5
  <2> QED BY <2>6, <2>7
<1>10. ASSUME NEW x \in 1..(n - 1), x \notin G
       PROVE  x \in own
  <2> DEFINE T == {j \in 1..(c + 1) : x < ends[j]}
  <2>1. c + 1 \in T /\ T \subseteq Nat
      BY <1>1, <1>5, <1>8
  <2>2. PICK j \in T : \A i \in T : j <= i
      BY <2>1, LeastNumber
  <2>3. j \in 1..(c + 1) /\ x < ends[j] /\ ends[j] \in Int
    <3>1. j = c + 1 \/ j \in 1..c
        BY <2>2
    <3> QED BY <1>1, <1>6, <1>8, <2>2, <3>1
  <2>4. starts[j] <= x /\ starts[j] \in Int
    <3>1. CASE j = 1
        BY <3>1, <1>7
    <3>2. CASE j # 1
      <4>1. j - 1 \in 1..c /\ j \in 2..(c + 1) /\ j - 1 \in 1..(c + 1) /\ ~(j <= j - 1)
          BY <2>3, <3>2
      <4>2. j - 1 \notin T
          BY <2>2, <4>1
      <4>3. ~(x < q[j - 1]) /\ q[j - 1] \in Int /\ q[j - 1] # x
          BY <1>6, <1>8, <1>10, <4>1, <4>2
      <4> QED BY <1>7, <4>1, <4>3
    <3> QED BY <3>1, <3>2
  <2>5. x \in starts[j]..(ends[j] - 1)
      BY <2>3, <2>4
  <2> QED BY <1>7, <2>3, <2>5
<1> HIDE DEF own
<1>11. own \cup G = 1..(n - 1) /\ own \cap G = {}
    BY <1>9, <1>10
<1>12. \A i \in 1..(n - 1) : i \in G <=> Wide(s, i, th2)
    OBVIOUS
<1> QED BY <1>2, <1>11, <1>12 DEF Marked, m

\* A list that is broken wherever the next sample is too far.
NoneWide(q, maxGap) ==
    \A i \in 1..(Len(q) - 1) : \/ Plots!Nan \in {q[i], q[i + 1]}
                               \/ q[i + 1].t - q[i].t <= maxGap

\* What break_gaps has appended after n samples.
Broken(f, s, maxGap) ==
    f = [n \in 0..Len(s) |->
            IF n = 0 THEN <<>>
            ELSE IF n > 1 /\ s[n].t - s[n - 1].t > maxGap
            THEN Append(Append(f[n - 1], Plots!Nan), s[n])
            ELSE Append(f[n - 1], s[n])]

BrokenOK(q, s, maxGap, n) ==
    /\ NoneWide(q, maxGap)
    /\ n > 0 => Len(q) > 0 /\ q[Len(q)] = s[n]

LEMMA OneMoreNear ==
    ASSUME NEW Y, \A x \in Y : x.t \in Int, NEW q \in Seq(Y), NEW e \in Y, NEW maxGap \in Int,
           NoneWide(q, maxGap),
           Len(q) > 0 => \/ Plots!Nan \in {q[Len(q)], e}
                         \/ e.t - q[Len(q)].t <= maxGap
    PROVE  /\ Append(q, e) \in Seq(Y) /\ NoneWide(Append(q, e), maxGap)
           /\ Len(Append(q, e)) > 0 /\ Append(q, e)[Len(Append(q, e))] = e
<1> DEFINE p == Append(q, e)
<1>1. PICK c \in Nat : c = Len(q)
    OBVIOUS
<1>2. /\ p \in Seq(Y) /\ Len(p) = c + 1 /\ \A i \in 1..c : p[i] = q[i]
      /\ p[c + 1] = e
    BY <1>1, OneMore
<1> HIDE DEF p
<1>3. ASSUME NEW i \in 1..c
      PROVE  \/ Plots!Nan \in {p[i], p[i + 1]}
             \/ p[i + 1].t - p[i].t <= maxGap
  <2>1. CASE i = c
      BY <1>1, <1>2, <2>1
  <2>2. CASE i # c
    <3>1. i \in 1..(c - 1) /\ i + 1 \in 1..c
        BY <2>2
    <3> QED BY <1>1, <1>2, <3>1 DEF NoneWide
  <2> QED BY <2>1, <2>2
<1>4. NoneWide(p, maxGap)
    BY <1>2, <1>3 DEF NoneWide
<1> QED BY <1>2, <1>4 DEF p

LEMMA BreakingExists ==
    ASSUME NEW Y, Plots!Nan \in Y, NEW s \in Seq(Y), NEW maxGap
    PROVE  \E f : Broken(f, s, maxGap)
<1> DEFINE N == Len(s)
           far(n) == n > 1 /\ s[n].t - s[n - 1].t > maxGap
           step == [n \in 1..N |-> [q \in Seq(Y) |->
                       IF far(n) THEN Append(Append(q, Plots!Nan), s[n]) ELSE Append(q, s[n])]]
<1>1. N \in Nat /\ \A i \in 1..N : s[i] \in Y
    OBVIOUS
<1>2. step \in [1..N -> [Seq(Y) -> Seq(Y)]]
  <2> SUFFICES ASSUME NEW n \in 1..N, NEW q \in Seq(Y)
               PROVE  (IF far(n) THEN Append(Append(q, Plots!Nan), s[n]) ELSE Append(q, s[n]))
                          \in Seq(Y)
      OBVIOUS
  <2> HIDE DEF far
  <2>1. Append(q, Plots!Nan) \in Seq(Y) /\ s[n] \in Y
      BY <1>1, OneMore
  <2>2. Append(Append(q, Plots!Nan), s[n]) \in Seq(Y) /\ Append(q, s[n]) \in Seq(Y)
      BY <2>1, OneMore
  <2> QED BY <2>2
<1>3. \A n \in 1..N, q \in Seq(Y) :
          step[n][q] = IF far(n) THEN Append(Append(q, Plots!Nan), s[n]) ELSE Append(q, s[n])
    OBVIOUS
<1> HIDE DEF step, N, far
<1>4. <<>> \in Seq(Y)
    OBVIOUS
<1>5. PICK f \in [0..N -> Seq(Y)] : Solves(f, N, <<>>, step)
    BY <1>1, <1>2, <1>4, RecursionSolved
<1> DEFINE h == [n \in 0..N |->
                    IF n = 0 THEN <<>>
                    ELSE IF far(n) THEN Append(Append(f[n - 1], Plots!Nan), s[n])
                    ELSE Append(f[n - 1], s[n])]
<1>6. ASSUME NEW n \in 0..N
      PROVE  f[n] = h[n]
  <2>1. CASE n = 0
      BY <1>5, <2>1 DEF Solves
  <2>2. CASE n # 0
    <3>1. n \in 1..N /\ f[n - 1] \in Seq(Y)
        BY <1>1, <2>2
    <3>2. f[n] = step[n][f[n - 1]]
        BY <1>5, <2>2 DEF Solves
    <3> QED BY <1>3, <2>2, <3>1, <3>2
  <2> QED BY <2>1, <2>2
<1>7. f = [n \in 0..N |-> f[n]]
    OBVIOUS
<1>8. f = h
  <2> HIDE DEF h
  <2> QED BY <1>6, <1>7 DEF h
<1> QED BY <1>8 DEF Broken, far, N

LEMMA GapsAreBroken ==
    ASSUME NEW Y, Plots!Nan \in Y, \A x \in Y : x.t \in Int,
           NEW s \in Seq(Y), NEW maxGap \in Int
    PROVE  /\ Plots!BreakGaps(s, maxGap) \in Seq(Y)
           /\ maxGap > 0 => NoneWide(Plots!BreakGaps(s, maxGap), maxGap)
<1> DEFINE f == CHOOSE f : Broken(f, s, maxGap)
           N == Len(s)
<1>1. Broken(f, s, maxGap)
    BY BreakingExists
<1>2. Plots!BreakGaps(s, maxGap) = IF maxGap <= 0 \/ N < 2 THEN s ELSE f[N]
    BY DEF Plots!BreakGaps, Broken
<1> HIDE DEF f
<1>3. N \in Nat /\ \A i \in 1..N : s[i] \in Y /\ s[i].t \in Int
    OBVIOUS
<1> HIDE DEF N
<1>4. \A n \in 0..N :
          f[n] = IF n = 0 THEN <<>>
                 ELSE IF n > 1 /\ s[n].t - s[n - 1].t > maxGap
                 THEN Append(Append(f[n - 1], Plots!Nan), s[n])
                 ELSE Append(f[n - 1], s[n])
    BY <1>1 DEF Broken, N
<1> DEFINE T == {n \in 0..N : f[n] \in Seq(Y) /\ BrokenOK(f[n], s, maxGap, n)
                                /\ (n = 0 => f[n] = <<>>)}
<1>5. 0 \in T
  <2>1. 0 \in 0..N /\ f[0] = <<>>
      BY <1>3, <1>4
  <2>2. <<>> \in Seq(Y) /\ 1..(Len(<<>>) - 1) = {}
      OBVIOUS
  <2>3. BrokenOK(<<>>, s, maxGap, 0)
      BY <2>2 DEF BrokenOK, NoneWide
  <2> QED BY <2>1, <2>2, <2>3
<1>6. ASSUME NEW n \in 0..(N - 1), n \in T
      PROVE  n + 1 \in T
  <2>1. n \in Nat /\ n + 1 \in 0..N /\ (n + 1) - 1 = n /\ n + 1 \in 1..N /\ n + 1 # 0
        /\ (n > 0 => n \in 1..N) /\ (n + 1 > 1 <=> n > 0)
      BY <1>3
  <2>2. f[n] \in Seq(Y) /\ BrokenOK(f[n], s, maxGap, n) /\ (n = 0 => f[n] = <<>>)
      BY <1>6
  <2>3. s[n + 1] \in Y /\ s[n + 1].t \in Int /\ (n > 0 => s[n].t \in Int)
      BY <1>3, <2>1
  <2>4. CASE n + 1 > 1 /\ s[n + 1].t - s[n].t > maxGap
    <3>1. f[n + 1] = Append(Append(f[n], Plots!Nan), s[n + 1])
        BY <1>4, <2>1, <2>4
    <3> DEFINE p == Append(f[n], Plots!Nan)
    <3>2. p \in Seq(Y) /\ NoneWide(p, maxGap) /\ Len(p) > 0 /\ p[Len(p)] = Plots!Nan
        BY <2>2, OneMoreNear DEF BrokenOK
    <3> HIDE DEF p
    <3>3. /\ Append(p, s[n + 1]) \in Seq(Y) /\ NoneWide(Append(p, s[n + 1]), maxGap)
          /\ Len(Append(p, s[n + 1])) > 0
          /\ Append(p, s[n + 1])[Len(Append(p, s[n + 1]))] = s[n + 1]
        BY <2>3, <3>2, OneMoreNear
    <3> QED BY <2>1, <3>1, <3>3 DEF BrokenOK, p
  <2>5. CASE ~(n + 1 > 1 /\ s[n + 1].t - s[n].t > maxGap)
    <3>1. f[n + 1] = Append(f[n], s[n + 1])
        BY <1>4, <2>1, <2>5
    <3>2. Len(f[n]) > 0 => n > 0
      <4> HIDE DEF T
      <4>1. CASE n = 0
        <5>1. f[n] = <<>> /\ Len(<<>>) = 0
            BY <2>2, <4>1
        <5> QED BY <5>1
      <4>2. CASE n # 0
          BY <2>1, <4>2
      <4> QED BY <4>1, <4>2
    <3>3. Len(f[n]) > 0 => s[n + 1].t - f[n][Len(f[n])].t <= maxGap
        BY <2>1, <2>2, <2>3, <2>5, <3>2 DEF BrokenOK
    <3>4. /\ Append(f[n], s[n + 1]) \in Seq(Y) /\ NoneWide(Append(f[n], s[n + 1]), maxGap)
          /\ Len(Append(f[n], s[n + 1])) > 0
          /\ Append(f[n], s[n + 1])[Len(Append(f[n], s[n + 1]))] = s[n + 1]
        BY <2>2, <2>3, <3>3, OneMoreNear DEF BrokenOK
    <3> QED BY <2>1, <3>1, <3>4 DEF BrokenOK
  <2> QED BY <2>4, <2>5
<1>7. N \in T
  <2> HIDE DEF T
  <2>1. \A n \in 0..N : n \in T
      BY <1>3, <1>5, <1>6, UpTo
  <2> QED BY <1>3, <2>1
<1>8. f[N] \in Seq(Y) /\ NoneWide(f[N], maxGap)
    BY <1>7 DEF BrokenOK
<1>9. N < 2 => NoneWide(s, maxGap)
    BY <1>3 DEF NoneWide, N
<1> QED BY <1>2, <1>8, <1>9

CutRanges == [lo : Int, hi : Int]

\* The cuts that count begin one after the other and end on the axis.
CutsInOrder(cuts, top) ==
    /\ cuts \in Seq(CutRanges)
    /\ \A j \in 1..Len(cuts) : cuts[j].lo < cuts[j].hi /\ 100 * cuts[j].hi < top
    /\ \A i, j \in 1..Len(cuts) : i < j => cuts[i].lo <= cuts[j].lo

LEMMA CutsAreInOrder ==
    ASSUME NEW parts \in Seq(CutRanges), NEW dataMax \in Int
    PROVE  CutsInOrder(Plots!Cuts(parts, dataMax), Plots!Top(dataMax))
<1> DEFINE S1 == {c \in Plots!Range(parts) : c.lo < c.hi}
           S2 == {c \in Plots!Range(parts) : 100 * c.hi < Plots!Top(dataMax)}
           ranges == Sifted(parts, S1)
           less == Plots!Stably(ranges, Plots!LowerCut)
           sorted == Arranged(ranges, less)
           cuts == Sifted(sorted, S2)
           R == {p \in CutRanges \X CutRanges : p[1].lo <= p[2].lo}
<1>1. ranges \in Seq(CutRanges) /\ Sound(ranges, parts, S1, Len(parts))
    BY SiftedSound
<1>2. Plots!Cuts(parts, dataMax) = cuts
    BY PlotSifts, PlotArranges DEF Plots!Cuts, Plots!ParseCuts
<1> HIDE DEF ranges
<1>3. PICK n \in Nat : n = Len(ranges)
    BY <1>1
<1>4. /\ DOMAIN ranges = 1..n
      /\ \A i \in 1..n : /\ ranges[i] \in CutRanges /\ ranges[i].lo \in Int /\ ranges[i].hi \in Int
                         /\ ranges[i].lo < ranges[i].hi
  <2>1. DOMAIN ranges = 1..n /\ \A i \in 1..n : ranges[i] \in CutRanges /\ ranges[i] \in S1
      BY <1>1, <1>3 DEF Sound
  <2> QED BY <2>1 DEF CutRanges
<1>5. \A i, j \in 1..n :
          <<i, j>> \in less <=>
              \/ ranges[i].lo < ranges[j].lo
              \/ ranges[i].lo = ranges[j].lo /\ ranges[i].hi < ranges[j].hi
              \/ /\ ranges[i].lo = ranges[j].lo /\ ranges[i].hi = ranges[j].hi
                 /\ i < j
  <2>1. \A i, j \in 1..n :
            <<i, j>> \in less <=>
                \/ Plots!LowerCut(ranges[i], ranges[j])
                \/ ~Plots!LowerCut(ranges[j], ranges[i]) /\ i < j
      BY <1>4 DEF Plots!Stably
  <2> HIDE DEF less
  <2> SUFFICES ASSUME NEW i \in 1..n, NEW j \in 1..n
               PROVE  <<i, j>> \in less <=>
                          \/ ranges[i].lo < ranges[j].lo
                          \/ ranges[i].lo = ranges[j].lo /\ ranges[i].hi < ranges[j].hi
                          \/ /\ ranges[i].lo = ranges[j].lo /\ ranges[i].hi = ranges[j].hi
                             /\ i < j
      OBVIOUS
  <2> DEFINE a == ranges[i].lo
             b == ranges[i].hi
             c == ranges[j].lo
             d == ranges[j].hi
  <2>2. a \in Int /\ b \in Int /\ c \in Int /\ d \in Int
      BY <1>4
  <2>3. <<i, j>> \in less <=>
            ((a < c \/ (a = c /\ b < d)) \/ (~(c < a \/ (c = a /\ d < b)) /\ i < j))
      BY <2>1 DEF Plots!LowerCut
  <2> HIDE DEF a, b, c, d
  <2>4. <<i, j>> \in less <=>
            \/ a < c
            \/ a = c /\ b < d
            \/ a = c /\ b = d /\ i < j
      BY <2>2, <2>3
  <2> QED BY <2>4 DEF a, b, c, d
<1> HIDE DEF less
<1>6. Ordering(less, n)
  <2> DEFINE lows == [i \in 1..n |-> ranges[i].lo]
             highs == [i \in 1..n |-> ranges[i].hi]
  <2>1. /\ \A i \in 1..n : lows[i] \in Int /\ highs[i] \in Int
        /\ \A i, j \in 1..n : <<i, j>> \in less <=>
               \/ lows[i] < lows[j]
               \/ lows[i] = lows[j] /\ highs[i] < highs[j]
               \/ lows[i] = lows[j] /\ highs[i] = highs[j] /\ i < j
      BY <1>4, <1>5
  <2> HIDE DEF lows, highs
  <2>2. \A i \in 1..n : <<i, i>> \notin less
      BY <2>1
  <2>3. ASSUME NEW i \in 1..n, NEW j \in 1..n, i # j
        PROVE  <<i, j>> \in less \/ <<j, i>> \in less
    <3>1. lows[i] \in Int /\ highs[i] \in Int /\ lows[j] \in Int /\ highs[j] \in Int
        BY <2>1
    <3>2. /\ lows[i] < lows[j] => <<i, j>> \in less
          /\ lows[i] = lows[j] /\ highs[i] < highs[j] => <<i, j>> \in less
          /\ lows[i] = lows[j] /\ highs[i] = highs[j] /\ i < j => <<i, j>> \in less
          /\ lows[j] < lows[i] => <<j, i>> \in less
          /\ lows[j] = lows[i] /\ highs[j] < highs[i] => <<j, i>> \in less
          /\ lows[j] = lows[i] /\ highs[j] = highs[i] /\ j < i => <<j, i>> \in less
        BY <2>1
    <3> QED BY <2>3, <3>1, <3>2
  <2>4. \A i, j, h \in 1..n : <<i, j>> \in less /\ <<j, h>> \in less => <<i, h>> \in less
      BY <2>1
  <2> QED BY <2>2, <2>3, <2>4 DEF Ordering
<1>7. /\ sorted \in Seq(CutRanges) /\ Len(sorted) = n
      /\ \E p : Rearranged(sorted, ranges, less, p)
    BY <1>1, <1>3, <1>6, ArrangedIsSorted
<1>8. PICK p : Rearranged(sorted, ranges, less, p)
    BY <1>7
<1> HIDE DEF sorted
<1>9. \A i \in 1..n : /\ p[i] \in 1..n /\ sorted[i] = ranges[p[i]]
                      /\ sorted[i] \in CutRanges /\ sorted[i].lo < sorted[i].hi
    BY <1>3, <1>4, <1>8 DEF Rearranged
<1>10. InPairs(sorted, R)
  <2> SUFFICES ASSUME NEW i \in 1..n, NEW j \in 1..n, i < j
               PROVE  <<sorted[i], sorted[j]>> \in R
      BY <1>7 DEF InPairs
  <2>1. <<p[i], p[j]>> \in less
      BY <1>3, <1>8 DEF Rearranged
  <2>2. sorted[i].lo <= sorted[j].lo
    <3>1. p[i] \in 1..n /\ p[j] \in 1..n /\ sorted[i] = ranges[p[i]] /\ sorted[j] = ranges[p[j]]
        BY <1>9
    <3>2. ranges[p[i]].lo \in Int /\ ranges[p[j]].lo \in Int
        BY <1>4, <3>1
    <3>3. ranges[p[i]].lo < ranges[p[j]].lo \/ ranges[p[i]].lo = ranges[p[j]].lo
        BY <1>5, <2>1, <3>1
    <3> QED BY <3>1, <3>2, <3>3
  <2> QED BY <1>9, <2>2
<1>11. InPairs(cuts, R)
    BY <1>7, <1>10, SiftedKeepsOrder
<1>12. cuts \in Seq(CutRanges) /\ Sound(cuts, sorted, S2, n)
    BY <1>7, SiftedSound
<1> HIDE DEF cuts
<1>13. ASSUME NEW j \in 1..Len(cuts)
       PROVE  cuts[j].lo < cuts[j].hi /\ 100 * cuts[j].hi < Plots!Top(dataMax)
  <2>1. cuts[j] \in S2 /\ \E i \in 1..n : sorted[i] = cuts[j]
      BY <1>12 DEF Sound
  <2> QED BY <1>9, <2>1
<1>14. ASSUME NEW i \in 1..Len(cuts), NEW j \in 1..Len(cuts), i < j
       PROVE  cuts[i].lo <= cuts[j].lo
    BY <1>11, <1>14 DEF InPairs
<1> QED BY <1>2, <1>12, <1>13, <1>14 DEF CutsInOrder

-----------------------------------------------------------------------------
\* What the loop over the cuts keeps.

LEMMA TwoMax ==
    ASSUME NEW a \in Int, NEW b \in Int
    PROVE  Plots!Max({a, b}) = IF a < b THEN b ELSE a
<1> DEFINE big == IF a < b THEN b ELSE a
           P(x) == \A y \in {a, b} : x >= y
<1>1. big \in {a, b} /\ P(big) /\ \A x \in {a, b} : P(x) => x = big
    OBVIOUS
<1>2. Plots!Max({a, b}) = CHOOSE x \in {a, b} : P(x)
    BY DEF Plots!Max
<1> HIDE DEF big, P
<1> QED BY <1>1, <1>2 DEF big

InSegment(segs, y) == \E i \in 1..Len(segs) : segs[i][1] < y /\ y < segs[i][2]
InCut(cuts, n, y) == \E j \in 1..n : 100 * cuts[j].lo < y /\ y < 100 * cuts[j].hi

\* After n cuts what is below cur has been divided.
KeptOK(acc, cuts, top, n) ==
    /\ acc.segs \in Seq(Int \X Int)
    /\ acc.cur \in Int
    /\ acc.cur < top
    /\ \E z \in Int : acc.cur = 100 * z
    /\ \A j \in 1..n : 100 * cuts[j].hi <= acc.cur
    /\ \A i \in 1..Len(acc.segs) : /\ acc.segs[i][2] <= acc.cur
                                   /\ n > 0 /\ acc.segs[i][2] <= 100 * cuts[n].lo
    /\ \A x \in Nat \ {0} : 100 * x - 50 < acc.cur =>
           (InSegment(acc.segs, 100 * x - 50) <=> ~InCut(cuts, n, 100 * x - 50))

LEMMA OneMoreSegment ==
    ASSUME NEW segs \in Seq(Int \X Int), NEW a \in Int, NEW b \in Int
    PROVE  /\ Append(segs, <<a, b>>) \in Seq(Int \X Int)
           /\ \A y \in Int : InSegment(Append(segs, <<a, b>>), y) <=>
                                 InSegment(segs, y) \/ (a < y /\ y < b)
           /\ \A c : (\A i \in 1..Len(Append(segs, <<a, b>>)) :
                          Append(segs, <<a, b>>)[i][2] <= c)
                     <=> b <= c /\ \A i \in 1..Len(segs) : segs[i][2] <= c
<1> DEFINE q == Append(segs, <<a, b>>)
<1>1. PICK n \in Nat : n = Len(segs)
    OBVIOUS
<1>2. /\ q \in Seq(Int \X Int) /\ Len(q) = n + 1
      /\ \A i \in 1..n : q[i] = segs[i]
      /\ q[n + 1] = <<a, b>>
    BY <1>1, OneMore
<1> HIDE DEF q
<1>3. /\ \A i \in 1..(n + 1) : i \in 1..n \/ i = n + 1
      /\ \A i \in 1..n : i \in 1..(n + 1)
      /\ n + 1 \in 1..(n + 1)
    OBVIOUS
<1>4. q[n + 1][1] = a /\ q[n + 1][2] = b
    BY <1>2
<1>5. \A y \in Int : InSegment(q, y) <=> InSegment(segs, y) \/ (a < y /\ y < b)
    BY <1>1, <1>2, <1>3, <1>4 DEF InSegment
<1>6. \A c : (\A i \in 1..Len(q) : q[i][2] <= c)
                 <=> b <= c /\ \A i \in 1..Len(segs) : segs[i][2] <= c
    BY <1>1, <1>2, <1>3, <1>4
<1> QED BY <1>2, <1>5, <1>6 DEF q

LEMMA KeepKeeps ==
    ASSUME NEW cuts, NEW top \in Int, CutsInOrder(cuts, top),
           NEW n \in Nat, n + 1 <= Len(cuts), NEW acc, KeptOK(acc, cuts, top, n)
    PROVE  KeptOK(Plots!Keep(acc, cuts[n + 1]), cuts, top, n + 1)
<1> DEFINE lo == 100 * cuts[n + 1].lo
           hi == 100 * cuts[n + 1].hi
           edge == acc.cur
           new == Plots!Keep(acc, cuts[n + 1])
<1>1. n + 1 \in 1..Len(cuts) /\ \A j \in 1..n : j \in 1..Len(cuts) /\ j < n + 1
  <2>1. Len(cuts) \in Nat
      BY DEF CutsInOrder
  <2> QED BY <2>1
<1>2. /\ lo \in Int /\ hi \in Int /\ edge \in Int /\ lo < hi /\ hi < top /\ edge < top
      /\ cuts[n + 1].lo \in Int /\ cuts[n + 1].hi \in Int
  <2>1. cuts[n + 1] \in CutRanges
      BY <1>1 DEF CutsInOrder
  <2>2. cuts[n + 1].lo \in Int /\ cuts[n + 1].hi \in Int
      BY <2>1 DEF CutRanges
  <2>3. cuts[n + 1].lo < cuts[n + 1].hi /\ hi < top
      BY <1>1 DEF CutsInOrder
  <2>4. edge \in Int /\ edge < top
      BY DEF KeptOK
  <2> HIDE DEF edge
  <2> QED BY <2>2, <2>3, <2>4
<1>15. (\E z \in Int : hi = 100 * z) /\ (\E z \in Int : lo = 100 * z) /\ \E z \in Int : edge = 100 * z
    BY <1>2 DEF KeptOK
<1>16. ASSUME NEW j \in 1..n
       PROVE  /\ cuts[j].lo \in Int /\ cuts[j].hi \in Int
              /\ 100 * cuts[j].lo <= lo /\ 100 * cuts[j].hi <= edge
  <2>1. cuts[j] \in CutRanges
      BY <1>1 DEF CutsInOrder
  <2>2. cuts[j].lo \in Int /\ cuts[j].hi \in Int
      BY <2>1 DEF CutRanges
  <2>3. cuts[j].lo <= cuts[n + 1].lo
      BY <1>1 DEF CutsInOrder
  <2>4. 100 * cuts[j].hi <= edge
      BY DEF KeptOK
  <2> HIDE DEF edge
  <2> QED BY <1>2, <2>2, <2>3, <2>4
<1>3. new = [segs |-> IF lo > edge THEN Append(acc.segs, <<edge, lo>>) ELSE acc.segs,
             cur |-> IF edge < hi THEN hi ELSE edge]
  <2>1. Plots!Max({edge, hi}) = IF edge < hi THEN hi ELSE edge
      BY <1>2, TwoMax
  <2> QED BY <2>1 DEF Plots!Keep
<1>4. \A y \in Int : InCut(cuts, n + 1, y) <=> InCut(cuts, n, y) \/ (lo < y /\ y < hi)
  <2>1. \A j \in 1..(n + 1) : j \in 1..n \/ j = n + 1
      OBVIOUS
  <2>2. n + 1 \in 1..(n + 1) /\ \A j \in 1..n : j \in 1..(n + 1)
      OBVIOUS
  <2> QED BY <2>1, <2>2 DEF InCut
<1>5. \A y \in Int : edge < y => ~InCut(cuts, n, y)
    BY <1>2, <1>16 DEF InCut
<1>6. /\ acc.segs \in Seq(Int \X Int)
      /\ \A i \in 1..Len(acc.segs) : /\ acc.segs[i][1] \in Int /\ acc.segs[i][2] \in Int
                                     /\ acc.segs[i][2] <= edge /\ acc.segs[i][2] <= lo
  <2>1. acc.segs \in Seq(Int \X Int)
      BY DEF KeptOK
  <2>2. ASSUME NEW i \in 1..Len(acc.segs)
        PROVE  /\ acc.segs[i][1] \in Int /\ acc.segs[i][2] \in Int
               /\ acc.segs[i][2] <= edge /\ acc.segs[i][2] <= lo
    <3>1. acc.segs[i] \in Int \X Int
        BY <2>1
    <3>2. n > 0 /\ acc.segs[i][2] <= edge /\ acc.segs[i][2] <= 100 * cuts[n].lo
        BY DEF KeptOK
    <3>3. n \in 1..n
        BY <3>2
    <3>4. /\ acc.segs[i][1] \in Int /\ acc.segs[i][2] \in Int
          /\ cuts[n].lo \in Int /\ 100 * cuts[n].lo <= lo
        BY <1>16, <3>1, <3>3
    <3> HIDE DEF lo
    <3> QED BY <1>2, <3>2, <3>4
  <2> QED BY <2>1, <2>2
<1>7. \A x \in Nat \ {0} : 100 * x - 50 < edge =>
          (InSegment(acc.segs, 100 * x - 50) <=> ~InCut(cuts, n, 100 * x - 50))
    BY DEF KeptOK
<1>8. \A y \in Int : InSegment(acc.segs, y) => y < edge /\ y < lo
  <2> SUFFICES ASSUME NEW y \in Int, NEW i \in 1..Len(acc.segs), y < acc.segs[i][2]
               PROVE  y < edge /\ y < lo
      BY DEF InSegment
  <2> HIDE DEF lo, edge
  <2>1. acc.segs[i][2] \in Int /\ acc.segs[i][2] <= edge /\ acc.segs[i][2] <= lo
      BY <1>6
  <2> QED BY <1>2, <2>1
<1> HIDE DEF lo, hi, edge, new
<1>9. new.cur = (IF edge < hi THEN hi ELSE edge) /\ new.cur \in Int /\ hi <= new.cur /\ edge <= new.cur
    BY <1>2, <1>3
<1>10. \A j \in 1..(n + 1) : 100 * cuts[j].hi <= new.cur
  <2>1. \A j \in 1..(n + 1) : j \in 1..n \/ j = n + 1
      OBVIOUS
  <2>2. \A j \in 1..n : cuts[j].hi \in Int /\ 100 * cuts[j].hi <= edge
      BY <1>16
  <2>3. ASSUME NEW j \in 1..n PROVE 100 * cuts[j].hi <= new.cur
      BY <1>2, <1>9, <2>2
  <2>4. 100 * cuts[n + 1].hi <= new.cur
      BY <1>9 DEF hi
  <2> QED BY <2>1, <2>3, <2>4
<1>11. /\ new.segs \in Seq(Int \X Int)
       /\ \A i \in 1..Len(new.segs) : new.segs[i][2] <= new.cur
       /\ \A i \in 1..Len(new.segs) : new.segs[i][2] <= lo
       /\ \A y \in Int : InSegment(new.segs, y) <=>
                             InSegment(acc.segs, y) \/ (edge < y /\ y < lo)
  <2>1. CASE lo > edge
    <3>1. new.segs = Append(acc.segs, <<edge, lo>>)
        BY <1>3, <2>1
    <3>2. lo <= new.cur /\ lo <= lo
        BY <1>2, <1>9
    <3>3. \A i \in 1..Len(acc.segs) : acc.segs[i][2] <= new.cur
      <4> SUFFICES ASSUME NEW i \in 1..Len(acc.segs) PROVE acc.segs[i][2] <= new.cur
          OBVIOUS
      <4>1. acc.segs[i][2] \in Int /\ acc.segs[i][2] <= edge
          BY <1>6
      <4> QED BY <1>2, <1>9, <4>1
    <3>4. \A i \in 1..Len(acc.segs) : acc.segs[i][2] <= lo
        BY <1>6
    <3> DEFINE q == Append(acc.segs, <<edge, lo>>)
    <3>5. /\ q \in Seq(Int \X Int)
          /\ \A y \in Int : InSegment(q, y) <=> InSegment(acc.segs, y) \/ (edge < y /\ y < lo)
          /\ \A c : (\A i \in 1..Len(q) : q[i][2] <= c)
                    <=> lo <= c /\ \A i \in 1..Len(acc.segs) : acc.segs[i][2] <= c
        BY <1>2, <1>6, OneMoreSegment
    <3> HIDE DEF q
    <3>6. (\A i \in 1..Len(q) : q[i][2] <= new.cur) /\ (\A i \in 1..Len(q) : q[i][2] <= lo)
        BY <3>2, <3>3, <3>4, <3>5
    <3> QED BY <3>1, <3>5, <3>6 DEF q
  <2>2. CASE ~(lo > edge)
    <3>1. new.segs = acc.segs
        BY <1>3, <2>2
    <3>2. \A i \in 1..Len(acc.segs) : acc.segs[i][2] <= new.cur
      <4> SUFFICES ASSUME NEW i \in 1..Len(acc.segs) PROVE acc.segs[i][2] <= new.cur
          OBVIOUS
      <4>1. acc.segs[i][2] \in Int /\ acc.segs[i][2] <= edge
          BY <1>6
      <4> QED BY <1>2, <1>9, <4>1
    <3>3. \A y \in Int : ~(edge < y /\ y < lo)
        BY <1>2, <2>2
    <3> QED BY <1>6, <3>1, <3>2, <3>3
  <2> QED BY <2>1, <2>2
<1>12. ASSUME NEW x \in Nat \ {0}, 100 * x - 50 < new.cur
       PROVE  InSegment(new.segs, 100 * x - 50) <=> ~InCut(cuts, n + 1, 100 * x - 50)
  <2>1. PICK y \in Int : y = 100 * x - 50
      OBVIOUS
  <2>2. y # edge /\ y # hi
      BY <1>15, <2>1
  <2>3. /\ InSegment(new.segs, y) <=> InSegment(acc.segs, y) \/ (edge < y /\ y < lo)
        /\ InCut(cuts, n + 1, y) <=> InCut(cuts, n, y) \/ (lo < y /\ y < hi)
        /\ edge < y => ~InCut(cuts, n, y)
        /\ InSegment(acc.segs, y) => y < edge /\ y < lo
        /\ y < edge => (InSegment(acc.segs, y) <=> ~InCut(cuts, n, y))
      BY <1>4, <1>5, <1>7, <1>8, <1>11, <2>1
  <2>4. y # lo
      BY <1>15, <2>1
  <2>5. CASE y < edge
      BY <1>2, <2>1, <2>3, <2>5
  <2>6. CASE edge < y
      BY <1>2, <1>9, <1>12, <2>1, <2>2, <2>3, <2>4, <2>6
  <2> QED BY <1>2, <2>2, <2>5, <2>6
<1>13. new.cur < top /\ \E z \in Int : new.cur = 100 * z
    BY <1>2, <1>9, <1>15
<1>14. n + 1 > 0
    OBVIOUS
<1> QED BY <1>9, <1>10, <1>11, <1>12, <1>13, <1>14 DEF KeptOK, new, lo

\* The loop over the cuts, after n of them.
KeptSet == [segs : Seq(Int \X Int), cur : Int]
Keeping(f, cuts) ==
    f = [n \in 0..Len(cuts) |->
            IF n = 0 THEN [segs |-> <<>>, cur |-> 0] ELSE Plots!Keep(f[n - 1], cuts[n])]

LEMMA KeepTyped ==
    ASSUME NEW acc \in KeptSet, NEW c \in CutRanges
    PROVE  Plots!Keep(acc, c) \in KeptSet
<1>1. acc.segs \in Seq(Int \X Int) /\ acc.cur \in Int
    BY DEF KeptSet
<1>2. 100 * c.lo \in Int /\ 100 * c.hi \in Int
    BY DEF CutRanges
<1>3. Plots!Max({acc.cur, 100 * c.hi}) \in Int
    BY <1>1, <1>2, TwoMax
<1>4. Append(acc.segs, <<acc.cur, 100 * c.lo>>) \in Seq(Int \X Int)
    BY <1>1, <1>2, OneMoreSegment
<1> QED BY <1>1, <1>3, <1>4 DEF Plots!Keep, KeptSet

LEMMA KeepingExists ==
    ASSUME NEW cuts \in Seq(CutRanges)
    PROVE  \E f \in [0..Len(cuts) -> KeptSet] : Keeping(f, cuts)
<1> DEFINE N == Len(cuts)
           step == [n \in 1..N |-> [acc \in KeptSet |-> Plots!Keep(acc, cuts[n])]]
           none == [segs |-> <<>>, cur |-> 0]
<1>1. N \in Nat /\ \A n \in 1..N : cuts[n] \in CutRanges
    OBVIOUS
<1>2. step \in [1..N -> [KeptSet -> KeptSet]]
    BY <1>1, KeepTyped
<1>3. \A n \in 1..N, acc \in KeptSet : step[n][acc] = Plots!Keep(acc, cuts[n])
    OBVIOUS
<1>4. none \in KeptSet
    BY DEF KeptSet
<1> HIDE DEF step, N, none
<1>5. PICK f \in [0..N -> KeptSet] : Solves(f, N, none, step)
    BY <1>1, <1>2, <1>4, RecursionSolved
<1> DEFINE h == [n \in 0..N |-> IF n = 0 THEN none ELSE Plots!Keep(f[n - 1], cuts[n])]
<1>6. ASSUME NEW n \in 0..N
      PROVE  f[n] = h[n]
  <2>1. CASE n = 0
      BY <1>5, <2>1 DEF Solves
  <2>2. CASE n # 0
    <3>1. n \in 1..N /\ f[n - 1] \in KeptSet
        BY <1>1, <2>2
    <3>2. f[n] = step[n][f[n - 1]]
        BY <1>5, <2>2 DEF Solves
    <3> QED BY <1>3, <2>2, <3>1, <3>2
  <2> QED BY <2>1, <2>2
<1>7. f = [n \in 0..N |-> f[n]]
    OBVIOUS
<1>8. f = h
  <2> HIDE DEF h
  <2> QED BY <1>6, <1>7 DEF h
<1> QED BY <1>5, <1>8 DEF Keeping, N, none

LEMMA CutsAreKept ==
    ASSUME NEW cuts, NEW top \in Int, CutsInOrder(cuts, top)
    PROVE  /\ Plots!Kept(cuts) \in KeptSet
           /\ top > 0 => KeptOK(Plots!Kept(cuts), cuts, top, Len(cuts))
<1> DEFINE f == CHOOSE f : Keeping(f, cuts)
           N == Len(cuts)
<1>1. cuts \in Seq(CutRanges) /\ N \in Nat /\ \A n \in 1..N : cuts[n] \in CutRanges
    BY DEF CutsInOrder
<1>2. Keeping(f, cuts)
    BY <1>1, KeepingExists
<1>3. Plots!Kept(cuts) = f[N]
    BY DEF Plots!Kept, Keeping
<1> HIDE DEF f
<1>4. \A n \in 0..N : f[n] = IF n = 0 THEN [segs |-> <<>>, cur |-> 0]
                             ELSE Plots!Keep(f[n - 1], cuts[n])
    BY <1>2 DEF Keeping
<1> DEFINE T == {n \in 0..N : f[n] \in KeptSet /\ (top > 0 => KeptOK(f[n], cuts, top, n))}
<1>5. 0 \in T
  <2>1. 0 \in 0..N /\ f[0] = [segs |-> <<>>, cur |-> 0]
      BY <1>1, <1>4
  <2>2. f[0].segs = <<>> /\ f[0].cur = 0 /\ 1..Len(<<>>) = {} /\ <<>> \in Seq(Int \X Int)
      BY <2>1
  <2>3. f[0] \in KeptSet
      BY <2>1 DEF KeptSet
  <2>4. ASSUME top > 0 PROVE KeptOK(f[0], cuts, top, 0)
    <3>1. 0 = 100 * 0 /\ 0 \in Int /\ 1..0 = {}
        OBVIOUS
    <3>2. \A x \in Nat \ {0} : ~(100 * x - 50 < 0)
        OBVIOUS
    <3> QED BY <2>2, <2>4, <3>1, <3>2 DEF KeptOK
  <2> QED BY <2>1, <2>3, <2>4
<1>6. ASSUME NEW n \in 0..(N - 1), n \in T
      PROVE  n + 1 \in T
  <2>1. n \in Nat /\ n + 1 \in 0..N /\ (n + 1) - 1 = n /\ n + 1 \in 1..N /\ n + 1 # 0 /\ n + 1 <= N
      BY <1>1
  <2>2. f[n + 1] = Plots!Keep(f[n], cuts[n + 1])
      BY <1>4, <2>1
  <2>3. f[n + 1] \in KeptSet
      BY <1>1, <1>6, <2>1, <2>2, KeepTyped
  <2>4. ASSUME top > 0 PROVE KeptOK(f[n + 1], cuts, top, n + 1)
      BY <1>6, <2>1, <2>2, <2>4, KeepKeeps
  <2> QED BY <2>1, <2>3, <2>4
<1>7. N \in T
  <2> HIDE DEF T
  <2>1. \A n \in 0..N : n \in T
      BY <1>1, <1>5, <1>6, UpTo
  <2> QED BY <1>1, <2>1
<1> QED BY <1>3, <1>7

-----------------------------------------------------------------------------
\* The panels.

LEMMA PanelsAreThere ==
    ASSUME NEW parts \in Seq(CutRanges), NEW dataMax \in Int
    PROVE  /\ Plots!ResolveSegments(parts, dataMax) \in Seq(Int \X Int)
           /\ Plots!ResolveSegments(parts, dataMax) # <<>>
           /\ Plots!Limits(Plots!ResolveSegments(parts, dataMax)) # <<>>
<1> DEFINE top == Plots!Top(dataMax)
           cuts == Plots!Cuts(parts, dataMax)
           acc == Plots!Kept(cuts)
           segs == IF acc.cur < top THEN Append(acc.segs, <<acc.cur, top>>) ELSE acc.segs
           resolved == Plots!ResolveSegments(parts, dataMax)
<1>1. top \in Int
    BY DEF Plots!Top
<1>2. acc.segs \in Seq(Int \X Int) /\ acc.cur \in Int
  <2> HIDE DEF acc, cuts, top
  <2>1. CutsInOrder(cuts, top)
      BY CutsAreInOrder DEF cuts, top
  <2> QED BY <1>1, <2>1, CutsAreKept DEF acc, KeptSet
<1>3. resolved = IF segs = <<>> THEN <<<<0, top>>>> ELSE segs
    BY DEF Plots!ResolveSegments
<1> HIDE DEF acc, top, resolved
<1>4. segs \in Seq(Int \X Int)
    BY <1>1, <1>2, OneMoreSegment
<1> HIDE DEF segs
<1>5. <<<<0, top>>>> \in Seq(Int \X Int)
  <2>1. <<0, top>> \in Int \X Int
      BY <1>1
  <2> QED BY <2>1
<1>6. resolved \in Seq(Int \X Int)
    BY <1>3, <1>4, <1>5
<1>7. resolved # <<>>
    BY <1>3
<1>8. Plots!Limits(resolved) # <<>>
  <2>1. CASE Len(resolved) <= 1
      BY <2>1 DEF Plots!Limits
  <2>2. CASE ~(Len(resolved) <= 1)
    <3>1. Plots!Limits(resolved) = [i \in 1..Len(resolved) |-> resolved[(Len(resolved) - i) + 1]]
        BY <2>2 DEF Plots!Limits, Plots!Reverse
    <3>2. 1 \in 1..Len(resolved)
        BY <1>6, <2>2
    <3> QED BY <3>1, <3>2
  <2> QED BY <2>1, <2>2
<1> QED BY <1>6, <1>7, <1>8 DEF resolved

LEMMA AxisDivides ==
    ASSUME NEW parts \in Seq(CutRanges), NEW dataMax \in Int, NEW x \in 1..dataMax
    PROVE  LET segments == Plots!ResolveSegments(parts, dataMax)
               cuts == Plots!Range(Plots!Cuts(parts, dataMax))
           IN  (\E e \in DOMAIN segments : segments[e][1] < 100 * x - 50 /\ 100 * x - 50 < segments[e][2])
                   <=> ~\E c \in cuts : 100 * c.lo < 100 * x - 50 /\ 100 * x - 50 < 100 * c.hi
<1> DEFINE top == Plots!Top(dataMax)
           cuts == Plots!Cuts(parts, dataMax)
           acc == Plots!Kept(cuts)
           segs == Append(acc.segs, <<acc.cur, top>>)
           resolved == Plots!ResolveSegments(parts, dataMax)
<1>1. top \in Int /\ top = 103 * dataMax
    BY DEF Plots!Top
<1>2. PICK y \in Int : y = 100 * x - 50
    OBVIOUS
<1>3. x \in Nat \ {0} /\ top > 0 /\ y < top
    BY <1>1, <1>2
<1> HIDE DEF acc, cuts, top
<1>4. CutsInOrder(cuts, top)
    BY CutsAreInOrder DEF cuts, top
<1>5. PICK n \in Nat : n = Len(cuts)
    BY <1>4 DEF CutsInOrder
<1>6. KeptOK(acc, cuts, top, n)
    BY <1>1, <1>3, <1>4, <1>5, CutsAreKept DEF acc
<1>7. acc.segs \in Seq(Int \X Int) /\ acc.cur \in Int /\ acc.cur < top
    BY <1>6 DEF KeptOK
<1>8. /\ segs \in Seq(Int \X Int)
      /\ \A w \in Int : InSegment(segs, w) <=> InSegment(acc.segs, w) \/ (acc.cur < w /\ w < top)
    BY <1>1, <1>7, OneMoreSegment
<1>9. resolved = segs
  <2>1. segs # <<>>
    <3>1. Len(segs) = Len(acc.segs) + 1 /\ Len(acc.segs) \in Nat
        BY <1>7
    <3> HIDE DEF segs
    <3>2. Len(<<>>) = 0
        OBVIOUS
    <3> QED BY <3>1, <3>2
  <2> QED BY <1>7, <2>1 DEF Plots!ResolveSegments, acc, cuts, top
<1> HIDE DEF segs, resolved
<1>10. InSegment(resolved, y) <=> ~InCut(cuts, n, y)
  <2>1. y # acc.cur
      BY <1>2, <1>6 DEF KeptOK
  <2>2. \A j \in 1..n : 100 * cuts[j].hi <= acc.cur /\ cuts[j].hi \in Int
    <3>1. \A j \in 1..n : cuts[j] \in CutRanges
        BY <1>4, <1>5 DEF CutsInOrder
    <3> QED BY <1>6, <3>1 DEF KeptOK, CutRanges
  <2>3. CASE y < acc.cur
    <3>1. InSegment(acc.segs, y) <=> ~InCut(cuts, n, y)
        BY <1>2, <1>3, <1>6, <2>3 DEF KeptOK
    <3> QED BY <1>7, <1>8, <1>9, <2>3, <3>1
  <2>4. CASE acc.cur < y
    <3>1. ~InCut(cuts, n, y)
        BY <1>7, <2>2, <2>4 DEF InCut
    <3> QED BY <1>3, <1>8, <1>9, <2>4, <3>1
  <2> QED BY <1>7, <2>1, <2>3, <2>4
<1>11. DOMAIN resolved = 1..Len(resolved)
    BY <1>8, <1>9
<1>12. Plots!Range(cuts) = {cuts[j] : j \in 1..n}
    BY <1>4, <1>5 DEF Plots!Range, CutsInOrder
<1> QED BY <1>2, <1>10, <1>11, <1>12 DEF InSegment, InCut, resolved, cuts

\* What the panels show of the segments: all of them; and of several, nothing else.
LEMMA PanelsShowSegments ==
    ASSUME NEW segs \in Seq(Int \X Int), segs # <<>>, NEW y \in Int, y > 0
    PROVE  LET limits == Plots!Limits(segs)
               shown == \E e \in DOMAIN limits : limits[e][1] < y /\ y < limits[e][2]
               inSegment == \E e \in DOMAIN segs : segs[e][1] < y /\ y < segs[e][2]
           IN  /\ inSegment => shown
               /\ Len(limits) > 1 /\ shown => inSegment
<1> DEFINE limits == Plots!Limits(segs)
           Holds(seg) == seg[1] < y /\ y < seg[2]
<1>1. PICK n \in Nat : n = Len(segs) /\ n > 0 /\ DOMAIN segs = 1..n
    OBVIOUS
<1>2. CASE n = 1
  <2>1. limits = <<<<0, segs[1][2]>>>>
      BY <1>1, <1>2 DEF Plots!Limits
  <2> HIDE DEF limits
  <2>2. Len(limits) = 1 /\ 1 \in DOMAIN limits /\ limits[1][1] = 0 /\ limits[1][2] = segs[1][2]
      BY <2>1
  <2>3. ASSUME NEW e \in DOMAIN segs, segs[e][1] < y /\ y < segs[e][2]
        PROVE  limits[1][1] < y /\ y < limits[1][2]
    <3>1. e = 1
        BY <1>1, <1>2
    <3> QED BY <2>2, <2>3, <3>1
  <2> QED BY <2>2, <2>3 DEF limits
<1>3. CASE n > 1
  <2>1. limits = [i \in 1..n |-> segs[(n - i) + 1]]
      BY <1>1, <1>3 DEF Plots!Limits, Plots!Reverse
  <2> HIDE DEF limits
  <2>2. DOMAIN limits = 1..n /\ \A i \in 1..n : limits[i] = segs[(n - i) + 1]
      BY <2>1
  <2>3. \A i \in 1..n : (n - i) + 1 \in 1..n /\ (n - ((n - i) + 1)) + 1 = i
      OBVIOUS
  <2>4. ASSUME NEW e \in DOMAIN segs, Holds(segs[e])
        PROVE  \E i \in DOMAIN limits : Holds(limits[i])
    <3> HIDE DEF Holds
    <3>1. limits[(n - e) + 1] = segs[e] /\ (n - e) + 1 \in DOMAIN limits
        BY <1>1, <2>2, <2>3
    <3> QED BY <2>4, <3>1
  <2>5. ASSUME NEW i \in DOMAIN limits, Holds(limits[i])
        PROVE  \E e \in DOMAIN segs : Holds(segs[e])
    <3> HIDE DEF Holds
    <3> QED BY <1>1, <2>2, <2>3, <2>5
  <2> QED BY <2>4, <2>5 DEF limits
<1> QED BY <1>1, <1>2, <1>3

-----------------------------------------------------------------------------
\* What the readers return.
ColumnsOK(columns) == columns.ts \in Seq(Int) /\ columns.vs \in Seq(Nat)

\* A line with a time and no value.
IsCut(line) == line.t # Plots!None /\ line.v = Plots!None

LEMMA ColumnsAreRead ==
    ASSUME NEW found \in Seq(Plots!Line)
    PROVE  /\ ColumnsOK(Plots!ReadMatched(found))
           /\ Plots!Aligned(Plots!ReadMatched(found))
           /\ ColumnsOK(Plots!ReadByColumns(found))
           /\ ~Plots!Aligned(Plots!ReadByColumns(found)) => \E line \in Plots!Range(found) : IsCut(line)
<1> DEFINE B == {line \in Plots!Range(found) : Plots!HasBoth(line)}
           T == {line \in Plots!Range(found) : Plots!HasTime(line)}
           both == Sifted(found, B)
           timed == Sifted(found, T)
<1>1. Plots!Whole(found) = both /\ Plots!Timed(found) = timed
    BY PlotSifts DEF Plots!Whole, Plots!Timed
<1>2. both \in Seq(Plots!Line) /\ Sound(both, found, B, Len(found)) /\ timed \in Seq(Plots!Line)
    BY SiftedSound
<1> DEFINE ts == [i \in DOMAIN both |-> both[i].t]
           vs == [i \in DOMAIN both |-> both[i].v]
           allTs == [i \in DOMAIN timed |-> timed[i].t]
<1>3. /\ Plots!ReadMatched(found) = [ts |-> ts, vs |-> vs]
      /\ Plots!ReadByColumns(found) = [ts |-> allTs, vs |-> vs]
    BY <1>1 DEF Plots!ReadMatched, Plots!ReadByColumns, Plots!Times, Plots!Values
<1>4. B = T => both = timed
    OBVIOUS
<1>5. B # T => \E line \in Plots!Range(found) : IsCut(line)
    BY DEF Plots!HasBoth, Plots!HasTime, IsCut
<1>6. \A x \in B : x.v # Plots!None
    BY DEF Plots!HasBoth
<1> HIDE DEF both, timed, B, T
<1>7. \A i \in 1..Len(both) : both[i].t \in Int /\ both[i].v \in Nat
  <2>1. \A i \in 1..Len(both) : both[i] \in Plots!Line /\ both[i].v # Plots!None
      BY <1>2, <1>6 DEF Sound
  <2> QED BY <2>1 DEF Plots!Line
<1>8. \A i \in 1..Len(timed) : timed[i].t \in Int
  <2>1. \A i \in 1..Len(timed) : timed[i] \in Plots!Line
      BY <1>2
  <2> QED BY <2>1 DEF Plots!Line
<1>9. DOMAIN both = 1..Len(both) /\ Len(both) \in Nat /\ DOMAIN timed = 1..Len(timed) /\ Len(timed) \in Nat
    BY <1>2
<1>10. ts \in Seq(Int) /\ vs \in Seq(Nat) /\ Len(ts) = Len(both) /\ Len(vs) = Len(both)
    BY <1>7, <1>9
<1>11. allTs \in Seq(Int) /\ Len(allTs) = Len(timed)
    BY <1>8, <1>9
<1> HIDE DEF ts, vs, allTs
<1>12. /\ ColumnsOK(Plots!ReadMatched(found)) /\ Plots!Aligned(Plots!ReadMatched(found))
       /\ ColumnsOK(Plots!ReadByColumns(found))
    BY <1>3, <1>10, <1>11 DEF ColumnsOK, Plots!Aligned
<1>13. both = timed => Plots!Aligned(Plots!ReadByColumns(found))
    BY <1>3, <1>10, <1>11 DEF Plots!Aligned
<1> QED BY <1>4, <1>5, <1>12, <1>13

LEMMA RowsAreSamples ==
    ASSUME NEW columns, ColumnsOK(columns), Plots!Aligned(columns)
    PROVE  /\ Plots!Rows(columns) \in Seq(Samples)
           /\ Len(Plots!Rows(columns)) = Len(columns.ts)
<1>1. PICK n \in Nat : n = Len(columns.ts)
    BY DEF ColumnsOK
<1>2. \A i \in 1..n : columns.ts[i] \in Int /\ columns.vs[i] \in Nat
    BY <1>1 DEF ColumnsOK, Plots!Aligned
<1>3. DOMAIN columns.ts = 1..n
    BY <1>1 DEF ColumnsOK
<1>4. Plots!Rows(columns) = [i \in 1..n |-> [t |-> columns.ts[i], v |-> columns.vs[i]]]
    BY <1>3 DEF Plots!Rows
<1>5. \A i \in 1..n : [t |-> columns.ts[i], v |-> columns.vs[i]] \in Samples
    BY <1>2 DEF Samples
<1> QED BY <1>1, <1>4, <1>5

LEMMA TimesAreOrdered ==
    ASSUME NEW rows \in Seq(Samples)
    PROVE  Ordering(Plots!Stably(rows, Plots!Earlier), Len(rows))
<1> DEFINE less == Plots!Stably(rows, Plots!Earlier)
           ts == [i \in 1..Len(rows) |-> rows[i].t]
<1>1. PICK n \in Nat : n = Len(rows)
    OBVIOUS
<1>2. DOMAIN rows = 1..n /\ \A i \in 1..n : rows[i].t \in Int
  <2>1. \A i \in 1..n : rows[i] \in Samples
      BY <1>1
  <2> QED BY <1>1, <2>1 DEF Samples
<1>3. \A i, j \in 1..n :
          <<i, j>> \in less <=>
              (Plots!Earlier(rows[i], rows[j]) \/ (~Plots!Earlier(rows[j], rows[i]) /\ i < j))
    BY <1>2 DEF Plots!Stably
<1> HIDE DEF less
<1>4. /\ \A i \in 1..n : ts[i] \in Int
      /\ \A i, j \in 1..n : <<i, j>> \in less <=> (ts[i] < ts[j] \/ (~(ts[j] < ts[i]) /\ i < j))
    BY <1>1, <1>2, <1>3 DEF Plots!Earlier
<1> HIDE DEF ts
<1>5. \A i \in 1..n : <<i, i>> \notin less
    BY <1>4
<1>6. \A i, j \in 1..n : i # j => <<i, j>> \in less \/ <<j, i>> \in less
    BY <1>4
<1>7. \A i, j, h \in 1..n : <<i, j>> \in less /\ <<j, h>> \in less => <<i, h>> \in less
    BY <1>4
<1> QED BY <1>1, <1>5, <1>6, <1>7 DEF Ordering, less

LEMMA SeriesAreSorted ==
    ASSUME NEW columns, ColumnsOK(columns), Plots!Aligned(columns)
    PROVE  /\ Plots!SortSeries(columns) \in Seq(Samples)
           /\ Len(Plots!SortSeries(columns)) = Len(columns.ts)
<1> DEFINE rows == Plots!Rows(columns)
           less == Plots!Stably(rows, Plots!Earlier)
<1>1. rows \in Seq(Samples) /\ Len(rows) = Len(columns.ts)
    BY RowsAreSamples
<1>2. Plots!SortSeries(columns) = Arranged(rows, less)
    BY PlotArranges DEF Plots!SortSeries, Plots!InTimeOrder
<1> HIDE DEF rows
<1>3. Ordering(less, Len(rows))
    BY <1>1, TimesAreOrdered
<1> HIDE DEF less
<1> QED BY <1>1, <1>2, <1>3, ArrangedIsSorted

LEMMA SeriesFromZero ==
    ASSUME NEW rows \in Seq(Samples), NEW zero \in Int
    PROVE  /\ Plots!From(zero, rows) \in Seq(Samples)
           /\ Len(Plots!From(zero, rows)) = Len(rows)
<1>1. PICK n \in Nat : n = Len(rows)
    OBVIOUS
<1>2. DOMAIN rows = 1..n /\ \A i \in 1..n : rows[i].t \in Int /\ rows[i].v \in Nat
  <2>1. \A i \in 1..n : rows[i] \in Samples
      BY <1>1
  <2> QED BY <1>1, <2>1 DEF Samples
<1>3. \A i \in 1..n : [t |-> rows[i].t - zero, v |-> rows[i].v] \in Samples
    BY <1>2 DEF Samples
<1>4. Plots!From(zero, rows) = [i \in 1..n |-> [t |-> rows[i].t - zero, v |-> rows[i].v]]
    BY <1>2 DEF Plots!From
<1> QED BY <1>1, <1>3, <1>4

LEMMA PlotZeroIsTime ==
    ASSUME NEW d \in Plots!Directory
    PROVE  /\ Plots!ReadT0(d) \in Int
           /\ \A first \in Int : Plots!Zero(d, first) \in Int
           /\ Plots!ReadT0(d) = Plots!None => d.t0 = Plots!None
<1>1. /\ d.t0 \in Int /\ d.client \in Seq(Plots!Line) /\ d.server \in Seq(Plots!Line)
    BY DEF Plots!Directory
<1>2. Plots!None \in Int
    BY DEF Plots!None
<1>3. ASSUME NEW f \in Seq(Plots!Line)
      PROVE  Plots!FirstInterval(f) \in Int
  <2> DEFINE rows == Plots!Whole(f)
  <2>3. rows \in Seq(Plots!Line)
      BY PlotSifts, SiftedSound DEF Plots!Whole
  <2>4. Plots!FirstInterval(f) = IF rows = <<>> THEN Plots!None ELSE rows[1].epoch - rows[1].t
      BY DEF Plots!FirstInterval
  <2> HIDE DEF rows
  <2>1. CASE rows = <<>>
      BY <1>2, <2>1, <2>4
  <2>2. CASE rows # <<>>
    <3>1. rows[1] \in Plots!Line
        BY <2>2, <2>3
    <3>2. rows[1].epoch \in Int /\ rows[1].t \in Int
        BY <3>1 DEF Plots!Line
    <3> QED BY <2>2, <2>4, <3>2
  <2> QED BY <2>1, <2>2
<1>4. Plots!FirstInterval(d.client) \in Int /\ Plots!FirstInterval(d.server) \in Int
    BY <1>1, <1>3
<1>5. Plots!ReadT0(d) \in Int
    BY <1>1, <1>2, <1>4 DEF Plots!ReadT0
<1>6. Plots!ReadT0(d) = Plots!None => d.t0 = Plots!None
    BY DEF Plots!ReadT0
<1> QED BY <1>5, <1>6 DEF Plots!Zero

-----------------------------------------------------------------------------
\* A curve.

LEMMA ThresholdIsNumber ==
    ASSUME NEW ts \in Seq(Int)
    PROVE  Plots!GapThreshold2(ts) \in Int
<1> DEFINE diffs == Plots!Diffs(ts)
           m == Plots!Median2(diffs)
<1>1. PICK n \in Nat : n = Len(ts)
    OBVIOUS
<1>2. CASE n < 3
    BY <1>1, <1>2 DEF Plots!GapThreshold2
<1>3. CASE n >= 3
  <2>1. diffs = [i \in 1..(n - 1) |-> ts[i + 1] - ts[i]]
      BY <1>1 DEF Plots!Diffs
  <2>2. \A i \in 1..(n - 1) : ts[i + 1] - ts[i] \in Int
      BY <1>1
  <2>3. diffs \in Seq(Int) /\ Len(diffs) = n - 1
      BY <1>3, <2>1, <2>2
  <2> HIDE DEF diffs
  <2>4. PICK c \in Nat : c = Len(diffs) /\ c >= 2
      BY <1>3, <2>3
  <2>5. (c - 1) \div 2 \in 0..(c - 1) /\ c \div 2 \in 0..(c - 1)
      BY <2>4
  <2>6. Ordered(diffs, (c - 1) \div 2) \in Int /\ Ordered(diffs, c \div 2) \in Int
      BY <2>3, <2>4, <2>5, IntegerOrdered
  <2>7. m = Ordered(diffs, (c - 1) \div 2) + Ordered(diffs, c \div 2)
      BY <2>4, PlotOrders DEF Plots!Median2
  <2>8. m \in Int
      BY <2>6, <2>7
  <2>9. Plots!GapThreshold2(ts) = Plots!Max({60, 5 * m})
      BY <1>1, <1>3 DEF Plots!GapThreshold2, diffs
  <2> HIDE DEF m
  <2>10. 60 \in Int /\ 5 * m \in Int
      BY <2>8
  <2> QED BY <2>9, <2>10, TwoMax
<1> QED BY <1>2, <1>3

LEMMA TimesOfSeries ==
    ASSUME NEW s, IsTimed(s)
    PROVE  Plots!Times(s) \in Seq(Int) /\ Len(s) \in Nat /\ DOMAIN s = 1..Len(s)
<1>1. Len(s) \in Nat /\ DOMAIN s = 1..Len(s)
    BY DEF IsTimed, IsList
<1> QED BY <1>1 DEF Plots!Times, IsTimed

LEMMA SamplesAreTimed ==
    /\ \A s \in Seq(Samples) : IsTimed(s)
    /\ \A s \in Seq(Samples \cup {Plots!Nan}) : IsTimed(s)
    /\ \A s \in Seq(Samples) : s \in Seq(Samples \cup {Plots!Nan})
    /\ \A x \in Samples \cup {Plots!Nan} : x.t \in Int
<1>1. \A x \in Samples \cup {Plots!Nan} : x.t \in Int
    BY DEF Samples, Plots!Nan, Plots!None
<1>2. \A s \in Seq(Samples) : s \in Seq(Samples \cup {Plots!Nan})
    OBVIOUS
<1>3. ASSUME NEW s \in Seq(Samples \cup {Plots!Nan})
      PROVE  IsTimed(s)
  <2>1. \A i \in 1..Len(s) : s[i] \in Samples \cup {Plots!Nan}
      OBVIOUS
  <2>2. IsList(s)
      BY DEF IsList
  <2> QED BY <1>1, <2>1, <2>2 DEF IsTimed
<1> QED BY <1>1, <1>2, <1>3

\* Every step is drawn once, in the colour of gaps where it is too wide and only there.
CurveOK(c) ==
    /\ c.own \cap c.gap = {}
    /\ c.own \cup c.gap = 1..(Len(c.s) - 1)
    /\ \A i \in 1..(Len(c.s) - 1) : i \in c.gap <=> Plots!WiderThanThreshold(c, i)

LEMMA CurvesAreOK ==
    ASSUME NEW s, IsTimed(s), NEW raw, IsTimed(raw)
    PROVE  CurveOK(Plots!Curve(s, raw)) /\ Plots!Curve(s, raw).s = s
<1> DEFINE th2 == Plots!GapThreshold2(Plots!Times(raw))
           m == Plots!MarkGaps(s, th2)
           c == Plots!Curve(s, raw)
<1>1. c.own = m.own /\ c.gap = m.gap /\ c.s = s /\ c.raw = raw
    BY DEF Plots!Curve
<1>2. Marked(s, th2, m)
    BY GapsAreMarked
<1>3. \A i : Plots!WiderThanThreshold(c, i) <=> Wide(s, i, th2)
    BY <1>1 DEF Plots!WiderThanThreshold, Wide
<1> HIDE DEF th2, m, c
<1> QED BY <1>1, <1>2, <1>3 DEF CurveOK, Marked, c

LEMMA NotTooWide ==
    ASSUME NEW c, NEW maxGap \in Int, c.s \in Seq(Samples \cup {Plots!Nan}), NoneWide(c.s, maxGap)
    PROVE  ~Plots!TooWide(c, maxGap)
<1> SUFFICES ASSUME NEW i \in 1..(Len(c.s) - 1), Plots!Nan \notin {c.s[i], c.s[i + 1]},
                    c.s[i + 1].t - c.s[i].t > maxGap
             PROVE  FALSE
    BY DEF Plots!TooWide
<1>1. Len(c.s) \in Nat /\ i \in 1..Len(c.s) /\ i + 1 \in 1..Len(c.s)
    OBVIOUS
<1>2. c.s[i].t \in Int /\ c.s[i + 1].t \in Int
    BY <1>1, SamplesAreTimed DEF IsTimed
<1>3. c.s[i + 1].t - c.s[i].t <= maxGap
    BY DEF NoneWide
<1> QED BY <1>2, <1>3

-----------------------------------------------------------------------------
\* The least of several numbers, and the greatest.

LEMMA BoundedMin ==
    ASSUME NEW S, S \subseteq Int, S # {}, NEW b \in Nat, \A x \in S : 0 <= x + b
    PROVE  /\ Plots!Min(S) \in S /\ Clock!Min(S) \in S
<1> DEFINE T == {x + b : x \in S}
           P(x) == \A y \in S : x <= y
<1>1. T \subseteq Nat /\ T # {}
  <2>1. \A x \in S : x + b \in Nat
      OBVIOUS
  <2> QED BY <2>1
<1>2. PICK t \in T : \A u \in T : t <= u
    BY <1>1, LeastNumber
<1>3. PICK x \in S : t = x + b
    BY <1>2
<1>4. ASSUME NEW y \in S PROVE x <= y
  <2>1. t <= y + b
      BY <1>2
  <2> QED BY <1>3, <2>1
<1>5. P(x)
    BY <1>4
<1>6. Plots!Min(S) = CHOOSE x1 \in S : P(x1)
    BY DEF Plots!Min
<1>7. Clock!Min(S) = CHOOSE x1 \in S : P(x1)
    BY DEF Clock!Min
<1> HIDE DEF P
<1> QED BY <1>5, <1>6, <1>7

LEMMA ThreeAreBounded ==
    ASSUME NEW a \in Int, NEW b \in Int, NEW c \in Int
    PROVE  \E e \in Nat : 0 <= a + e /\ 0 <= b + e /\ 0 <= c + e
<1> DEFINE Size(x) == IF x < 0 THEN -x ELSE x
<1>1. \A x \in Int : Size(x) \in Nat /\ 0 <= x + Size(x)
    OBVIOUS
<1> HIDE DEF Size
<1>2. PICK e \in Nat : e = Size(a) + Size(b) + Size(c)
    BY <1>1
<1>3. 0 <= a + e /\ 0 <= b + e /\ 0 <= c + e
    BY <1>1, <1>2
<1> QED BY <1>3

LEMMA NatMax ==
    ASSUME NEW S, S \subseteq Nat, S # {}, NEW b \in Nat, \A x \in S : x <= b
    PROVE  Plots!Max(S) \in S /\ \A x \in S : x <= Plots!Max(S)
<1> DEFINE P(x) == \A y \in S : x >= y
<1>1. PICK x \in S : \A y \in S : y <= x
    BY GreatestNumber
<1>2. P(x)
    BY <1>1
<1>3. Plots!Max(S) = CHOOSE x1 \in S : P(x1)
    BY DEF Plots!Max
<1> HIDE DEF P
<1>4. Plots!Max(S) \in S /\ P(Plots!Max(S))
    BY <1>2, <1>3
<1> QED BY <1>4 DEF P

-----------------------------------------------------------------------------
\* The algorithms that have a round trip time to draw.

LEMMA SiftedAreIn ==
    ASSUME NEW X, NEW list \in Seq(X), NEW S
    PROVE  Sifted(list, S) \in Seq(S) /\ Sifted(list, S) \in Seq(X)
<1> DEFINE q == Sifted(list, S)
<1>1. q \in Seq(X) /\ Sound(q, list, S, Len(list))
    BY SiftedSound
<1> HIDE DEF q
<1>2. \A i \in 1..Len(q) : q[i] \in S
    BY <1>1 DEF Sound
<1>3. q \in Seq(S)
    BY <1>1, <1>2
<1> QED BY <1>1, <1>3 DEF q

LEMMA PlotInputsAre ==
    ASSUME NEW i \in PlotInputs
    PROVE  /\ i.script \in {"exp1", "sweep"} /\ i.exp1 \in Plots!Directory
           /\ i.algos \in Seq(DOMAIN i.dirs) /\ i.zoom \in Seq(STRING)
           /\ \A a \in DOMAIN i.dirs : i.dirs[a] \in Plots!Directory
           /\ i.maxGap \in Int
           /\ i.cut \in Seq(CutRanges)
           /\ i.sweep \in Seq(Plots!Directory)
    BY InputsAssumption DEF Plots!InputsAssumption, CutRanges

\* An algorithm whose series can be drawn.
Draws(a) == a \in DOMAIN plotIn.dirs /\ Plots!ReadRtt(plotIn.dirs[a].rtt).ts # <<>>

LEMMA RttIsSeries ==
    ASSUME plotIn \in PlotInputs, NEW a, Draws(a)
    PROVE  Plots!RttFromZero(a) \in Seq(Samples) /\ Plots!RttFromZero(a) # <<>>
<1> DEFINE columns == Plots!ReadRtt(plotIn.dirs[a].rtt)
           rows == Plots!SortSeries(columns)
           zero == Plots!Zero(plotIn.dirs[a], rows[1].t)
<1>1. plotIn.dirs[a] \in Plots!Directory
    BY PlotInputsAre DEF Draws
<1>2. plotIn.dirs[a].rtt \in Seq(Plots!Line)
    BY <1>1 DEF Plots!Directory
<1>3. ColumnsOK(columns) /\ Plots!Aligned(columns)
    BY <1>2, ColumnsAreRead DEF Plots!ReadRtt
<1>4. columns.ts # <<>>
    BY DEF Draws
<1> HIDE DEF columns
<1>5. Len(columns.ts) \in Nat /\ Len(columns.ts) > 0
    BY <1>3, <1>4 DEF ColumnsOK
<1>6. rows \in Seq(Samples) /\ Len(rows) = Len(columns.ts)
    BY <1>3, SeriesAreSorted
<1> HIDE DEF rows
<1>7. rows[1] \in Samples
    BY <1>5, <1>6
<1>8. rows[1].t \in Int
    BY <1>7 DEF Samples
<1>9. zero \in Int
    BY <1>1, <1>8, PlotZeroIsTime
<1>10. Plots!RttFromZero(a) = Plots!From(zero, rows)
    BY DEF Plots!RttFromZero, rows, columns
<1> HIDE DEF zero
<1>11. Plots!From(zero, rows) \in Seq(Samples) /\ Len(Plots!From(zero, rows)) > 0
    BY <1>5, <1>6, <1>9, SeriesFromZero
<1>12. Len(<<>>) = 0
    OBVIOUS
<1> QED BY <1>10, <1>11, <1>12

LEMMA DrawableDraw ==
    ASSUME plotIn \in PlotInputs, NEW algos \in Seq(DOMAIN plotIn.dirs)
    PROVE  /\ Plots!Drawable(algos) \in Seq(DOMAIN plotIn.dirs)
           /\ \A i \in 1..Len(Plots!Drawable(algos)) : Draws(Plots!Drawable(algos)[i])
<1> DEFINE S == {a \in Plots!Range(algos) : /\ "rtt" \in plotIn.dirs[a].has
                                            /\ Plots!ReadRtt(plotIn.dirs[a].rtt).ts # <<>>}
           q == Sifted(algos, S)
<1>1. Plots!Drawable(algos) = q
    BY PlotSifts DEF Plots!Drawable
<1>2. q \in Seq(S) /\ q \in Seq(DOMAIN plotIn.dirs)
    BY SiftedAreIn
<1> HIDE DEF q
<1>3. ASSUME NEW i \in 1..Len(q) PROVE Draws(q[i])
  <2>1. q[i] \in S /\ q[i] \in DOMAIN plotIn.dirs
      BY <1>2
  <2> QED BY <2>1 DEF Draws
<1> QED BY <1>1, <1>2, <1>3

\* The algorithms of the two figures with an axis to cut.
LEMMA AlgosDraw ==
    ASSUME plotIn \in PlotInputs, NEW name
    PROVE  /\ Plots!AlgosOf(name) \in Seq(DOMAIN plotIn.dirs)
           /\ \A i \in 1..Len(Plots!AlgosOf(name)) : Draws(Plots!AlgosOf(name)[i])
<1> DEFINE S == Plots!Range(plotIn.algos)
           wanted == Plots!Sifted(plotIn.zoom, S)
<1>1. plotIn.algos \in Seq(DOMAIN plotIn.dirs) /\ plotIn.zoom \in Seq(STRING)
    BY PlotInputsAre
<1>2. S \subseteq DOMAIN plotIn.dirs
    BY <1>1 DEF Plots!Range
<1>3. Plots!AlgosOf(name) = Plots!Drawable(IF name = "exp234-rtt" THEN plotIn.algos ELSE wanted)
    BY DEF Plots!AlgosOf
<1> HIDE DEF S
<1>4. wanted \in Seq(S)
    BY <1>1, PlotSifts, SiftedAreIn
<1> HIDE DEF wanted
<1>5. wanted \in Seq(DOMAIN plotIn.dirs)
    BY <1>2, <1>4
<1> QED BY <1>1, <1>3, <1>5, DrawableDraw

LEMMA LargestIsNumber ==
    ASSUME plotIn \in PlotInputs, NEW A, NEW q \in Seq(A), q # <<>>, \A i \in 1..Len(q) : Draws(q[i])
    PROVE  Plots!Largest(q) \in Nat
<1> DEFINE n == Len(q)
           V(i) == Plots!Range(Plots!Values(Plots!RttFromZero(q[i])))
           All == UNION {V(i) : i \in 1..n}
<1>1. n \in Nat /\ n > 0 /\ DOMAIN q = 1..n
    OBVIOUS
<1>2. ASSUME NEW i \in 1..n
      PROVE  /\ V(i) \subseteq Nat /\ V(i) # {}
             /\ \E b \in Nat : \A v \in V(i) : v <= b
  <2> DEFINE s == Plots!RttFromZero(q[i])
             vs == [j \in DOMAIN s |-> s[j].v]
  <2>1. s \in Seq(Samples) /\ s # <<>>
      BY <1>2, RttIsSeries
  <2> HIDE DEF s
  <2>2. Len(s) \in Nat /\ Len(s) > 0 /\ DOMAIN s = 1..Len(s) /\ \A j \in 1..Len(s) : s[j].v \in Nat
    <3>1. \A j \in 1..Len(s) : s[j] \in Samples
        BY <2>1
    <3> QED BY <2>1, <3>1 DEF Samples
  <2>3. vs \in Seq(Nat) /\ Len(vs) = Len(s) /\ DOMAIN vs = 1..Len(s)
      BY <2>2
  <2>4. Plots!Values(Plots!RttFromZero(q[i])) = vs
      BY DEF Plots!Values, s
  <2> HIDE DEF vs
  <2>5. V(i) = {vs[j] : j \in 1..Len(s)}
      BY <2>3, <2>4 DEF Plots!Range
  <2>6. PICK b \in Nat : \A j \in 1..Len(vs) : vs[j] <= b
      BY <2>3, ListIsBounded
  <2>7. \A v \in V(i) : v <= b
      BY <2>3, <2>5, <2>6
  <2>8. V(i) \subseteq Nat /\ V(i) # {}
    <3>1. 1 \in 1..Len(s)
        BY <2>2
    <3>2. \A j \in 1..Len(s) : vs[j] \in Nat
        BY <2>3
    <3> HIDE DEF V
    <3> QED BY <2>5, <3>1, <3>2
  <2> HIDE DEF V
  <2> QED BY <2>7, <2>8
<1>3. Plots!Largest(q) = Plots!Max(All)
  <2>1. Plots!Range(q) = {q[i] : i \in 1..n}
      BY <1>1 DEF Plots!Range
  <2>2. UNION {Plots!Range(Plots!Values(Plots!RttFromZero(a))) : a \in Plots!Range(q)} = All
      BY <2>1
  <2> QED BY <2>2 DEF Plots!Largest
<1> HIDE DEF V
<1> DEFINE bs == [i \in 1..n |-> CHOOSE b \in Nat : \A v \in V(i) : v <= b]
<1>4. \A i \in 1..n : bs[i] \in Nat /\ \A v \in V(i) : v <= bs[i]
    BY <1>2
<1>5. bs \in Seq(Nat) /\ Len(bs) = n
  <2>1. bs = [i \in 1..n |-> bs[i]]
      OBVIOUS
  <2> HIDE DEF bs
  <2> QED BY <1>1, <1>4, <2>1
<1> HIDE DEF bs, n
<1>6. PICK b \in Nat : \A i \in 1..n : bs[i] <= b
    BY <1>5, ListIsBounded
<1>7. ASSUME NEW v \in All PROVE v \in Nat /\ v <= b
  <2>1. PICK i \in 1..n : v \in V(i)
      OBVIOUS
  <2>2. v \in Nat /\ v <= bs[i] /\ bs[i] \in Nat /\ bs[i] <= b
      BY <1>2, <1>4, <1>6, <2>1
  <2> QED BY <2>2
<1>8. All # {}
  <2>1. 1 \in 1..n
      BY <1>1
  <2> QED BY <1>2, <2>1
<1>9. All \subseteq Nat
    BY <1>7
<1> HIDE DEF All
<1>10. Plots!Max(All) \in All
    BY <1>7, <1>8, <1>9, NatMax
<1> QED BY <1>3, <1>9, <1>10

-----------------------------------------------------------------------------
\* The invariant of the figures.

Exp1Names == {"exp1-cwnd", "exp1-qlen", "exp1-rtt"}

\* What may have been drawn by then.
NamesAt(p) ==
    IF p \in {"exp1", "sweep"} THEN {}
    ELSE IF p = "exp234" THEN Exp1Names
    ELSE IF p = "zoom" THEN Exp1Names \cup {"exp234-rtt"}
    ELSE IF p = "throughput" THEN Exp1Names \cup {"exp234-rtt", "exp234-zoom"}
    ELSE Plots!Figures

\* The panels --cut leaves of the axis, where there is something to draw.
CutNames == {"exp234-rtt", "exp234-zoom"}
CutPanels ==
    [name \in CutNames |->
        IF Plots!AlgosOf(name) = <<>> THEN <<>>
        ELSE Plots!Limits(Plots!ResolveSegments(plotIn.cut, Plots!Largest(Plots!AlgosOf(name))))]

FigureOK(f, maxGap, panels) ==
    /\ f.limits # <<>>
    /\ f.name \in CutNames => f.limits = panels[f.name]
    /\ \A c \in Plots!Range(f.curves) :
        /\ c.own \cup c.gap = 1..(Len(c.s) - 1)
        /\ f.name # "exp234-throughput" => CurveOK(c)
        /\ f.name \in {"exp234-rtt", "exp234-throughput"} /\ maxGap > 0
              => ~Plots!TooWide(c, maxGap)

SweepFiles == UNION {{d.qlen, d.qdisc} : d \in Plots!Range(plotIn.sweep)}

Reason ==
    \/ \E found \in {plotIn.exp1.qlen} \cup SweepFiles :
          \E line \in Plots!Range(found) : IsCut(line)
    \/ plotIn.exp1.t0 = Plots!None /\ {"cwnd", "qlen", "rtt"} \subseteq plotIn.exp1.has
    \/ \E d \in Plots!Range(plotIn.sweep) : ~{"cwnd", "rtt"} \subseteq d.has
    \/ plotIn.algos = <<>>

FigInv ==
    /\ plotIn \in PlotInputs
    /\ plotPc \in Plots!Steps
    /\ IsList(out)
    /\ \A i \in 1..Len(out) :
        /\ FigureOK(out[i], plotIn.maxGap, CutPanels)
        /\ out[i].name \in NamesAt(plotPc)
    /\ \A i, j \in 1..Len(out) : i # j => out[i].name # out[j].name
    /\ plotPc = "raised" => Reason

LEMMA FigInit == Plots!Init => FigInv
<1> SUFFICES ASSUME Plots!Init PROVE FigInv
    OBVIOUS
<1>1. plotIn \in PlotInputs /\ plotPc \in {"exp1", "sweep"} /\ out = <<>>
    BY PlotInputsAre DEF Plots!Init
<1>2. IsList(<<>>) /\ 1..Len(<<>>) = {}
    BY DEF IsList
<1>3. IsList(out) /\ 1..Len(out) = {}
    BY <1>1, <1>2
<1>4. plotPc \in Plots!Steps /\ plotPc # "raised"
    BY <1>1 DEF Plots!Steps
<1> QED BY <1>1, <1>3, <1>4 DEF FigInv

LEMMA PanelsStay ==
    ASSUME plotIn' = plotIn
    PROVE  CutPanels' = CutPanels
    BY DEF CutPanels, Plots!AlgosOf, Plots!Drawable, Plots!Largest, Plots!RttFromZero

LEMMA ReasonStays ==
    ASSUME plotIn' = plotIn
    PROVE  Reason => Reason'
    BY DEF Reason, SweepFiles

\* Nothing is drawn in this step.
LEMMA NothingDrawn ==
    ASSUME FigInv, plotIn' = plotIn, out' = out, plotPc' \in Plots!Steps,
           NamesAt(plotPc) \subseteq NamesAt(plotPc'), plotPc' = "raised" => Reason
    PROVE  FigInv'
<1>1. (\A i \in 1..Len(out) :
          /\ FigureOK(out[i], plotIn.maxGap, CutPanels)
          /\ out[i].name \in NamesAt(plotPc))'
    BY PanelsStay DEF FigInv
<1>2. plotPc' = "raised" => Reason'
    BY ReasonStays
<1>3. IsList(out)'
    BY DEF FigInv, IsList
<1> QED BY <1>1, <1>2, <1>3 DEF FigInv

\* A figure that is not there yet is drawn.
LEMMA OneIsDrawn ==
    ASSUME FigInv, plotIn' = plotIn, NEW f, out' = Append(out, f), FigureOK(f, plotIn.maxGap, CutPanels),
           plotPc' \in Plots!Steps, plotPc' # "raised",
           NamesAt(plotPc) \subseteq NamesAt(plotPc'), f.name \in NamesAt(plotPc'),
           f.name \notin NamesAt(plotPc)
    PROVE  FigInv'
<1>1. PICK S : out \in Seq(S)
    BY DEF FigInv, IsList
<1> DEFINE T == S \cup {f}
<1>2. out \in Seq(T) /\ f \in T
    BY <1>1
<1> HIDE DEF T
<1>3. PICK n \in Nat : n = Len(out)
    BY <1>2
<1>4. out' \in Seq(T) /\ Len(out') = n + 1 /\ (\A i \in 1..n : out'[i] = out[i]) /\ out'[n + 1] = f
    BY <1>2, <1>3, OneMore
<1>5. /\ \A i \in 1..(n + 1) : i \in 1..n \/ i = n + 1
      /\ \A i \in 1..n : i # n + 1
    OBVIOUS
<1>6. \A i \in 1..n :
          /\ FigureOK(out[i], plotIn'.maxGap, CutPanels')
          /\ out[i].name \in NamesAt(plotPc)
    BY <1>3, PanelsStay DEF FigInv
<1>7. FigureOK(f, plotIn'.maxGap, CutPanels')
    BY PanelsStay
<1>8. (\A i \in 1..Len(out) :
          /\ FigureOK(out[i], plotIn.maxGap, CutPanels)
          /\ out[i].name \in NamesAt(plotPc))'
    BY <1>4, <1>5, <1>6, <1>7
<1>9. \A i, j \in 1..Len(out') : i # j => out'[i].name # out'[j].name
    BY <1>3, <1>4, <1>5, <1>6 DEF FigInv
<1>10. IsList(out)'
    BY <1>4 DEF IsList
<1> QED BY <1>8, <1>9, <1>10 DEF FigInv

LEMMA NamesGrow ==
    /\ NamesAt("exp1") = {} /\ NamesAt("sweep") = {}
    /\ NamesAt("exp234") = Exp1Names
    /\ NamesAt("zoom") = Exp1Names \cup {"exp234-rtt"}
    /\ NamesAt("throughput") = Exp1Names \cup {"exp234-rtt", "exp234-zoom"}
    /\ NamesAt("done") = Plots!Figures /\ NamesAt("raised") = Plots!Figures
    /\ {"exp1", "exp234", "zoom", "throughput", "sweep", "done", "raised"} = Plots!Steps
    /\ Plots!Figures = Exp1Names \cup {"exp234-rtt", "exp234-zoom", "exp234-throughput", "sweep"}
    BY DEF NamesAt, Exp1Names, Plots!Steps, Plots!Figures

-----------------------------------------------------------------------------
\* Experiment 1.

LEMMA SeriesOfFile ==
    ASSUME NEW columns, ColumnsOK(columns), Plots!Aligned(columns)
    PROVE  /\ IsTimed(Plots!SortSeries(columns))
           /\ Plots!SortSeries(columns) \in Seq(Samples)
           /\ columns.ts # <<>> => Plots!SortSeries(columns)[1].t \in Int
<1> DEFINE s == Plots!SortSeries(columns)
<1>1. s \in Seq(Samples) /\ Len(s) = Len(columns.ts)
    BY SeriesAreSorted
<1> HIDE DEF s
<1>2. IsTimed(s)
    BY <1>1, SamplesAreTimed
<1>3. ASSUME columns.ts # <<>> PROVE s[1].t \in Int
  <2>1. 1 \in 1..Len(s)
      BY <1>1, <1>3 DEF ColumnsOK
  <2> QED BY <1>2, <2>1 DEF IsTimed
<1> QED BY <1>1, <1>2, <1>3 DEF s

LEMMA PlainFigure ==
    ASSUME NEW name, name \in Exp1Names, NEW rows \in Seq(Samples), NEW zero \in Int
    PROVE  LET s == Plots!From(zero, rows)
               f == Plots!Figure(name, <<Plots!Curve(s, s)>>, Plots!WholeAxis)
           IN  (\A maxGap, panels : FigureOK(f, maxGap, panels)) /\ f.name = name
<1> DEFINE s == Plots!From(zero, rows)
           c == Plots!Curve(s, s)
           f == Plots!Figure(name, <<c>>, Plots!WholeAxis)
<1>1. IsTimed(s)
    BY SeriesFromZero, SamplesAreTimed
<1>2. CurveOK(c)
    BY <1>1, CurvesAreOK
<1> HIDE DEF c
<1>3. f.name = name /\ f.curves = <<c>> /\ f.limits = Plots!WholeAxis
    BY DEF Plots!Figure
<1>4. Plots!WholeAxis # <<>>
    BY DEF Plots!WholeAxis
<1>5. \A d \in Plots!Range(f.curves) : d = c
    BY <1>3 DEF Plots!Range
<1>6. name \notin {"exp234-throughput", "exp234-rtt"} /\ name \notin CutNames
    BY DEF Exp1Names, CutNames
<1> HIDE DEF f
<1>7. \A maxGap, panels : FigureOK(f, maxGap, panels)
    BY <1>2, <1>3, <1>4, <1>5, <1>6 DEF FigureOK, CurveOK
<1> QED BY <1>3, <1>7 DEF f, c

LEMMA Exp1Keeps == ASSUME FigInv, Plots!PlotExp1 PROVE FigInv'
<1> DEFINE e == plotIn.exp1
           a == Plots!ReadCwnd(e.cwnd)
           b == Plots!ReadQlen(e.qlen)
           c == Plots!ReadRtt(e.rtt)
<1>1. plotPc = "exp1" /\ plotIn \in PlotInputs /\ e \in Plots!Directory
    BY PlotInputsAre DEF Plots!PlotExp1, FigInv
<1>2. e.cwnd \in Seq(Plots!Line) /\ e.qlen \in Seq(Plots!Line) /\ e.rtt \in Seq(Plots!Line)
    BY <1>1 DEF Plots!Directory
<1>3. /\ ColumnsOK(a) /\ Plots!Aligned(a)
      /\ ColumnsOK(b)
      /\ ~Plots!Aligned(b) => \E line \in Plots!Range(e.qlen) : IsCut(line)
      /\ ColumnsOK(c) /\ Plots!Aligned(c)
    BY <1>2, ColumnsAreRead DEF Plots!ReadCwnd, Plots!ReadQlen, Plots!ReadRtt
<1>4. CASE ~{"cwnd", "qlen", "rtt"} \subseteq e.has
  <2>1. plotPc' = "exp234" /\ plotIn' = plotIn /\ out' = out
      BY <1>4 DEF Plots!PlotExp1, Plots!Go
  <2> QED BY <1>1, <2>1, NamesGrow, NothingDrawn
<1>5. CASE {"cwnd", "qlen", "rtt"} \subseteq e.has /\ Plots!Exp1Raises(e)
  <2>1. plotPc' = "raised" /\ plotIn' = plotIn /\ out' = out
      BY <1>5 DEF Plots!PlotExp1, Plots!Raise
  <2>2. Reason
    <3>1. CASE ~Plots!Aligned(b)
        BY <1>3, <3>1 DEF Reason
    <3>2. CASE Plots!ReadT0(e) = Plots!None
      <4>1. e.t0 = Plots!None
          BY <1>1, <3>2, PlotZeroIsTime
      <4> QED BY <1>5, <4>1 DEF Reason
    <3> QED BY <1>5, <3>1, <3>2 DEF Plots!Exp1Raises
  <2> QED BY <1>1, <2>1, <2>2, NamesGrow, NothingDrawn
<1>6. CASE {"cwnd", "qlen", "rtt"} \subseteq e.has /\ ~Plots!Exp1Raises(e)
  <2> DEFINE x == Plots!SortSeries(a)
             y == Plots!SortSeries(b)
             z == Plots!SortSeries(c)
             zero == Plots!Exp1Zero(e, {x, y, z})
             Draw(name, rows) ==
                 LET s == Plots!From(zero, rows)
                 IN  Plots!Figure(name, <<Plots!Curve(s, s)>>, Plots!WholeAxis)
             f == Draw("exp1-cwnd", x)
             g == Draw("exp1-qlen", y)
             h == Draw("exp1-rtt", z)
  <2>1. /\ plotPc' = "exp234" /\ plotIn' = plotIn
        /\ out' = out \o <<f, g, h>>
      BY <1>6 DEF Plots!PlotExp1, Plots!Go
  <2>2. Plots!Aligned(b) /\ (Plots!ReadT0(e) = Plots!None => a.ts # <<>> /\ b.ts # <<>> /\ c.ts # <<>>)
      BY <1>6 DEF Plots!Exp1Raises
  <2> HIDE DEF a, b, c, e
  <2>3. /\ x \in Seq(Samples) /\ y \in Seq(Samples) /\ z \in Seq(Samples)
        /\ Plots!ReadT0(e) = Plots!None => x[1].t \in Int /\ y[1].t \in Int /\ z[1].t \in Int
      BY <1>3, <2>2, SeriesOfFile
  <2> HIDE DEF x, y, z
  <2>4. zero \in Int
    <3>1. CASE Plots!ReadT0(e) # Plots!None
        BY <1>1, <3>1, PlotZeroIsTime DEF Plots!Exp1Zero
    <3>2. CASE Plots!ReadT0(e) = Plots!None
      <4> DEFINE S == {x[1].t, y[1].t, z[1].t}
      <4>1. {s[1].t : s \in {x, y, z}} = S
          OBVIOUS
      <4>2. zero = Plots!Min(S)
          BY <3>2, <4>1 DEF Plots!Exp1Zero
      <4>3. x[1].t \in Int /\ y[1].t \in Int /\ z[1].t \in Int
          BY <2>3, <3>2
      <4>4. PICK n \in Nat : 0 <= x[1].t + n /\ 0 <= y[1].t + n /\ 0 <= z[1].t + n
          BY <4>3, ThreeAreBounded
      <4>5. S \subseteq Int /\ S # {} /\ \A t \in S : 0 <= t + n
          BY <4>3, <4>4
      <4> HIDE DEF S
      <4>6. Plots!Min(S) \in S
          BY <4>5, BoundedMin
      <4> QED BY <4>2, <4>5, <4>6
    <3> QED BY <3>1, <3>2
  <2> HIDE DEF zero
  <2>5. \A maxGap, panels : /\ FigureOK(f, maxGap, panels) /\ f.name = "exp1-cwnd"
                            /\ FigureOK(g, maxGap, panels) /\ g.name = "exp1-qlen"
                            /\ FigureOK(h, maxGap, panels) /\ h.name = "exp1-rtt"
      BY <2>3, <2>4, PlainFigure DEF Exp1Names
  <2> HIDE DEF f, g, h
  <2>6. out = <<>>
    <3>1. PICK S : out \in Seq(S)
        BY DEF FigInv, IsList
    <3>2. \A i \in 1..Len(out) : FALSE
        BY <1>1, NamesGrow DEF FigInv
    <3>3. Len(out) \in Nat
        BY <3>1
    <3>4. Len(out) = 0
        BY <3>2, <3>3
    <3> QED BY <3>1, <3>4
  <2>7. out' = <<f, g, h>>
      BY <2>1, <2>6
  <2>8. /\ out' \in Seq({f, g, h}) /\ Len(out') = 3
        /\ out'[1] = f /\ out'[2] = g /\ out'[3] = h
      BY <2>7
  <2>9. \A i \in 1..3 : i = 1 \/ i = 2 \/ i = 3
      OBVIOUS
  <2>11. (\A i \in 1..Len(out) :
             /\ FigureOK(out[i], plotIn.maxGap, CutPanels)
             /\ out[i].name \in NamesAt(plotPc))'
      BY <2>1, <2>5, <2>8, <2>9, NamesGrow DEF Exp1Names
  <2>12. \A i, j \in 1..Len(out') : i # j => out'[i].name # out'[j].name
      BY <2>5, <2>8, <2>9
  <2>13. IsList(out)'
      BY <2>8 DEF IsList
  <2>14. plotPc' \in Plots!Steps /\ plotPc' # "raised"
      BY <2>1, NamesGrow
  <2> QED BY <1>1, <2>1, <2>11, <2>12, <2>13, <2>14 DEF FigInv
<1> QED BY <1>4, <1>5, <1>6

-----------------------------------------------------------------------------
\* Experiments 2 to 4.

LEMMA RttFigure ==
    ASSUME plotIn \in PlotInputs, NEW algos \in Seq(DOMAIN plotIn.dirs),
           \A i \in 1..Len(algos) : Draws(algos[i]), algos # <<>>
    PROVE  /\ algos = Plots!AlgosOf("exp234-rtt") =>
              FigureOK(Plots!Figure("exp234-rtt",
                  [i \in DOMAIN algos |->
                      Plots!Curve(Plots!BreakGaps(Plots!RttFromZero(algos[i]), plotIn.maxGap),
                                  Plots!RttFromZero(algos[i]))],
                  Plots!Limits(Plots!ResolveSegments(plotIn.cut, Plots!Largest(algos)))),
                  plotIn.maxGap, CutPanels)
           /\ algos = Plots!AlgosOf("exp234-zoom") =>
              FigureOK(Plots!Figure("exp234-zoom",
                  [i \in DOMAIN algos |->
                      Plots!Curve(Plots!RttFromZero(algos[i]), Plots!RttFromZero(algos[i]))],
                  Plots!Limits(Plots!ResolveSegments(plotIn.cut, Plots!Largest(algos)))),
                  plotIn.maxGap, CutPanels)
<1> DEFINE raw(i) == Plots!RttFromZero(algos[i])
           broken(i) == Plots!BreakGaps(raw(i), plotIn.maxGap)
           limits == Plots!Limits(Plots!ResolveSegments(plotIn.cut, Plots!Largest(algos)))
           cs == [i \in DOMAIN algos |-> Plots!Curve(broken(i), raw(i))]
           ds == [i \in DOMAIN algos |-> Plots!Curve(raw(i), raw(i))]
           Y == Samples \cup {Plots!Nan}
<1>1. limits # <<>>
  <2>1. Plots!Largest(algos) \in Int
      BY LargestIsNumber
  <2> QED BY <2>1, PanelsAreThere, PlotInputsAre
<1>9. ASSUME NEW name \in CutNames, algos = Plots!AlgosOf(name)
      PROVE  limits = CutPanels[name]
    BY <1>9 DEF CutPanels
<1> HIDE DEF limits
<1>2. plotIn.maxGap \in Int
    BY PlotInputsAre
<1>3. ASSUME NEW i \in DOMAIN algos
      PROVE  /\ raw(i) \in Seq(Y) /\ IsTimed(raw(i))
             /\ broken(i) \in Seq(Y) /\ IsTimed(broken(i))
             /\ plotIn.maxGap > 0 => NoneWide(broken(i), plotIn.maxGap)
  <2>1. raw(i) \in Seq(Samples)
      BY RttIsSeries
  <2> HIDE DEF raw
  <2>2. raw(i) \in Seq(Y) /\ Plots!Nan \in Y /\ \A x \in Y : x.t \in Int
      BY <2>1, SamplesAreTimed
  <2>3. /\ broken(i) \in Seq(Y)
        /\ plotIn.maxGap > 0 => NoneWide(broken(i), plotIn.maxGap)
    <3> HIDE DEF Y
    <3> QED BY <1>2, <2>2, GapsAreBroken
  <2> HIDE DEF broken
  <2> QED BY <2>2, <2>3, SamplesAreTimed
<1> HIDE DEF raw, broken
<1>4. ASSUME NEW c \in Plots!Range(cs)
      PROVE  CurveOK(c) /\ (plotIn.maxGap > 0 => ~Plots!TooWide(c, plotIn.maxGap))
  <2>1. PICK i \in DOMAIN algos : c = Plots!Curve(broken(i), raw(i))
      BY DEF Plots!Range
  <2>2. CurveOK(c) /\ c.s = broken(i)
      BY <1>3, <2>1, CurvesAreOK
  <2> QED BY <1>2, <1>3, <2>2, NotTooWide
<1>5. ASSUME NEW c \in Plots!Range(ds)
      PROVE  CurveOK(c)
  <2>1. PICK i \in DOMAIN algos : c = Plots!Curve(raw(i), raw(i))
      BY DEF Plots!Range
  <2> QED BY <1>3, <2>1, CurvesAreOK
<1> HIDE DEF cs, ds
<1>6. \A c : CurveOK(c) => c.own \cup c.gap = 1..(Len(c.s) - 1)
    BY DEF CurveOK
<1>7. algos = Plots!AlgosOf("exp234-rtt") =>
          FigureOK(Plots!Figure("exp234-rtt", cs, limits), plotIn.maxGap, CutPanels)
    BY <1>1, <1>4, <1>6, <1>9 DEF FigureOK, Plots!Figure, CutNames
<1>8. algos = Plots!AlgosOf("exp234-zoom") =>
          FigureOK(Plots!Figure("exp234-zoom", ds, limits), plotIn.maxGap, CutPanels)
    BY <1>1, <1>5, <1>6, <1>9 DEF FigureOK, Plots!Figure, CutNames
<1> QED BY <1>7, <1>8 DEF cs, ds, limits, raw, broken

LEMMA Exp234Keeps == ASSUME FigInv, Plots!PlotExp234 PROVE FigInv'
<1> DEFINE algos == Plots!Drawable(plotIn.algos)
           f == Plots!Figure("exp234-rtt",
                  [i \in DOMAIN algos |->
                      Plots!Curve(Plots!BreakGaps(Plots!RttFromZero(algos[i]), plotIn.maxGap),
                                  Plots!RttFromZero(algos[i]))],
                  Plots!Limits(Plots!ResolveSegments(plotIn.cut, Plots!Largest(algos))))
<1>1. /\ plotPc = "exp234" /\ plotPc' = "zoom" /\ plotIn' = plotIn /\ plotIn \in PlotInputs
      /\ out' = IF algos = <<>> THEN out ELSE Append(out, f)
    BY DEF Plots!PlotExp234, Plots!Go, FigInv
<1>2. /\ algos \in Seq(DOMAIN plotIn.dirs)
      /\ \A i \in 1..Len(algos) : Draws(algos[i])
    BY <1>1, PlotInputsAre, DrawableDraw
<1>3. f.name = "exp234-rtt"
    BY DEF Plots!Figure
<1>4. CASE algos = <<>>
    BY <1>1, <1>4, NamesGrow, NothingDrawn
<1>5. CASE algos # <<>>
  <2>5. algos = Plots!AlgosOf("exp234-rtt")
      BY DEF Plots!AlgosOf
  <2> HIDE DEF algos
  <2>1. FigureOK(f, plotIn.maxGap, CutPanels)
      BY <1>1, <1>2, <1>5, <2>5, RttFigure
  <2> HIDE DEF f
  <2>3. /\ NamesAt(plotPc) \subseteq NamesAt(plotPc') /\ f.name \in NamesAt(plotPc')
        /\ f.name \notin NamesAt(plotPc)
        /\ plotPc' \in Plots!Steps /\ plotPc' # "raised"
      BY <1>1, <1>3, NamesGrow DEF Exp1Names
  <2>4. out' = Append(out, f)
      BY <1>1, <1>5
  <2> QED BY <1>1, <2>1, <2>3, <2>4, OneIsDrawn
<1> QED BY <1>4, <1>5

LEMMA ZoomKeeps == ASSUME FigInv, Plots!PlotZoom PROVE FigInv'
<1> DEFINE wanted == Plots!Sifted(plotIn.zoom, Plots!Range(plotIn.algos))
           algos == Plots!Drawable(wanted)
           f == Plots!Figure("exp234-zoom",
                  [i \in DOMAIN algos |->
                      Plots!Curve(Plots!RttFromZero(algos[i]), Plots!RttFromZero(algos[i]))],
                  Plots!Limits(Plots!ResolveSegments(plotIn.cut, Plots!Largest(algos))))
<1>1. /\ plotPc = "zoom" /\ plotPc' = "throughput" /\ plotIn' = plotIn /\ plotIn \in PlotInputs
      /\ out' = IF algos = <<>> THEN out ELSE Append(out, f)
    BY DEF Plots!PlotZoom, Plots!Go, FigInv
<1>2. algos = Plots!AlgosOf("exp234-zoom")
    BY DEF Plots!AlgosOf
<1>3. /\ algos \in Seq(DOMAIN plotIn.dirs)
      /\ \A i \in 1..Len(algos) : Draws(algos[i])
    BY <1>1, <1>2, AlgosDraw
<1>4. f.name = "exp234-zoom"
    BY DEF Plots!Figure
<1> HIDE DEF algos
<1>5. CASE algos = <<>>
    BY <1>1, <1>5, NamesGrow, NothingDrawn
<1>6. CASE algos # <<>>
  <2>1. FigureOK(f, plotIn.maxGap, CutPanels)
      BY <1>1, <1>2, <1>3, <1>6, RttFigure
  <2> HIDE DEF f
  <2>3. /\ NamesAt(plotPc) \subseteq NamesAt(plotPc') /\ f.name \in NamesAt(plotPc')
        /\ f.name \notin NamesAt(plotPc)
        /\ plotPc' \in Plots!Steps /\ plotPc' # "raised"
      BY <1>1, <1>4, NamesGrow DEF Exp1Names
  <2>4. out' = Append(out, f)
      BY <1>1, <1>6
  <2> QED BY <1>1, <2>1, <2>3, <2>4, OneIsDrawn
<1> QED BY <1>5, <1>6

-----------------------------------------------------------------------------
\* The throughput.

LEMMA ThroughputIsRead ==
    ASSUME NEW found \in Seq(Plots!Line), NEW maxGap \in Int
    PROVE  LET s == Plots!ReadThroughput(found, maxGap)
           IN  /\ s \in Seq(Samples \cup {Plots!Nan})
               /\ maxGap > 0 => NoneWide(s, maxGap)
<1> DEFINE Y == Samples \cup {Plots!Nan}
           sorted == Plots!SortSeries(Plots!ReadRates(found))
<1>1. sorted \in Seq(Samples)
    BY ColumnsAreRead, SeriesAreSorted DEF Plots!ReadRates
<1>2. Plots!ReadThroughput(found, maxGap) = Plots!BreakGaps(sorted, maxGap)
    BY DEF Plots!ReadThroughput
<1> HIDE DEF sorted
<1>3. sorted \in Seq(Y) /\ Plots!Nan \in Y /\ \A x \in Y : x.t \in Int
    BY <1>1, SamplesAreTimed
<1> HIDE DEF Y
<1>4. /\ Plots!BreakGaps(sorted, maxGap) \in Seq(Y)
      /\ maxGap > 0 => NoneWide(Plots!BreakGaps(sorted, maxGap), maxGap)
    BY <1>3, GapsAreBroken
<1> QED BY <1>2, <1>4 DEF Y

LEMMA ThroughputKeeps == ASSUME FigInv, Plots!PlotThroughput PROVE FigInv'
<1> DEFINE n == 2 * Len(plotIn.algos)
           Of(i) == LET d == plotIn.dirs[plotIn.algos[(i + 1) \div 2]]
                    IN  IF i % 2 = 1 THEN d.client ELSE d.server
           files == [i \in 1..n |-> Of(i)]
           read == [i \in DOMAIN files |-> Plots!ReadThroughput(files[i], plotIn.maxGap)]
           drawn == Plots!Sifted(read, Plots!Range(read) \ {<<>>})
           f == Plots!Figure("exp234-throughput",
                             [i \in DOMAIN drawn |-> Plots!PlainCurve(drawn[i])], Plots!WholeAxis)
           bad == plotIn.algos = <<>>
           Y == Samples \cup {Plots!Nan}
<1>1. /\ plotPc = "throughput" /\ plotIn' = plotIn /\ plotIn \in PlotInputs
      /\ bad => plotPc' = "raised" /\ out' = out
      /\ ~bad => plotPc' = "done" /\ out' = IF drawn = <<>> THEN out ELSE Append(out, f)
    BY DEF Plots!PlotThroughput, Plots!Go, Plots!Raise, FigInv
<1>2. /\ plotIn.algos \in Seq(DOMAIN plotIn.dirs) /\ plotIn.maxGap \in Int
      /\ \A a \in DOMAIN plotIn.dirs : plotIn.dirs[a] \in Plots!Directory
    BY <1>1, PlotInputsAre
<1>3. n \in Nat
    BY <1>2
<1>4. ASSUME NEW i \in 1..n
      PROVE  Of(i) \in Seq(Plots!Line)
  <2> DEFINE l == Len(plotIn.algos)
             e == (i + 1) \div 2
             a == plotIn.algos[e]
             d == plotIn.dirs[a]
  <2>1. e \in 1..l
    <3>1. l \in Nat /\ i \in 1..(2 * l)
        BY <1>2
    <3> HIDE DEF l
    <3> QED BY <3>1
  <2> HIDE DEF e
  <2>2. a \in DOMAIN plotIn.dirs
      BY <1>2, <2>1
  <2>3. d \in Plots!Directory
      BY <1>2, <2>2
  <2>4. Of(i) = d.client \/ Of(i) = d.server
      BY DEF e
  <2> HIDE DEF d
  <2>5. d.client \in Seq(Plots!Line) /\ d.server \in Seq(Plots!Line)
      BY <2>3 DEF Plots!Directory
  <2> QED BY <2>2, <2>4, <2>5 DEF d
<1> HIDE DEF n, Of
<1>5. CASE bad
  <2>1. Reason
      BY <1>5 DEF Reason
  <2> QED BY <1>1, <1>5, <2>1, NamesGrow, NothingDrawn
<1>6. CASE ~bad
  <2>1. ASSUME NEW i \in 1..n
        PROVE  /\ read[i] \in Seq(Y)
               /\ plotIn.maxGap > 0 => NoneWide(read[i], plotIn.maxGap)
    <3>1. files[i] = Of(i) /\ read[i] = Plots!ReadThroughput(Of(i), plotIn.maxGap)
        BY DEF files
    <3> HIDE DEF read, files
    <3> QED BY <1>2, <1>4, <3>1, ThroughputIsRead
  <2>2. read \in Seq(Seq(Y))
    <3>1. read = [i \in 1..n |-> read[i]]
        OBVIOUS
    <3> HIDE DEF read
    <3> QED BY <1>3, <2>1, <3>1
  <2>3. DOMAIN read = 1..n
      OBVIOUS
  <2> DEFINE S == Plots!Range(read) \ {<<>>}
             q == Sifted(read, S)
  <2>4. drawn = q
      BY PlotSifts
  <2>5. q \in Seq(S) /\ q \in Seq(Seq(Y))
    <3> HIDE DEF read, S
    <3> QED BY <2>2, SiftedAreIn
  <2> HIDE DEF q, drawn
  <2>6. ASSUME NEW i \in DOMAIN drawn
        PROVE  /\ drawn[i] \in Seq(Y)
               /\ plotIn.maxGap > 0 => NoneWide(drawn[i], plotIn.maxGap)
    <3>1. q[i] \in S /\ q[i] \in Seq(Y)
        BY <2>4, <2>5
    <3> HIDE DEF read
    <3>2. PICK j \in 1..n : q[i] = read[j]
        BY <2>3, <3>1 DEF Plots!Range
    <3> QED BY <2>1, <2>4, <3>1, <3>2
  <2> HIDE DEF read, S
  <2>7. FigureOK(f, plotIn.maxGap, CutPanels) /\ f.name = "exp234-throughput"
    <3> DEFINE cs == [i \in DOMAIN drawn |-> Plots!PlainCurve(drawn[i])]
    <3>1. f.name = "exp234-throughput" /\ f.curves = cs /\ f.limits = Plots!WholeAxis
        BY DEF Plots!Figure
    <3>2. Plots!WholeAxis # <<>>
        BY DEF Plots!WholeAxis
    <3>3. ASSUME NEW c \in Plots!Range(cs)
          PROVE  /\ c.own \cup c.gap = 1..(Len(c.s) - 1)
                 /\ plotIn.maxGap > 0 => ~Plots!TooWide(c, plotIn.maxGap)
      <4>1. PICK i \in DOMAIN drawn : c = Plots!PlainCurve(drawn[i])
          BY DEF Plots!Range
      <4>2. c.own = 1..(Len(drawn[i]) - 1) /\ c.gap = {} /\ c.s = drawn[i]
          BY <4>1 DEF Plots!PlainCurve
      <4>3. plotIn.maxGap > 0 => ~Plots!TooWide(c, plotIn.maxGap)
          BY <1>2, <2>6, <4>2, NotTooWide
      <4> QED BY <4>2, <4>3
    <3> HIDE DEF cs, f
    <3> QED BY <3>1, <3>2, <3>3 DEF FigureOK, CutNames
  <2> HIDE DEF f
  <2>8. /\ NamesAt(plotPc) \subseteq NamesAt(plotPc') /\ f.name \in NamesAt(plotPc')
        /\ f.name \notin NamesAt(plotPc)
        /\ plotPc' \in Plots!Steps /\ plotPc' # "raised"
      BY <1>1, <1>6, <2>7, NamesGrow DEF Exp1Names
  <2>9. CASE drawn = <<>>
      BY <1>1, <1>6, <2>8, <2>9, NothingDrawn
  <2>10. CASE drawn # <<>>
    <3>1. out' = Append(out, f)
        BY <1>1, <1>6, <2>10
    <3> QED BY <1>1, <2>7, <2>8, <3>1, OneIsDrawn
  <2> QED BY <2>9, <2>10
<1> QED BY <1>5, <1>6

-----------------------------------------------------------------------------
\* The sweep.

LEMMA QueueIsRead ==
    ASSUME NEW d \in Plots!Directory
    PROVE  /\ ColumnsOK(Plots!SweepQueue(d))
           /\ ~Plots!Aligned(Plots!SweepQueue(d)) =>
                 \E found \in {d.qlen, d.qdisc} : \E line \in Plots!Range(found) : IsCut(line)
<1>1. d.qlen \in Seq(Plots!Line) /\ d.qdisc \in Seq(Plots!Line)
    BY DEF Plots!Directory
<1>2. \/ Plots!SweepQueue(d) = Plots!ReadByColumns(d.qdisc)
      \/ Plots!SweepQueue(d) = Plots!ReadByColumns(d.qlen)
    BY DEF Plots!SweepQueue, Plots!ReadQdisc
<1> QED BY <1>1, <1>2, ColumnsAreRead

LEMMA CutQueueIsReason ==
    ASSUME NEW d \in Plots!Range(plotIn.sweep), NEW found \in {d.qlen, d.qdisc},
           NEW line \in Plots!Range(found), IsCut(line)
    PROVE  Reason
<1>1. found \in SweepFiles
    BY DEF SweepFiles
<1> QED BY <1>1 DEF Reason

Keys == {"cwnd", "qlen", "rtt"}

LEMMA LoadedAreSeries ==
    ASSUME NEW d \in Plots!Directory, Plots!Starts(Plots!FilesOf(d)) # {}
    PROVE  \A key \in Keys : Plots!LoadOne(d)[key] \in Seq(Samples)
<1> DEFINE files == Plots!FilesOf(d)
           S == Plots!Starts(files)
           first(key) == IF files[key].ts = <<>> THEN 0 ELSE files[key].ts[1]
<1>1. DOMAIN files = Keys
    BY DEF Plots!FilesOf, Keys
<1>2. ASSUME NEW key \in Keys
      PROVE  ColumnsOK(files[key])
  <2>1. d.cwnd \in Seq(Plots!Line) /\ d.rtt \in Seq(Plots!Line)
      BY DEF Plots!Directory
  <2>2. /\ ColumnsOK(Plots!ReadCwnd(d.cwnd)) /\ ColumnsOK(Plots!ReadRtt(d.rtt))
        /\ ColumnsOK(Plots!SweepQueue(d))
      BY <2>1, ColumnsAreRead, QueueIsRead DEF Plots!ReadCwnd, Plots!ReadRtt
  <2>3. /\ files["cwnd"] = Plots!ReadCwnd(d.cwnd) /\ files["qlen"] = Plots!SweepQueue(d)
        /\ files["rtt"] = Plots!ReadRtt(d.rtt)
      BY DEF Plots!FilesOf
  <2>4. key = "cwnd" \/ key = "qlen" \/ key = "rtt"
      BY DEF Keys
  <2> QED BY <2>2, <2>3, <2>4
<1> DEFINE rows(key) == IF Plots!Aligned(files[key]) THEN Plots!Rows(files[key]) ELSE <<>>
<1>3. Plots!LoadOne(d) = [key \in Keys |-> Plots!From(Plots!Min(S), rows(key))]
    BY <1>1 DEF Plots!LoadOne
<1>4. S = {files[key].ts[1] : key \in {g \in Keys : files[g].ts # <<>>}}
    BY <1>1 DEF Plots!Starts
<1> HIDE DEF files
<1>5. \A key \in Keys : first(key) \in Int
  <2> SUFFICES ASSUME NEW key \in Keys, files[key].ts # <<>> PROVE files[key].ts[1] \in Int
      OBVIOUS
  <2>1. files[key].ts \in Seq(Int)
      BY <1>2 DEF ColumnsOK
  <2> QED BY <2>1
<1>6. \A x \in S : \E key \in Keys : x = first(key)
    BY <1>4
<1> HIDE DEF S, first
<1>7. first("cwnd") \in Int /\ first("qlen") \in Int /\ first("rtt") \in Int
    BY <1>5 DEF Keys
<1>8. PICK n \in Nat : 0 <= first("cwnd") + n /\ 0 <= first("qlen") + n /\ 0 <= first("rtt") + n
    BY <1>7, ThreeAreBounded
<1>9. \A x \in S : x \in Int /\ 0 <= x + n
    BY <1>6, <1>7, <1>8 DEF Keys
<1>10. Plots!Min(S) \in Int
  <2>1. S # {} /\ S \subseteq Int
      BY <1>9 DEF S, files
  <2>2. Plots!Min(S) \in S
      BY <1>9, <2>1, BoundedMin
  <2> QED BY <2>1, <2>2
<1>11. \A key \in Keys : rows(key) \in Seq(Samples)
    BY <1>2, RowsAreSamples
<1> HIDE DEF rows
<1> QED BY <1>3, <1>10, <1>11, SeriesFromZero

LEMMA SmoothedIsTimed ==
    ASSUME NEW rows \in Seq(Samples)
    PROVE  IsTimed(Plots!Smoothed(rows))
<1> DEFINE s == Plots!Smoothed(rows)
<1> DEFINE dt2 == IF Len(rows) < 2 THEN 0 ELSE Plots!Median2(Plots!Diffs(Plots!Times(rows)))
           values == Plots!Smooth2(Plots!Values(rows),
                                   IF dt2 > 0 THEN Plots!Rounded(40, dt2) ELSE 200000)
<1>1. s = [i \in DOMAIN rows |-> [t |-> rows[i].t, v |-> values[i]]]
    BY DEF Plots!Smoothed
<1> HIDE DEF s, values, dt2
<1>2. PICK n \in Nat : n = Len(rows)
    OBVIOUS
<1>3. DOMAIN rows = 1..n /\ \A i \in 1..n : rows[i].t \in Int
  <2>1. \A i \in 1..n : rows[i] \in Samples
      BY <1>2
  <2> QED BY <1>2, <2>1 DEF Samples
<1> DEFINE S == {[t |-> rows[i].t, v |-> values[i]] : i \in 1..n}
<1>4. s \in Seq(S) /\ Len(s) = n
  <2>1. \A i \in 1..n : [t |-> rows[i].t, v |-> values[i]] \in S
      OBVIOUS
  <2> HIDE DEF S
  <2> QED BY <1>1, <1>3, <2>1
<1>5. \A i \in 1..n : s[i].t \in Int
    BY <1>1, <1>3
<1> QED BY <1>4, <1>5 DEF IsTimed, IsList, s

LEMMA SweepKeeps == ASSUME FigInv, Plots!Sweep PROVE FigInv'
<1> DEFINE D == {d \in Plots!Range(plotIn.sweep) : Plots!Starts(Plots!FilesOf(d)) # {}}
           found == Plots!Sifted(plotIn.sweep, D)
           loaded == [i \in DOMAIN found |-> Plots!LoadOne(found[i])]
           series(key) == [i \in DOMAIN loaded |-> loaded[i][key]]
           ofKey(key) == Plots!Sifted(series(key), Plots!Range(series(key)) \ {<<>>})
           smooth == [i \in DOMAIN ofKey("qlen") |-> Plots!Smoothed(ofKey("qlen")[i])]
           drawn == ofKey("cwnd") \o smooth \o ofKey("rtt")
           f == Plots!Figure("sweep", [i \in DOMAIN drawn |-> Plots!Curve(drawn[i], drawn[i])],
                             Plots!WholeAxis)
           bad == \E d \in Plots!Range(plotIn.sweep) : Plots!SweepRaises(d)
<1>1. /\ plotPc = "sweep" /\ plotIn' = plotIn /\ plotIn \in PlotInputs
      /\ bad => plotPc' = "raised" /\ out' = out
      /\ ~bad => plotPc' = "done" /\ out' = IF loaded = <<>> THEN out ELSE Append(out, f)
    BY DEF Plots!Sweep, Plots!Go, Plots!Raise, FigInv
<1>2. plotIn.sweep \in Seq(Plots!Directory)
    BY <1>1, PlotInputsAre
<1>3. \A d \in Plots!Range(plotIn.sweep) : d \in Plots!Directory
    BY <1>2 DEF Plots!Range
<1>4. CASE bad
  <2>1. PICK d \in Plots!Range(plotIn.sweep) : \/ ~{"cwnd", "rtt"} \subseteq d.has
                                               \/ ~Plots!Aligned(Plots!SweepQueue(d))
      BY <1>4 DEF Plots!SweepRaises
  <2>2. Reason
    <3>1. CASE ~{"cwnd", "rtt"} \subseteq d.has
        BY <3>1 DEF Reason
    <3>2. CASE ~Plots!Aligned(Plots!SweepQueue(d))
      <4>1. PICK x \in {d.qlen, d.qdisc} : \E line \in Plots!Range(x) : IsCut(line)
          BY <1>3, <3>2, QueueIsRead
      <4> QED BY <4>1, CutQueueIsReason
    <3> QED BY <2>1, <3>1, <3>2
  <2> QED BY <1>1, <1>4, <2>2, NamesGrow, NothingDrawn
<1>5. CASE ~bad
  <2>1. found \in Seq(D)
    <3> DEFINE q == Sifted(plotIn.sweep, D)
    <3>1. found = q
        BY PlotSifts
    <3> HIDE DEF found
    <3>2. q \in Seq(D)
      <4> HIDE DEF D
      <4> QED BY <1>2, SiftedAreIn
    <3> QED BY <3>1, <3>2
  <2>2. ASSUME NEW d \in D, NEW key \in Keys
        PROVE  Plots!LoadOne(d)[key] \in Seq(Samples)
    <3>1. d \in Plots!Directory
        BY <1>3
    <3> QED BY <3>1, LoadedAreSeries
  <2> HIDE DEF found, D
  <2>3. PICK n \in Nat : DOMAIN found = 1..n /\ \A i \in 1..n : found[i] \in D
      BY <2>1
  <2>4. ASSUME NEW key \in Keys
        PROVE  ofKey(key) \in Seq(Seq(Samples))
    <3>1. series(key) = [i \in 1..n |-> Plots!LoadOne(found[i])[key]]
        BY <2>3
    <3>2. \A i \in 1..n : Plots!LoadOne(found[i])[key] \in Seq(Samples)
        BY <2>2, <2>3
    <3> HIDE DEF series
    <3>3. series(key) \in Seq(Seq(Samples))
        BY <3>1, <3>2
    <3> QED BY <3>3, PlotSifts, SiftedAreIn
  <2> HIDE DEF ofKey, loaded
  <2>5. /\ ofKey("cwnd") \in Seq(Seq(Samples)) /\ ofKey("qlen") \in Seq(Seq(Samples))
        /\ ofKey("rtt") \in Seq(Seq(Samples))
      BY <2>4 DEF Keys
  <2> DEFINE A == ofKey("cwnd")
             B == ofKey("qlen")
             C == ofKey("rtt")
             M == {Plots!Smoothed(B[i]) : i \in 1..Len(B)}
             Z == Seq(Samples) \cup M
  <2>6. A \in Seq(Z) /\ C \in Seq(Z)
    <3>1. Seq(Samples) \subseteq Z
        OBVIOUS
    <3> HIDE DEF Z
    <3>2. \A q \in Seq(Seq(Samples)) : q \in Seq(Z)
        BY <3>1
    <3> QED BY <2>5, <3>2
  <2>7. smooth \in Seq(Z)
    <3>1. PICK m \in Nat : m = Len(B) /\ DOMAIN B = 1..m
        BY <2>5
    <3>2. \A i \in 1..m : Plots!Smoothed(B[i]) \in Z
        BY <3>1
    <3>3. smooth = [i \in 1..m |-> Plots!Smoothed(B[i])]
        BY <3>1
    <3> HIDE DEF B, Z, smooth
    <3> QED BY <3>2, <3>3
  <2>8. \A z \in Z : IsTimed(z)
    <3>1. \A i \in 1..Len(B) : B[i] \in Seq(Samples)
        BY <2>5
    <3>2. \A z \in M : IsTimed(z)
        BY <3>1, SmoothedIsTimed
    <3> HIDE DEF M
    <3> QED BY <3>2, SamplesAreTimed
  <2> HIDE DEF A, B, C, smooth, Z
  <2>9. drawn \in Seq(Z)
      BY <2>6, <2>7 DEF A, C
  <2> HIDE DEF drawn
  <2>10. FigureOK(f, plotIn.maxGap, CutPanels) /\ f.name = "sweep"
    <3> DEFINE cs == [i \in DOMAIN drawn |-> Plots!Curve(drawn[i], drawn[i])]
    <3>1. f.name = "sweep" /\ f.curves = cs /\ f.limits = Plots!WholeAxis
        BY DEF Plots!Figure
    <3>2. Plots!WholeAxis # <<>>
        BY DEF Plots!WholeAxis
    <3>3. ASSUME NEW c \in Plots!Range(cs)
          PROVE  CurveOK(c)
      <4>1. PICK i \in DOMAIN drawn : c = Plots!Curve(drawn[i], drawn[i])
          BY DEF Plots!Range
      <4>2. IsTimed(drawn[i])
          BY <2>8, <2>9
      <4> QED BY <4>1, <4>2, CurvesAreOK
    <3> HIDE DEF cs, f
    <3>4. \A c : CurveOK(c) => c.own \cup c.gap = 1..(Len(c.s) - 1)
        BY DEF CurveOK
    <3> QED BY <3>1, <3>2, <3>3, <3>4 DEF FigureOK, CutNames
  <2> HIDE DEF f
  <2>11. /\ NamesAt(plotPc) \subseteq NamesAt(plotPc') /\ f.name \in NamesAt(plotPc')
         /\ f.name \notin NamesAt(plotPc)
         /\ plotPc' \in Plots!Steps /\ plotPc' # "raised"
      BY <1>1, <1>5, <2>10, NamesGrow
  <2>12. CASE loaded = <<>>
      BY <1>1, <1>5, <2>11, <2>12, NothingDrawn
  <2>13. CASE loaded # <<>>
    <3>1. out' = Append(out, f)
        BY <1>1, <1>5, <2>13
    <3> QED BY <1>1, <2>10, <2>11, <3>1, OneIsDrawn
  <2> QED BY <2>12, <2>13
<1> QED BY <1>4, <1>5

LEMMA FigStep == FigInv /\ (Plots!Next \/ UNCHANGED plotVars) => FigInv'
<1> SUFFICES ASSUME FigInv, Plots!Next \/ UNCHANGED plotVars PROVE FigInv'
    OBVIOUS
<1>1. CASE UNCHANGED plotVars
  <2>1. plotIn' = plotIn /\ out' = out /\ plotPc' = plotPc
      BY <1>1 DEF plotVars
  <2> QED BY <2>1, NothingDrawn DEF FigInv
<1> QED BY <1>1, Exp1Keeps, Exp234Keeps, ZoomKeeps, ThroughputKeeps, SweepKeeps DEF Plots!Next

-----------------------------------------------------------------------------
\* What the invariant says of the figures.

LEMMA FiguresAreOK ==
    ASSUME FigInv, NEW f \in Plots!Range(out)
    PROVE  FigureOK(f, plotIn.maxGap, CutPanels) /\ f.name \in Plots!Figures
<1>1. DOMAIN out = 1..Len(out)
    BY DEF FigInv, IsList
<1>2. PICK i \in 1..Len(out) : f = out[i]
    BY <1>1 DEF Plots!Range
<1>3. NamesAt(plotPc) \subseteq Plots!Figures
    BY DEF NamesAt, Exp1Names, Plots!Figures
<1> QED BY <1>2, <1>3 DEF FigInv

LEMMA FigTyped == ASSUME FigInv PROVE Plots!TypeOK
<1>1. DOMAIN out = 1..Len(out)
    BY DEF FigInv, IsList
<1>2. ASSUME NEW i \in DOMAIN out
      PROVE  /\ out[i].name \in Plots!Figures
             /\ \A c \in Plots!Range(out[i].curves) : c.own \cup c.gap \subseteq 1..(Len(c.s) - 1)
             /\ out[i].limits # <<>>
  <2>1. out[i] \in Plots!Range(out)
      BY DEF Plots!Range
  <2>2. FigureOK(out[i], plotIn.maxGap, CutPanels) /\ out[i].name \in Plots!Figures
      BY <2>1, FiguresAreOK
  <2> QED BY <2>2 DEF FigureOK
<1> QED BY <1>1, <1>2 DEF FigInv, Plots!TypeOK

LEMMA FiguresAreTrue ==
    ASSUME FigInv
    PROVE  /\ Plots!OneLineBetweenNeighbours
           /\ Plots!BrokenAtMaxGap
           /\ Plots!AxisIsDivided
           /\ Plots!RaisesForAReason
<1>1. Plots!OneLineBetweenNeighbours
  <2> SUFFICES ASSUME NEW c \in Plots!CurvesOf(Plots!Figures \ {"exp234-throughput"})
               PROVE  CurveOK(c)
      BY DEF Plots!OneLineBetweenNeighbours, CurveOK
  <2>1. PICK f \in Plots!Range(out) : f.name # "exp234-throughput" /\ c \in Plots!Range(f.curves)
      BY DEF Plots!CurvesOf, Plots!Drawn
  <2> QED BY <2>1, FiguresAreOK DEF FigureOK
<1>2. Plots!BrokenAtMaxGap
  <2> SUFFICES ASSUME plotIn.maxGap > 0,
                      NEW c \in Plots!CurvesOf({"exp234-rtt", "exp234-throughput"})
               PROVE  ~Plots!TooWide(c, plotIn.maxGap)
      BY DEF Plots!BrokenAtMaxGap
  <2>1. PICK f \in Plots!Range(out) : f.name \in {"exp234-rtt", "exp234-throughput"}
                                      /\ c \in Plots!Range(f.curves)
      BY DEF Plots!CurvesOf, Plots!Drawn
  <2> QED BY <2>1, FiguresAreOK DEF FigureOK
<1>3. Plots!AxisIsDivided
  <2> SUFFICES ASSUME NEW f \in Plots!CutFigures, NEW x \in 1..Plots!Largest(Plots!AlgosOf(f.name))
               PROVE  LET y == 100 * x - 50
                      IN  /\ ~Plots!InCut(f, y) => Plots!OnPanel(f, y)
                          /\ Len(f.limits) > 1 /\ Plots!OnPanel(f, y) => ~Plots!InCut(f, y)
      BY DEF Plots!AxisIsDivided
  <2> DEFINE algos == Plots!AlgosOf(f.name)
             largest == Plots!Largest(algos)
             segments == Plots!ResolveSegments(plotIn.cut, largest)
             cuts == Plots!Range(Plots!Cuts(plotIn.cut, largest))
             y == 100 * x - 50
  <2>1. f \in Plots!Range(out) /\ f.name \in CutNames
      BY DEF Plots!CutFigures, Plots!Drawn, CutNames
  <2>2. f.limits = CutPanels[f.name] /\ f.limits # <<>>
      BY <2>1, FiguresAreOK DEF FigureOK
  <2>3. algos # <<>> /\ f.limits = Plots!Limits(segments)
      BY <2>1, <2>2 DEF CutPanels
  <2>4. plotIn \in PlotInputs
      BY DEF FigInv
  <2>5. /\ algos \in Seq(DOMAIN plotIn.dirs)
        /\ \A i \in 1..Len(algos) : Draws(algos[i])
      BY <2>4, AlgosDraw
  <2>6. largest \in Int
    <3> HIDE DEF algos
    <3> QED BY <2>3, <2>4, <2>5, LargestIsNumber
  <2>7. plotIn.cut \in Seq(CutRanges)
      BY <2>4, PlotInputsAre
  <2>8. y \in Int /\ y > 0 /\ x \in 1..largest
      OBVIOUS
  <2>9. /\ Plots!InCut(f, y) <=> \E c \in cuts : 100 * c.lo < y /\ y < 100 * c.hi
        /\ Plots!OnPanel(f, y) <=>
               \E e \in DOMAIN f.limits : f.limits[e][1] < y /\ y < f.limits[e][2]
      BY DEF Plots!InCut, Plots!OnPanel
  <2> HIDE DEF largest
  <2>10. (\E e \in DOMAIN segments : segments[e][1] < y /\ y < segments[e][2])
             <=> ~\E c \in cuts : 100 * c.lo < y /\ y < 100 * c.hi
      BY <2>6, <2>7, <2>8, AxisDivides
  <2>11. segments \in Seq(Int \X Int) /\ segments # <<>>
      BY <2>6, <2>7, PanelsAreThere
  <2> HIDE DEF segments, cuts, y
  <2>12. LET limits == Plots!Limits(segments)
             shown == \E e \in DOMAIN limits : limits[e][1] < y /\ y < limits[e][2]
             inSegment == \E e \in DOMAIN segments : segments[e][1] < y /\ y < segments[e][2]
         IN  /\ inSegment => shown
             /\ Len(limits) > 1 /\ shown => inSegment
      BY <2>8, <2>11, PanelsShowSegments
  <2>13. /\ ~Plots!InCut(f, y) => Plots!OnPanel(f, y)
         /\ Len(f.limits) > 1 /\ Plots!OnPanel(f, y) => ~Plots!InCut(f, y)
      BY <2>3, <2>9, <2>10, <2>12
  <2> QED BY <2>13 DEF y
<1>4. Plots!RaisesForAReason
    BY DEF FigInv, Reason, SweepFiles, IsCut, Plots!RaisesForAReason
<1> QED BY <1>1, <1>2, <1>3, <1>4

\* Whatever the files hold and the options say, a figure draws each step between two
\* samples once, in the colour of gaps where it is wider than the threshold and only
\* there; exp234-rtt and exp234-throughput are not drawn across --max-gap; the panels of
\* exp234-rtt and exp234-zoom show every value --cut leaves, and where they are several
\* none that it takes; and the scripts give up for the four reasons only.
THEOREM FiguresStayTrue == StudySpec => []FiguresShowTheData
<1>1. StudyInit => FigInv
    BY FigInit DEF StudyInit
<1>2. FigInv /\ [StudyNext]_studyVars => FigInv'
  <2> SUFFICES ASSUME FigInv, [StudyNext]_studyVars PROVE FigInv'
      OBVIOUS
  <2>1. Plots!Next \/ UNCHANGED plotVars
      BY DEF StudyNext, studyVars
  <2> QED BY <2>1, FigStep
<1>3. FigInv => FiguresShowTheData
    BY FiguresAreTrue DEF FiguresShowTheData
<1> QED BY <1>1, <1>2, <1>3, PTL DEF StudySpec

-----------------------------------------------------------------------------
\* The types of the zero.

LEMMA FiniteIsBounded ==
    ASSUME NEW S, S \subseteq Int, IsFiniteSet(S)
    PROVE  \E b \in Nat : \A x \in S : 0 <= x + b
<1>1. PICK q \in Seq(S) : \A x \in S : \E i \in 1..Len(q) : q[i] = x
    BY DEF IsFiniteSet
<1> DEFINE sizes == [i \in 1..Len(q) |-> IF q[i] < 0 THEN -q[i] ELSE q[i]]
<1>2. PICK n \in Nat : n = Len(q)
    OBVIOUS
<1>3. \A i \in 1..n : q[i] \in Int
  <2> SUFFICES ASSUME NEW i \in 1..n PROVE q[i] \in Int
      OBVIOUS
  <2>1. q[i] \in S
      BY <1>2
  <2> QED BY <2>1
<1>4. sizes \in Seq(Nat) /\ Len(sizes) = n
      /\ \A i \in 1..n : sizes[i] = IF q[i] < 0 THEN -q[i] ELSE q[i]
    BY <1>2, <1>3
<1> HIDE DEF sizes
<1>5. PICK b \in Nat : \A i \in 1..n : sizes[i] <= b
    BY <1>4, ListIsBounded
<1>6. ASSUME NEW x \in S PROVE 0 <= x + b
  <2>1. PICK i \in 1..n : q[i] = x
      BY <1>1, <1>2
  <2>2. sizes[i] <= b /\ sizes[i] = (IF x < 0 THEN -x ELSE x) /\ x \in Int
      BY <1>3, <1>4, <1>5, <2>1
  <2> QED BY <2>2
<1> QED BY <1>6

Zeros == {Clock!None} \cup Clock!Estimates \cup FirstSamples

ClockTypes ==
    /\ dir.reproduce \in BOOLEAN /\ dir.there \in BOOLEAN
    /\ dir.t0 \in Zeros
    /\ dir.source \in Clock!Modes \cup {"none"}
    /\ dir.firsts \subseteq FirstSamples
    /\ job.step # "idle" => job.mode \in Clock!Modes
    /\ job.step = "opened" => job.t0 \in Zeros
    /\ runs \in 1..MaxRuns
    /\ guessed \in BOOLEAN

LEMMA FirstIsThere ==
    ASSUME NEW d, d.firsts \subseteq FirstSamples
    PROVE  Clock!T0FromFirst(d) \in Zeros
<1>1. CASE d.firsts = {}
    BY <1>1 DEF Clock!T0FromFirst, Zeros
<1>2. CASE d.firsts # {}
  <2>1. FirstSamples \subseteq Int /\ IsFiniteSet(FirstSamples)
      BY RecordersAssumption DEF Clock!FirstSamplesAssumption, Clock!IsFiniteSet, IsFiniteSet
  <2>2. PICK b \in Nat : \A x \in FirstSamples : 0 <= x + b
      BY <2>1, FiniteIsBounded
  <2>3. Clock!Min(d.firsts) \in d.firsts
      BY <1>2, <2>1, <2>2, BoundedMin
  <2> QED BY <1>2, <2>3 DEF Clock!T0FromFirst, Zeros
<1> QED BY <1>1, <1>2

LEMMA ExperimentsAreTyped ==
    ASSUME NEW d \in Clock!Experiment
    PROVE  /\ d.reproduce \in BOOLEAN /\ d.there \in BOOLEAN /\ d.source = "none"
           /\ d.firsts \subseteq FirstSamples
<1>1. PICK r \in BOOLEAN,
           f \in {[there |-> TRUE, t0 |-> 0], [there |-> TRUE, t0 |-> Clock!None],
                  [there |-> FALSE, t0 |-> Clock!None]},
           c \in Clock!Throughputs, s \in Clock!Throughputs, n \in SUBSET FirstSamples :
             d = [reproduce |-> r, there |-> f.there, t0 |-> f.t0, source |-> "none",
                  client |-> c, server |-> s, firsts |-> n]
    BY DEF Clock!Experiment
<1>2. f.there \in BOOLEAN
  <2>1. CASE f = [there |-> TRUE, t0 |-> 0]
      BY <2>1
  <2>2. CASE f = [there |-> TRUE, t0 |-> Clock!None]
      BY <2>2
  <2>3. CASE f = [there |-> FALSE, t0 |-> Clock!None]
      BY <2>3
  <2> QED BY <2>1, <2>2, <2>3
<1>3. d.reproduce = r /\ d.there = f.there /\ d.source = "none" /\ d.firsts = n
    BY <1>1
<1> QED BY <1>2, <1>3

LEMMA ClockTypesInit == Clock!Init => ClockTypes
<1> SUFFICES ASSUME Clock!Init PROVE ClockTypes
    OBVIOUS
<1>1. /\ dir \in Clock!Experiment /\ job = Clock!Idle /\ runs = 1 /\ guessed = FALSE
    BY DEF Clock!Init
<1>2. MaxRuns \in Nat \ {0}
    BY RecordersAssumption DEF Clock!MaxRunsAssumption
<1>3. /\ dir.reproduce \in BOOLEAN /\ dir.there \in BOOLEAN /\ dir.source = "none"
      /\ dir.firsts \subseteq FirstSamples
    BY <1>1, ExperimentsAreTyped
<1>4. dir.t0 \in Zeros
    BY <1>1, ExperimentsAreSound DEF Zeros
<1>5. job.step = "idle"
    BY <1>1 DEF Clock!Idle
<1>6. runs \in 1..MaxRuns
    BY <1>1, <1>2
<1>7. guessed \in BOOLEAN
    BY <1>1
<1> QED BY <1>3, <1>4, <1>5, <1>6, <1>7 DEF ClockTypes

LEMMA ClockTypesStep ==
    ASSUME ClockInv, ClockTypes, Clock!Next \/ UNCHANGED clockVars
    PROVE  ClockTypes'
<1> USE DEF ClockTypes
<1>0. {"reproduce", "there", "t0", "source", "client", "server", "firsts"} \subseteq DOMAIN dir
    BY DEF ClockInv, DirOK
<1>1. CASE Clock!RunLab
  <2>1. /\ dir' \in Clock!Experiment /\ guessed' = FALSE /\ job' = job /\ job = Clock!Idle
        /\ runs < MaxRuns /\ runs' = runs + 1
      BY <1>1 DEF Clock!RunLab
  <2>2. /\ dir'.reproduce \in BOOLEAN /\ dir'.there \in BOOLEAN /\ dir'.source = "none"
        /\ dir'.firsts \subseteq FirstSamples
      BY <2>1, ExperimentsAreTyped
  <2>3. dir'.t0 \in Zeros
      BY <2>1, ExperimentsAreSound DEF Zeros
  <2>4. runs' \in 1..MaxRuns
      BY <2>1, RecordersAssumption DEF Clock!MaxRunsAssumption
  <2>5. job'.step = "idle"
      BY <2>1 DEF Clock!Idle
  <2> QED BY <2>1, <2>2, <2>3, <2>4, <2>5
<1>2. ASSUME NEW mo \in Clock!Modes, NEW fo \in BOOLEAN, Clock!Backfill(mo, fo)
      PROVE  ClockTypes'
  <2>1. /\ job' = [step |-> "opened", mode |-> mo, force |-> fo, t0 |-> Clock!Estimate(mo)]
        /\ dir' = [dir EXCEPT !.there = TRUE, !.t0 = Clock!None]
        /\ guessed' = guessed /\ runs' = runs
      BY <1>2 DEF Clock!Backfill
  <2>2. Clock!Estimate(mo) \in Zeros
    <3>1. Clock!T0FromFirst(dir) \in Zeros
        BY FirstIsThere
    <3>2. Clock!T0FromIperf(dir) \in Zeros
        BY RowsDateTheZero DEF Clock!T0FromIperf, ClockInv, DirOK, Zeros
    <3> QED BY <3>1, <3>2 DEF Clock!Estimate
  <2>3. /\ dir'.reproduce = dir.reproduce /\ dir'.there = TRUE /\ dir'.t0 = Clock!None
        /\ dir'.source = dir.source /\ dir'.firsts = dir.firsts
      BY <1>0, <2>1
  <2>4. job'.mode = mo /\ job'.t0 = Clock!Estimate(mo)
      BY <2>1
  <2>5. Clock!None \in Zeros
      BY DEF Zeros
  <2> QED BY <2>1, <2>2, <2>3, <2>4, <2>5
<1>3. CASE Clock!WriteT0
  <2>1. /\ job.step = "opened" /\ dir' = [dir EXCEPT !.t0 = job.t0]
        /\ guessed' = (job.mode = "first") /\ job' = [job EXCEPT !.step = "written"]
        /\ runs' = runs
      BY <1>3 DEF Clock!WriteT0
  <2>2. /\ dir'.reproduce = dir.reproduce /\ dir'.there = dir.there /\ dir'.t0 = job.t0
        /\ dir'.source = dir.source /\ dir'.firsts = dir.firsts
      BY <1>0, <2>1
  <2>3. job'.step = "written" /\ job'.mode = job.mode
      BY <2>1 DEF ClockInv
  <2>4. guessed' \in BOOLEAN
      BY <2>1
  <2> QED BY <2>1, <2>2, <2>3, <2>4
<1>4. CASE Clock!WriteSource
  <2>1. /\ job.step = "written" /\ dir' = [dir EXCEPT !.source = job.mode] /\ job' = Clock!Idle
        /\ guessed' = guessed /\ runs' = runs
      BY <1>4 DEF Clock!WriteSource
  <2>2. /\ dir'.reproduce = dir.reproduce /\ dir'.there = dir.there /\ dir'.t0 = dir.t0
        /\ dir'.source = job.mode /\ dir'.firsts = dir.firsts
      BY <1>0, <2>1
  <2>3. job'.step = "idle"
      BY <2>1 DEF Clock!Idle
  <2> QED BY <2>1, <2>2, <2>3
<1>5. CASE Clock!Interrupted
  <2>1. job' = Clock!Idle /\ dir' = dir /\ runs' = runs /\ guessed' = guessed
      BY <1>5 DEF Clock!Interrupted
  <2>2. job'.step = "idle"
      BY <2>1 DEF Clock!Idle
  <2> QED BY <2>1, <2>2
<1>6. CASE UNCHANGED clockVars
    BY <1>6 DEF clockVars
<1> QED BY <1>1, <1>2, <1>3, <1>4, <1>5, <1>6 DEF Clock!Next

LEMMA ClockTyped == ASSUME ClockInv, ClockTypes PROVE Clock!TypeOK
    BY DEF ClockInv, DirOK, ClockTypes, Zeros, Clock!TypeOK

\* Each part keeps its variables within their types: the driver, the recorders, the
\* backfill, the figures and the tables, for every value of the constants.
THEOREM LabTypesCorrect == StudySpec => []TypesOK
<1> DEFINE Inv == /\ part = "driver" => LabInv
                  /\ RttInv /\ PumpInv /\ ClockInv /\ ClockTypes /\ FigInv /\ TableInv
<1>1. StudyInit => Inv
    BY LabInit, RttInit, PumpInit, ClockInit, ClockTypesInit, FigInit, TableInit DEF StudyInit
<1>2. Inv /\ [StudyNext]_studyVars => Inv'
  <2> SUFFICES ASSUME Inv, [StudyNext]_studyVars PROVE Inv'
      OBVIOUS
  <2>1. (part = "driver" => LabInv)'
    <3>1. part' = part /\ ([Next]_vars \/ part # "driver")
        BY DEF StudyNext, studyVars
    <3> QED BY <3>1, LabStep
  <2>2. RttInv'
    <3>1. Rtt!Next \/ UNCHANGED rttVars
        BY DEF StudyNext, studyVars
    <3> QED BY <3>1, RttStep
  <2>3. PumpInv'
    <3>1. Pump!Next \/ UNCHANGED pumpVars
        BY DEF StudyNext, studyVars
    <3> QED BY <3>1, PumpStep
  <2>4. ClockInv' /\ ClockTypes'
    <3>1. Clock!Next \/ UNCHANGED clockVars
        BY DEF StudyNext, studyVars
    <3> QED BY <3>1, ClockStep, ClockTypesStep
  <2>5. FigInv'
    <3>1. Plots!Next \/ UNCHANGED plotVars
        BY DEF StudyNext, studyVars
    <3> QED BY <3>1, FigStep
  <2>6. TableInv'
    <3>1. Compare!Next \/ UNCHANGED tableVars
        BY DEF StudyNext, studyVars
    <3> QED BY <3>1, TableStep
  <2> QED BY <2>1, <2>2, <2>3, <2>4, <2>5, <2>6
<1>3. Inv => TypesOK
    BY LabInvIsSafe, RttInvIsSafe, PumpInvIsSafe, ClockTyped, FigTyped, TableInvIsSafe DEF TypesOK
<1> QED BY <1>1, <1>2, <1>3, PTL DEF StudySpec
=============================================================================
