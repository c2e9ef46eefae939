------------------------------ MODULE RttMonitor ------------------------------
(* The monitor of the round trip time: rtt_monitor_single of run_lab.py with its two *)
(* fallbacks, one probe at a time and the threads of utils.py, from its start to the   *)
(* SIGTERM of stop_rtt_monitor. The path from h1 to h2 and back keeps the order of      *)
(* the probes and may lose any of them.                                                   *)
EXTENDS Integers, Sequences, SequencesExt, FiniteSets

CONSTANTS MaxTime       \* bound on the clock

\* What the constants are; the module that brings the parts together assumes it.
MaxTimeAssumption == MaxTime \in Nat

VARIABLES
    clock,
    mode,       \* "probing", "spawned", "opened", "single", "stopwait" or "threads"
    attempts,   \* the probes of _rtt_probe_ok that were not answered
    alive,      \* the monitor process
    ping,       \* the ping it has started: "none", "runs" or "gone"
    path,       \* the probes on their way, as the times they were sent
    sent,       \* all probes
    answers,    \* the answers printed and not yet taken: [sent, arrived]
    file        \* the times in rtt.txt, line by line

vars == <<clock, mode, attempts, alive, ping, path, sent, answers, file>>

Attempts == 4
Modes == {"probing", "spawned", "opened", "single", "stopwait", "threads"}

TypeOK ==
    /\ clock \in 0..MaxTime
    /\ mode \in Modes
    /\ attempts \in 0..Attempts
    /\ alive \in BOOLEAN
    /\ ping \in {"none", "runs", "gone"}
    /\ sent \subseteq 0..clock
    /\ Range(path) \subseteq sent
    /\ \A a \in Range(answers) : a.sent \in sent /\ a.arrived \in a.sent..clock
    /\ Range(file) \subseteq 0..clock
    /\ mode = "stopwait" => Len(path) + Len(answers) <= 1

-----------------------------------------------------------------------------
Init ==
    /\ clock = 0 /\ mode = "probing" /\ attempts = 0
    /\ alive = TRUE /\ ping = "none"
    /\ path = <<>> /\ sent = {} /\ answers = <<>> /\ file = <<>>

Tick ==
    /\ clock < MaxTime
    /\ clock' = clock + 1
    /\ UNCHANGED <<mode, attempts, alive, ping, path, sent, answers, file>>

\* _rtt_probe_ok: an answer with the stamp of -D, one without, or none, up to four
\* times. (The answer is read from the shell of h1, which others use as well.)
Probe ==
    /\ alive /\ mode = "probing"
    /\ \/ mode' = "spawned" /\ UNCHANGED attempts
       \/ mode' = "stopwait" /\ UNCHANGED attempts
       \/ /\ attempts' = attempts + 1
          /\ mode' = IF attempts + 1 = Attempts THEN "threads" ELSE "probing"
    /\ UNCHANGED <<clock, alive, ping, path, sent, answers, file>>

\* popen of ping -D; the file and the handler of SIGTERM come after it.
Spawn ==
    /\ alive /\ mode = "spawned"
    /\ ping = "none"
    /\ ping' = "runs"
    /\ mode' = "opened"
    /\ UNCHANGED <<clock, attempts, alive, path, sent, answers, file>>

InstallHandler ==
    /\ alive /\ mode = "opened"
    /\ mode' = "single"
    /\ UNCHANGED <<clock, attempts, alive, ping, path, sent, answers, file>>

Send == sent' = sent \cup {clock} /\ path' = Append(path, clock)

\* ping sends at its interval, whoever reads what it prints.
PingSends ==
    /\ ping = "runs" /\ clock \notin sent
    /\ Send
    /\ UNCHANGED <<clock, mode, attempts, alive, ping, answers, file>>

\* rtt_monitor: a thread for each interval.
ThreadSends ==
    /\ alive /\ mode = "threads" /\ clock \notin sent
    /\ Send
    /\ UNCHANGED <<clock, mode, attempts, alive, ping, answers, file>>

\* Mutant: the next probe does not wait for the last.
SendWithoutWait ==
    /\ alive /\ mode = "stopwait" /\ clock \notin sent
    /\ Send
    /\ UNCHANGED <<clock, mode, attempts, alive, ping, answers, file>>

\* rtt_monitor_stopwait: cmd returns with the answer or after two seconds.
StopWaitSends ==
    /\ alive /\ mode = "stopwait" /\ clock \notin sent
    /\ path = <<>> /\ answers = <<>>
    /\ Send
    /\ UNCHANGED <<clock, mode, attempts, alive, ping, answers, file>>

\* The path answers its oldest probe, or loses it.
Answered ==
    /\ path # <<>>
    /\ path' = Tail(path)
    /\ answers' = Append(answers, [sent |-> Head(path), arrived |-> clock])
    /\ UNCHANGED <<clock, mode, attempts, alive, ping, sent, file>>

Lost ==
    /\ path # <<>>
    /\ path' = Tail(path)
    /\ UNCHANGED <<clock, mode, attempts, alive, ping, sent, answers, file>>

\* Mutant: the line keeps the stamp that -D printed.
StampOfArrival(a) == a.arrived

\* A line of ping is stamped with the arrival, less the round trip it reports.
Stamp(a) == a.arrived - (a.arrived - a.sent)

\* The single process and the single probe take the answers as they are printed.
WriteLine ==
    /\ alive /\ mode \in {"single", "stopwait"}
    /\ answers # <<>>
    /\ file' = Append(file, Stamp(Head(answers)))
    /\ answers' = Tail(answers)
    /\ UNCHANGED <<clock, mode, attempts, alive, ping, path, sent>>

\* ping_and_write_thread: any of the threads with an answer is the next to write.
ThreadWrites ==
    /\ alive /\ mode = "threads"
    /\ \E i \in DOMAIN answers :
        /\ file' = Append(file, answers[i].sent)
        /\ answers' = RemoveAt(answers, i)
    /\ UNCHANGED <<clock, mode, attempts, alive, ping, path, sent>>

\* SIGTERM: once it is there, the handler kills the ping before it exits.
Terminate ==
    /\ alive
    /\ alive' = FALSE
    /\ ping' = IF mode = "single" THEN "gone" ELSE ping
    /\ UNCHANGED <<clock, mode, attempts, path, sent, answers, file>>

Next ==
    \/ Tick
    \/ Probe \/ Spawn \/ InstallHandler
    \/ PingSends \/ ThreadSends \/ StopWaitSends
    \/ Answered \/ Lost
    \/ WriteLine \/ ThreadWrites
    \/ Terminate

Spec == Init /\ [][Next]_vars

-----------------------------------------------------------------------------
\* The order of the lines is the order of sending, and their stamps are the times of
\* sending (run_lab.py:10), unless the monitor has fallen back to the threads because
\* four probes went unanswered.
LinesInSendOrder ==
    \/ /\ \A i \in 1..(Len(file) - 1) : file[i] < file[i + 1]
       /\ Range(file) \subseteq sent
    \/ mode = "threads" /\ attempts = Attempts

\* A ping outlives its monitor only if the monitor had written nothing yet: once
\* there is a sample, stopping the monitor stops the probing.
NoPingAfterSamples == ~alive /\ file # <<>> => ping # "runs"

-----------------------------------------------------------------------------
\* What the documentation says and the code does not do. No run is about it.

\* run_lab.py:399: the fallback to the threads says six probes have failed.
SixProbesBeforeThreads == mode = "threads" => attempts = 6
=============================================================================
