-------------------------- MODULE BenchmarkHarness --------------------------
(***************************************************************************)
(* benchmark.cc around the store it drives: Benchmark::Run executes the    *)
(* benchmarks one after the other, each in RunBenchmark with its worker    *)
(* threads, the barrier in SharedState that starts and collects them, the  *)
(* statistics they keep without a lock and the main thread merges, and the *)
(* thread of MemoryChecker.  shared, the MemoryChecker and the workers'    *)
(* ThreadStates are locals of RunBenchmark.                                *)
(*                                                                         *)
(* The store answers each operation with success (kNotFound included), or  *)
(* with an error, after which the program exits.  A Write that times out   *)
(* is retried and changes nothing here.                                    *)
(***************************************************************************)
EXTENDS Naturals, Sequences, FiniteSets

CONSTANTS NumThreads,   \* FLAGS_threads
          Num,          \* FLAGS_num, the operations of a thread
          Benchmarks,   \* FLAGS_benchmarks, in order
          Rss,          \* what GetRss may return, in MB
          MaxTime       \* bound: the clock NowMicros reads

ASSUME HarnessParameters == /\ NumThreads \in Nat \ {0}
                            /\ Num \in Nat
                            /\ Rss \subseteq Nat
ASSUME KnownBenchmarks ==
    Benchmarks \in Seq({"fillrandom", "readrandom", "readseq"})
ASSUME HarnessBounds == MaxTime \in Nat

Threads == 0..(NumThreads - 1)
Main == NumThreads      \* the main thread, where it waits like the others
NoHist == NumThreads    \* no histogram in hist_

VARIABLES
    main,        \* program counter of the main thread, the benchmark it runs,
                 \* the next thread to spawn or to merge
    shared,      \* SharedState: its counters and its flag
    waiting,     \* threads that sleep on shared.cv and are not notified
    worker,      \* program counter of each worker
    ops,         \* Duration::ops_ of each worker
    stats,       \* the Stats of each worker
    merge_stats, \* merge_stats of RunBenchmark
    hist,        \* the histogram each worker makes: its count and its sum
    checker,     \* MemoryChecker and its thread
    g_max_memory,
    clock,       \* NowMicros
    created,     \* history: when each ThreadState was made
    peak         \* history: the greatest value GetRss returned

barrier == <<shared, waiting>>
timing == <<clock, created>>
memory == <<checker, g_max_memory, peak>>
measures == <<stats, hist, merge_stats>>
vars == <<main, barrier, worker, ops, measures, memory, timing>>

GreaterOf(a, b) == IF a >= b THEN a ELSE b
LesserOf(a, b) == IF a <= b THEN a ELSE b

(* exit() ends every thread.                                               *)
Running == main.pc # "exit"
At(pc) == main.pc = pc

(* Stats::Start, whose last_op_finish_ is what start_ was before.          *)
Start(last_op) == [start |-> clock, finish |-> clock, last_op |-> last_op,
                   done |-> 0, hist |-> NoHist]

NoThreads == [t \in Threads |-> "none"]

Init ==
    /\ clock = 0
    /\ main = [pc |-> "next", bench |-> 0, i |-> 0]
    /\ shared = [num_initialized |-> 0, num_done |-> 0, start |-> FALSE]
    /\ waiting = {}
    /\ worker = NoThreads
    /\ ops = [t \in Threads |-> 0]
    /\ stats = [t \in Threads |-> Start(0)]
    /\ merge_stats = Start(0)
    /\ hist = [t \in Threads |-> [num |-> 0, sum |-> 0]]
    /\ checker = [pc |-> "none", stop |-> FALSE, max |-> 0, ops |-> 0]
    /\ g_max_memory = 0
    /\ created = [t \in Threads |-> 0]
    /\ peak = 0

Tick == /\ Running
        /\ clock < MaxTime
        /\ clock' = clock + 1
        /\ UNCHANGED <<main, barrier, worker, ops, measures, memory, created>>
------------------------------------------------------------------------------
(* The main thread: Run and RunBenchmark                                   *)

(* Run opens the store for the next benchmark and enters RunBenchmark.     *)
NextBenchmark ==
    /\ At("next")
    /\ main.bench < Len(Benchmarks)
    /\ main' = [pc |-> "spawn", bench |-> main.bench + 1, i |-> 0]
    /\ shared' = [num_initialized |-> 0, num_done |-> 0, start |-> FALSE]
    /\ checker' = [pc |-> "loop", stop |-> FALSE, max |-> 0, ops |-> 0]
    /\ worker' = NoThreads
    /\ UNCHANGED <<waiting, ops, measures, g_max_memory, peak, timing>>

(* The store, or the directory, cannot be opened.                          *)
OpenFails == /\ At("next")
             /\ main.bench < Len(Benchmarks)
             /\ main' = [main EXCEPT !.pc = "exit"]
             /\ UNCHANGED <<barrier, worker, ops, measures, memory, timing>>

(* A ThreadState is made, whose Stats start a first time with a start_ that *)
(* nobody has set, and a thread for it.                                    *)
Spawn ==
    /\ At("spawn")
    /\ main.i < NumThreads
    /\ \E junk \in {0, MaxTime} :
          stats' = [stats EXCEPT ![main.i] = Start(junk)]
    /\ hist' = [hist EXCEPT ![main.i] = [num |-> 0, sum |-> 0]]
    /\ created' = [created EXCEPT ![main.i] = clock]
    /\ worker' = [worker EXCEPT ![main.i] = "created"]
    /\ main' = [main EXCEPT !.i = @ + 1]
    /\ UNCHANGED <<barrier, ops, merge_stats, memory, clock>>

(* The main thread waits until every worker has arrived, then lets them go *)
(* and waits again: wait(lk) releases shared.mu, the loop rechecks.        *)
StartWorkers ==
    /\ At("spawn")
    /\ main.i = NumThreads
    /\ Main \notin waiting
    /\ IF shared.num_initialized < NumThreads
       THEN /\ waiting' = waiting \cup {Main}
            /\ UNCHANGED <<main, shared>>
       ELSE /\ shared' = [shared EXCEPT !.start = TRUE]
            /\ waiting' = {}
            /\ main' = [main EXCEPT !.pc = "collect"]
    /\ UNCHANGED <<worker, ops, measures, memory, timing>>

(* Collecting them makes merge_stats, which start with the present time.   *)
CollectOnWakeup ==
    /\ At("collect")
    /\ Main \notin waiting
    /\ main' = [main EXCEPT !.pc = "merge", !.i = 0]
    /\ merge_stats' = Start(0)
    /\ UNCHANGED <<barrier, worker, ops, stats, hist, memory, timing>>

Collect ==
    /\ At("collect")
    /\ Main \notin waiting
    /\ IF shared.num_done < NumThreads
       THEN /\ waiting' = waiting \cup {Main}
            /\ UNCHANGED <<main, merge_stats>>
       ELSE /\ main' = [main EXCEPT !.pc = "merge", !.i = 0]
            /\ \E junk \in {0, MaxTime} : merge_stats' = Start(junk)
            /\ UNCHANGED waiting
    /\ UNCHANGED <<shared, worker, ops, stats, hist, memory, timing>>

(* Merge takes over the first histogram itself, by its shared_ptr, and     *)
(* adds the others to it.                                                  *)
MergedHist(other) ==
    IF NoHist \in {merge_stats.hist, other.hist} THEN hist
    ELSE [hist EXCEPT ![merge_stats.hist] =
            [num |-> @.num + hist[other.hist].num,
             sum |-> @.sum + hist[other.hist].sum]]

MergedStatsLatest(other) ==
    [merge_stats EXCEPT
        !.hist = IF @ = NoHist THEN other.hist ELSE @,
        !.done = @ + other.done,
        !.start = GreaterOf(@, other.start),
        !.finish = GreaterOf(@, other.finish)]

MergedStats(other) ==
    [merge_stats EXCEPT
        !.hist = IF @ = NoHist THEN other.hist ELSE @,
        !.done = @ + other.done,
        !.start = LesserOf(@, other.start),
        !.finish = GreaterOf(@, other.finish)]

Merge == /\ At("merge")
         /\ main.i < NumThreads
         /\ merge_stats' = MergedStats(stats[main.i])
         /\ hist' = MergedHist(stats[main.i])
         /\ main' = [main EXCEPT !.i = @ + 1]
         /\ UNCHANGED <<barrier, worker, ops, stats, memory, timing>>

(* Report pretends that at least one operation was done; then the          *)
(* ThreadStates are deleted and RunBenchmark returns.                      *)
Report == /\ At("merge")
          /\ main.i = NumThreads
          /\ merge_stats' = [merge_stats EXCEPT !.done = GreaterOf(@, 1)]
          /\ main' = [main EXCEPT !.pc = "destroy"]
          /\ UNCHANGED <<barrier, worker, ops, stats, hist, memory, timing>>

(* ~MemoryChecker, in two steps: stop_, then the join.                     *)
StopChecker == /\ At("destroy")
               /\ checker' = [checker EXCEPT !.stop = TRUE]
               /\ main' = [main EXCEPT !.pc = "join"]
               /\ UNCHANGED <<barrier, worker, ops, measures, g_max_memory,
                              peak, timing>>

JoinChecker ==
    /\ At("join")
    /\ checker.pc = "exited"
    /\ g_max_memory' = GreaterOf(g_max_memory, checker.max)
    /\ main' = [main EXCEPT !.pc = "next"]
    /\ UNCHANGED <<barrier, worker, ops, measures, checker, peak, timing>>

MainThread == \/ NextBenchmark \/ OpenFails \/ Spawn \/ StartWorkers
              \/ Collect \/ Merge \/ Report \/ StopChecker \/ JoinChecker
------------------------------------------------------------------------------
(* The workers: ThreadBody                                                 *)

(* Who still sleeps after a worker that counted n has notified, or not.    *)
NotNotifiedOne(n) == IF n < NumThreads \/ waiting = {} THEN waiting
                     ELSE waiting \ {CHOOSE t \in waiting : TRUE}

NotNotified(n) == IF n >= NumThreads THEN {} ELSE waiting

(* The worker is counted, and waits for the start in the same critical     *)
(* section.                                                                *)
Arrive(t) ==
    /\ Running
    /\ worker[t] = "created"
    /\ shared' = [shared EXCEPT !.num_initialized = @ + 1]
    /\ waiting' = NotNotified(shared'.num_initialized)
                     \cup (IF shared.start THEN {} ELSE {t})
    /\ worker' = [worker EXCEPT ![t] = "waits"]
    /\ UNCHANGED <<main, ops, measures, memory, timing>>

(* It wakes up and looks at start again.                                   *)
LeaveBarrierOnWakeup(t) ==
    /\ Running
    /\ worker[t] = "waits"
    /\ t \notin waiting
    /\ worker' = [worker EXCEPT ![t] = "starts"]
    /\ UNCHANGED <<main, barrier, ops, measures, memory, timing>>

LeaveBarrier(t) ==
    /\ Running
    /\ worker[t] = "waits"
    /\ t \notin waiting
    /\ IF shared.start
       THEN /\ worker' = [worker EXCEPT ![t] = "starts"]
            /\ UNCHANGED waiting
       ELSE /\ waiting' = waiting \cup {t}
            /\ UNCHANGED worker
    /\ UNCHANGED <<main, shared, ops, measures, memory, timing>>

(* wait() may return without a notification.                               *)
WakeUpSpuriously == /\ Running
                    /\ \E t \in waiting : waiting' = waiting \ {t}
                    /\ UNCHANGED <<main, shared, worker, ops, measures, memory,
                                   timing>>

(* The Stats start a second time, then the method makes its Duration.      *)
StartStats(t) ==
    /\ Running
    /\ worker[t] = "starts"
    /\ stats' = [stats EXCEPT ![t] = Start(stats[t].start)]
    /\ ops' = [ops EXCEPT ![t] = 0]
    /\ worker' = [worker EXCEPT ![t] = "runs"]
    /\ UNCHANGED <<main, barrier, hist, merge_stats, memory, timing>>

(* Duration::Done(1): it counts, then compares.  max_seconds_ is 0, since  *)
(* no flag sets FLAGS_duration.                                            *)
Done(t) == ops[t] + 1 > Num

Method == Benchmarks[main.bench]

(* Stats::FinishedOps: the latency reaches back to the last operation.     *)
FinishedOps(t) ==
    /\ checker' = [checker EXCEPT !.ops = @ + 1]
    /\ hist' = [hist EXCEPT ![t] =
                  [num |-> @.num + 1,
                   sum |-> @.sum + (clock - stats[t].last_op)]]
    /\ stats' = [stats EXCEPT ![t].hist = t, ![t].last_op = clock,
                              ![t].done = @ + 1]

(* One round of the loop of DoWrite or ReadRandom.                         *)
Operate(t) ==
    /\ Running
    /\ worker[t] = "runs"
    /\ Method # "readseq"
    /\ ~Done(t)
    /\ ops' = [ops EXCEPT ![t] = @ + 1]
    /\ FinishedOps(t)
    /\ UNCHANGED <<main, barrier, worker, merge_stats, g_max_memory, peak,
                   timing>>

(* An operation fails: exit(1).                                            *)
OperationFails(t) ==
    /\ Running
    /\ worker[t] = "runs"
    /\ Method # "readseq"
    /\ ~Done(t)
    /\ main' = [main EXCEPT !.pc = "exit"]
    /\ UNCHANGED <<barrier, worker, ops, measures, memory, timing>>

(* The method returns, ReadSequential without a visit to its visitor,      *)
(* since Range visits nothing; and Stats::Stop.                            *)
StopStats(t) ==
    /\ Running
    /\ worker[t] = "runs"
    /\ Method = "readseq" \/ Done(t)
    /\ stats' = [stats EXCEPT ![t].finish = clock]
    /\ worker' = [worker EXCEPT ![t] = "stopped"]
    /\ UNCHANGED <<main, barrier, ops, hist, merge_stats, memory, timing>>

Finish(t) ==
    /\ Running
    /\ worker[t] = "stopped"
    /\ shared' = [shared EXCEPT !.num_done = @ + 1]
    /\ waiting' = NotNotified(shared'.num_done)
    /\ worker' = [worker EXCEPT ![t] = "exited"]
    /\ UNCHANGED <<main, ops, measures, memory, timing>>

Worker(t) == \/ Arrive(t) \/ LeaveBarrier(t) \/ StartStats(t) \/ Operate(t)
             \/ OperationFails(t) \/ StopStats(t) \/ Finish(t)
------------------------------------------------------------------------------
(* The thread of MemoryChecker: SleepAndReport                             *)

(* It holds mutex_ from the test of stop_ into the wait.                   *)
CheckStop == /\ Running
             /\ checker.pc = "loop"
             /\ checker' = [checker EXCEPT
                              !.pc = IF checker.stop THEN "exited"
                                                     ELSE "sleeps"]
             /\ UNCHANGED <<main, barrier, worker, ops, measures,
                            g_max_memory, peak, timing>>

(* wait_for times out: a sample.                                           *)
Sample == /\ Running
          /\ checker.pc = "sleeps"
          /\ ~checker.stop
          /\ \E rss \in Rss :
                /\ checker' = [checker EXCEPT !.pc = "loop",
                                              !.max = GreaterOf(@, rss)]
                /\ peak' = GreaterOf(peak, rss)
          /\ UNCHANGED <<main, barrier, worker, ops, measures, g_max_memory,
                         timing>>

(* wait_for returns TRUE, notified or at the end of its interval.          *)
StopsSampling == /\ Running
                 /\ checker.pc = "sleeps"
                 /\ checker.stop
                 /\ checker' = [checker EXCEPT !.pc = "exited"]
                 /\ UNCHANGED <<main, barrier, worker, ops, measures,
                                g_max_memory, peak, timing>>

CheckerThread == CheckStop \/ Sample \/ StopsSampling
------------------------------------------------------------------------------
Next == \/ MainThread
        \/ \E t \in Threads : Worker(t)
        \/ WakeUpSpuriously
        \/ CheckerThread
        \/ Tick

Spec == Init /\ [][Next]_vars

(* Every thread is scheduled; an operation that is retried succeeds in the *)
(* end.                                                                    *)
FairSpec == /\ Spec
            /\ WF_vars(MainThread)
            /\ \A t \in Threads : WF_vars(Worker(t))
            /\ WF_vars(CheckerThread)
------------------------------------------------------------------------------
StatsType == [start : 0..MaxTime, finish : 0..MaxTime, last_op : 0..MaxTime,
              done : Nat, hist : 0..NumThreads]

(* Every variable keeps its type; no thread is counted twice at the        *)
(* barrier.                                                                *)
TypeOK ==
    /\ main \in [pc : {"next", "spawn", "collect", "merge", "destroy", "join",
                       "exit"},
                 bench : 0..Len(Benchmarks), i : 0..NumThreads]
    /\ shared \in [num_initialized : 0..NumThreads, num_done : 0..NumThreads,
                   start : BOOLEAN]
    /\ waiting \subseteq 0..NumThreads
    /\ worker \in [Threads -> {"none", "created", "waits", "starts", "runs",
                               "stopped", "exited"}]
    /\ ops \in [Threads -> 0..Num]
    /\ stats \in [Threads -> StatsType]
    /\ merge_stats \in StatsType
    /\ hist \in [Threads -> [num : Nat, sum : Nat]]
    /\ checker \in [pc : {"none", "loop", "sleeps", "exited"},
                    stop : BOOLEAN, max : Nat, ops : Nat]
    /\ g_max_memory \in Nat
    /\ clock \in 0..MaxTime
    /\ created \in [Threads -> 0..MaxTime]
    /\ peak \in Nat

(* No worker runs before all have arrived and the main thread has said so, *)
(* whatever wakes them (the comment on SharedState lists the states).      *)
BarrierHolds ==
    \A t \in Threads :
        worker[t] \in {"starts", "runs", "stopped", "exited"} =>
            shared.start /\ shared.num_initialized = NumThreads

(* The main thread reads the workers' Stats, and destroys them, shared and *)
(* the MemoryChecker, only when the threads that use them are done.        *)
LocalsOutliveTheirThreads ==
    /\ main.pc \in {"merge", "destroy", "join", "next"} =>
          \A t \in Threads : worker[t] \in {"none", "exited"}
    /\ At("next") => checker.pc \in {"none", "exited"}

AllMerged == At("merge") /\ main.i = NumThreads

Operations == IF Method = "readseq" THEN 0 ELSE NumThreads * Num

(* The merged Stats, the histogram they took over from one thread, and the *)
(* counter of the MemoryChecker agree on the operations that were asked    *)
(* for.                                                                    *)
MergeIsComplete ==
    AllMerged =>
        /\ merge_stats.done = Operations
        /\ checker.ops = Operations
        /\ IF merge_stats.hist = NoHist THEN Operations = 0
           ELSE hist[merge_stats.hist].num = Operations

(* The latencies of a thread leave out no time since it started, and count *)
(* none twice: they reach from the making of its ThreadState, or later, to *)
(* its last operation.                                                     *)
LatenciesAddUp ==
    At("collect") =>
        \A t \in Threads :
            stats[t].hist # NoHist =>
                /\ hist[t].sum <= stats[t].last_op - created[t]
                /\ hist[t].sum >= stats[t].last_op - stats[t].start

(* The elapsed time that a report divides by begins with the first worker  *)
(* and does not end before the last (Report: "actual elapsed time").       *)
ElapsedCoversWorkers ==
    AllMerged =>
        /\ \A t \in Threads : /\ merge_stats.start <= stats[t].start
                              /\ merge_stats.finish >= stats[t].finish
        /\ \E t \in Threads : merge_stats.start = stats[t].start

(* Between two benchmarks g_max_memory is the greatest sample of all of    *)
(* them.                                                                   *)
PeakKept == At("next") => g_max_memory = peak

(* What a benchmark reports of its threads is what they did: every         *)
(* operation, all the time they took, and the memory they reached, though  *)
(* the Stats are started late, merged into the first of them and reported  *)
(* from shared histograms.                                                 *)
ReportIsTrue == MergeIsComplete /\ LatenciesAddUp /\ ElapsedCoversWorkers /\ PeakKept

(* Why the properties above hold; an inductive invariant in named parts.   *)

Arrived == {t \in Threads : worker[t] \notin {"none", "created"}}
Finished == {t \in Threads : worker[t] = "exited"}

(* The counters of SharedState count workers, start is set when all have   *)
(* arrived, and threads are spawned in order.                              *)
BarrierCounts ==
    /\ shared.num_initialized = Cardinality(Arrived)
    /\ shared.num_done = Cardinality(Finished)
    /\ shared.start => shared.num_initialized = NumThreads
    /\ At("collect") => shared.start
    /\ At("spawn") => \A t \in Threads : t >= main.i => worker[t] = "none"
    /\ main.pc \in {"merge", "destroy", "join"} =>
          \A t \in Threads : worker[t] = "exited"

(* Operations of a worker that has returned.                               *)
Share == IF Method = "readseq" THEN 0 ELSE Num

(* What a worker's Stats and histogram are until they are merged.          *)
FreshStats(t) ==
    /\ created[t] <= clock
    /\ stats[t].start = created[t]
    /\ stats[t].done = 0
    /\ stats[t].hist = NoHist
    /\ hist[t] = [num |-> 0, sum |-> 0]

StartedStats(t) ==
    /\ created[t] <= stats[t].start /\ stats[t].start <= clock
    /\ created[t] <= stats[t].last_op /\ stats[t].last_op <= clock
    /\ stats[t].done = ops[t]
    /\ stats[t].hist = IF ops[t] = 0 THEN NoHist ELSE t
    /\ Method = "readseq" => ops[t] = 0
    /\ main.pc \in {"spawn", "collect"} =>
          hist[t] = [num |-> ops[t], sum |-> stats[t].last_op - created[t]]

ThreadStats(t) ==
    /\ worker[t] \in {"created", "waits", "starts"} => FreshStats(t)
    /\ worker[t] \in {"runs", "stopped", "exited"} => StartedStats(t)
    /\ worker[t] \in {"stopped", "exited"} => ops[t] = Share

WorkerStats == \A t \in Threads : ThreadStats(t)

(* The counter of the MemoryChecker is the sum of the workers' operations: *)
(* sum[n] is that of the first n.                                          *)
Counted(t) == IF worker[t] = "none" THEN 0 ELSE stats[t].done

CheckerCounts ==
    \E sum \in [0..NumThreads -> 0..checker.ops] :
        /\ sum[0] = 0
        /\ \A t \in Threads : sum[t + 1] = sum[t] + Counted(t)
        /\ sum[NumThreads] = checker.ops

(* The first main.i Stats are merged, the first histogram holds them all.  *)
MergedSoFar ==
    At("merge") =>
        /\ merge_stats.done = main.i * Share
        /\ merge_stats.hist = IF main.i = 0 \/ Share = 0 THEN NoHist ELSE 0
        /\ \A t \in Threads :
              hist[t].num = IF t = 0 /\ main.i > 0 THEN main.i * Share ELSE Share
        /\ \A t \in Threads :
              /\ main.i = 0 => stats[t].start <= merge_stats.start
              /\ t < main.i => /\ merge_stats.start <= stats[t].start
                               /\ merge_stats.finish >= stats[t].finish
        /\ main.i > 0 =>
              \E t \in Threads : t < main.i /\ merge_stats.start = stats[t].start

PeakSoFar == peak = GreaterOf(g_max_memory, checker.max)

HarnessInductive ==
    /\ TypeOK
    /\ BarrierCounts /\ BarrierHolds /\ LocalsOutliveTheirThreads
    /\ WorkerStats
    /\ CheckerCounts
    /\ MergedSoFar
    /\ PeakSoFar /\ PeakKept

(* All benchmarks are run, unless one fails: no wait at the barrier or for *)
(* the thread of the MemoryChecker lasts for ever.                         *)
AllBenchmarksRun ==
    <>(At("exit") \/ (At("next") /\ main.bench = Len(Benchmarks)))
==============================================================================
