---------------------- MODULE BenchmarkHarness_proof ----------------------
(***************************************************************************)
(* Theorems about BenchmarkHarness, for any number of threads and of       *)
(* operations, any list of benchmarks and any samples of the memory.       *)
(***************************************************************************)
EXTENDS BenchmarkHarness, FiniteSetTheorems, WellFoundedInduction, TLAPS

(* Induction over the naturals, for a set instead of a predicate.          *)
LEMMA InductionOnSets ==
    ASSUME NEW S, 0 \in S, \A n \in Nat : n \in S => n + 1 \in S
    PROVE  Nat \subseteq S
<1> DEFINE T == Nat \ S
           R == OpToRel(<, Nat)
<1> SUFFICES ASSUME T # {} PROVE FALSE
  OBVIOUS
<1>1. IsWellFoundedOn(R, Nat)
  BY NatLessThanWellFounded
<1>2. T \subseteq Nat
  OBVIOUS
<1>3. PICK m \in T : \A k \in T : ~(<<k, m>> \in R)
  <2> HIDE DEF R, T
  <2> QED BY <1>1, <1>2, WFMin
<1>4. \A k \in T : ~(k < m)
  BY <1>3 DEF OpToRel
<1>5. m # 0 /\ m - 1 \in Nat /\ m - 1 < m /\ (m - 1) + 1 = m
  OBVIOUS
<1>6. m - 1 \in S
  BY <1>4, <1>5
<1> QED BY <1>5, <1>6

(* The threads are finitely many, and NumThreads counts them.              *)
LEMMA ThreadFacts ==
    /\ NumThreads \in Nat /\ NumThreads > 0 /\ Num \in Nat /\ MaxTime \in Nat
    /\ \A t : t \in Threads <=> t \in Nat /\ t < NumThreads
    /\ IsFiniteSet(Threads) /\ Cardinality(Threads) = NumThreads
    /\ \A S \in SUBSET Threads :
          /\ IsFiniteSet(S)
          /\ Cardinality(S) \in Nat /\ Cardinality(S) <= NumThreads
          /\ Cardinality(S) >= NumThreads => S = Threads
          /\ \A t \in Threads : t \notin S =>
                Cardinality(S \cup {t}) = Cardinality(S) + 1
<1>1. /\ NumThreads \in Nat /\ NumThreads > 0 /\ Num \in Nat /\ MaxTime \in Nat
      /\ NumThreads - 1 \in Int
  BY HarnessParameters, HarnessBounds
<1>2. \A t : t \in Threads <=> t \in Nat /\ t < NumThreads
  BY <1>1 DEF Threads
<1>3. IsFiniteSet(Threads) /\ Cardinality(Threads) = NumThreads
  BY <1>1, FS_Interval DEF Threads
<1>4. ASSUME NEW S \in SUBSET Threads
      PROVE  /\ IsFiniteSet(S)
             /\ Cardinality(S) \in Nat /\ Cardinality(S) <= NumThreads
             /\ Cardinality(S) >= NumThreads => S = Threads
             /\ \A t \in Threads : t \notin S =>
                   Cardinality(S \cup {t}) = Cardinality(S) + 1
  <2>1. /\ IsFiniteSet(S) /\ Cardinality(S) <= NumThreads
        /\ Cardinality(Threads) = Cardinality(S) => S = Threads
    BY <1>3, FS_Subset
  <2>2. Cardinality(S) \in Nat
    BY <2>1, FS_CardinalityType
  <2>3. Cardinality(S) >= NumThreads => S = Threads
    BY <1>1, <1>3, <2>1, <2>2
  <2>4. \A t \in Threads : t \notin S =>
           Cardinality(S \cup {t}) = Cardinality(S) + 1
    BY <2>1, FS_AddElement
  <2> QED BY <2>1, <2>2, <2>3, <2>4
<1> QED BY <1>1, <1>2, <1>3, <1>4

(* The fields of the records are what their types say.                     *)
LEMMA HarnessShapes ==
    ASSUME TypeOK
    PROVE  /\ main.bench \in 0 .. Len(Benchmarks) /\ main.i \in 0 .. NumThreads
           /\ main.pc \in {"next", "spawn", "collect", "merge", "destroy",
                           "join", "exit"}
           /\ shared.num_initialized \in 0 .. NumThreads
           /\ shared.num_done \in 0 .. NumThreads
           /\ shared.start \in BOOLEAN
           /\ checker.pc \in {"none", "loop", "sleeps", "exited"}
           /\ checker.stop \in BOOLEAN
           /\ checker.max \in Nat /\ checker.ops \in Nat
           /\ \A t \in Threads :
                 /\ stats[t].start \in 0 .. MaxTime
                 /\ stats[t].finish \in 0 .. MaxTime
                 /\ stats[t].last_op \in 0 .. MaxTime
                 /\ stats[t].done \in Nat
                 /\ stats[t].hist \in 0 .. NumThreads
                 /\ hist[t].num \in Nat /\ hist[t].sum \in Nat
                 /\ ops[t] \in 0 .. Num
                 /\ created[t] \in 0 .. MaxTime
           /\ merge_stats.start \in 0 .. MaxTime
           /\ merge_stats.finish \in 0 .. MaxTime
           /\ merge_stats.last_op \in 0 .. MaxTime
           /\ merge_stats.done \in Nat
           /\ merge_stats.hist \in 0 .. NumThreads
           /\ clock \in 0 .. MaxTime
           /\ peak \in Nat /\ g_max_memory \in Nat
BY DEF TypeOK, StatsType

(* The numbers the proofs below compare.                                    *)
LEMMA HarnessNumbers ==
    ASSUME TypeOK
    PROVE  /\ clock \in Nat /\ main.i \in Nat /\ main.i <= NumThreads
           /\ checker.ops \in Nat /\ checker.max \in Nat
           /\ peak \in Nat /\ g_max_memory \in Nat
           /\ merge_stats.start \in Nat /\ merge_stats.finish \in Nat
           /\ merge_stats.done \in Nat
           /\ \A t \in Threads :
                 /\ ops[t] \in Nat /\ ops[t] <= Num
                 /\ created[t] \in Nat /\ stats[t].start \in Nat
                 /\ stats[t].finish \in Nat /\ stats[t].last_op \in Nat
                 /\ stats[t].done \in Nat
                 /\ hist[t].num \in Nat /\ hist[t].sum \in Nat
<1>1. /\ \A n \in 0 .. MaxTime : n \in Nat
      /\ \A n \in 0 .. Num : n \in Nat /\ n <= Num
      /\ \A n \in 0 .. NumThreads : n \in Nat /\ n <= NumThreads
  BY ThreadFacts
<1>2. /\ clock \in Nat /\ main.i \in Nat /\ main.i <= NumThreads
      /\ checker.ops \in Nat /\ checker.max \in Nat
      /\ peak \in Nat /\ g_max_memory \in Nat
      /\ merge_stats.start \in Nat /\ merge_stats.finish \in Nat
      /\ merge_stats.done \in Nat
  BY <1>1, HarnessShapes
<1>3. ASSUME NEW t \in Threads
      PROVE  /\ ops[t] \in Nat /\ ops[t] <= Num
             /\ created[t] \in Nat /\ stats[t].start \in Nat
             /\ stats[t].finish \in Nat /\ stats[t].last_op \in Nat
             /\ stats[t].done \in Nat
             /\ hist[t].num \in Nat /\ hist[t].sum \in Nat
  BY <1>1, HarnessShapes
<1> QED BY <1>2, <1>3

------------------------------------------------------------------------------
(* Types                                                                   *)

(* Stats::Start leaves typed statistics.                                   *)
LEMMA StartType ==
    ASSUME TypeOK, NEW last_op \in 0 .. MaxTime
    PROVE  Start(last_op) \in StatsType
BY HarnessShapes, ThreadFacts DEF Start, StatsType, NoHist

(* The initial states are typed.                                           *)
LEMMA HarnessInitType == Init => TypeOK
<1> SUFFICES ASSUME Init PROVE TypeOK
  OBVIOUS
<1>1. /\ clock = 0 /\ 0 \in 0 .. MaxTime /\ 0 \in 0 .. NumThreads /\ 0 \in 0 .. Num
      /\ NumThreads \in 0 .. NumThreads /\ 0 \in 0 .. Len(Benchmarks)
      /\ waiting \subseteq 0 .. NumThreads
  BY ThreadFacts, KnownBenchmarks DEF Init
<1>2. Start(0) \in StatsType
  BY <1>1 DEF Start, StatsType, NoHist
<1> QED BY <1>1, <1>2 DEF Init, TypeOK, NoThreads

(* A sleeper is the main thread or a worker.                               *)
LEMMA NotNotifiedType ==
    ASSUME TypeOK, NEW n PROVE NotNotified(n) \subseteq 0 .. NumThreads
BY DEF TypeOK, NotNotified

(* Every step of the main thread keeps the types.                          *)
LEMMA MainNextType ==
    ASSUME HarnessInductive, MainThread PROVE TypeOK'
<1>1. TypeOK
  BY DEF HarnessInductive
<1>2. /\ NumThreads \in Nat /\ 0 \in 0 .. NumThreads /\ NumThreads \in 0 .. NumThreads
      /\ {0, MaxTime} \subseteq 0 .. MaxTime /\ 0 \in Nat
      /\ \A n \in 0 .. NumThreads : n < NumThreads => n + 1 \in 0 .. NumThreads
  BY ThreadFacts
<1>3. CASE NextBenchmark
  <2>1. main.bench + 1 \in 0 .. Len(Benchmarks)
    <3>1. Len(Benchmarks) \in Nat
      BY KnownBenchmarks
    <3>2. main.bench \in 0 .. Len(Benchmarks) /\ main.bench < Len(Benchmarks)
      BY <1>1, <1>3, HarnessShapes DEF NextBenchmark
    <3> QED BY <3>1, <3>2
  <2>2. NoThreads \in [Threads -> {"none", "created", "waits", "starts", "runs",
                                  "stopped", "exited"}]
    BY DEF NoThreads
  <2> QED BY <1>1, <1>2, <1>3, <2>1, <2>2
          DEF NextBenchmark, TypeOK, measures, timing
<1>4. CASE OpenFails
  BY <1>1, <1>4 DEF OpenFails, TypeOK, barrier, measures, memory, timing
<1>5. CASE Spawn
  <2>1. main.i + 1 \in 0 .. NumThreads
    BY <1>1, <1>2, <1>5, HarnessShapes DEF Spawn
  <2>2. stats' \in [Threads -> StatsType]
    <3>1. PICK junk \in {0, MaxTime} : stats' = [stats EXCEPT ![main.i] = Start(junk)]
      BY <1>5 DEF Spawn
    <3>2. Start(junk) \in StatsType
      BY <1>1, <1>2, StartType
    <3> QED BY <1>1, <3>1, <3>2 DEF TypeOK
  <2>3. main' \in [pc : {"next", "spawn", "collect", "merge", "destroy", "join",
                         "exit"},
                   bench : 0..Len(Benchmarks), i : 0..NumThreads]
    BY <1>1, <1>5, <2>1 DEF Spawn, TypeOK
  <2>4. /\ hist' \in [Threads -> [num : Nat, sum : Nat]]
        /\ created' \in [Threads -> 0 .. MaxTime]
        /\ worker' \in [Threads -> {"none", "created", "waits", "starts", "runs",
                                    "stopped", "exited"}]
    BY <1>1, <1>2, <1>5 DEF Spawn, TypeOK
  <2> QED BY <1>1, <1>5, <2>2, <2>3, <2>4 DEF Spawn, TypeOK, barrier, memory
<1>6. CASE StartWorkers
  <2>1. CASE shared.num_initialized < NumThreads
    BY <1>1, <1>2, <1>6, <2>1, SMTT(30)
    DEF StartWorkers, TypeOK, measures, memory, timing, Main
  <2>2. CASE ~(shared.num_initialized < NumThreads)
    <3>1. /\ shared' = [shared EXCEPT !.start = TRUE]
          /\ main' = [main EXCEPT !.pc = "collect"]
          /\ waiting' = {}
          /\ UNCHANGED <<worker, ops, stats, hist, merge_stats, checker,
                         g_max_memory, peak, clock, created>>
      BY <1>6, <2>2 DEF StartWorkers, measures, memory, timing
    <3>2. shared' \in [num_initialized : 0..NumThreads, num_done : 0..NumThreads,
                       start : BOOLEAN]
      BY <1>1, <3>1 DEF TypeOK
    <3>3. main' \in [pc : {"next", "spawn", "collect", "merge", "destroy", "join",
                           "exit"},
                     bench : 0..Len(Benchmarks), i : 0..NumThreads]
      BY <1>1, <3>1 DEF TypeOK
    <3> QED BY <1>1, <3>1, <3>2, <3>3 DEF TypeOK
  <2> QED BY <2>1, <2>2
<1>7. CASE Collect
  <2>1. CASE shared.num_done < NumThreads
    <3>1. waiting' \subseteq 0 .. NumThreads
      BY <1>1, <1>2, <1>7, <2>1 DEF Collect, TypeOK, Main
    <3>2. UNCHANGED <<main, shared, worker, ops, stats, hist, merge_stats,
                      checker, g_max_memory, peak, clock, created>>
      BY <1>7, <2>1 DEF Collect, memory, timing
    <3> QED BY <1>1, <3>1, <3>2 DEF TypeOK
  <2>2. CASE ~(shared.num_done < NumThreads)
    <3>1. merge_stats' \in StatsType
      BY <1>1, <1>2, <1>7, <2>2, StartType DEF Collect
    <3>2. main' \in [pc : {"next", "spawn", "collect", "merge", "destroy", "join",
                           "exit"},
                     bench : 0..Len(Benchmarks), i : 0..NumThreads]
      <4>1. main' = [main EXCEPT !.pc = "merge", !.i = 0]
        BY <1>7, <2>2 DEF Collect
      <4>2. main \in [pc : {"next", "spawn", "collect", "merge", "destroy", "join",
                            "exit"},
                      bench : 0..Len(Benchmarks), i : 0..NumThreads]
        BY <1>1 DEF TypeOK
      <4> QED BY <1>2, <4>1, <4>2
    <3> QED BY <1>1, <1>7, <2>2, <3>1, <3>2 DEF Collect, TypeOK, memory, timing
  <2> QED BY <2>1, <2>2
<1>8. CASE Merge
  <2>1. main.i \in Threads /\ main.i + 1 \in 0 .. NumThreads
    BY <1>1, <1>2, <1>8, HarnessShapes, ThreadFacts, SMTT(30) DEF Merge
  <2>2. merge_stats' \in StatsType
    <3> DEFINE other == stats[main.i]
    <3>1. /\ other \in StatsType /\ merge_stats \in StatsType
      BY <1>1, <2>1 DEF TypeOK
    <3>2. /\ LesserOf(merge_stats.start, other.start) \in 0 .. MaxTime
          /\ GreaterOf(merge_stats.finish, other.finish) \in 0 .. MaxTime
          /\ merge_stats.done + other.done \in Nat
          /\ other.hist \in 0 .. NumThreads /\ merge_stats.hist \in 0 .. NumThreads
      <4>1. /\ merge_stats.start \in 0 .. MaxTime /\ other.start \in 0 .. MaxTime
            /\ merge_stats.finish \in 0 .. MaxTime /\ other.finish \in 0 .. MaxTime
            /\ merge_stats.done \in Nat /\ other.done \in Nat
            /\ merge_stats.hist \in 0 .. NumThreads /\ other.hist \in 0 .. NumThreads
        BY <3>1 DEF StatsType
      <4> HIDE DEF other
      <4> QED BY <4>1 DEF LesserOf, GreaterOf
    <3> HIDE DEF other
    <3>3. MergedStats(other) \in StatsType
      BY <3>1, <3>2 DEF MergedStats, StatsType
    <3> QED BY <1>8, <3>3 DEF Merge, other
  <2>3. hist' \in [Threads -> [num : Nat, sum : Nat]]
    <3>1. CASE NoHist \in {merge_stats.hist, stats[main.i].hist}
      BY <1>1, <1>8, <3>1 DEF Merge, MergedHist, TypeOK
    <3>2. CASE NoHist \notin {merge_stats.hist, stats[main.i].hist}
      <4> DEFINE h == merge_stats.hist
                 k == stats[main.i].hist
      <4>1. h \in Threads /\ k \in Threads
        <5>1. h \in 0 .. NumThreads /\ h # NumThreads
          BY <1>1, <3>2, HarnessShapes DEF NoHist
        <5>2. k \in 0 .. NumThreads /\ k # NumThreads
          BY <1>1, <2>1, <3>2, HarnessShapes DEF NoHist
        <5> HIDE DEF h, k
        <5> QED BY <1>2, <5>1, <5>2, ThreadFacts
      <4> HIDE DEF h, k
      <4>2. hist[h].num + hist[k].num \in Nat /\ hist[h].sum + hist[k].sum \in Nat
        <5>1. hist[h] \in [num : Nat, sum : Nat] /\ hist[k] \in [num : Nat, sum : Nat]
          BY <1>1, <4>1 DEF TypeOK
        <5> QED BY <5>1
      <4>3. hist' = [hist EXCEPT ![h] = [num |-> hist[h].num + hist[k].num,
                                         sum |-> hist[h].sum + hist[k].sum]]
        BY <1>8, <3>2 DEF Merge, MergedHist, h, k
      <4> QED BY <1>1, <4>2, <4>3 DEF TypeOK
    <3> QED BY <3>1, <3>2
  <2>4. main' \in [pc : {"next", "spawn", "collect", "merge", "destroy", "join",
                         "exit"},
                   bench : 0..Len(Benchmarks), i : 0..NumThreads]
    BY <1>1, <1>8, <2>1 DEF Merge, TypeOK
  <2> QED BY <1>1, <1>8, <2>2, <2>3, <2>4 DEF Merge, TypeOK, barrier, memory, timing
<1>9. CASE Report
  <2>1. GreaterOf(merge_stats.done, 1) \in Nat
    BY <1>1, HarnessShapes DEF GreaterOf
  <2>2. merge_stats' \in StatsType
    BY <1>1, <1>9, <2>1 DEF Report, TypeOK, StatsType
  <2> QED BY <1>1, <1>9, <2>2 DEF Report, TypeOK, barrier, memory, timing
<1>10. CASE StopChecker
  BY <1>1, <1>10 DEF StopChecker, TypeOK, barrier, measures, timing
<1>11. CASE JoinChecker
  <2>1. GreaterOf(g_max_memory, checker.max) \in Nat
    BY <1>1, HarnessShapes DEF GreaterOf
  <2> QED BY <1>1, <1>11, <2>1 DEF JoinChecker, TypeOK, barrier, measures, timing
<1> QED BY <1>3, <1>4, <1>5, <1>6, <1>7, <1>8, <1>9, <1>10, <1>11 DEF MainThread

(* The Stats after an operation.                                           *)
LEMMA OperateStats ==
    ASSUME TypeOK, NEW t \in Threads, Operate(t)
    PROVE  /\ stats' \in [Threads -> StatsType]
           /\ \A b \in Threads : b # t => stats'[b] = stats[b]
           /\ stats'[t].start = stats[t].start
           /\ stats'[t].finish = stats[t].finish
           /\ stats'[t].hist = t
           /\ stats'[t].last_op = clock
           /\ stats'[t].done = stats[t].done + 1
<1>1. stats \in [Threads -> StatsType] /\ clock \in 0 .. MaxTime
  BY DEF TypeOK
<1>2. stats[t] \in StatsType /\ t \in 0 .. NumThreads
  BY <1>1, ThreadFacts
<1>3. stats[t].done + 1 \in Nat
  BY <1>2 DEF StatsType
<1> DEFINE new == [stats[t] EXCEPT !.hist = t, !.last_op = clock,
                                   !.done = stats[t].done + 1]
<1>4. stats' = [stats EXCEPT ![t] = new]
  <2>1. stats' = [stats EXCEPT ![t].hist = t, ![t].last_op = clock,
                               ![t].done = stats[t].done + 1]
    BY <1>1 DEF Operate, FinishedOps
  <2> QED BY <1>1, <2>1
<1>5. /\ new \in StatsType
      /\ new.start = stats[t].start /\ new.finish = stats[t].finish
      /\ new.hist = t /\ new.last_op = clock /\ new.done = stats[t].done + 1
  BY <1>1, <1>2, <1>3 DEF StatsType
<1> HIDE DEF new
<1> QED BY <1>1, <1>4, <1>5

(* Every step of a worker keeps the types, if its counters stay within the *)
(* number of threads.                                                      *)
LEMMA WorkerNextType ==
    ASSUME HarnessInductive, NEW t \in Threads, Worker(t),
           shared'.num_initialized \in 0 .. NumThreads,
           shared'.num_done \in 0 .. NumThreads
    PROVE  TypeOK'
<1> DEFINE Phases == {"none", "created", "waits", "starts", "runs", "stopped",
                      "exited"}
<1>1. /\ TypeOK /\ WorkerStats
      /\ shared \in [num_initialized : 0..NumThreads, num_done : 0..NumThreads,
                     start : BOOLEAN]
      /\ worker \in [Threads -> Phases]
      /\ stats \in [Threads -> StatsType]
      /\ hist \in [Threads -> [num : Nat, sum : Nat]]
  BY DEF HarnessInductive, TypeOK
<1>2. /\ t \in 0 .. NumThreads
      /\ Num \in Nat /\ ops[t] \in 0 .. Num
      /\ MaxTime \in Nat /\ clock \in 0 .. MaxTime
      /\ stats[t].last_op \in 0 .. MaxTime /\ stats[t].start \in 0 .. MaxTime
      /\ stats[t].done \in Nat /\ checker.ops \in Nat
      /\ stats[t] \in StatsType
  BY <1>1, HarnessShapes, ThreadFacts
<1>3. CASE Arrive(t)
  <2>1. waiting' \subseteq 0 .. NumThreads
    BY <1>1, <1>2, <1>3, NotNotifiedType DEF Arrive
  <2>2. shared' = [shared EXCEPT !.num_initialized = shared'.num_initialized]
    BY <1>1, <1>3 DEF Arrive
  <2>3. shared' \in [num_initialized : 0..NumThreads, num_done : 0..NumThreads,
                     start : BOOLEAN]
    BY <1>1, <2>2
  <2>4. worker' \in [Threads -> Phases]
    BY <1>1, <1>3 DEF Arrive
  <2> QED BY <1>1, <1>3, <2>1, <2>3, <2>4
          DEF Arrive, TypeOK, measures, memory, timing
<1>4. CASE LeaveBarrier(t)
  <2>1. worker' \in [Threads -> Phases]
    BY <1>1, <1>4 DEF LeaveBarrier
  <2>2. waiting' \subseteq 0 .. NumThreads
    <3>1. waiting \subseteq 0 .. NumThreads
      BY <1>1 DEF TypeOK
    <3>2. waiting' = waiting \/ waiting' = waiting \cup {t}
      BY <1>4 DEF LeaveBarrier
    <3> QED BY <1>2, <3>1, <3>2
  <2> QED BY <1>1, <1>4, <2>1, <2>2 DEF LeaveBarrier, TypeOK, measures, memory, timing
<1>5. CASE StartStats(t)
  <2>1. Start(stats[t].start) \in StatsType
    BY <1>1, StartType, HarnessShapes
  <2>2. stats' \in [Threads -> StatsType]
    BY <1>1, <1>5, <2>1 DEF StartStats
  <2>3. ops' \in [Threads -> 0 .. Num] /\ worker' \in [Threads -> Phases]
    BY <1>1, <1>5, ThreadFacts, SMTT(30) DEF StartStats, TypeOK
  <2> QED BY <1>1, <1>5, <2>2, <2>3 DEF StartStats, TypeOK, barrier, memory, timing
<1>6. CASE Operate(t)
  <2>1. /\ ops[t] + 1 \in 0 .. Num
        /\ checker.ops + 1 \in Nat
    BY <1>2, <1>6 DEF Operate, Done
  <2>2. clock - stats[t].last_op \in Nat
    <3>1. stats[t].last_op <= clock
      BY <1>1, <1>6 DEF Operate, WorkerStats, ThreadStats, StartedStats
    <3> QED BY <1>2, <3>1
  <2>3. [num |-> hist[t].num + 1, sum |-> hist[t].sum + (clock - stats[t].last_op)]
           \in [num : Nat, sum : Nat]
    <3>1. hist[t] \in [num : Nat, sum : Nat]
      BY <1>1
    <3> QED BY <2>2, <3>1
  <2>4. hist' \in [Threads -> [num : Nat, sum : Nat]]
    BY <1>1, <1>6, <2>3 DEF Operate, FinishedOps
  <2>5. stats' \in [Threads -> StatsType]
    BY <1>1, <1>6, OperateStats
  <2>6. checker' \in [pc : {"none", "loop", "sleeps", "exited"}, stop : BOOLEAN,
                      max : Nat, ops : Nat]
    BY <1>1, <1>6, <2>1 DEF Operate, FinishedOps, TypeOK
  <2>7. ops' \in [Threads -> 0 .. Num]
    BY <1>1, <1>6, <2>1 DEF Operate, TypeOK
  <2> QED BY <1>1, <1>6, <2>4, <2>5, <2>6, <2>7
          DEF Operate, TypeOK, barrier, timing
<1>7. CASE OperationFails(t)
  BY <1>1, <1>7 DEF OperationFails, TypeOK, barrier, measures, memory, timing
<1>8. CASE StopStats(t)
  <2>1. stats' = [stats EXCEPT ![t] = [stats[t] EXCEPT !.finish = clock]]
    BY <1>1, <1>8 DEF StopStats
  <2>2. [stats[t] EXCEPT !.finish = clock] \in StatsType
    BY <1>2 DEF StatsType
  <2>3. stats' \in [Threads -> StatsType] /\ worker' \in [Threads -> Phases]
    BY <1>1, <1>8, <2>1, <2>2 DEF StopStats
  <2> QED BY <1>1, <1>8, <2>3 DEF StopStats, TypeOK, barrier, memory, timing
<1>9. CASE Finish(t)
  <2>1. waiting' \subseteq 0 .. NumThreads
    BY <1>1, <1>9, NotNotifiedType DEF Finish
  <2>2. shared' = [shared EXCEPT !.num_done = shared'.num_done]
    BY <1>1, <1>9 DEF Finish
  <2>3. shared' \in [num_initialized : 0..NumThreads, num_done : 0..NumThreads,
                     start : BOOLEAN]
    BY <1>1, <2>2
  <2>4. worker' \in [Threads -> Phases]
    BY <1>1, <1>9 DEF Finish
  <2> QED BY <1>1, <1>9, <2>1, <2>3, <2>4
          DEF Finish, TypeOK, measures, memory, timing
<1> QED BY <1>3, <1>4, <1>5, <1>6, <1>7, <1>8, <1>9 DEF Worker

(* Spurious wake-ups, the memory checker and the clock keep the types.     *)
LEMMA OtherNextType ==
    ASSUME TypeOK, WakeUpSpuriously \/ CheckerThread \/ Tick \/ UNCHANGED vars
    PROVE  TypeOK'
<1>1. CASE WakeUpSpuriously
  BY <1>1 DEF WakeUpSpuriously, TypeOK, measures, memory, timing
<1>2. CASE CheckStop \/ StopsSampling
  BY <1>2 DEF CheckStop, StopsSampling, TypeOK, barrier, measures, timing
<1>3. CASE Sample
  <2>1. PICK rss \in Rss : /\ checker' = [checker EXCEPT !.pc = "loop",
                                           !.max = GreaterOf(@, rss)]
                           /\ peak' = GreaterOf(peak, rss)
    BY <1>3 DEF Sample
  <2>2. GreaterOf(checker.max, rss) \in Nat /\ peak' \in Nat
    BY <2>1, HarnessShapes, HarnessParameters DEF GreaterOf
  <2>3. checker' \in [pc : {"none", "loop", "sleeps", "exited"}, stop : BOOLEAN,
                      max : Nat, ops : Nat]
    BY <2>1, <2>2 DEF TypeOK
  <2> QED BY <1>3, <2>2, <2>3 DEF Sample, TypeOK, barrier, measures, timing
<1>4. CASE Tick
  <2>1. clock' \in 0 .. MaxTime
    BY <1>4, HarnessShapes, ThreadFacts, SMTT(30) DEF Tick
  <2> QED BY <1>4, <2>1 DEF Tick, TypeOK, barrier, measures, memory
<1>5. CASE UNCHANGED vars
  BY <1>5 DEF vars, TypeOK, barrier, measures, memory, timing
<1> QED BY <1>1, <1>2, <1>3, <1>4, <1>5 DEF CheckerThread
------------------------------------------------------------------------------
(* The barrier                                                             *)

(* Threads run only between the spawning and the collecting.               *)
LEMMA WorkersRun ==
    ASSUME HarnessInductive, Running, NEW t \in Threads,
           worker[t] \notin {"none", "exited"}
    PROVE  main.pc \in {"spawn", "collect"}
<1>1. main.pc \in {"next", "spawn", "collect", "merge", "destroy", "join", "exit"}
  BY HarnessShapes DEF HarnessInductive
<1> QED BY <1>1 DEF HarnessInductive, LocalsOutliveTheirThreads, Running

(* As long as no worker moves, the barrier is what it was, unless the main *)
(* thread goes back to spawning or leaves the barrier.                     *)
LEMMA BarrierUndisturbed ==
    ASSUME HarnessInductive, UNCHANGED <<shared, worker>>,
           main'.pc = "spawn" => main.pc = "spawn" /\ main'.i = main.i,
           main'.pc = "collect" => main.pc = "collect",
           main'.pc \in {"merge", "destroy", "join"} =>
              main.pc \in {"merge", "destroy", "join"}
    PROVE  BarrierCounts' /\ BarrierHolds'
BY DEF HarnessInductive, BarrierCounts, BarrierHolds, Arrived, Finished, At

(* Every step of the main thread keeps the counters of the barrier and     *)
(* what follows from them.                                                 *)
LEMMA MainKeepsBarrier ==
    ASSUME HarnessInductive, MainThread
    PROVE  BarrierCounts' /\ BarrierHolds' /\ LocalsOutliveTheirThreads'
<1>1. /\ TypeOK /\ BarrierCounts /\ BarrierHolds /\ LocalsOutliveTheirThreads
      /\ main \in [pc : {"next", "spawn", "collect", "merge", "destroy", "join",
                         "exit"},
                   bench : 0..Len(Benchmarks), i : 0..NumThreads]
      /\ worker \in [Threads -> {"none", "created", "waits", "starts", "runs",
                                 "stopped", "exited"}]
      /\ Arrived \subseteq Threads /\ Finished \subseteq Threads
  BY DEF HarnessInductive, TypeOK, Arrived, Finished
<1>2. CASE NextBenchmark
  <2>1. /\ main'.pc = "spawn" /\ \A t \in Threads : worker'[t] = "none"
        /\ shared'.num_initialized = 0 /\ shared'.num_done = 0 /\ ~shared'.start
    BY <1>2 DEF NextBenchmark, NoThreads
  <2>2. Arrived' = {} /\ Finished' = {}
    BY <2>1 DEF Arrived, Finished
  <2>3. Cardinality(Arrived') = 0 /\ Cardinality(Finished') = 0
    BY <2>2, FS_EmptySet
  <2> QED BY <2>1, <2>3
          DEF BarrierCounts, BarrierHolds, LocalsOutliveTheirThreads, At
<1>3. CASE OpenFails
  <2>1. main'.pc = "exit" /\ UNCHANGED <<shared, worker>>
    BY <1>1, <1>3 DEF OpenFails, barrier
  <2> QED BY <2>1, BarrierUndisturbed DEF LocalsOutliveTheirThreads, At
<1>4. CASE Spawn
  <2>1. /\ main'.pc = "spawn" /\ main'.i = main.i + 1 /\ main.i \in Threads
        /\ main.i \in Nat
        /\ shared' = shared /\ worker[main.i] = "none"
        /\ worker' = [worker EXCEPT ![main.i] = "created"]
    BY <1>1, <1>4, ThreadFacts DEF Spawn, barrier, BarrierCounts, At
  <2>2. Arrived' = Arrived /\ Finished' = Finished
    BY <1>1, <2>1 DEF Arrived, Finished
  <2>3. \A t \in Threads : t >= main'.i => worker'[t] = "none"
    BY <1>1, <1>4, <2>1, ThreadFacts DEF Spawn, BarrierCounts, At
  <2>4. BarrierHolds'
    BY <1>1, <2>1 DEF BarrierHolds
  <2> QED BY <1>1, <2>1, <2>2, <2>3, <2>4
          DEF BarrierCounts, LocalsOutliveTheirThreads, At
<1>5. CASE StartWorkers
  <2>1. CASE shared.num_initialized < NumThreads
    <3>1. UNCHANGED <<shared, worker, main, checker>>
      BY <1>5, <2>1 DEF StartWorkers, memory
    <3> QED BY <1>1, <3>1, BarrierUndisturbed DEF LocalsOutliveTheirThreads, At
  <2>2. CASE ~(shared.num_initialized < NumThreads)
    <3>1. /\ main'.pc = "collect" /\ worker' = worker
          /\ shared'.num_initialized = shared.num_initialized
          /\ shared'.num_done = shared.num_done
      BY <1>1, <1>5, <2>2 DEF StartWorkers, TypeOK
    <3>2. shared'.num_initialized = NumThreads
      BY <1>1, <2>2, <3>1, HarnessShapes, ThreadFacts, SMTT(30)
    <3>3. shared'.start
      BY <1>1, <1>5, <2>2 DEF StartWorkers, TypeOK
    <3> QED BY <1>1, <3>1, <3>2, <3>3
            DEF BarrierCounts, BarrierHolds, LocalsOutliveTheirThreads, At,
                Arrived, Finished
  <2> QED BY <2>1, <2>2
<1>6. CASE Collect
  <2>1. CASE shared.num_done < NumThreads
    <3>1. UNCHANGED <<shared, worker, main, checker>>
      BY <1>6, <2>1 DEF Collect, memory
    <3> QED BY <1>1, <3>1, BarrierUndisturbed DEF LocalsOutliveTheirThreads, At
  <2>2. CASE ~(shared.num_done < NumThreads)
    <3>1. main'.pc = "merge" /\ UNCHANGED <<shared, worker>>
      BY <1>1, <1>6, <2>2 DEF Collect
    <3>2. Finished = Threads
      BY <1>1, <2>2, ThreadFacts DEF BarrierCounts
    <3>3. \A t \in Threads : worker[t] = "exited"
      BY <3>2 DEF Finished
    <3> QED BY <1>1, <3>1, <3>3
            DEF BarrierCounts, BarrierHolds, LocalsOutliveTheirThreads, At,
                Arrived, Finished
  <2> QED BY <2>1, <2>2
<1>7. CASE Merge \/ Report \/ StopChecker
  <2>1. /\ main.pc \in {"merge", "destroy"}
        /\ main'.pc \in {"merge", "destroy", "join"}
        /\ UNCHANGED <<shared, worker>>
    BY <1>1, <1>7 DEF Merge, Report, StopChecker, barrier, At
  <2> QED BY <1>1, <2>1, BarrierUndisturbed DEF LocalsOutliveTheirThreads, At
<1>8. CASE JoinChecker
  <2>1. /\ main.pc = "join" /\ main'.pc = "next" /\ checker'.pc = "exited"
        /\ UNCHANGED <<shared, worker>>
    BY <1>1, <1>8 DEF JoinChecker, barrier, At
  <2> QED BY <1>1, <2>1, BarrierUndisturbed DEF LocalsOutliveTheirThreads, At
<1> QED BY <1>2, <1>3, <1>4, <1>5, <1>6, <1>7, <1>8 DEF MainThread

(* Every step of a worker keeps them too.                                  *)
LEMMA WorkerKeepsBarrier ==
    ASSUME HarnessInductive, NEW t \in Threads, Worker(t)
    PROVE  BarrierCounts' /\ BarrierHolds' /\ LocalsOutliveTheirThreads'
<1>1. /\ TypeOK /\ BarrierCounts /\ BarrierHolds /\ LocalsOutliveTheirThreads
      /\ main \in [pc : {"next", "spawn", "collect", "merge", "destroy", "join",
                         "exit"},
                   bench : 0..Len(Benchmarks), i : 0..NumThreads]
      /\ worker \in [Threads -> {"none", "created", "waits", "starts", "runs",
                                 "stopped", "exited"}]
      /\ Arrived \subseteq Threads /\ Finished \subseteq Threads
  BY DEF HarnessInductive, TypeOK, Arrived, Finished
<1>2. /\ Running /\ worker[t] \notin {"none", "exited"}
      /\ main.pc \in {"spawn", "collect"}
  <2>1. Running /\ worker[t] \notin {"none", "exited"}
    BY DEF Worker, Arrive, LeaveBarrier, StartStats, Operate, OperationFails,
           StopStats, Finish
  <2> QED BY <2>1, WorkersRun
<1>3. CASE OperationFails(t)
  <2>1. main'.pc = "exit" /\ UNCHANGED <<shared, worker>>
    BY <1>1, <1>3 DEF OperationFails, barrier
  <2> QED BY <2>1, BarrierUndisturbed DEF LocalsOutliveTheirThreads, At
<1>4. CASE Arrive(t)
  <2>1. /\ main' = main /\ worker[t] = "created"
        /\ worker' = [worker EXCEPT ![t] = "waits"]
        /\ shared'.num_initialized = shared.num_initialized + 1
        /\ shared'.num_done = shared.num_done /\ shared'.start = shared.start
    BY <1>1, <1>4 DEF Arrive, TypeOK
  <2>2. Arrived' = Arrived \cup {t} /\ t \notin Arrived /\ Finished' = Finished
    BY <1>1, <2>1 DEF Arrived, Finished
  <2>3. Cardinality(Arrived') = Cardinality(Arrived) + 1
    BY <1>1, <2>2, ThreadFacts
  <2>4. ~shared.start
    <3>1. Arrived # Threads
      BY <2>2
    <3>2. Cardinality(Arrived) # NumThreads
      BY <1>1, <3>1, ThreadFacts
    <3> QED BY <1>1, <3>2 DEF BarrierCounts
  <2>5. At("spawn")' => \A b \in Threads : b >= main'.i => worker'[b] = "none"
    BY <1>1, <2>1 DEF BarrierCounts, At
  <2> QED BY <1>1, <1>2, <2>1, <2>2, <2>3, <2>4, <2>5
          DEF BarrierCounts, BarrierHolds, LocalsOutliveTheirThreads, At
<1>5. CASE LeaveBarrier(t) \/ StartStats(t) \/ Operate(t) \/ StopStats(t)
  <2>1. main' = main /\ shared' = shared
    BY <1>5 DEF LeaveBarrier, StartStats, Operate, StopStats, barrier
  <2>2. PICK p \in {"waits", "starts", "runs", "stopped"} :
           /\ worker' = [worker EXCEPT ![t] = p]
           /\ p # "waits" => shared.start
    <3>1. CASE LeaveBarrier(t) /\ shared.start
      BY <3>1 DEF LeaveBarrier
    <3>2. CASE LeaveBarrier(t) /\ ~shared.start
      <4>1. worker' = [worker EXCEPT ![t] = "waits"]
        BY <1>1, <3>2 DEF LeaveBarrier
      <4> QED BY <4>1
    <3>3. CASE StartStats(t)
      BY <1>1, <3>3 DEF StartStats, BarrierHolds
    <3>4. CASE Operate(t)
      <4>1. worker' = [worker EXCEPT ![t] = "runs"] /\ worker[t] = "runs"
        BY <1>1, <3>4 DEF Operate
      <4> QED BY <1>1, <4>1 DEF BarrierHolds
    <3>5. CASE StopStats(t)
      BY <1>1, <3>5 DEF StopStats, BarrierHolds
    <3> QED BY <1>5, <3>1, <3>2, <3>3, <3>4, <3>5
  <2>3. worker[t] \in {"waits", "starts", "runs"}
    BY <1>5 DEF LeaveBarrier, StartStats, Operate, StopStats
  <2>4. Arrived' = Arrived /\ Finished' = Finished
    BY <1>1, <2>2, <2>3 DEF Arrived, Finished
  <2>5. BarrierHolds'
    BY <1>1, <2>1, <2>2 DEF BarrierHolds, BarrierCounts
  <2>6. At("spawn")' => \A b \in Threads : b >= main'.i => worker'[b] = "none"
    BY <1>1, <2>1, <2>2, <2>3 DEF BarrierCounts, At
  <2> QED BY <1>1, <1>2, <2>1, <2>4, <2>5, <2>6
          DEF BarrierCounts, LocalsOutliveTheirThreads, At
<1>6. CASE Finish(t)
  <2>1. /\ main' = main /\ worker[t] = "stopped"
        /\ worker' = [worker EXCEPT ![t] = "exited"]
        /\ shared'.num_done = shared.num_done + 1
        /\ shared'.num_initialized = shared.num_initialized
        /\ shared'.start = shared.start
    BY <1>1, <1>6 DEF Finish, TypeOK
  <2>2. Finished' = Finished \cup {t} /\ t \notin Finished /\ Arrived' = Arrived
    BY <1>1, <2>1 DEF Arrived, Finished
  <2>3. Cardinality(Finished') = Cardinality(Finished) + 1
    BY <1>1, <2>2, ThreadFacts
  <2>4. BarrierHolds'
    BY <1>1, <2>1 DEF BarrierHolds
  <2>5. At("spawn")' => \A b \in Threads : b >= main'.i => worker'[b] = "none"
    BY <1>1, <2>1 DEF BarrierCounts, At
  <2> QED BY <1>1, <1>2, <2>1, <2>2, <2>3, <2>4, <2>5
          DEF BarrierCounts, LocalsOutliveTheirThreads, At
<1> QED BY <1>3, <1>4, <1>5, <1>6 DEF Worker

(* So do the steps of everything else.                                     *)
LEMMA OthersKeepBarrier ==
    ASSUME HarnessInductive,
           WakeUpSpuriously \/ CheckerThread \/ Tick \/ UNCHANGED vars
    PROVE  BarrierCounts' /\ BarrierHolds' /\ LocalsOutliveTheirThreads'
<1>1. UNCHANGED <<main, shared, worker>>
  BY DEF WakeUpSpuriously, CheckerThread, CheckStop, Sample, StopsSampling, Tick,
         vars, barrier
<1>2. checker' = checker \/ checker.pc \in {"loop", "sleeps"}
  BY DEF WakeUpSpuriously, CheckerThread, CheckStop, Sample, StopsSampling, Tick,
         vars, memory
<1> QED BY <1>1, <1>2, BarrierUndisturbed
        DEF HarnessInductive, LocalsOutliveTheirThreads, At
------------------------------------------------------------------------------
(* The Stats of the workers                                                *)

(* A thread whose own Stats do not change keeps its share of the invariant *)
(* while time goes on, until the histograms are merged.                    *)
LEMMA ThreadUndisturbed ==
    ASSUME HarnessInductive, NEW t \in Threads,
           worker'[t] = worker[t], stats'[t] = stats[t], ops'[t] = ops[t],
           created'[t] = created[t], clock' \in Nat, clock <= clock',
           main'.bench = main.bench,
           \/ /\ hist'[t] = hist[t]
              /\ main'.pc \in {"spawn", "collect"} =>
                    main.pc \in {"spawn", "collect"}
           \/ worker[t] = "exited" /\ main'.pc \notin {"spawn", "collect"}
    PROVE  ThreadStats(t)'
<1>1. ThreadStats(t)
  BY DEF HarnessInductive, WorkerStats
<1>2. /\ clock \in Nat /\ created[t] \in Nat
      /\ stats[t].start \in Nat /\ stats[t].last_op \in Nat
  BY HarnessNumbers DEF HarnessInductive
<1>3. worker[t] \in {"created", "waits", "starts"} => FreshStats(t)'
  BY <1>1, <1>2 DEF ThreadStats, FreshStats
<1>4. worker[t] \in {"runs", "stopped", "exited"} => StartedStats(t)'
  BY <1>1, <1>2 DEF ThreadStats, StartedStats, Method
<1>5. Share' = Share
  BY DEF Share, Method
<1> QED BY <1>1, <1>3, <1>4, <1>5 DEF ThreadStats

(* Every step of the main thread keeps what is known of the statistics of  *)
(* each worker.                                                            *)
LEMMA MainKeepsStats ==
    ASSUME HarnessInductive, MainThread PROVE WorkerStats'
<1>1. /\ TypeOK /\ WorkerStats /\ clock \in Nat
      /\ main \in [pc : {"next", "spawn", "collect", "merge", "destroy", "join",
                         "exit"},
                   bench : 0..Len(Benchmarks), i : 0..NumThreads]
  <2>1. TypeOK /\ WorkerStats
    BY DEF HarnessInductive
  <2> QED BY <2>1, HarnessNumbers DEF TypeOK
<1>2. CASE NextBenchmark
  BY <1>2 DEF NextBenchmark, NoThreads, WorkerStats, ThreadStats
<1>3. CASE Spawn
  <2>1. PICK junk \in {0, MaxTime} : stats' = [stats EXCEPT ![main.i] = Start(junk)]
    BY <1>3 DEF Spawn
  <2>2. /\ main.i \in Threads /\ main.pc = "spawn" /\ main'.pc = "spawn"
        /\ main'.bench = main.bench /\ clock' = clock /\ ops' = ops
        /\ hist' = [hist EXCEPT ![main.i] = [num |-> 0, sum |-> 0]]
        /\ created' = [created EXCEPT ![main.i] = clock]
        /\ worker' = [worker EXCEPT ![main.i] = "created"]
    BY <1>1, <1>3, HarnessShapes, ThreadFacts DEF Spawn, At
  <2>3. ASSUME NEW t \in Threads, t # main.i PROVE ThreadStats(t)'
    BY <1>1, <2>1, <2>2, <2>3, ThreadUndisturbed DEF TypeOK
  <2>4. ASSUME NEW t \in Threads, t = main.i PROVE ThreadStats(t)'
    <3>1. /\ worker'[t] = "created" /\ stats'[t] = Start(junk)
          /\ hist'[t] = [num |-> 0, sum |-> 0] /\ created'[t] = clock
      BY <1>1, <2>1, <2>2, <2>4 DEF TypeOK
    <3> QED BY <1>1, <2>2, <3>1 DEF ThreadStats, FreshStats, Start
  <2> QED BY <2>3, <2>4 DEF WorkerStats
<1>4. CASE OpenFails \/ StartWorkers \/ Collect \/ Merge \/ Report \/ StopChecker
           \/ JoinChecker
  <2>1. /\ UNCHANGED <<worker, stats, ops, created, clock>>
        /\ main'.bench = main.bench
        /\ \/ /\ hist' = hist
              /\ main'.pc \in {"spawn", "collect"} =>
                    main.pc \in {"spawn", "collect"}
           \/ main.pc = "merge" /\ main'.pc = "merge"
    <3>1. CASE OpenFails
      BY <1>1, <3>1 DEF OpenFails, measures, timing
    <3>2. CASE StartWorkers
      BY <1>1, <3>2 DEF StartWorkers, measures, timing, At
    <3>3. CASE Collect
      BY <1>1, <3>3 DEF Collect, measures, timing, At
    <3>4. CASE Merge
      BY <1>1, <3>4 DEF Merge, timing, At
    <3>5. CASE Report
      BY <1>1, <3>5 DEF Report, timing, At
    <3>6. CASE StopChecker
      BY <1>1, <3>6 DEF StopChecker, measures, timing, At
    <3>7. CASE JoinChecker
      BY <1>1, <3>7 DEF JoinChecker, measures, timing, At
    <3> QED BY <1>4, <3>1, <3>2, <3>3, <3>4, <3>5, <3>6, <3>7
  <2>2. main.pc = "merge" => \A t \in Threads : worker[t] = "exited"
    BY DEF HarnessInductive, BarrierCounts
  <2> QED BY <1>1, <2>1, <2>2, ThreadUndisturbed DEF WorkerStats
<1> QED BY <1>2, <1>3, <1>4 DEF MainThread

(* Every step of a worker keeps what is known of the statistics of each    *)
(* worker.                                                                 *)
LEMMA WorkerKeepsStats ==
    ASSUME HarnessInductive, NEW t \in Threads, Worker(t) PROVE WorkerStats'
<1>1. /\ TypeOK /\ ThreadStats(t)
      /\ main \in [pc : {"next", "spawn", "collect", "merge", "destroy", "join",
                         "exit"},
                   bench : 0..Len(Benchmarks), i : 0..NumThreads]
      /\ worker \in [Threads -> {"none", "created", "waits", "starts", "runs",
                                 "stopped", "exited"}]
      /\ stats \in [Threads -> StatsType]
      /\ hist \in [Threads -> [num : Nat, sum : Nat]]
      /\ ops \in [Threads -> 0 .. Num]
  BY DEF HarnessInductive, TypeOK, WorkerStats
<1>2. /\ clock \in Nat /\ ops[t] \in 0 .. Num /\ Num \in Nat
      /\ created[t] \in Nat /\ stats[t].start \in Nat /\ stats[t].last_op \in Nat
      /\ t # NoHist /\ t \in Nat
      /\ hist[t] \in [num : Nat, sum : Nat]
  <2>1. t # NoHist /\ t \in Nat /\ Num \in Nat
    BY ThreadFacts DEF NoHist
  <2>2. /\ clock \in Nat /\ created[t] \in Nat /\ stats[t].start \in Nat
        /\ stats[t].last_op \in Nat
    BY <1>1, HarnessNumbers
  <2> QED BY <1>1, <2>1, <2>2
<1>3. main.pc \in {"spawn", "collect"}
  <2>1. Running /\ worker[t] \notin {"none", "exited"}
    BY DEF Worker, Arrive, LeaveBarrier, StartStats, Operate, OperationFails,
           StopStats, Finish
  <2> QED BY <2>1, WorkersRun
<1>4. UNCHANGED <<created, clock>> /\ main'.bench = main.bench
  BY <1>1 DEF Worker, Arrive, LeaveBarrier, StartStats, Operate, OperationFails,
     StopStats, Finish, timing
<1>5. ASSUME NEW b \in Threads, b # t PROVE ThreadStats(b)'
  <2>1. /\ worker'[b] = worker[b] /\ ops'[b] = ops[b] /\ stats'[b] = stats[b]
        /\ hist'[b] = hist[b]
    <3>1. CASE Operate(t)
      BY <1>1, <1>5, <3>1, OperateStats, ZenonT(30) DEF Operate, FinishedOps
    <3>2. CASE Arrive(t) \/ LeaveBarrier(t) \/ OperationFails(t) \/ Finish(t)
      BY <1>1, <1>5, <3>2 DEF Arrive, LeaveBarrier, OperationFails, Finish, measures
    <3>3. CASE StartStats(t) \/ StopStats(t)
      BY <1>1, <1>5, <3>3 DEF StartStats, StopStats
    <3> QED BY <3>1, <3>2, <3>3 DEF Worker
  <2> QED BY <1>2, <1>3, <1>4, <2>1, ThreadUndisturbed
<1>6. ThreadStats(t)'
  <2>1. CASE Arrive(t) \/ LeaveBarrier(t)
    <3>1. /\ worker[t] \in {"created", "waits"} /\ worker'[t] \in {"waits", "starts"}
          /\ UNCHANGED <<ops, stats, hist>>
      <4>1. CASE Arrive(t)
        BY <1>1, <4>1 DEF Arrive, measures
      <4>2. CASE LeaveBarrier(t)
        BY <1>1, <4>2 DEF LeaveBarrier, measures
      <4> QED BY <2>1, <4>1, <4>2
    <3>2. FreshStats(t)'
      BY <1>1, <1>4, <3>1 DEF ThreadStats, FreshStats
    <3> QED BY <3>1, <3>2 DEF ThreadStats
  <2>2. CASE StartStats(t)
    <3>1. /\ worker[t] = "starts" /\ worker'[t] = "runs" /\ ops'[t] = 0
          /\ stats'[t] = Start(stats[t].start) /\ hist' = hist /\ main' = main
      BY <1>1, <2>2 DEF StartStats
    <3>2. /\ created[t] <= clock /\ stats[t].start = created[t]
          /\ hist[t] = [num |-> 0, sum |-> 0]
      BY <1>1, <3>1 DEF ThreadStats, FreshStats
    <3>3. StartedStats(t)'
      BY <1>2, <1>4, <3>1, <3>2 DEF StartedStats, Start
    <3> QED BY <3>1, <3>3 DEF ThreadStats
  <2>3. CASE Operate(t)
    <3>1. /\ worker[t] = "runs" /\ worker'[t] = "runs" /\ Method # "readseq"
          /\ ops'[t] = ops[t] + 1 /\ main' = main
          /\ hist'[t] = [num |-> hist[t].num + 1,
                         sum |-> hist[t].sum + (clock - stats[t].last_op)]
      BY <1>1, <2>3 DEF Operate, FinishedOps
    <3>2. /\ stats'[t].start = stats[t].start /\ stats'[t].hist = t
          /\ stats'[t].last_op = clock /\ stats'[t].done = stats[t].done + 1
      BY <1>1, <2>3, OperateStats
    <3>3. StartedStats(t)
      BY <1>1, <3>1 DEF ThreadStats
    <3>4. hist'[t] = [num |-> ops'[t], sum |-> clock - created[t]]
      BY <1>2, <1>3, <3>1, <3>3 DEF StartedStats
    <3>5. StartedStats(t)'
      BY <1>2, <1>4, <3>1, <3>2, <3>3, <3>4 DEF StartedStats, Method
    <3> QED BY <3>1, <3>5 DEF ThreadStats
  <2>4. CASE OperationFails(t)
    <3>1. /\ worker[t] = "runs" /\ main'.pc = "exit" /\ worker' = worker
          /\ UNCHANGED <<ops, stats, hist>>
      BY <1>1, <2>4 DEF OperationFails, measures
    <3>2. StartedStats(t)'
      BY <1>1, <1>4, <3>1 DEF ThreadStats, StartedStats, Method
    <3> QED BY <3>1, <3>2 DEF ThreadStats
  <2>5. CASE StopStats(t)
    <3>1. /\ worker[t] = "runs" /\ worker'[t] = "stopped" /\ main' = main
          /\ UNCHANGED <<ops, hist>>
          /\ Method = "readseq" \/ Done(t)
          /\ stats' = [stats EXCEPT ![t].finish = clock]
      BY <1>1, <2>5 DEF StopStats
    <3>2. /\ stats'[t].start = stats[t].start /\ stats'[t].hist = stats[t].hist
          /\ stats'[t].last_op = stats[t].last_op /\ stats'[t].done = stats[t].done
      BY <1>1, <3>1 DEF StatsType
    <3>3. StartedStats(t)
      BY <1>1, <3>1 DEF ThreadStats
    <3>4. StartedStats(t)'
      BY <1>4, <3>1, <3>2, <3>3 DEF StartedStats, Method
    <3>5. ops[t] = Share
      BY <1>2, <3>1, <3>3 DEF Share, Done, StartedStats
    <3>6. ops'[t] = Share'
      BY <3>1, <3>5 DEF Share, Method
    <3> QED BY <3>1, <3>4, <3>6 DEF ThreadStats
  <2>6. CASE Finish(t)
    <3>1. /\ worker[t] = "stopped" /\ worker'[t] = "exited" /\ main' = main
          /\ UNCHANGED <<ops, stats, hist>>
      BY <1>1, <2>6 DEF Finish, measures
    <3>2. StartedStats(t)' /\ ops'[t] = Share'
      BY <1>1, <1>4, <3>1 DEF ThreadStats, StartedStats, Share, Method
    <3> QED BY <3>1, <3>2 DEF ThreadStats
  <2> QED BY <2>1, <2>2, <2>3, <2>4, <2>5, <2>6 DEF Worker
<1> QED BY <1>5, <1>6 DEF WorkerStats

(* So do the steps of everything else.                                     *)
LEMMA OthersKeepStats ==
    ASSUME HarnessInductive,
           WakeUpSpuriously \/ CheckerThread \/ Tick \/ UNCHANGED vars
    PROVE  WorkerStats'
<1>1. UNCHANGED <<main, worker, ops, stats, hist, created>>
  BY DEF WakeUpSpuriously, CheckerThread, CheckStop, Sample, StopsSampling, Tick,
         vars, measures, timing
<1>2. clock' = clock \/ clock' = clock + 1
  BY DEF WakeUpSpuriously, CheckerThread, CheckStop, Sample, StopsSampling, Tick,
         vars, timing
<1>3. clock' \in Nat /\ clock <= clock'
  BY <1>2, HarnessShapes, ThreadFacts, SMTT(30) DEF HarnessInductive
<1> QED BY <1>1, <1>3, ThreadUndisturbed DEF WorkerStats
------------------------------------------------------------------------------
(* The count of the MemoryChecker                                          *)

(* The sum stands while no worker's count changes.                         *)
LEMMA CountUndisturbed ==
    ASSUME CheckerCounts, checker'.ops = checker.ops,
           \A t \in Threads : Counted(t)' = Counted(t)
    PROVE  CheckerCounts'
BY DEF CheckerCounts

(* The threads are where the partial sums grow.                            *)
LEMMA ThreadRange ==
    /\ NumThreads \in Nat /\ 0 \in 0 .. NumThreads /\ NumThreads \in 0 .. NumThreads
    /\ \A t \in Threads : t \in 0 .. NumThreads /\ t + 1 \in 0 .. NumThreads
    /\ \A n \in 0 .. NumThreads : n \in Nat
    /\ \A t \in Threads : t \in Nat /\ t < NumThreads
BY ThreadFacts

(* An operation counts in the sums that include its thread.                *)
LEMMA OperateCounts ==
    ASSUME HarnessInductive, NEW t \in Threads, Operate(t) PROVE CheckerCounts'
<1>1. /\ TypeOK /\ CheckerCounts /\ checker.ops \in Nat
      /\ checker \in [pc : {"none", "loop", "sleeps", "exited"},
                      stop : BOOLEAN, max : Nat, ops : Nat]
  <2>1. TypeOK /\ CheckerCounts
    BY DEF HarnessInductive
  <2> QED BY <2>1, HarnessNumbers DEF TypeOK
<1>2. /\ worker' = worker /\ worker[t] = "runs"
      /\ checker'.ops = checker.ops + 1
  BY <1>1 DEF Operate, FinishedOps
<1>3. /\ Counted(t)' = Counted(t) + 1
      /\ \A b \in Threads : Counted(b) \in Nat
      /\ \A b \in Threads : b # t => Counted(b)' = Counted(b)
  <2>1. \A b \in Threads : stats[b].done \in Nat
    BY <1>1, HarnessNumbers
  <2>2. /\ \A b \in Threads : b # t => stats'[b] = stats[b]
        /\ stats'[t].done = stats[t].done + 1
    BY <1>1, OperateStats
  <2> QED BY <1>2, <2>1, <2>2 DEF Counted
<1>4. PICK sum \in [0 .. NumThreads -> 0 .. checker.ops] :
         /\ sum[0] = 0
         /\ \A b \in Threads : sum[b + 1] = sum[b] + Counted(b)
         /\ sum[NumThreads] = checker.ops
  BY <1>1 DEF CheckerCounts
<1> DEFINE new == [n \in 0 .. NumThreads |-> IF n > t THEN sum[n] + 1 ELSE sum[n]]
<1>5. \A n \in 0 .. NumThreads : sum[n] \in Nat /\ sum[n] <= checker.ops
  BY <1>1, <1>4
<1>6. new \in [0 .. NumThreads -> 0 .. checker'.ops]
  <2>1. ASSUME NEW n \in 0 .. NumThreads PROVE new[n] \in 0 .. checker'.ops
    BY <1>1, <1>2, <1>5
  <2> QED BY <2>1
<1>7. new[0] = 0 /\ new[NumThreads] = checker'.ops
  BY <1>2, <1>4, ThreadRange
<1>8. ASSUME NEW b \in Threads PROVE new[b + 1] = new[b] + Counted(b)'
  <2>1. /\ b \in 0 .. NumThreads /\ b + 1 \in 0 .. NumThreads
        /\ b \in Nat /\ t \in Nat
    BY ThreadRange
  <2>2. /\ sum[b + 1] = sum[b] + Counted(b) /\ sum[b] \in Nat /\ Counted(b) \in Nat
    BY <1>3, <1>4, <1>5, <2>1
  <2>3. CASE b < t
    BY <1>3, <2>1, <2>2, <2>3
  <2>4. CASE b = t
    BY <1>3, <2>1, <2>2, <2>4
  <2>5. CASE b > t
    BY <1>3, <2>1, <2>2, <2>5
  <2> QED BY <2>1, <2>3, <2>4, <2>5
<1> HIDE DEF new
<1> QED BY <1>6, <1>7, <1>8 DEF CheckerCounts

(* A step of the main thread counts nothing, and a new benchmark starts    *)
(* with a new MemoryChecker and no threads.                                *)
LEMMA MainKeepsCount ==
    ASSUME HarnessInductive, MainThread PROVE CheckerCounts'
<1>1. /\ TypeOK /\ CheckerCounts /\ BarrierCounts
      /\ main \in [pc : {"next", "spawn", "collect", "merge", "destroy", "join",
                         "exit"},
                   bench : 0..Len(Benchmarks), i : 0..NumThreads]
      /\ checker \in [pc : {"none", "loop", "sleeps", "exited"},
                      stop : BOOLEAN, max : Nat, ops : Nat]
      /\ worker \in [Threads -> {"none", "created", "waits", "starts", "runs",
                                 "stopped", "exited"}]
      /\ stats \in [Threads -> StatsType]
  BY DEF HarnessInductive, TypeOK
<1>2. CASE NextBenchmark
  <2>1. \A t \in Threads : Counted(t)' = 0
    BY <1>2 DEF NextBenchmark, NoThreads, Counted
  <2>2. checker'.ops = 0
    BY <1>2 DEF NextBenchmark
  <2> DEFINE new == [n \in 0 .. NumThreads |-> 0]
  <2>3. /\ new \in [0 .. NumThreads -> 0 .. checker'.ops]
        /\ new[0] = 0 /\ new[NumThreads] = checker'.ops
        /\ \A t \in Threads : new[t] = 0 /\ new[t + 1] = 0
    BY <2>2, ThreadRange
  <2> HIDE DEF new
  <2>4. ASSUME NEW t \in Threads PROVE new[t + 1] = new[t] + Counted(t)'
    <3>1. Counted(t)' = 0 /\ new[t] = 0 /\ new[t + 1] = 0
      BY <2>1, <2>3
    <3> QED BY <3>1
  <2> QED BY <2>3, <2>4 DEF CheckerCounts
<1>3. CASE Spawn
  <2>1. /\ main.i \in Threads /\ main.i \in Nat /\ checker' = checker
        /\ worker' = [worker EXCEPT ![main.i] = "created"]
        /\ worker[main.i] = "none"
    <3>1. main.i \in Threads /\ main.i \in Nat
      BY <1>1, <1>3, HarnessNumbers, ThreadFacts DEF Spawn
    <3>2. worker[main.i] = "none"
      BY <1>1, <1>3, <3>1 DEF Spawn, BarrierCounts
    <3> QED BY <1>3, <3>1, <3>2 DEF Spawn, memory
  <2>2. PICK junk \in {0, MaxTime} : stats' = [stats EXCEPT ![main.i] = Start(junk)]
    BY <1>3 DEF Spawn
  <2>3. ASSUME NEW t \in Threads PROVE Counted(t)' = Counted(t)
    <3>1. CASE t = main.i
      BY <1>1, <2>1, <2>2, <3>1 DEF Counted, Start
    <3>2. CASE t # main.i
      BY <1>1, <2>1, <2>2, <3>2 DEF Counted
    <3> QED BY <3>1, <3>2
  <2> QED BY <1>1, <2>1, <2>3, CountUndisturbed
<1>4. CASE OpenFails \/ StartWorkers \/ Collect \/ Merge \/ Report \/ StopChecker
           \/ JoinChecker
  <2>1. checker'.ops = checker.ops /\ UNCHANGED <<worker, stats>>
    <3>1. CASE OpenFails \/ StartWorkers \/ Collect
      BY <3>1 DEF OpenFails, StartWorkers, Collect, measures, memory
    <3>2. CASE Merge \/ Report
      BY <3>2 DEF Merge, Report, memory
    <3>3. CASE StopChecker
      BY <1>1, <3>3 DEF StopChecker, measures
    <3>4. CASE JoinChecker
      BY <3>4 DEF JoinChecker, measures
    <3> QED BY <1>4, <3>1, <3>2, <3>3, <3>4
  <2> QED BY <1>1, <2>1, CountUndisturbed DEF Counted
<1> QED BY <1>2, <1>3, <1>4 DEF MainThread

(* A worker's Stats start a second time before it has counted anything.    *)
LEMMA WorkerKeepsCount ==
    ASSUME HarnessInductive, NEW t \in Threads, Worker(t) PROVE CheckerCounts'
<1>1. /\ TypeOK /\ CheckerCounts /\ ThreadStats(t)
      /\ stats \in [Threads -> StatsType]
      /\ worker \in [Threads -> {"none", "created", "waits", "starts", "runs",
                                 "stopped", "exited"}]
  BY DEF HarnessInductive, TypeOK, WorkerStats
<1>2. CASE Operate(t)
  BY <1>2, OperateCounts
<1>3. CASE Arrive(t) \/ LeaveBarrier(t) \/ StartStats(t) \/ OperationFails(t)
           \/ StopStats(t) \/ Finish(t)
  <2>1. checker' = checker
    BY <1>3 DEF Arrive, LeaveBarrier, StartStats, OperationFails, StopStats,
                Finish, memory
  <2>2. /\ \A b \in Threads : b # t =>
              worker'[b] = worker[b] /\ stats'[b] = stats[b]
        /\ worker[t] # "none" /\ worker'[t] # "none"
        /\ stats'[t].done = stats[t].done
    <3>1. CASE Arrive(t)
      BY <1>1, <3>1 DEF Arrive, measures
    <3>2. CASE LeaveBarrier(t)
      BY <1>1, <3>2 DEF LeaveBarrier, measures
    <3>3. CASE StartStats(t)
      <4>1. stats[t].done = 0
        BY <1>1, <3>3 DEF StartStats, ThreadStats, FreshStats
      <4> QED BY <1>1, <3>3, <4>1 DEF StartStats, Start
    <3>4. CASE OperationFails(t)
      BY <1>1, <3>4 DEF OperationFails, measures
    <3>5. CASE StopStats(t)
      BY <1>1, <3>5 DEF StopStats, StatsType
    <3>6. CASE Finish(t)
      BY <1>1, <3>6 DEF Finish, measures
    <3> QED BY <1>3, <3>1, <3>2, <3>3, <3>4, <3>5, <3>6
  <2>3. \A b \in Threads : Counted(b)' = Counted(b)
    BY <2>2 DEF Counted
  <2> QED BY <1>1, <2>1, <2>3, CountUndisturbed
<1> QED BY <1>2, <1>3 DEF Worker

(* The thread of MemoryChecker leaves its own count alone.                 *)
LEMMA OthersKeepCount ==
    ASSUME HarnessInductive,
           WakeUpSpuriously \/ CheckerThread \/ Tick \/ UNCHANGED vars
    PROVE  CheckerCounts'
<1>1. /\ CheckerCounts
      /\ checker \in [pc : {"none", "loop", "sleeps", "exited"},
                      stop : BOOLEAN, max : Nat, ops : Nat]
  BY DEF HarnessInductive, TypeOK
<1>2. checker'.ops = checker.ops /\ UNCHANGED <<worker, stats>>
  BY <1>1 DEF WakeUpSpuriously, CheckerThread, CheckStop, Sample, StopsSampling,
              Tick, vars, measures, memory
<1> QED BY <1>1, <1>2, CountUndisturbed DEF Counted
------------------------------------------------------------------------------
(* Merging                                                                 *)

(* One share more.                                                         *)
LEMMA OneMoreShare ==
    ASSUME NEW i \in Nat, NEW s \in Nat
    PROVE  /\ i * s \in Nat /\ (i + 1) * s = i * s + s
           /\ 0 * s = 0 /\ 1 * s = s /\ i * 0 = 0
OBVIOUS

(* What a merge finds in the Stats of a thread that has finished.          *)
LEMMA FinishedStats ==
    ASSUME HarnessInductive, At("merge"), NEW t \in Threads
    PROVE  /\ worker[t] = "exited"
           /\ stats[t].done = Share /\ ops[t] = Share
           /\ stats[t].hist = IF Share = 0 THEN NoHist ELSE t
           /\ Share \in Nat /\ t # NoHist /\ t \in Nat
<1>1. worker[t] = "exited" /\ ThreadStats(t)
  BY DEF HarnessInductive, BarrierCounts, WorkerStats, At
<1>2. ops[t] = Share /\ StartedStats(t)
  BY <1>1 DEF ThreadStats
<1>3. Share \in Nat /\ t # NoHist /\ t \in Nat
  BY ThreadFacts DEF Share, NoHist
<1> QED BY <1>1, <1>2, <1>3 DEF StartedStats

(* Collecting finds every worker finished and nothing merged yet.          *)
LEMMA CollectMerges ==
    ASSUME HarnessInductive, Collect PROVE MergedSoFar'
<1>1. /\ TypeOK /\ WorkerStats /\ BarrierCounts /\ main.pc = "collect"
      /\ main \in [pc : {"next", "spawn", "collect", "merge", "destroy", "join",
                         "exit"},
                   bench : 0..Len(Benchmarks), i : 0..NumThreads]
  BY DEF HarnessInductive, TypeOK, Collect, At
<1>2. CASE shared.num_done < NumThreads
  BY <1>1, <1>2 DEF Collect, MergedSoFar, At
<1>3. CASE ~(shared.num_done < NumThreads)
  <2>1. /\ main'.i = 0 /\ main'.bench = main.bench
        /\ UNCHANGED <<worker, ops, stats, hist>>
    BY <1>1, <1>3 DEF Collect
  <2>2. PICK junk \in {0, MaxTime} : merge_stats' = Start(junk)
    BY <1>3 DEF Collect
  <2>3. \A t \in Threads : worker[t] = "exited"
    <3>1. shared.num_done \in 0 .. NumThreads /\ NumThreads \in Nat
      BY <1>1, HarnessShapes, ThreadFacts
    <3>2. Finished \in SUBSET Threads
      BY DEF Finished
    <3>3. Cardinality(Finished) >= NumThreads
      BY <1>1, <1>3, <3>1 DEF BarrierCounts
    <3>4. Finished = Threads
      BY <3>2, <3>3, ThreadFacts
    <3> QED BY <3>4 DEF Finished
  <2>4. ASSUME NEW t \in Threads
        PROVE  hist[t].num = Share /\ stats[t].start <= clock
    <3>1. ops[t] = Share /\ StartedStats(t)
      BY <1>1, <2>3 DEF WorkerStats, ThreadStats
    <3>2. /\ hist[t] = [num |-> ops[t], sum |-> stats[t].last_op - created[t]]
          /\ stats[t].start <= clock
      BY <1>1, <3>1 DEF StartedStats
    <3> QED BY <3>1, <3>2
  <2>5. /\ merge_stats'.done = 0 /\ merge_stats'.hist = NoHist
        /\ merge_stats'.start = clock
    BY <2>2 DEF Start
  <2>6. Share' = Share /\ 0 * Share = 0
    <3>1. Share \in Nat
      BY ThreadFacts DEF Share
    <3> QED BY <2>1, <3>1, OneMoreShare DEF Share, Method
  <2>7. \A t \in Threads : t \in Nat
    BY ThreadFacts
  <2> QED BY <2>1, <2>4, <2>5, <2>6, <2>7 DEF MergedSoFar
<1> QED BY <1>2, <1>3

(* A merge adds one thread to those the merged Stats stand for.            *)
LEMMA MergeMerges ==
    ASSUME HarnessInductive, Merge PROVE MergedSoFar'
<1> DEFINE i == main.i
           other == stats[main.i]
<1>1. /\ TypeOK /\ MergedSoFar /\ At("merge") /\ i \in Threads /\ i \in Nat
      /\ main'.i = i + 1 /\ main'.bench = main.bench /\ stats' = stats
      /\ merge_stats' = MergedStats(other) /\ hist' = MergedHist(other)
      /\ merge_stats \in StatsType
      /\ hist \in [Threads -> [num : Nat, sum : Nat]]
  <2>1. /\ TypeOK /\ MergedSoFar /\ At("merge") /\ main.i < NumThreads
        /\ merge_stats' = MergedStats(other) /\ hist' = MergedHist(other)
        /\ main' = [main EXCEPT !.i = @ + 1] /\ stats' = stats
    BY DEF HarnessInductive, Merge
  <2>2. main.i \in Threads /\ main.i \in Nat
    BY <2>1, HarnessNumbers, ThreadFacts
  <2> QED BY <2>1, <2>2 DEF TypeOK
<1>2. /\ Share' = Share /\ Share \in Nat /\ other.done = Share
      /\ other.hist = IF Share = 0 THEN NoHist ELSE i
  <2>1. Share' = Share
    BY <1>1 DEF Share, Method
  <2> QED BY <1>1, <2>1, FinishedStats
<1>3. /\ other.start \in Nat /\ other.finish \in Nat
      /\ merge_stats.start \in Nat /\ merge_stats.finish \in Nat
      /\ \A t \in Threads : stats[t].start \in Nat /\ stats[t].finish \in Nat
  BY <1>1, HarnessNumbers
<1>4. /\ merge_stats'.done = merge_stats.done + Share
      /\ merge_stats'.hist = IF merge_stats.hist = NoHist THEN other.hist
                             ELSE merge_stats.hist
      /\ merge_stats'.start = LesserOf(merge_stats.start, other.start)
      /\ merge_stats'.finish = GreaterOf(merge_stats.finish, other.finish)
  BY <1>1, <1>2 DEF MergedStats, StatsType
<1>5. /\ merge_stats.done = i * Share
      /\ merge_stats.hist = IF i = 0 \/ Share = 0 THEN NoHist ELSE 0
      /\ \A t \in Threads :
            hist[t].num = IF t = 0 /\ i > 0 THEN i * Share ELSE Share
      /\ \A t \in Threads :
            /\ i = 0 => stats[t].start <= merge_stats.start
            /\ t < i => /\ merge_stats.start <= stats[t].start
                        /\ merge_stats.finish >= stats[t].finish
      /\ i > 0 =>
            \E t \in Threads : t < i /\ merge_stats.start = stats[t].start
  BY <1>1 DEF MergedSoFar
<1>6. /\ 0 # NoHist /\ 0 \in Threads /\ i # NoHist
      /\ \A t \in Threads : t \in Nat
  BY <1>1, ThreadFacts DEF NoHist
<1>7. /\ i * Share \in Nat /\ (i + 1) * Share = i * Share + Share
      /\ 0 * Share = 0 /\ 1 * Share = Share
  BY <1>1, <1>2, OneMoreShare
<1>8. merge_stats'.done = main'.i * Share'
  BY <1>1, <1>2, <1>4, <1>5, <1>7
<1>9. merge_stats'.hist = IF main'.i = 0 \/ Share' = 0 THEN NoHist ELSE 0
  <2> HIDE DEF i, other
  <2>1. main'.i # 0
    BY <1>1
  <2> QED BY <1>1, <1>2, <1>4, <1>5, <1>6, <2>1
<1>10. ASSUME NEW t \in Threads
       PROVE  hist'[t].num = IF t = 0 /\ main'.i > 0 THEN main'.i * Share'
                             ELSE Share'
  <2>1. main'.i > 0
    BY <1>1
  <2>2. CASE i = 0
    <3>1. hist' = hist
      BY <1>1, <1>5, <2>2 DEF MergedHist
    <3>2. hist[t].num = Share /\ main'.i = 1
      BY <1>1, <1>5, <2>2
    <3> QED BY <1>2, <1>7, <3>1, <3>2
  <2>3. CASE i # 0 /\ Share = 0
    <3>1. hist' = hist
      BY <1>1, <1>5, <2>3 DEF MergedHist
    <3>2. i * Share = 0 /\ (i + 1) * Share = 0
      BY <1>1, <2>3, OneMoreShare
    <3>3. hist[t].num = 0
      BY <1>5, <2>3, <3>2
    <3> QED BY <1>1, <1>2, <2>3, <3>1, <3>2, <3>3
  <2>4. CASE i # 0 /\ Share # 0
    <3>1. merge_stats.hist = 0 /\ other.hist = i
      BY <1>2, <1>5, <2>4
    <3>2. hist' = [hist EXCEPT ![0] = [num |-> hist[0].num + hist[i].num,
                                       sum |-> hist[0].sum + hist[i].sum]]
      BY <1>1, <1>6, <3>1 DEF MergedHist
    <3>3. hist[0].num = i * Share /\ hist[i].num = Share
      BY <1>1, <1>5, <1>6, <2>4
    <3>4. t # 0 => hist'[t].num = Share
      BY <1>1, <1>5, <3>2
    <3>5. hist'[0].num = i * Share + Share
      BY <1>1, <1>6, <3>2, <3>3
    <3> QED BY <1>1, <1>2, <1>7, <2>1, <3>4, <3>5
  <2> QED BY <2>2, <2>3, <2>4
<1>11. ASSUME NEW t \in Threads
       PROVE  t < main'.i => /\ merge_stats'.start <= stats'[t].start
                             /\ merge_stats'.finish >= stats'[t].finish
  <2> SUFFICES ASSUME t < i + 1
               PROVE  /\ merge_stats'.start <= stats[t].start
                      /\ merge_stats'.finish >= stats[t].finish
    BY <1>1
  <2>1. t < i \/ t = i
    BY <1>1, <1>6
  <2>2. CASE t < i
    <3>1. /\ merge_stats.start <= stats[t].start
          /\ merge_stats.finish >= stats[t].finish
          /\ stats[t].start \in Nat /\ stats[t].finish \in Nat
      BY <1>3, <1>5, <2>2
    <3> QED BY <1>3, <1>4, <3>1 DEF LesserOf, GreaterOf
  <2>3. CASE t = i
    BY <1>3, <1>4, <2>3 DEF LesserOf, GreaterOf
  <2> QED BY <2>1, <2>2, <2>3
<1>12. \E t \in Threads : t < main'.i /\ merge_stats'.start = stats'[t].start
  <2>1. CASE merge_stats.start > other.start \/ i = 0
    <3>1. merge_stats'.start = other.start
      <4>1. CASE merge_stats.start > other.start
        BY <1>3, <1>4, <4>1 DEF LesserOf
      <4>2. CASE i = 0
        <5>1. other.start <= merge_stats.start
          BY <1>1, <1>5, <4>2
        <5> QED BY <1>3, <1>4, <5>1 DEF LesserOf
      <4> QED BY <2>1, <4>1, <4>2
    <3>2. i < main'.i
      BY <1>1
    <3> QED BY <1>1, <3>1, <3>2
  <2>2. CASE ~(merge_stats.start > other.start) /\ i # 0
    <3>1. PICK t \in Threads : t < i /\ merge_stats.start = stats[t].start
      BY <1>1, <1>5, <2>2
    <3>2. merge_stats'.start = merge_stats.start
      BY <1>3, <1>4, <2>2 DEF LesserOf
    <3>3. t < main'.i
      BY <1>1, <1>6, <3>1
    <3> QED BY <1>1, <3>1, <3>2, <3>3
  <2> QED BY <2>1, <2>2
<1>13. main'.i # 0
  BY <1>1
<1> HIDE DEF i, other
<1> QED BY <1>8, <1>9, <1>10, <1>11, <1>12, <1>13 DEF MergedSoFar

(* Nothing but a merge touches what is being merged.                       *)
LEMMA MergedUndisturbed ==
    ASSUME HarnessInductive,
           At("merge")' => /\ UNCHANGED <<stats, hist, merge_stats>>
                           /\ main' = main
    PROVE  MergedSoFar'
BY DEF HarnessInductive, MergedSoFar, At, Share, Method

(* Every step keeps the merged statistics equal to the sums over the       *)
(* workers merged so far.                                                  *)
LEMMA MergingNext ==
    ASSUME HarnessInductive, [Next]_vars PROVE MergedSoFar'
<1>1. /\ TypeOK
      /\ main \in [pc : {"next", "spawn", "collect", "merge", "destroy", "join",
                         "exit"},
                   bench : 0..Len(Benchmarks), i : 0..NumThreads]
  BY DEF HarnessInductive, TypeOK
<1>2. CASE Collect
  BY <1>2, CollectMerges
<1>3. CASE Merge
  BY <1>3, MergeMerges
<1>4. CASE NextBenchmark \/ OpenFails \/ Spawn \/ StartWorkers \/ Report
           \/ StopChecker \/ JoinChecker
  <2>1. main'.pc # "merge"
    BY <1>1, <1>4 DEF NextBenchmark, OpenFails, Spawn, StartWorkers, Report,
                      StopChecker, JoinChecker, At
  <2> QED BY <2>1, MergedUndisturbed DEF At
<1>5. ASSUME NEW t \in Threads, Worker(t) PROVE MergedSoFar'
  <2>1. main.pc \in {"spawn", "collect"}
    <3>1. Running /\ worker[t] \notin {"none", "exited"}
      BY <1>5 DEF Worker, Arrive, LeaveBarrier, StartStats, Operate,
                  OperationFails, StopStats, Finish
    <3> QED BY <3>1, WorkersRun
  <2>2. main' = main \/ main'.pc = "exit"
    BY <1>1, <1>5 DEF Worker, Arrive, LeaveBarrier, StartStats, Operate,
                      OperationFails, StopStats, Finish
  <2> QED BY <2>1, <2>2, MergedUndisturbed DEF At
<1>6. CASE WakeUpSpuriously \/ CheckerThread \/ Tick \/ UNCHANGED vars
  <2>1. UNCHANGED <<main, stats, hist, merge_stats>>
    BY <1>6 DEF WakeUpSpuriously, CheckerThread, CheckStop, Sample,
                StopsSampling, Tick, vars, measures
  <2> QED BY <2>1, MergedUndisturbed
<1> QED BY <1>2, <1>3, <1>4, <1>5, <1>6 DEF Next, MainThread

(* The greatest sample is that of this benchmark or an earlier one; it is  *)
(* kept when the MemoryChecker goes.                                       *)
LEMMA PeakNext ==
    ASSUME HarnessInductive, [Next]_vars PROVE PeakSoFar' /\ PeakKept'
<1>1. /\ PeakSoFar /\ PeakKept /\ LocalsOutliveTheirThreads
      /\ main \in [pc : {"next", "spawn", "collect", "merge", "destroy", "join",
                         "exit"},
                   bench : 0..Len(Benchmarks), i : 0..NumThreads]
      /\ checker \in [pc : {"none", "loop", "sleeps", "exited"},
                      stop : BOOLEAN, max : Nat, ops : Nat]
  BY DEF HarnessInductive, TypeOK
<1>2. checker.max \in Nat /\ peak \in Nat /\ g_max_memory \in Nat
  BY HarnessNumbers DEF HarnessInductive
<1>3. CASE NextBenchmark
  <2>1. /\ checker'.max = 0 /\ g_max_memory' = g_max_memory /\ peak' = peak
        /\ main'.pc = "spawn" /\ g_max_memory = peak
    BY <1>1, <1>3 DEF NextBenchmark, PeakKept
  <2> QED BY <1>2, <2>1 DEF PeakSoFar, PeakKept, GreaterOf, At
<1>4. CASE JoinChecker
  <2>1. /\ checker' = checker /\ peak' = peak
        /\ g_max_memory' = GreaterOf(g_max_memory, checker.max)
    BY <1>4 DEF JoinChecker
  <2> QED BY <1>1, <1>2, <2>1 DEF PeakSoFar, PeakKept, GreaterOf
<1>5. CASE Sample
  <2>1. PICK rss \in Rss :
           /\ checker' = [checker EXCEPT !.pc = "loop",
                                         !.max = GreaterOf(checker.max, rss)]
           /\ peak' = GreaterOf(peak, rss)
    BY <1>5 DEF Sample
  <2>2. /\ g_max_memory' = g_max_memory /\ main' = main
        /\ checker'.max = GreaterOf(checker.max, rss)
        /\ checker.pc = "sleeps" /\ rss \in Nat
    BY <1>1, <1>5, <2>1, HarnessParameters DEF Sample
  <2>3. ~At("next")'
    BY <1>1, <2>2 DEF LocalsOutliveTheirThreads, At
  <2>4. PeakSoFar'
    BY <1>1, <1>2, <2>1, <2>2 DEF PeakSoFar, GreaterOf
  <2> QED BY <2>3, <2>4 DEF PeakKept
<1>6. ASSUME checker'.max = checker.max, UNCHANGED <<g_max_memory, peak>>,
             main'.pc # "next" \/ main'.pc = main.pc
      PROVE  PeakSoFar' /\ PeakKept'
  BY <1>1, <1>6 DEF PeakSoFar, PeakKept, At
<1>7. CASE OpenFails \/ Spawn \/ StartWorkers \/ Collect \/ Merge \/ Report
           \/ StopChecker
  <2>1. checker'.max = checker.max /\ UNCHANGED <<g_max_memory, peak>>
    <3>1. CASE OpenFails \/ Spawn \/ StartWorkers \/ Collect
      BY <3>1 DEF OpenFails, Spawn, StartWorkers, Collect, memory
    <3>2. CASE Merge \/ Report
      BY <3>2 DEF Merge, Report, memory
    <3>3. CASE StopChecker
      BY <1>1, <3>3 DEF StopChecker
    <3> QED BY <1>7, <3>1, <3>2, <3>3
  <2>2. main'.pc # "next" \/ main'.pc = main.pc
    BY <1>1, <1>7 DEF OpenFails, Spawn, StartWorkers, Collect, Merge, Report,
                      StopChecker, At
  <2> QED BY <1>6, <2>1, <2>2
<1>8. ASSUME NEW t \in Threads, Worker(t) PROVE PeakSoFar' /\ PeakKept'
  <2>1. checker'.max = checker.max /\ UNCHANGED <<g_max_memory, peak>>
    BY <1>1, <1>8 DEF Worker, Arrive, LeaveBarrier, StartStats, Operate,
                      FinishedOps, OperationFails, StopStats, Finish, memory
  <2>2. main' = main \/ main'.pc = "exit"
    BY <1>1, <1>8 DEF Worker, Arrive, LeaveBarrier, StartStats, Operate,
                      OperationFails, StopStats, Finish
  <2> QED BY <1>6, <2>1, <2>2
<1>9. CASE WakeUpSpuriously \/ CheckStop \/ StopsSampling \/ Tick \/ UNCHANGED vars
  <2>1. /\ checker'.max = checker.max
        /\ UNCHANGED <<main, g_max_memory, peak>>
    BY <1>1, <1>9 DEF WakeUpSpuriously, CheckStop, StopsSampling, Tick, vars, memory
  <2> QED BY <1>6, <2>1
<1> QED BY <1>3, <1>4, <1>5, <1>7, <1>8, <1>9
        DEF Next, MainThread, CheckerThread
------------------------------------------------------------------------------
(* The theorems                                                            *)

(* The initial states satisfy the inductive invariant.                     *)
LEMMA HarnessInit == Init => HarnessInductive
<1> SUFFICES ASSUME Init PROVE HarnessInductive
  OBVIOUS
<1>1. TypeOK
  BY HarnessInitType
<1>2. BarrierCounts
  <2>1. Arrived = {} /\ Finished = {}
    BY DEF Init, NoThreads, Arrived, Finished
  <2>2. Cardinality(Arrived) = 0 /\ Cardinality(Finished) = 0
    BY <2>1, FS_EmptySet
  <2> QED BY <2>2 DEF Init, BarrierCounts, At
<1>3. BarrierHolds /\ LocalsOutliveTheirThreads
  BY DEF Init, NoThreads, BarrierHolds, LocalsOutliveTheirThreads, At
<1>4. WorkerStats
  BY DEF Init, NoThreads, WorkerStats, ThreadStats
<1>5. CheckerCounts
  <2> DEFINE new == [n \in 0 .. NumThreads |-> 0]
  <2>1. /\ new \in [0 .. NumThreads -> 0 .. 0]
        /\ new[0] = 0 /\ new[NumThreads] = 0
        /\ \A t \in Threads : new[t] = 0 /\ new[t + 1] = 0
    BY ThreadRange
  <2>2. checker.ops = 0 /\ \A t \in Threads : Counted(t) = 0
    BY DEF Init, NoThreads, Counted
  <2> HIDE DEF new
  <2>3. ASSUME NEW t \in Threads PROVE new[t + 1] = new[t] + Counted(t)
    <3>1. Counted(t) = 0 /\ new[t] = 0 /\ new[t + 1] = 0
      BY <2>1, <2>2
    <3> QED BY <3>1
  <2> QED BY <2>1, <2>2, <2>3 DEF CheckerCounts
<1>6. MergedSoFar /\ PeakSoFar /\ PeakKept
  BY DEF Init, MergedSoFar, PeakSoFar, PeakKept, GreaterOf, At
<1> QED BY <1>1, <1>2, <1>3, <1>4, <1>5, <1>6 DEF HarnessInductive

(* Every step keeps the inductive invariant.                               *)
LEMMA HarnessNext == HarnessInductive /\ [Next]_vars => HarnessInductive'
<1> SUFFICES ASSUME HarnessInductive, [Next]_vars PROVE HarnessInductive'
  OBVIOUS
<1>1. MergedSoFar' /\ PeakSoFar' /\ PeakKept'
  BY MergingNext, PeakNext
<1>2. CASE MainThread
  BY <1>1, <1>2, MainNextType, MainKeepsBarrier, MainKeepsStats, MainKeepsCount
     DEF HarnessInductive
<1>3. ASSUME NEW t \in Threads, Worker(t) PROVE HarnessInductive'
  <2>1. BarrierCounts' /\ BarrierHolds' /\ LocalsOutliveTheirThreads'
    BY <1>3, WorkerKeepsBarrier
  <2>2. /\ shared'.num_initialized \in 0 .. NumThreads
        /\ shared'.num_done \in 0 .. NumThreads
    <3>1. Arrived' \in SUBSET Threads /\ Finished' \in SUBSET Threads
      BY DEF Arrived, Finished
    <3>2. /\ Cardinality(Arrived') \in Nat /\ Cardinality(Arrived') <= NumThreads
          /\ Cardinality(Finished') \in Nat /\ Cardinality(Finished') <= NumThreads
      BY <3>1, ThreadFacts
    <3>3. /\ shared'.num_initialized = Cardinality(Arrived')
          /\ shared'.num_done = Cardinality(Finished')
      BY <2>1 DEF BarrierCounts
    <3> QED BY <3>2, <3>3, ThreadFacts
  <2>3. TypeOK'
    BY <1>3, <2>2, WorkerNextType
  <2>4. WorkerStats'
    BY <1>3, WorkerKeepsStats
  <2>5. CheckerCounts'
    BY <1>3, WorkerKeepsCount
  <2> QED BY <1>1, <2>1, <2>3, <2>4, <2>5 DEF HarnessInductive
<1>4. CASE WakeUpSpuriously \/ CheckerThread \/ Tick \/ UNCHANGED vars
  BY <1>1, <1>4, OtherNextType, OthersKeepBarrier, OthersKeepStats,
     OthersKeepCount DEF HarnessInductive
<1> QED BY <1>2, <1>3, <1>4 DEF Next

(* The inductive invariant: types, the barrier's counters, the workers'    *)
(* Stats, the count of the MemoryChecker, what is merged and the greatest  *)
(* sample.                                                                 *)
THEOREM HarnessInvariant == Spec => []HarnessInductive
BY HarnessInit, HarnessNext, PTL DEF Spec

(* No worker runs before all of them have arrived and the main thread lets *)
(* them go, whoever is notified and whatever wakes up without being.       *)
THEOREM BarrierIsKept == Spec => []BarrierHolds
<1>1. HarnessInductive => BarrierHolds
  BY DEF HarnessInductive
<1> QED BY <1>1, HarnessInvariant, PTL

(* RunBenchmark reads and destroys the Stats, the SharedState and the      *)
(* MemoryChecker only when the threads that use them are done.             *)
THEOREM LocalsAreSafe == Spec => []LocalsOutliveTheirThreads
<1>1. HarnessInductive => LocalsOutliveTheirThreads
  BY DEF HarnessInductive
<1> QED BY <1>1, HarnessInvariant, PTL

(* When all threads have finished the MemoryChecker has counted a share of *)
(* operations for each of them; by induction on the partial sums.          *)
LEMMA SharesAddUp ==
    ASSUME HarnessInductive, At("merge")
    PROVE  checker.ops = NumThreads * Share
<1>1. PICK sum \in [0 .. NumThreads -> 0 .. checker.ops] :
         /\ sum[0] = 0
         /\ \A t \in Threads : sum[t + 1] = sum[t] + Counted(t)
         /\ sum[NumThreads] = checker.ops
  BY DEF HarnessInductive, CheckerCounts
<1>2. \A t \in Threads : Counted(t) = Share
  BY FinishedStats DEF Counted
<1>3. Share \in Nat
  BY ThreadFacts DEF Share
<1> DEFINE S == {n \in Nat : n <= NumThreads => sum[n] = n * Share}
<1>4. 0 \in S
  BY <1>1, <1>3, OneMoreShare
<1>5. ASSUME NEW n \in Nat, n \in S PROVE n + 1 \in S
  <2>1. SUFFICES ASSUME n + 1 <= NumThreads PROVE sum[n + 1] = (n + 1) * Share
    OBVIOUS
  <2>2. n \in Threads
    BY <2>1, ThreadFacts
  <2>3. sum[n] = n * Share
    BY <1>5, <2>1, ThreadFacts
  <2>4. sum[n + 1] = sum[n] + Share
    BY <1>1, <1>2, <2>2
  <2> QED BY <1>3, <2>3, <2>4, OneMoreShare
<1>6. Nat \subseteq S
  <2> HIDE DEF S
  <2> QED BY <1>4, <1>5, InductionOnSets
<1>7. NumThreads \in S
  BY <1>6, ThreadFacts
<1> QED BY <1>1, <1>7, ThreadFacts

(* What RunBenchmark reports of its threads is what they did: all their    *)
(* operations in the merged Stats, in the MemoryChecker and in the shared  *)
(* histogram, all their time, and the greatest memory sampled.             *)
THEOREM ReportsAreTrue == Spec => []ReportIsTrue
<1>1. ASSUME HarnessInductive PROVE ReportIsTrue
  <2>1. TypeOK /\ MergedSoFar /\ WorkerStats /\ PeakKept
    BY <1>1 DEF HarnessInductive
  <2>2. MergeIsComplete
    <3> SUFFICES ASSUME At("merge"), main.i = NumThreads
                 PROVE  /\ merge_stats.done = Operations
                        /\ checker.ops = Operations
                        /\ IF merge_stats.hist = NoHist THEN Operations = 0
                           ELSE hist[merge_stats.hist].num = Operations
      BY DEF MergeIsComplete, AllMerged
    <3>1. /\ NumThreads \in Nat /\ NumThreads > 0 /\ 0 \in Threads /\ 0 # NoHist
      BY ThreadFacts DEF NoHist
    <3>2. Operations = NumThreads * Share
      <4>1. NumThreads * 0 = 0
        BY <3>1, OneMoreShare
      <4> QED BY <4>1 DEF Operations, Share
    <3>3. /\ merge_stats.done = NumThreads * Share
          /\ merge_stats.hist = IF NumThreads = 0 \/ Share = 0 THEN NoHist ELSE 0
          /\ hist[0].num = NumThreads * Share
      BY <2>1, <3>1 DEF MergedSoFar
    <3>4. checker.ops = NumThreads * Share
      BY <1>1, SharesAddUp
    <3>5. Share = 0 => Operations = 0
      <4>1. NumThreads * 0 = 0
        BY <3>1, OneMoreShare
      <4> QED BY <3>2, <4>1
    <3> QED BY <3>1, <3>2, <3>3, <3>4, <3>5
  <2>3. LatenciesAddUp
    <3> SUFFICES ASSUME At("collect"), NEW t \in Threads, stats[t].hist # NoHist
                 PROVE  /\ hist[t].sum <= stats[t].last_op - created[t]
                        /\ hist[t].sum >= stats[t].last_op - stats[t].start
      BY DEF LatenciesAddUp
    <3>1. created[t] \in Nat /\ stats[t].start \in Nat /\ stats[t].last_op \in Nat
      BY <2>1, HarnessNumbers
    <3>2. StartedStats(t) \/ worker[t] = "none"
      <4>1. /\ worker \in [Threads -> {"none", "created", "waits", "starts",
                                       "runs", "stopped", "exited"}]
            /\ ThreadStats(t)
        BY <2>1 DEF TypeOK, WorkerStats
      <4> QED BY <4>1 DEF ThreadStats, FreshStats
    <3>3. worker[t] # "none"
      <4>1. Cardinality(Arrived) = NumThreads
        BY <1>1 DEF HarnessInductive, BarrierCounts
      <4>2. Arrived \in SUBSET Threads
        BY DEF Arrived
      <4>3. Arrived = Threads
        BY <4>1, <4>2, ThreadFacts
      <4> QED BY <4>3 DEF Arrived
    <3>4. /\ hist[t].sum = stats[t].last_op - created[t]
          /\ created[t] <= stats[t].start
      BY <3>2, <3>3 DEF StartedStats, At
    <3> QED BY <3>1, <3>4
  <2>4. ElapsedCoversWorkers
    <3> SUFFICES ASSUME At("merge"), main.i = NumThreads
                 PROVE  /\ \A t \in Threads :
                              /\ merge_stats.start <= stats[t].start
                              /\ merge_stats.finish >= stats[t].finish
                        /\ \E t \in Threads : merge_stats.start = stats[t].start
      BY DEF ElapsedCoversWorkers, AllMerged
    <3>1. NumThreads > 0 /\ \A t \in Threads : t < NumThreads
      BY ThreadFacts
    <3> QED BY <2>1, <3>1 DEF MergedSoFar
  <2> QED BY <2>1, <2>2, <2>3, <2>4 DEF ReportIsTrue
<1> QED BY <1>1, HarnessInvariant, PTL
===========================================================================
