----------------------------- MODULE AsyncLog ------------------------------
(* The engine's log, kvlog: an asynchronous spdlog logger.  The threads of *)
(* the engine and the periodic flusher post messages to the thread pool's  *)
(* queue and block while it is full; the pool's workers write them to the  *)
(* sink.  The registry and whoever is posting share the pool: the last of  *)
(* them to let it go runs its destructor.  The condition variables are     *)
(* waits and single wake-ups; notify_one comes after the unlock.           *)
EXTENDS Naturals, Sequences, FiniteSets

CONSTANTS Clients,      \* threads that log
          Main,         \* the thread that calls shutdown()
          Flusher,      \* the thread of flush_every
          Workers,      \* the most threads the pool may have
          Capacity,     \* q_max_items
          NoItem,
          LogLevels,    \* the level each client logs at
          Level, FlushLevel,
          WorkerSets,   \* bound: the pools that are tried
          MaxPosts(_, _), \* bound: log and flush calls of a client, by pool
          MaxFlushes    \* bound: rounds of the flusher

Callers == Clients \cup {Main, Flusher}
off == 6
Messages == [kind : {"log", "flush", "terminate"}, by : Callers, n : Nat,
             lvl : 0 .. off]

INSTANCE CircularQ WITH Items <- Messages

ASSUME CallersAssumption == /\ Main \notin Clients /\ Flusher \notin Clients
                            /\ Main # Flusher /\ "registry" \notin Callers
ASSUME QueueAssumption == Capacity \in Nat \ {0} /\ NoItem \notin Messages
ASSUME WorkerAssumption == /\ IsFiniteSet(Workers)
                           /\ WorkerSets \subseteq (SUBSET Workers) \ {{}}
ASSUME LevelAssumption == /\ LogLevels \in [Clients -> 0 .. off - 1]
                          /\ {Level, FlushLevel} \subseteq 0 .. off

VARIABLES
    policy,         \* the logger's overflow policy
    threads,        \* the workers init_thread_pool has started
    q,              \* the queue of the pool
    pool,           \* "alive", "dying" while its destructor runs, "gone"
    pool_refs,      \* who holds a shared_ptr to the pool
    terminates,     \* terminate messages the destructor has yet to post
    pc, msg, posts, \* of a caller: where it is, what it posts, its calls
    wpc, item,      \* of a worker: where it is, the message it took out
    registry,       \* loggers_ is not empty; flusher active; who has the map
    flushes,
    accepted,       \* every log message put into the queue, in order
    handled,        \* every log message a worker has given to the sink
    flushed         \* how many of handled are on disk

pool_vars == <<pool, pool_refs, terminates>>
caller_vars == <<pc, msg, posts>>
worker_vars == <<wpc, item>>
file_vars == <<handled, flushed>>
vars == <<policy, threads, q, pool_vars, caller_vars, worker_vars, registry,
          flushes, accepted, file_vars>>

Nothing == [kind |-> "terminate", by |-> Main, n |-> 0, lvl |-> off]
Terminator == Nothing

(* get_logger(): init_thread_pool, set_pattern, and the logger registered. *)
Init ==
    /\ policy \in {"block", "overrun_oldest"}
    /\ threads \in WorkerSets
    /\ q = NewRing
    /\ pool = "alive"
    /\ pool_refs = {"registry"}
    /\ terminates = 0
    /\ pc = [t \in Callers |-> "idle"]
    /\ msg = [t \in Callers |-> Nothing]
    /\ posts = [c \in Clients |-> 0]
    /\ wpc = [w \in Workers |-> IF w \in threads THEN "dequeue" ELSE "exited"]
    /\ item = [w \in Workers |-> Nothing]
    /\ registry = [logger |-> TRUE, flusher |-> TRUE, mutex |-> "free"]
    /\ flushes = 0
    /\ accepted = <<>>
    /\ handled = <<>>
    /\ flushed = 0
------------------------------------------------------------------------------
(* Posting: weak_ptr::lock, post_log or post_flush, release.               *)

ShouldLog(lvl) == lvl >= Level
ShouldFlush(m) == m.lvl >= FlushLevel /\ m.lvl # off

PoolLocks == pool_refs # {}

(* The pool is pinned while the caller posts; without a pool the call ends *)
(* in the error handler.                                                   *)
PostWithoutPinning(t, m) ==
    /\ IF PoolLocks
       THEN /\ msg' = [msg EXCEPT ![t] = m]
            /\ pc' = [pc EXCEPT ![t] = "enqueue"]
       ELSE UNCHANGED <<msg, pc>>
    /\ UNCHANGED <<pool, pool_refs, terminates>>

Post(t, m) ==
    /\ IF PoolLocks
       THEN /\ pool_refs' = pool_refs \cup {t}
            /\ msg' = [msg EXCEPT ![t] = m]
            /\ pc' = [pc EXCEPT ![t] = "enqueue"]
       ELSE UNCHANGED <<pool_refs, msg, pc>>
    /\ UNCHANGED <<pool, terminates>>

Counted(c) == /\ pc[c] = "idle"
              /\ posts[c] < MaxPosts(c, threads)
              /\ posts' = [posts EXCEPT ![c] = @ + 1]

Log(c) ==
    /\ Counted(c)
    /\ ShouldLog(LogLevels[c])
    /\ Post(c, [kind |-> "log", by |-> c, n |-> posts[c] + 1,
                lvl |-> LogLevels[c]])
    /\ UNCHANGED <<policy, threads, q, worker_vars, registry, flushes, accepted, file_vars>>

Flush(c) ==
    /\ Counted(c)
    /\ Post(c, [kind |-> "flush", by |-> c, n |-> posts[c] + 1, lvl |-> off])
    /\ UNCHANGED <<policy, threads, q, worker_vars, registry, flushes, accepted, file_vars>>

(* The flusher's round: its own mutex_ and logger_map_mutex_ are held over *)
(* the post, and so while it blocks.                                       *)
FlushAll ==
    /\ pc[Flusher] = "idle"
    /\ registry.flusher
    /\ registry.mutex = "free"
    /\ flushes < MaxFlushes
    /\ flushes' = flushes + 1
    /\ IF registry.logger
       THEN /\ Post(Flusher, [kind |-> "flush", by |-> Flusher, n |-> 0,
                              lvl |-> off])
            /\ registry' = [registry EXCEPT
                              !.mutex = IF PoolLocks THEN "held" ELSE "free"]
       ELSE UNCHANGED <<pool_vars, pc, msg, registry>>
    /\ UNCHANGED <<policy, threads, q, posts, worker_vars, accepted,
                   file_vars>>

(* post_log for the policy overrun_oldest, post_and_wait for block ...     *)
MustBlockSwapped(t) == policy = "overrun_oldest" \/ msg[t].kind = "terminate"

MustBlock(t) == policy = "block" \/ msg[t].kind = "terminate"

(* enqueue: wait on pop_cv_ while the ring is full ...                     *)
Blocks(t) ==
    /\ pc[t] = "enqueue"
    /\ MustBlock(t)
    /\ IsFull(q)
    /\ pc' = [pc EXCEPT ![t] = "blocked"]
    /\ UNCHANGED <<policy, threads, q, pool_vars, msg, posts, worker_vars,
                   registry, flushes, accepted, file_vars>>

(* ... and push; enqueue_nowait pushes at once.                            *)
Enqueue(t) ==
    /\ pc[t] = "enqueue"
    /\ MustBlock(t) => ~IsFull(q)
    /\ q' = PushBack(q, msg[t])
    /\ accepted' = IF msg[t].kind = "log" THEN Append(accepted, msg[t])
                   ELSE accepted
    /\ pc' = [pc EXCEPT ![t] = "notify"]
    /\ UNCHANGED <<policy, threads, pool_vars, msg, posts, worker_vars,
                   registry, flushes, file_vars>>

(* push_cv_.notify_one(): one waiting worker or nobody.                    *)
WakeWorker ==
    LET waiting == {w \in threads : wpc[w] = "waiting"}
    IN IF waiting = {} THEN UNCHANGED wpc
       ELSE \E w \in waiting : wpc' = [wpc EXCEPT ![w] = "dequeue"]

(* A reference is given up; the last one runs ~thread_pool right there: it *)
(* posts a terminate for every worker, always blocking, and joins them.    *)
LetGo(t, holder, next) ==
    /\ pool_refs' = pool_refs \ {holder}
    /\ IF pool_refs = {holder}
       THEN /\ pool' = "dying"
            /\ terminates' = Cardinality(threads)
            /\ msg' = [msg EXCEPT ![t] = Terminator]
            /\ pc' = [pc EXCEPT ![t] = "enqueue"]
       ELSE /\ pc' = [pc EXCEPT ![t] = next]
            /\ UNCHANGED <<pool, terminates, msg>>

(* After the push: the wake-up and, for a post, the end of the call.       *)
Release(t) ==
    /\ pc[t] = "notify"
    /\ msg[t].kind # "terminate"
    /\ WakeWorker
    /\ LetGo(t, t, "idle")
    /\ registry' = IF t = Flusher THEN [registry EXCEPT !.mutex = "free"]
                   ELSE registry
    /\ UNCHANGED <<policy, threads, q, posts, item, flushes, accepted,
                   file_vars>>

NextTerminate(t) ==
    /\ pc[t] = "notify"
    /\ msg[t].kind = "terminate"
    /\ WakeWorker
    /\ terminates' = terminates - 1
    /\ pc' = [pc EXCEPT ![t] = IF terminates > 1 THEN "enqueue" ELSE "join"]
    /\ UNCHANGED <<policy, threads, q, pool, pool_refs, msg, posts, item,
                   registry, flushes, accepted, file_vars>>

JoinWithoutWaiting(t) ==
    /\ pc[t] = "join"
    /\ pool' = "gone"
    /\ pc' = [pc EXCEPT ![t] = IF t = Main THEN "done" ELSE "idle"]
    /\ UNCHANGED <<policy, threads, q, pool_refs, terminates, msg, posts,
                   worker_vars, registry, flushes, accepted, file_vars>>

Join(t) ==
    /\ pc[t] = "join"
    /\ \A w \in threads : wpc[w] = "exited"
    /\ pool' = "gone"
    /\ pc' = [pc EXCEPT ![t] = IF t = Main THEN "done" ELSE "idle"]
    /\ UNCHANGED <<policy, threads, q, pool_refs, terminates, msg, posts,
                   worker_vars, registry, flushes, accepted, file_vars>>
------------------------------------------------------------------------------
(* registry::shutdown, in the main thread: the flusher is told to end,     *)
(* under its mutex_, and joined; the loggers and then the pool are dropped.*)
StopFlusher ==
    /\ pc[Main] = "idle"
    /\ pc[Flusher] = "idle"
    /\ registry' = [registry EXCEPT !.flusher = FALSE]
    /\ pc' = [pc EXCEPT ![Main] = "joining"]
    /\ UNCHANGED <<policy, threads, q, pool_vars, msg, posts, worker_vars,
                   flushes, accepted, file_vars>>

FlusherExits ==
    /\ pc[Flusher] = "idle"
    /\ ~registry.flusher
    /\ pc' = [pc EXCEPT ![Flusher] = "exited"]
    /\ UNCHANGED <<policy, threads, q, pool_vars, msg, posts, worker_vars,
                   registry, flushes, accepted, file_vars>>

DropAll ==
    /\ pc[Main] = "joining"
    /\ pc[Flusher] = "exited"
    /\ registry.mutex = "free"
    /\ registry' = [registry EXCEPT !.logger = FALSE]
    /\ pc' = [pc EXCEPT ![Main] = "dropped"]
    /\ UNCHANGED <<policy, threads, q, pool_vars, msg, posts, worker_vars,
                   flushes, accepted, file_vars>>

ResetTp ==
    /\ pc[Main] = "dropped"
    /\ LetGo(Main, "registry", "done")
    /\ UNCHANGED <<policy, threads, q, posts, worker_vars, registry,
                   flushes, accepted, file_vars>>
------------------------------------------------------------------------------
(* process_next_msg_                                                       *)

Dequeue(w) ==
    /\ wpc[w] = "dequeue"
    /\ IF IsEmpty(q)
       THEN /\ wpc' = [wpc EXCEPT ![w] = "waiting"]
            /\ UNCHANGED <<q, item>>
       ELSE /\ item' = [item EXCEPT ![w] = FrontItem(q)]
            /\ q' = PopFront(q)
            /\ wpc' = [wpc EXCEPT ![w] = "popped"]
    /\ UNCHANGED <<policy, threads, pool_vars, caller_vars, registry, flushes, accepted, file_vars>>

(* The wait has a deadline of ten seconds, and the loop tries again.       *)
WaitTimesOut(w) ==
    /\ wpc[w] = "waiting"
    /\ wpc' = [wpc EXCEPT ![w] = "dequeue"]
    /\ UNCHANGED <<policy, threads, q, pool_vars, caller_vars, item, registry,
                   flushes, accepted, file_vars>>

NotifyNobody(w) ==
    /\ wpc[w] = "popped"
    /\ wpc' = [wpc EXCEPT ![w] = IF item[w].kind = "terminate" THEN "exited"
                                 ELSE item[w].kind]
    /\ UNCHANGED <<policy, threads, q, pool_vars, caller_vars, item, registry,
                   flushes, accepted, file_vars>>

NotifyPop(w) ==
    /\ wpc[w] = "popped"
    /\ wpc' = [wpc EXCEPT ![w] = IF item[w].kind = "terminate" THEN "exited"
                                 ELSE item[w].kind]
    /\ LET blocked == {t \in Callers : pc[t] = "blocked"}
       IN IF blocked = {} THEN UNCHANGED pc
          ELSE \E t \in blocked : pc' = [pc EXCEPT ![t] = "enqueue"]
    /\ UNCHANGED <<policy, threads, q, pool_vars, msg, posts, item, registry,
                   flushes, accepted, file_vars>>

(* backend_log_: the sinks write, or throw and the error is handled; the   *)
(* flush that the level asks for follows either way.                       *)
BackendLog(w) ==
    /\ wpc[w] = "log"
    /\ handled' = Append(handled, item[w])
    /\ wpc' = [wpc EXCEPT ![w] = IF ShouldFlush(item[w]) THEN "flush"
                                 ELSE "dequeue"]
    /\ UNCHANGED <<policy, threads, q, pool_vars, caller_vars, item, registry,
                   flushes, accepted, flushed>>

(* Only the flush that the level of a message asks for.                    *)
BackendFlushIfAsked(w) ==
    /\ wpc[w] = "flush"
    /\ flushed' = IF item[w].kind = "log" THEN Len(handled) ELSE flushed
    /\ wpc' = [wpc EXCEPT ![w] = "dequeue"]
    /\ UNCHANGED <<policy, threads, q, pool_vars, caller_vars, item, registry,
                   flushes, accepted, handled>>

BackendFlush(w) ==
    /\ wpc[w] = "flush"
    /\ flushed' = Len(handled)
    /\ wpc' = [wpc EXCEPT ![w] = "dequeue"]
    /\ UNCHANGED <<policy, threads, q, pool_vars, caller_vars, item, registry,
                   flushes, accepted, handled>>
------------------------------------------------------------------------------
MainStep == DropAll \/ ResetTp

CallerStep(t) == \/ Blocks(t)
                 \/ Enqueue(t)
                 \/ Release(t)
                 \/ NextTerminate(t)
                 \/ Join(t)

Worker(w) == \/ Dequeue(w)
             \/ WaitTimesOut(w)
             \/ NotifyPop(w)
             \/ BackendLog(w)
             \/ BackendFlush(w)

Next == \/ \E c \in Clients : Log(c) \/ Flush(c)
        \/ FlushAll
        \/ FlusherExits
        \/ StopFlusher
        \/ MainStep
        \/ \E t \in Callers : CallerStep(t)
        \/ \E w \in Workers : Worker(w)

Spec == Init /\ [][Next]_vars

(* Threads go on.  That a client logs, that the flusher has a round to do  *)
(* and that main begins its shutdown is not assumed.                       *)
Fairness == /\ \A c \in Clients : WF_vars(CallerStep(c))
            /\ WF_vars(CallerStep(Flusher) \/ FlusherExits)
            /\ WF_vars(CallerStep(Main) \/ MainStep)
            /\ \A w \in Workers : WF_vars(Worker(w))

FairSpec == Spec /\ Fairness
------------------------------------------------------------------------------
(* Types                                                                   *)
TypeOK ==
    /\ q \in Rings
    /\ pool \in {"alive", "dying", "gone"}
    /\ pool_refs \subseteq Callers \cup {"registry"}
    /\ terminates \in 0 .. Cardinality(Workers)
    /\ pc \in [Callers -> {"idle", "enqueue", "blocked", "notify", "join",
                           "joining", "dropped", "exited", "done"}]
    /\ wpc \in [Workers -> {"dequeue", "waiting", "popped", "log", "flush",
                            "exited"}]
    /\ msg \in [Callers -> Messages]
    /\ item \in [Workers -> Messages]
------------------------------------------------------------------------------
(* Safety                                                                  *)

IsLog(m) == m.kind = "log"
Lines(s) == {i \in DOMAIN s : IsLog(s[i])}
InHand == {w \in Workers : IsLog(item[w]) /\ wpc[w] \in {"popped", "log"}}
Kept == Len(handled) + Cardinality(InHand) + Cardinality(Lines(Contents(q)))

(* The engine's pool has one worker; then it is the log's order that is    *)
(* kept.                                                                   *)
OneWorker == Cardinality(threads) = 1
Pipeline == handled \o (IF InHand = {} THEN <<>>
                        ELSE <<item[CHOOSE w \in InHand : TRUE]>>) \o Contents(q)

(* The lines of s are lines of t, each in a place of its own, and in the   *)
(* order of t.                                                             *)
InOrder(s, t) ==
    \E at \in [Lines(s) -> DOMAIN t] :
       \A i, j \in Lines(s) : /\ t[at[i]] = s[i]
                              /\ i < j => at[i] < at[j]

(* Between the loggers and the file no message is lost, doubled or         *)
(* overtaken: what has been accepted is written, in a worker's hand or in  *)
(* the queue, in the order of acceptance with one worker, and only the     *)
(* policy overrun_oldest loses messages, no more than the queue has        *)
(* counted.                                                                *)
LinesCounted == Kept <= Len(accepted) /\ Len(accepted) <= Kept + q.overrun

NoLineLost ==
    /\ LinesCounted
    /\ policy = "block" => q.overrun = 0
    /\ OneWorker => InOrder(Pipeline, accepted)

(* Nobody is inside a pool that has been destroyed: not the worker, which  *)
(* is joined, nor a caller who was posting, or blocked, when the registry  *)
(* let the pool go.                                                        *)
PoolOutlivesItsUsers ==
    /\ pool = "gone" => /\ \A w \in threads : wpc[w] = "exited"
                        /\ \A t \in Callers :
                              pc[t] \notin {"enqueue", "blocked", "notify",
                                            "join"}
    /\ pool = "dying" =>
          \A t, u \in Callers :
             /\ pc[t] \in {"enqueue", "blocked", "notify", "join"}
             /\ pc[u] \in {"enqueue", "blocked", "notify", "join"}
             => t = u

(* "Upon destruction, logs all remaining messages in the queue before      *)
(* destructing": once the pool is gone, whoever destroyed it, the queue is *)
(* empty and the sink has had every message that was not overrun.          *)
EverythingLogged ==
    pool = "gone" => /\ Contents(q) = <<>>
                     /\ Len(accepted) - Len(handled) <= q.overrun

(* A flush posted by a thread is a barrier for that thread's own messages: *)
(* when the one worker has done it, they are on disk, unless overrun.      *)
FlushIsABarrier ==
    [][\A w \in threads :
          wpc[w] = "flush" /\ wpc'[w] # "flush" /\ OneWorker =>
             /\ flushed' = Len(handled')
             /\ \A i \in Lines(Contents(q)) :
                   Contents(q)[i].by = item[w].by
                      => Contents(q)[i].n > item[w].n]_vars

(* Why the properties above hold; an inductive invariant in named parts.   *)

(* Between weak_ptr::lock and its release a caller is inside the pool, and *)
(* so is the one that runs the destructor.                                 *)
Inside(t) == pc[t] \in {"enqueue", "blocked", "notify", "join"}
Destroys(t) == Inside(t) /\ msg[t].kind = "terminate"

PoolShared ==
    /\ pool = "alive" <=> pool_refs # {}
    /\ \A t \in Callers : t \in pool_refs <=> Inside(t) /\ ~Destroys(t)
    /\ "registry" \in pool_refs <=> pc[Main] \in {"idle", "joining", "dropped"}

(* One caller destroys the pool, in the end waiting for its workers.       *)
Destruction ==
    /\ Inside(Main) => Destroys(Main)
    /\ \A t \in Callers :
          /\ Destroys(t) => pool = "dying"
          /\ pc[t] = "join" => Destroys(t)
          /\ Destroys(t) => (terminates = 0 <=> pc[t] = "join")
    /\ \A t, u \in Callers : Destroys(t) /\ Destroys(u) => t = u
    /\ pool # "dying" => terminates = 0
    /\ pool = "gone" => \A w \in threads : wpc[w] = "exited"

(* A terminate for every worker, behind whatever else is queued; a worker  *)
(* that has taken one has left nothing else behind.                        *)
ToPost == IF \E t \in Callers : Destroys(t) /\ pc[t] = "notify"
          THEN terminates - 1 ELSE terminates
Ended == {w \in threads : \/ wpc[w] = "exited"
                          \/ wpc[w] = "popped" /\ item[w].kind = "terminate"}

LastOrdinary(n) ==
    /\ \A i \in DOMAIN Contents(q) :
          Contents(q)[i].kind = "terminate" <=> i > n
    /\ pool = "alive" => n = Size(q) /\ Ended = {}
    /\ pool # "alive" =>
          ToPost + (Size(q) - n) + Cardinality(Ended) = Cardinality(threads)
    /\ Ended # {} => n = 0

TerminatesLast == \E n \in 0 .. Size(q) : LastOrdinary(n)

(* A client's messages are queued and taken in the order of its calls: a   *)
(* message that it is still posting is the newest, and one that a worker   *)
(* has taken came before those in the queue.                               *)
Awaiting(c) == pc[c] \in {"enqueue", "blocked"} /\ msg[c].by = c
Called(m) == m.by \in Clients => /\ m.n <= posts[m.by]
                                 /\ Awaiting(m.by) => m.n < posts[m.by]
Precedes(m, k) == m.by = k.by /\ k.by \in Clients => m.n < k.n
Holding(w) == wpc[w] \in {"popped", "log", "flush"}

CallOrder ==
    /\ \A t \in Callers : /\ msg[t].by \in {t, Main}
                          /\ msg[t].kind = "terminate" => msg[t].by = Main
                          /\ IsLog(msg[t]) => msg[t].by \in Clients
    /\ \A c \in Clients : Awaiting(c) => msg[c].n = posts[c]
    /\ \A i \in DOMAIN Contents(q) :
          /\ Called(Contents(q)[i])
          /\ IsLog(Contents(q)[i]) => Contents(q)[i].by \in Clients
    /\ \A i, j \in DOMAIN Contents(q) :
          i < j => Precedes(Contents(q)[i], Contents(q)[j])
    /\ \A w \in Workers : Holding(w) =>
          /\ Called(item[w])
          /\ \A i \in DOMAIN Contents(q) : Precedes(item[w], Contents(q)[i])

(* The shape of the rest, and what a worker does with what it has taken.   *)
PipelineTyped ==
    /\ TypeOK
    /\ policy \in {"block", "overrun_oldest"}
    /\ threads \in (SUBSET Workers) \ {{}}
    /\ posts \in [Clients -> Nat]
    /\ accepted \in Seq(Messages) /\ handled \in Seq(Messages)
    /\ \A i \in DOMAIN Contents(q) : Contents(q)[i] \in Messages
    /\ \A w \in Workers : /\ wpc[w] = "log" => IsLog(item[w])
                          /\ w \notin threads => wpc[w] = "exited"

LogInductive == /\ PipelineTyped
                /\ PoolShared
                /\ Destruction
                /\ TerminatesLast
                /\ CallOrder
                /\ NoLineLost

(* The ring under the queue's mutex is the bounded first-in first-out      *)
(* queue that the queue's users are promised.                              *)
Fifo == INSTANCE BoundedFifo WITH items <- Contents(q), overrun <- q.overrun,
                                  Items <- Messages
ImplementsFifo == Fifo!FifoSpec
------------------------------------------------------------------------------
(* Liveness                                                                *)

(* Every post returns, blocked on a full queue or not, every message is    *)
(* logged, and a shutdown that has begun ends with the pool destroyed: no  *)
(* wake-up is lost, on either condition variable, and no worker sleeps     *)
(* through its terminate.  (The posts are finitely many: MaxPosts.)        *)
EverybodyGetsThrough ==
    <>[]/\ \A t \in Callers : pc[t] \in {"idle", "exited", "done"}
        /\ IsEmpty(q)
        /\ pc[Flusher] = "exited" => pool = "gone"
==============================================================================
