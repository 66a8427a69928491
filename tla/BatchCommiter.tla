---------------------------- MODULE BatchCommiter ----------------------------
(***************************************************************************)
(* Class Batch_commiter (batch_commiter.cpp) between the threads that call *)
(* EngineRace::Write and the Kv_updater that applies a batch: the queue,   *)
(* the commit thread with its timed wait, the promises, the destructor.    *)
(*                                                                         *)
(* A task refers to the caller's key by a string_view, and the caller may  *)
(* have given up waiting.  The callers are those of the repository: the    *)
(* threads of benchmark.cc (Retriers) generate each key into one buffer    *)
(* and retry while kTimedOut; test.cc writes literals and goes on.         *)
(* What they write is told apart by the number of their operation.         *)
(***************************************************************************)
EXTENDS Naturals, Sequences, FiniteSets

CONSTANTS Clients,      \* threads that write
          Retriers,     \* those that retry with the same key buffer
          PlugSize,     \* queued tasks that wake the commit thread (32)
          MaxOps,       \* bound: operations of a client
          MaxTickets    \* bound: tasks submitted

ASSUME ClientsAssumption == Retriers \subseteq Clients
ASSUME CommiterBounds == /\ PlugSize \in Nat /\ MaxOps \in Nat
                         /\ MaxTickets \in Nat

VARIABLES
    pc,                 \* the commit thread
    task_queue,         \* task_queue_
    task_in_process,    \* task_in_process_; the n-th batch entry is the n-th task
    resolved,           \* tasks of task_in_process whose promise is set
    outcome,            \* what updater_.write did with the batch
    notified,           \* not_empty_ was notified while the thread slept
    stopped,            \* stopped_
    destructor,         \* where ~Batch_commiter is
    clients,            \* each client's operation, ticket and last answer
    tickets,            \* tasks submitted so far
    answers,            \* history: the answer set for each ticket
    log                 \* history: the tasks applied, in order, with their keys

commiter == <<pc, task_in_process, resolved, outcome>>
shutdown == <<stopped, destructor>>
vars == <<commiter, task_queue, notified, shutdown, clients, tickets, answers,
          log>>

(* The mutex is held over more than one step only by a commit thread that  *)
(* has decided to wait.                                                    *)
MutexFree == pc # "drowsy"

NotifyOne == notified' = (notified \/ pc = "asleep")

(* The bytes a task's key refers to now.                                   *)
Key(t) == IF t.client \in Retriers THEN clients[t.client].op ELSE t.op

Answer(t) == IF t \in DOMAIN answers THEN answers[t] ELSE "none"

Init == /\ pc = "loop"
        /\ task_queue = <<>>
        /\ task_in_process = <<>>
        /\ resolved = 0
        /\ outcome = "none"
        /\ notified = FALSE
        /\ stopped = FALSE
        /\ destructor = "none"
        /\ clients = [c \in Clients |->
                        [pc |-> "idle", op |-> 1, ticket |-> 0]]
        /\ tickets = 0
        /\ answers = [t \in {} |-> "none"]
        /\ log = <<>>
------------------------------------------------------------------------------
(* EngineRace::Write and its callers                                       *)

(* submit: the task joins the queue, and wakes the commit thread if there  *)
(* are enough of them.                                                     *)
Submit(c) ==
    /\ clients[c].pc = "idle"
    /\ clients[c].op <= MaxOps
    /\ tickets < MaxTickets
    /\ destructor = "none"
    /\ MutexFree
    /\ tickets' = tickets + 1
    /\ task_queue' = Append(task_queue, [client |-> c, op |-> clients[c].op,
                                         ticket |-> tickets'])
    /\ IF Len(task_queue') >= PlugSize THEN NotifyOne ELSE UNCHANGED notified
    /\ clients' = [clients EXCEPT ![c].pc = "waiting", ![c].ticket = tickets']
    /\ UNCHANGED <<commiter, shutdown, answers, log>>

(* Write returns kSucc; the next key goes into the same buffer.            *)
Succeeds(c) ==
    /\ clients[c].pc = "waiting"
    /\ Answer(clients[c].ticket) = "done"
    /\ clients' = [clients EXCEPT ![c].pc = "idle", ![c].op = @ + 1]
    /\ UNCHANGED <<commiter, task_queue, notified, shutdown, tickets, answers,
                   log>>

(* Write returns kTimedOut: the store was busy, or 10ms are over while the *)
(* task is still anywhere.                                                 *)
TimesOutAndGoesOn(c) ==
    /\ clients[c].pc = "waiting"
    /\ Answer(clients[c].ticket) \in {"busy", "none"}
    /\ clients' = [clients EXCEPT ![c].pc = "idle", ![c].op = @ + 1]
    /\ UNCHANGED <<commiter, task_queue, notified, shutdown, tickets, answers,
                   log>>

TimesOut(c) ==
    /\ clients[c].pc = "waiting"
    /\ Answer(clients[c].ticket) \in {"busy", "none"}
    /\ clients' = [clients EXCEPT ![c].pc = "idle",
                      ![c].op = IF c \in Retriers THEN @ ELSE @ + 1]
    /\ UNCHANGED <<commiter, task_queue, notified, shutdown, tickets, answers,
                   log>>

(* Write returns kIOError, and the caller stops.                           *)
Fails(c) ==
    /\ clients[c].pc = "waiting"
    /\ Answer(clients[c].ticket) = "error"
    /\ clients' = [clients EXCEPT ![c].pc = "failed"]
    /\ UNCHANGED <<commiter, task_queue, notified, shutdown, tickets, answers,
                   log>>
------------------------------------------------------------------------------
(* The commit thread                                                       *)

(* run_: the loop condition.                                               *)
Loop == /\ pc = "loop"
        /\ pc' = IF stopped THEN "exited" ELSE "check"
        /\ UNCHANGED <<task_queue, task_in_process, resolved, outcome,
                       notified, shutdown, clients, tickets, answers, log>>

(* wait_unplug_: stopped_ and the queue are looked at under the mutex, and *)
(* then run_ looks at stopped_ once more.                                  *)
Check == /\ pc = "check"
         /\ pc' = IF ~stopped /\ task_queue = <<>> THEN "drowsy" ELSE "awake"
         /\ UNCHANGED <<task_queue, task_in_process, resolved, outcome,
                        notified, shutdown, clients, tickets, answers, log>>

FallAsleep == /\ pc = "drowsy"
              /\ pc' = "asleep"
              /\ notified' = FALSE
              /\ UNCHANGED <<task_queue, task_in_process, resolved, outcome,
                             shutdown, clients, tickets, answers, log>>

(* wait_for returns when notified, or after 3ms.                           *)
WakeUp == /\ pc = "asleep"
          /\ notified
          /\ pc' = "check"
          /\ notified' = FALSE
          /\ UNCHANGED <<task_queue, task_in_process, resolved, outcome,
                         shutdown, clients, tickets, answers, log>>

WakeUpOnlyIfNotified == /\ pc = "asleep"
                        /\ notified
                        /\ pc' = "check"
                        /\ UNCHANGED <<task_queue, task_in_process, resolved,
                                       outcome, notified, shutdown, clients,
                                       tickets, answers, log>>

WakeUpAfter3ms == /\ pc = "asleep"
                  /\ ~notified
                  /\ pc' = "check"
                  /\ UNCHANGED <<task_queue, task_in_process, resolved,
                                 outcome, notified, shutdown, clients,
                                 tickets, answers, log>>

(* build_batch_ swaps the queue with the tasks in process, of which there  *)
(* are none left.                                                          *)
BuildBatch == /\ pc = "awake"
              /\ pc' = IF stopped THEN "loop" ELSE "write"
              /\ IF stopped THEN UNCHANGED <<task_queue, task_in_process>>
                 ELSE /\ task_in_process' = task_queue
                      /\ task_queue' = task_in_process
              /\ UNCHANGED <<resolved, outcome, notified, shutdown, clients,
                             tickets, answers, log>>

(* updater_.write applies the whole batch, or refuses it, or throws.       *)
WriteThrowsHalfway ==
    /\ pc = "write"
    /\ task_in_process # <<>>
    /\ log' = Append(log, [ticket |-> task_in_process[1].ticket,
                           client |-> task_in_process[1].client,
                           op |-> Key(task_in_process[1])])
    /\ outcome' = "error"
    /\ pc' = "resolve"
    /\ UNCHANGED <<task_queue, task_in_process, resolved, notified, shutdown,
                   clients, tickets, answers>>

Write == /\ pc = "write"
         /\ task_in_process # <<>>
         /\ \/ /\ outcome' = "done"
               /\ log' = log \o [i \in DOMAIN task_in_process |->
                     [ticket |-> task_in_process[i].ticket,
                      client |-> task_in_process[i].client,
                      op |-> Key(task_in_process[i])]]
            \/ /\ outcome' \in {"busy", "error"}
               /\ UNCHANGED log
         /\ pc' = "resolve"
         /\ UNCHANGED <<task_queue, task_in_process, resolved, notified,
                        shutdown, clients, tickets, answers>>

SetAnswer(ticket, a) ==
    answers' = [t \in DOMAIN answers \cup {ticket} |->
                  IF t = ticket THEN a ELSE answers[t]]

(* The promises are set one after the other: with the status, or with the  *)
(* exception.                                                              *)
Resolve == /\ pc = "resolve"
           /\ resolved < Len(task_in_process)
           /\ resolved' = resolved + 1
           /\ SetAnswer(task_in_process[resolved'].ticket, outcome)
           /\ UNCHANGED <<pc, task_queue, task_in_process, outcome, notified,
                          shutdown, clients, tickets, log>>

ClearForgetsTasks == /\ pc = "resolve"
                     /\ resolved = Len(task_in_process)
                     /\ resolved' = 0
                     /\ outcome' = "none"
                     /\ pc' = "loop"
                     /\ UNCHANGED <<task_queue, task_in_process, notified,
                                    shutdown, clients, tickets, answers, log>>

Clear == /\ pc = "resolve"
         /\ resolved = Len(task_in_process)
         /\ task_in_process' = <<>>
         /\ resolved' = 0
         /\ outcome' = "none"
         /\ pc' = "loop"
         /\ UNCHANGED <<task_queue, notified, shutdown, clients, tickets,
                        answers, log>>

CommitThread == \/ Loop
                \/ Check
                \/ FallAsleep
                \/ WakeUp
                \/ WakeUpAfter3ms
                \/ BuildBatch
                \/ Write
                \/ Resolve
                \/ Clear
------------------------------------------------------------------------------
(* ~Batch_commiter, once nobody is inside Write                            *)

Destroy == /\ destructor = "none"
           /\ \A c \in Clients : clients[c].pc # "waiting"
           /\ destructor' = "stopping"
           /\ stopped' = TRUE
           /\ UNCHANGED <<commiter, task_queue, notified, clients, tickets,
                          answers, log>>

NotifyStopped == /\ destructor = "stopping"
                 /\ destructor' = "joining"
                 /\ NotifyOne
                 /\ UNCHANGED <<commiter, task_queue, stopped, clients,
                                tickets, answers, log>>

(* The thread is joined, and the tasks still queued are answered "busy".   *)
JoinAndDrop ==
    /\ destructor = "joining"
    /\ pc = "exited"
    /\ destructor' = "destroyed"
    /\ task_queue' = <<>>
    /\ UNCHANGED <<commiter, notified, stopped, clients, tickets, answers,
                   log>>

JoinAndRefuse ==
    /\ destructor = "joining"
    /\ pc = "exited"
    /\ destructor' = "destroyed"
    /\ LET left == {task_queue[i].ticket : i \in DOMAIN task_queue}
       IN answers' = [t \in DOMAIN answers \cup left |->
                        IF t \in left THEN "busy" ELSE answers[t]]
    /\ task_queue' = <<>>
    /\ UNCHANGED <<commiter, notified, stopped, clients, tickets, log>>

Shutdown == NotifyStopped \/ JoinAndRefuse
------------------------------------------------------------------------------
Next == \/ \E c \in Clients : Submit(c) \/ Succeeds(c) \/ TimesOut(c) \/ Fails(c)
        \/ CommitThread
        \/ Destroy
        \/ Shutdown

Spec == Init /\ [][Next]_vars

(* The commit thread goes on (a write returns, EngineRace shows), and so   *)
(* does a destructor once it runs.  Nothing is assumed of the callers.     *)
FairSpec == Spec /\ WF_vars(CommitThread) /\ WF_vars(Shutdown)
------------------------------------------------------------------------------
Tasks == [client : Clients, op : Nat, ticket : Nat]

(* Every variable keeps the shape of the member it stands for.             *)
TypeOK ==
    /\ pc \in {"loop", "check", "drowsy", "asleep", "awake", "write",
               "resolve", "exited"}
    /\ task_queue \in Seq(Tasks)
    /\ task_in_process \in Seq(Tasks)
    /\ resolved \in 0 .. Len(task_in_process)
    /\ outcome \in {"none", "done", "busy", "error"}
    /\ notified \in BOOLEAN
    /\ stopped \in BOOLEAN
    /\ destructor \in {"none", "stopping", "joining", "destroyed"}
    /\ clients \in [Clients -> [pc : {"idle", "waiting", "failed"}, op : Nat,
                                ticket : Nat]]
    /\ tickets \in Nat
    /\ DOMAIN answers \subseteq Nat
    /\ answers \in [DOMAIN answers -> {"done", "busy", "error"}]
    /\ log \in Seq(Tasks)

(* The tasks nobody has answered yet, in the order they will be.           *)
Unresolved ==
    SubSeq(task_in_process, resolved + 1, Len(task_in_process)) \o task_queue

Applied(t) == \E i \in DOMAIN log : log[i].ticket = t

(* Tasks are applied in the order of their submission and at most once: a  *)
(* write whose caller gave up never lands on top of a later one.           *)
AppliedInOrder ==
    \A i, j \in DOMAIN log : i < j => log[i].ticket < log[j].ticket

(* Every operation a retrier has counted as a success was applied with the *)
(* key it had, through any number of attempts given up and overtaken.      *)
AckedIsApplied ==
    \A c \in Retriers : \A n \in 1 .. clients[c].op - 1 :
        \E i \in DOMAIN log : log[i].client = c /\ log[i].op = n

(* The answer of a task says what happened to it: applied if and only if   *)
(* "done", whoever still waits for it, and what a caller makes of its      *)
(* answers, some of them to attempts it gave up, is true as well.          *)
AnswersAreTrue ==
    /\ \A t \in DOMAIN answers : (answers[t] = "done") <=> Applied(t)
    /\ AckedIsApplied

(* No task is lost or answered twice: each one submitted is answered, or   *)
(* it is in the queue or in process, once.                                 *)
NoTaskLost ==
    /\ \A t \in 1 .. tickets :
          t \in DOMAIN answers
            <=> ~\E i \in DOMAIN Unresolved : Unresolved[i].ticket = t
    /\ \A i, j \in DOMAIN Unresolved :
          i < j => Unresolved[i].ticket < Unresolved[j].ticket

(* A retrier rewrites its key buffer only when no task refers to it: its   *)
(* earlier attempts, given up by Write, are over when the last succeeds.   *)
BufferStable ==
    \A i \in DOMAIN Unresolved :
        LET t == Unresolved[i]
        IN t.client \in Retriers => Key(t) = t.op

(* Why the properties above hold; an inductive invariant in named parts.   *)

Increasing(s) == \A i, j \in DOMAIN s : i < j => s[i].ticket < s[j].ticket
Submitted(s) == \A i \in DOMAIN s : s[i].ticket \in 1 .. tickets
Before(s, q) == \A i \in DOMAIN s, j \in DOMAIN q : s[i].ticket < q[j].ticket

(* Tickets grow from the log over the tasks in process to the queue.       *)
TicketOrder ==
    /\ Increasing(log) /\ Increasing(task_in_process) /\ Increasing(task_queue)
    /\ Submitted(log) /\ Submitted(task_in_process) /\ Submitted(task_queue)
    /\ Before(task_in_process, task_queue)
    /\ Before(log, task_queue)
    /\ pc # "resolve" => Before(log, task_in_process)

(* There are tasks in process only while a batch is written or answered.   *)
CommitPhases ==
    /\ pc \notin {"write", "resolve"} => task_in_process = <<>>
    /\ pc # "resolve" => resolved = 0
    /\ pc = "resolve" => outcome # "none"

(* Every task submitted is answered, in process or queued, and those       *)
(* answered come before the others.                                        *)
AnswerOrder ==
    /\ DOMAIN answers \subseteq 1 .. tickets
    /\ \A t \in 1 .. tickets :
          \/ t \in DOMAIN answers
          \/ \E i \in resolved + 1 .. Len(task_in_process) :
                task_in_process[i].ticket = t
          \/ \E i \in DOMAIN task_queue : task_queue[i].ticket = t
    /\ \A t \in DOMAIN answers :
          /\ \A i \in resolved + 1 .. Len(task_in_process) :
                t < task_in_process[i].ticket
          /\ \A i \in DOMAIN task_queue : t < task_queue[i].ticket

(* Answers agree with the log, those about to be given too.                *)
AnswersMatchLog ==
    /\ \A t \in DOMAIN answers : (answers[t] = "done") <=> Applied(t)
    /\ pc = "resolve" =>
          \A i \in DOMAIN task_in_process :
             (outcome = "done") <=> Applied(task_in_process[i].ticket)

OwnTickets(s) == \A i \in DOMAIN s, c \in Clients :
                    s[i].ticket = clients[c].ticket => s[i].client = c
NoneLater(s) == \A i \in DOMAIN s :
                   s[i].ticket <= clients[s[i].client].ticket
KeyUntouched(t) == t.client \in Retriers => t.op = clients[t.client].op

(* A client's last ticket is its own and its latest, and a retrier is      *)
(* still at the operation of every task of its that is not answered.       *)
ClientTasks ==
    /\ \A c \in Clients : clients[c].ticket <= tickets
    /\ OwnTickets(log) /\ OwnTickets(task_in_process) /\ OwnTickets(task_queue)
    /\ NoneLater(task_in_process) /\ NoneLater(task_queue)
    /\ \A c \in Retriers : clients[c].pc = "waiting" =>
          \A i \in DOMAIN log :
             log[i].ticket = clients[c].ticket => log[i].op = clients[c].op
    /\ \A i \in resolved + 1 .. Len(task_in_process) :
          KeyUntouched(task_in_process[i])
    /\ \A i \in DOMAIN task_queue : KeyUntouched(task_queue[i])

CommiterInductive == /\ TypeOK
                     /\ TicketOrder
                     /\ CommitPhases
                     /\ AnswerOrder
                     /\ AnswersMatchLog
                     /\ ClientTasks
                     /\ AckedIsApplied

(* Every task is answered, by the commit thread or by the destructor,      *)
(* though wake-ups are not sent for the first PlugSize - 1 tasks and may   *)
(* be lost: the wait is a timed one.                                       *)
TasksAnswered ==
    \A n \in 1 .. MaxTickets : (n <= tickets) ~> (n \in DOMAIN answers)

(* The destructor returns, though it sets stopped_ without the mutex and   *)
(* its notification may come before the thread sleeps.                     *)
DestructorReturns == (destructor = "stopping") ~> (destructor = "destroyed")

(* Nobody waits for ever, for an answer or for the thread, on a condition  *)
(* variable whose notifications are sent now and then and may be lost.     *)
NobodyWaitsForEver == TasksAnswered /\ DestructorReturns
==============================================================================
