------------------------ MODULE BatchCommiter_proof ------------------------
(***************************************************************************)
(* Theorems about BatchCommiter, for any clients, any of them retriers,    *)
(* any length of the queue and any numbers of operations and tasks.        *)
(***************************************************************************)
EXTENDS BatchCommiter, SequenceTheorems, TLAPS

(* What TypeOK says of the sequences and the clients.                      *)
LEMMA CommiterShapes ==
    ASSUME TypeOK
    PROVE  /\ \A s \in Seq(Tasks) :
                 /\ Len(s) \in Nat
                 /\ DOMAIN s = 1 .. Len(s)
                 /\ \A i \in DOMAIN s : /\ s[i] \in Tasks
                                        /\ s[i].ticket \in Nat
                                        /\ s[i].op \in Nat
                                        /\ s[i].client \in Clients
           /\ \A c \in Clients : clients[c].ticket \in Nat /\ clients[c].op \in Nat
           /\ tickets \in Nat /\ resolved \in Nat
           /\ resolved <= Len(task_in_process)
<1>1. \A t \in Tasks : t.ticket \in Nat /\ t.op \in Nat /\ t.client \in Clients
  BY DEF Tasks
<1>2. \A s \in Seq(Tasks) : /\ Len(s) \in Nat
                            /\ DOMAIN s = 1 .. Len(s)
                            /\ \A i \in DOMAIN s : s[i] \in Tasks
  OBVIOUS
<1>3. /\ tickets \in Nat /\ resolved \in Nat
      /\ resolved <= Len(task_in_process)
  BY <1>2 DEF TypeOK
<1> QED BY <1>1, <1>2, <1>3 DEF TypeOK

(* The initial state is typed.                                             *)
LEMMA CommiterInitType == Init => TypeOK
<1> SUFFICES ASSUME Init PROVE TypeOK
  OBVIOUS
<1>1. <<>> \in Seq(Tasks) /\ Len(<<>>) = 0
  OBVIOUS
<1>2. [t \in {} |-> "none"] \in [{} -> {"done", "busy", "error"}]
  OBVIOUS
<1>3. clients \in [Clients -> [pc : {"idle", "waiting", "failed"}, op : Nat,
                             ticket : Nat]]
  BY DEF Init
<1>4. resolved \in 0 .. Len(task_in_process)
  BY <1>1 DEF Init
<1>5. /\ DOMAIN answers \subseteq Nat
      /\ answers \in [DOMAIN answers -> {"done", "busy", "error"}]
  BY <1>2 DEF Init
<1> QED BY <1>1, <1>3, <1>4, <1>5 DEF Init, TypeOK

(* The log grows by the tasks in process, with the keys they refer to.     *)
Logged(s) == [i \in DOMAIN s |-> [ticket |-> s[i].ticket, client |-> s[i].client,
                                  op |-> Key(s[i])]]

(* What the log keeps of a sequence of tasks is as long as it and names    *)
(* the same tickets and clients in the same order.                         *)
LEMMA LoggedType ==
    ASSUME TypeOK, NEW s \in Seq(Tasks)
    PROVE  /\ Logged(s) \in Seq(Tasks)
           /\ Len(Logged(s)) = Len(s)
           /\ DOMAIN Logged(s) = DOMAIN s
           /\ \A i \in DOMAIN s : /\ Logged(s)[i].ticket = s[i].ticket
                                  /\ Logged(s)[i].client = s[i].client
                                  /\ Logged(s)[i].op = Key(s[i])
<1>1. \A i \in DOMAIN s : Key(s[i]) \in Nat
  BY CommiterShapes, ClientsAssumption DEF Key
<1>2. \A i \in DOMAIN s : [ticket |-> s[i].ticket, client |-> s[i].client,
                           op |-> Key(s[i])] \in Tasks
  BY <1>1, CommiterShapes DEF Tasks
<1>3. DOMAIN s = 1 .. Len(s) /\ Len(s) \in Nat
  BY CommiterShapes
<1>4. /\ DOMAIN Logged(s) = DOMAIN s
      /\ \A i \in DOMAIN s : Logged(s)[i] = [ticket |-> s[i].ticket,
                                client |-> s[i].client, op |-> Key(s[i])]
  BY DEF Logged
<1>5. Logged(s) \in Seq(Tasks)
  BY <1>2, <1>3, <1>4 DEF Logged
<1>6. Len(Logged(s)) = Len(s)
  BY <1>3, <1>4, <1>5
<1> QED BY <1>4, <1>5, <1>6

(* Types are kept, as no promise is set outside a batch.                   *)
LEMMA CommiterNextType ==
    ASSUME TypeOK, CommitPhases, [Next]_vars PROVE TypeOK'
<1>1. ASSUME NEW c \in Clients, Submit(c) PROVE TypeOK'
  <2>1. /\ tickets' \in Nat
        /\ [client |-> c, op |-> clients[c].op, ticket |-> tickets'] \in Tasks
    BY <1>1, CommiterShapes DEF Submit, Tasks
  <2>2. task_queue' \in Seq(Tasks)
    BY <1>1, <2>1 DEF Submit, TypeOK
  <2>3. notified' \in BOOLEAN
    BY <1>1 DEF Submit, NotifyOne, TypeOK
  <2> QED BY <1>1, <2>1, <2>2, <2>3, ZenonT(30)
          DEF Submit, TypeOK, commiter, shutdown
<1>2. ASSUME NEW c \in Clients, Succeeds(c) \/ TimesOut(c) \/ Fails(c)
      PROVE  TypeOK'
  <2>1. clients' \in [Clients -> [pc : {"idle", "waiting", "failed"}, op : Nat,
                                  ticket : Nat]]
    <3>1. clients[c].op + 1 \in Nat /\ clients[c].op \in Nat
      BY CommiterShapes
    <3>2. PICK v \in {"idle", "failed"}, n \in {clients[c].op, clients[c].op + 1} :
             clients' = [clients EXCEPT ![c].pc = v, ![c].op = n]
      <4>1. CASE Succeeds(c) \/ TimesOut(c)
        BY <4>1 DEF Succeeds, TimesOut
      <4>2. CASE Fails(c)
        <5>1. clients' = [clients EXCEPT ![c].pc = "failed",
                                         ![c].op = clients[c].op]
          BY <4>2 DEF Fails, TypeOK
        <5> QED BY <5>1
      <4> QED BY <1>2, <4>1, <4>2
    <3>3. [clients[c] EXCEPT !.pc = v, !.op = n]
             \in [pc : {"idle", "waiting", "failed"}, op : Nat, ticket : Nat]
      BY <3>1 DEF TypeOK
    <3>4. clients' = [clients EXCEPT ![c] = [clients[c] EXCEPT !.pc = v, !.op = n]]
      BY <3>2 DEF TypeOK
    <3> QED BY <3>3, <3>4 DEF TypeOK
  <2> QED BY <1>2, <2>1 DEF Succeeds, TimesOut, Fails, TypeOK, commiter, shutdown
<1>3. CASE Loop \/ Check \/ FallAsleep \/ WakeUp \/ WakeUpAfter3ms
  BY <1>3 DEF Loop, Check, FallAsleep, WakeUp, WakeUpAfter3ms, TypeOK, shutdown
<1>4. CASE BuildBatch
  <2>1. CASE stopped
    BY <1>4, <2>1 DEF BuildBatch, TypeOK, shutdown
  <2>2. CASE ~stopped
    <3>1. resolved = 0 /\ Len(task_queue) \in Nat
      BY <1>4, CommiterShapes DEF BuildBatch, CommitPhases, TypeOK
    <3>2. resolved' \in 0 .. Len(task_in_process')
      BY <1>4, <2>2, <3>1 DEF BuildBatch
    <3> QED BY <1>4, <2>2, <3>2 DEF BuildBatch, TypeOK, shutdown
  <2> QED BY <2>1, <2>2
<1>5. CASE Write
  <2>1. log' = log \/ log' = log \o Logged(task_in_process)
    BY <1>5 DEF Write, Logged
  <2>2. log' \in Seq(Tasks)
    <3>1. log \in Seq(Tasks) /\ Logged(task_in_process) \in Seq(Tasks)
      BY LoggedType DEF TypeOK
    <3>2. log \o Logged(task_in_process) \in Seq(Tasks)
      BY <3>1, ConcatProperties
    <3> QED BY <2>1, <3>1, <3>2
  <2>3. outcome' \in {"done", "busy", "error"}
    BY <1>5 DEF Write
  <2> QED BY <1>5, <2>2, <2>3 DEF Write, TypeOK, shutdown
<1>6. CASE Resolve
  <2>1. resolved + 1 \in 1 .. Len(task_in_process)
    BY <1>6, CommiterShapes DEF Resolve, TypeOK
  <2>2. task_in_process[resolved + 1].ticket \in Nat
    BY <2>1, CommiterShapes DEF TypeOK
  <2>3. outcome \in {"done", "busy", "error"}
    BY <1>6 DEF Resolve, CommitPhases, TypeOK
  <2>4. /\ DOMAIN answers' \subseteq Nat
        /\ answers' \in [DOMAIN answers' -> {"done", "busy", "error"}]
    BY <1>6, <2>2, <2>3 DEF Resolve, SetAnswer, TypeOK
  <2>5. resolved' \in 0 .. Len(task_in_process')
    BY <1>6, <2>1, CommiterShapes DEF Resolve
  <2> QED BY <1>6, <2>4, <2>5 DEF Resolve, TypeOK, shutdown
<1>7. CASE Clear
  <2>1. task_in_process' = <<>> /\ <<>> \in Seq(Tasks) /\ Len(<<>>) = 0
    BY <1>7 DEF Clear
  <2> QED BY <1>7, <2>1 DEF Clear, TypeOK, shutdown
<1>8. CASE Destroy \/ NotifyStopped
  BY <1>8 DEF Destroy, NotifyStopped, NotifyOne, TypeOK, commiter
<1>9. CASE JoinAndRefuse
  <2>1. {task_queue[i].ticket : i \in DOMAIN task_queue} \subseteq Nat
    BY CommiterShapes DEF TypeOK
  <2>2. /\ DOMAIN answers' \subseteq Nat
        /\ answers' \in [DOMAIN answers' -> {"done", "busy", "error"}]
    BY <1>9, <2>1 DEF JoinAndRefuse, TypeOK
  <2>3. task_queue' \in Seq(Tasks)
    BY <1>9 DEF JoinAndRefuse
  <2> QED BY <1>9, <2>2, <2>3 DEF JoinAndRefuse, TypeOK, commiter
<1>10. CASE UNCHANGED vars
  BY <1>10 DEF vars, TypeOK, commiter, shutdown
<1> QED BY <1>1, <1>2, <1>3, <1>4, <1>5, <1>6, <1>7, <1>8, <1>9, <1>10
        DEF Next, CommitThread, Shutdown
------------------------------------------------------------------------------
(* Steps of the commit thread between two batches, and of the destructor.  *)
LEMMA BetweenBatches ==
    ASSUME CommiterInductive, TypeOK',
           UNCHANGED <<task_queue, task_in_process, resolved, outcome, clients,
                       tickets, answers, log>>,
           \/ pc' = pc
           \/ {pc, pc'} \cap {"write", "resolve"} = {}
    PROVE  CommiterInductive'
<1> USE DEF CommiterInductive
<1>1. TicketOrder'
  BY DEF TicketOrder, Increasing, Submitted, Before
<1>2. CommitPhases'
  BY DEF CommitPhases
<1>3. AnswerOrder'
  BY DEF AnswerOrder
<1>4. AnswersMatchLog'
  BY DEF AnswersMatchLog, Applied
<1>5. ClientTasks'
  BY DEF ClientTasks, OwnTickets, NoneLater, KeyUntouched
<1>6. AckedIsApplied'
  BY DEF AckedIsApplied
<1> QED BY <1>1, <1>2, <1>3, <1>4, <1>5, <1>6

(* A retrier told of its success has no other attempt left: its tasks have *)
(* earlier tickets, and those are answered.                                *)
LEMMA NoAttemptLeft ==
    ASSUME CommiterInductive, NEW c \in Clients,
           clients[c].ticket \in DOMAIN answers
    PROVE  /\ \A i \in resolved + 1 .. Len(task_in_process) :
                 task_in_process[i].client # c
           /\ \A i \in DOMAIN task_queue : task_queue[i].client # c
<1> USE DEF CommiterInductive
<1>1. clients[c].ticket \in Nat
  BY CommiterShapes
<1>2. ASSUME NEW i \in resolved + 1 .. Len(task_in_process),
             task_in_process[i].client = c
      PROVE  FALSE
  <2>1. i \in DOMAIN task_in_process
    BY CommiterShapes DEF TypeOK
  <2>2. task_in_process[i].ticket <= clients[c].ticket
    BY <1>2, <2>1 DEF ClientTasks, NoneLater
  <2>3. clients[c].ticket < task_in_process[i].ticket
    BY DEF AnswerOrder
  <2>4. task_in_process[i].ticket \in Nat
    BY <2>1, CommiterShapes DEF TypeOK
  <2> QED BY <1>1, <2>2, <2>3, <2>4
<1>3. ASSUME NEW i \in DOMAIN task_queue, task_queue[i].client = c
      PROVE  FALSE
  <2>1. task_queue[i].ticket <= clients[c].ticket
    BY <1>3 DEF ClientTasks, NoneLater
  <2>2. clients[c].ticket < task_queue[i].ticket
    BY DEF AnswerOrder
  <2>3. task_queue[i].ticket \in Nat
    BY CommiterShapes DEF TypeOK
  <2> QED BY <1>1, <2>1, <2>2, <2>3
<1> QED BY <1>2, <1>3

(* What a caller does with its answer: nothing but its own state changes,  *)
(* and a retrier goes on to its next key only when it is told "done".      *)
LEMMA CallerMoves ==
    ASSUME TypeOK, NEW c \in Clients, Succeeds(c) \/ TimesOut(c) \/ Fails(c)
    PROVE  /\ UNCHANGED <<pc, task_queue, task_in_process, resolved, outcome,
                          tickets, answers, log>>
           /\ clients[c].pc = "waiting"
           /\ \A b \in Clients : b # c => clients'[b] = clients[b]
           /\ clients'[c].pc # "waiting"
           /\ clients'[c].ticket = clients[c].ticket
           /\ \/ clients'[c].op = clients[c].op
              \/ /\ clients'[c].op = clients[c].op + 1
                 /\ c \in Retriers => Answer(clients[c].ticket) = "done"
<1>1. /\ UNCHANGED <<pc, task_queue, task_in_process, resolved, outcome,
                     tickets, answers, log>>
      /\ clients[c].pc = "waiting"
  BY DEF Succeeds, TimesOut, Fails, commiter
<1>2. clients \in [Clients -> [pc : {"idle", "waiting", "failed"}, op : Nat,
                              ticket : Nat]]
  BY DEF TypeOK
<1>3. PICK v \in {"idle", "failed"}, n \in {clients[c].op, clients[c].op + 1} :
         /\ clients' = [clients EXCEPT ![c].pc = v, ![c].op = n]
         /\ \/ n = clients[c].op
            \/ c \in Retriers => Answer(clients[c].ticket) = "done"
  <2>1. CASE Succeeds(c)
    BY <2>1 DEF Succeeds
  <2>2. CASE TimesOut(c)
    BY <2>2 DEF TimesOut
  <2>3. CASE Fails(c)
    <3>1. clients' = [clients EXCEPT ![c].pc = "failed", ![c].op = clients[c].op]
      BY <1>2, <2>3 DEF Fails
    <3> QED BY <3>1
  <2> QED BY <2>1, <2>2, <2>3
<1>4. clients' = [clients EXCEPT ![c] = [clients[c] EXCEPT !.pc = v, !.op = n]]
  BY <1>2, <1>3
<1>5. \A b \in Clients : b # c => clients'[b] = clients[b]
  BY <1>4, <1>2
<1>6. clients'[c] = [clients[c] EXCEPT !.pc = v, !.op = n]
  BY <1>4, <1>2
<1>7. /\ clients'[c].pc = v
      /\ clients'[c].op = n
      /\ clients'[c].ticket = clients[c].ticket
  BY <1>6, <1>2
<1> QED BY <1>1, <1>3, <1>5, <1>7

(* Callers that return keep the invariant: a retrier that takes the next   *)
(* key has no attempt left, and the one it was told of is in the log.      *)
LEMMA CallerKeeps ==
    ASSUME CommiterInductive, TypeOK', NEW c \in Clients,
           Succeeds(c) \/ TimesOut(c) \/ Fails(c)
    PROVE  CommiterInductive'
<1>1. /\ TypeOK /\ TicketOrder /\ CommitPhases /\ AnswerOrder /\ AnswersMatchLog
      /\ ClientTasks /\ AckedIsApplied
  BY DEF CommiterInductive
<1>2. /\ UNCHANGED <<pc, task_queue, task_in_process, resolved, outcome,
                     tickets, answers, log>>
      /\ clients[c].pc = "waiting"
      /\ \A b \in Clients : b # c => clients'[b] = clients[b]
      /\ clients'[c].pc # "waiting"
      /\ clients'[c].ticket = clients[c].ticket
      /\ \/ clients'[c].op = clients[c].op
         \/ /\ clients'[c].op = clients[c].op + 1
            /\ c \in Retriers => Answer(clients[c].ticket) = "done"
  BY <1>1, CallerMoves
<1>3. \A b \in Clients : clients'[b].ticket = clients[b].ticket
  BY <1>2
<1>4. c \in Retriers /\ clients'[c].op # clients[c].op =>
         /\ clients[c].ticket \in DOMAIN answers
         /\ answers[clients[c].ticket] = "done"
  BY <1>2 DEF Answer
<1>5. TicketOrder' /\ CommitPhases' /\ AnswerOrder' /\ AnswersMatchLog'
  BY <1>1, <1>2 DEF TicketOrder, Increasing, Submitted, Before, CommitPhases,
              AnswerOrder, AnswersMatchLog, Applied
<1>6. ASSUME NEW t \in Tasks, KeyUntouched(t),
             t.client = c => c \notin Retriers \/ clients'[c].op = clients[c].op
      PROVE  KeyUntouched(t)'
  <2>1. t.client \in Clients
    BY DEF Tasks
  <2>2. CASE t.client = c
    BY <1>6, <2>2 DEF KeyUntouched
  <2>3. CASE t.client # c
    <3>1. clients'[t.client] = clients[t.client]
      BY <1>2, <2>1, <2>3
    <3> QED BY <1>6, <3>1 DEF KeyUntouched
  <2> QED BY <2>2, <2>3
<1>7. ClientTasks'
  <2>1. \A b \in Clients : clients'[b].ticket <= tickets'
    BY <1>1, <1>2, <1>3 DEF ClientTasks
  <2>2. OwnTickets(log)' /\ OwnTickets(task_in_process)' /\ OwnTickets(task_queue)'
    BY <1>1, <1>2, <1>3 DEF ClientTasks, OwnTickets
  <2>3. NoneLater(task_in_process)' /\ NoneLater(task_queue)'
    BY <1>1, <1>2, <1>3, CommiterShapes DEF ClientTasks, NoneLater, TypeOK
  <2>4. \A b \in Retriers : clients'[b].pc = "waiting" =>
           \A i \in DOMAIN log' :
              log'[i].ticket = clients'[b].ticket => log'[i].op = clients'[b].op
    <3> SUFFICES ASSUME NEW b \in Retriers, clients'[b].pc = "waiting"
                 PROVE  \A i \in DOMAIN log' :
                           log'[i].ticket = clients'[b].ticket
                              => log'[i].op = clients'[b].op
      OBVIOUS
    <3>1. clients'[b] = clients[b]
      BY <1>2, ClientsAssumption
    <3> QED BY <1>1, <1>2, <3>1 DEF ClientTasks
  <2>5. ASSUME NEW i \in resolved' + 1 .. Len(task_in_process')
        PROVE  KeyUntouched(task_in_process[i])'
    <3>1. i \in resolved + 1 .. Len(task_in_process) /\ i \in DOMAIN task_in_process
      BY <1>1, <1>2, <2>5, CommiterShapes DEF TypeOK
    <3>2. KeyUntouched(task_in_process[i]) /\ task_in_process[i] \in Tasks
      BY <1>1, <3>1, CommiterShapes DEF ClientTasks, TypeOK
    <3>3. task_in_process[i].client = c =>
             c \notin Retriers \/ clients'[c].op = clients[c].op
      BY <1>4, <3>1, NoAttemptLeft
    <3> QED BY <1>2, <1>6, <3>2, <3>3 DEF KeyUntouched
  <2>6. ASSUME NEW i \in DOMAIN task_queue' PROVE KeyUntouched(task_queue[i])'
    <3>1. i \in DOMAIN task_queue
      BY <1>2
    <3>2. KeyUntouched(task_queue[i]) /\ task_queue[i] \in Tasks
      BY <1>1, <3>1, CommiterShapes DEF ClientTasks, TypeOK
    <3>3. task_queue[i].client = c =>
             c \notin Retriers \/ clients'[c].op = clients[c].op
      BY <1>4, <3>1, NoAttemptLeft
    <3> QED BY <1>2, <1>6, <3>2, <3>3 DEF KeyUntouched
  <2> QED BY <2>1, <2>2, <2>3, <2>4, <2>5, <2>6 DEF ClientTasks
<1>8. AckedIsApplied'
  <2> SUFFICES ASSUME NEW b \in Retriers, NEW n \in 1 .. clients'[b].op - 1
               PROVE  \E i \in DOMAIN log : log[i].client = b /\ log[i].op = n
    BY <1>2 DEF AckedIsApplied
  <2>1. b \in Clients /\ clients[b].op \in Nat /\ n \in Nat
    BY <1>1, CommiterShapes, ClientsAssumption
  <2>2. CASE n \in 1 .. clients[b].op - 1
    BY <1>1, <2>2 DEF AckedIsApplied
  <2>3. CASE n \notin 1 .. clients[b].op - 1
    <3>1. b = c /\ n = clients[c].op /\ clients'[c].op # clients[c].op
      <4>1. b = c
        BY <1>2, <2>1, <2>3
      <4>2. clients'[c].op = clients[c].op + 1
        BY <1>2, <2>3, <4>1
      <4> QED BY <2>1, <2>3, <4>1, <4>2
    <3>2. Applied(clients[c].ticket)
      BY <1>1, <1>4, <3>1 DEF AnswersMatchLog
    <3>3. PICK i \in DOMAIN log : log[i].ticket = clients[c].ticket
      BY <3>2 DEF Applied
    <3> QED BY <1>1, <1>2, <3>1, <3>3, ClientsAssumption DEF ClientTasks, OwnTickets
  <2> QED BY <2>2, <2>3
<1> QED BY <1>5, <1>7, <1>8 DEF CommiterInductive
------------------------------------------------------------------------------
(* A task that joins the queue has the greatest ticket, and becomes its    *)
(* client's last.                                                          *)
LEMMA SubmitKeeps ==
    ASSUME CommiterInductive, TypeOK', NEW c \in Clients, Submit(c)
    PROVE  CommiterInductive'
<1>1. /\ TypeOK /\ TicketOrder /\ CommitPhases /\ AnswerOrder /\ AnswersMatchLog
      /\ ClientTasks /\ AckedIsApplied
  BY DEF CommiterInductive
<1>2. /\ UNCHANGED <<pc, task_in_process, resolved, outcome, answers, log>>
      /\ tickets' = tickets + 1
      /\ clients' = [clients EXCEPT ![c].pc = "waiting", ![c].ticket = tickets']
  BY DEF Submit, commiter
<1>3. /\ \A b \in Clients : clients'[b].op = clients[b].op
      /\ \A b \in Clients : b # c => clients'[b] = clients[b]
      /\ clients'[c].ticket = tickets + 1
  <2>1. clients' = [clients EXCEPT ![c] =
                      [clients[c] EXCEPT !.pc = "waiting", !.ticket = tickets']]
    BY <1>1, <1>2 DEF TypeOK
  <2>2. /\ clients'[c] = [clients[c] EXCEPT !.pc = "waiting", !.ticket = tickets']
        /\ \A b \in Clients : b # c => clients'[b] = clients[b]
    BY <1>1, <2>1 DEF TypeOK
  <2>3. clients'[c].op = clients[c].op /\ clients'[c].ticket = tickets'
    BY <1>1, <2>2 DEF TypeOK
  <2> QED BY <1>2, <2>2, <2>3
<1>4. PICK task \in Tasks : /\ task_queue' = Append(task_queue, task)
                            /\ task.client = c
                            /\ task.op = clients[c].op
                            /\ task.ticket = tickets + 1
  <2> DEFINE task == [client |-> c, op |-> clients[c].op, ticket |-> tickets']
  <2>1. task \in Tasks
    BY <1>1, <1>2, CommiterShapes DEF Tasks
  <2>2. task_queue' = Append(task_queue, task)
    BY DEF Submit
  <2> QED BY <1>2, <2>1, <2>2
<1>5. /\ Len(task_queue) \in Nat
      /\ DOMAIN task_queue = 1 .. Len(task_queue)
      /\ DOMAIN task_queue' = DOMAIN task_queue \cup {Len(task_queue) + 1}
      /\ \A i \in DOMAIN task_queue : task_queue'[i] = task_queue[i]
      /\ task_queue'[Len(task_queue) + 1] = task
  <2>1. task_queue \in Seq(Tasks) /\ Len(task_queue) \in Nat
    BY <1>1 DEF TypeOK
  <2>2. task_queue' \in Seq(Tasks) /\ Len(task_queue') = Len(task_queue) + 1
    BY <1>4, <2>1
  <2> QED BY <1>4, <2>1, <2>2
<1>6. TicketOrder'
  <2>1. Increasing(task_queue)'
    <3> SUFFICES ASSUME NEW i \in DOMAIN task_queue', NEW j \in DOMAIN task_queue',
                        i < j
                 PROVE  task_queue'[i].ticket < task_queue'[j].ticket
      BY DEF Increasing
    <3>1. i \in DOMAIN task_queue
      BY <1>5
    <3>2. CASE j \in DOMAIN task_queue
      BY <1>1, <1>5, <3>1, <3>2 DEF TicketOrder, Increasing
    <3>3. CASE j = Len(task_queue) + 1
      <4>1. task_queue[i].ticket \in 1 .. tickets
        BY <1>1, <3>1 DEF TicketOrder, Submitted
      <4> QED BY <1>1, <1>4, <1>5, <3>1, <3>3, <4>1, CommiterShapes
    <3> QED BY <1>5, <3>2, <3>3
  <2>2. Submitted(log)' /\ Submitted(task_in_process)' /\ Submitted(task_queue)'
    BY <1>1, <1>2, <1>4, <1>5, CommiterShapes DEF TicketOrder, Submitted
  <2>3. Before(task_in_process, task_queue)' /\ Before(log, task_queue)'
    <3> SUFFICES ASSUME NEW s \in {log, task_in_process}, NEW i \in DOMAIN s,
                        NEW j \in DOMAIN task_queue'
                 PROVE  s[i].ticket < task_queue'[j].ticket
      BY <1>2 DEF Before
    <3>1. s[i].ticket \in 1 .. tickets
      BY <1>1 DEF TicketOrder, Submitted
    <3>2. CASE j \in DOMAIN task_queue
      BY <1>1, <1>5, <3>2 DEF TicketOrder, Before
    <3>3. CASE j = Len(task_queue) + 1
      BY <1>1, <1>4, <1>5, <3>1, <3>3, CommiterShapes
    <3> QED BY <1>5, <3>2, <3>3
  <2>4. Increasing(log)' /\ Increasing(task_in_process)'
    BY <1>1, <1>2 DEF TicketOrder, Increasing
  <2>5. pc' # "resolve" => Before(log, task_in_process)'
    BY <1>1, <1>2 DEF TicketOrder, Before
  <2> QED BY <2>1, <2>2, <2>3, <2>4, <2>5 DEF TicketOrder
<1>7. CommitPhases'
  BY <1>1, <1>2 DEF CommitPhases
<1>8. AnswerOrder'
  <2>1. tickets \in Nat /\ DOMAIN answers' \subseteq 1 .. tickets'
    BY <1>1, <1>2, CommiterShapes DEF AnswerOrder
  <2>2. ASSUME NEW t \in 1 .. tickets', t \notin DOMAIN answers'
        PROVE  \/ \E i \in resolved' + 1 .. Len(task_in_process') :
                     task_in_process'[i].ticket = t
               \/ \E i \in DOMAIN task_queue' : task_queue'[i].ticket = t
    <3>1. CASE t = tickets + 1
      BY <1>4, <1>5, <3>1
    <3>2. CASE t # tickets + 1
      <4>1. t \in 1 .. tickets
        BY <1>2, <2>1, <3>2
      <4>2. \/ \E i \in resolved + 1 .. Len(task_in_process) :
                  task_in_process[i].ticket = t
            \/ \E i \in DOMAIN task_queue : task_queue[i].ticket = t
        BY <1>1, <1>2, <2>2, <4>1 DEF AnswerOrder
      <4> QED BY <1>2, <1>5, <4>2
    <3> QED BY <3>1, <3>2
  <2>3. \A t \in DOMAIN answers' :
           /\ \A i \in resolved' + 1 .. Len(task_in_process') :
                 t < task_in_process'[i].ticket
           /\ \A i \in DOMAIN task_queue' : t < task_queue'[i].ticket
    BY <1>1, <1>2, <1>4, <1>5, <2>1 DEF AnswerOrder
  <2> QED BY <2>1, <2>2, <2>3 DEF AnswerOrder
<1>9. AnswersMatchLog'
  BY <1>1, <1>2 DEF AnswersMatchLog, Applied
<1>10. ClientTasks'
  <2>1. \A b \in Clients : clients'[b].ticket <= tickets'
    <3> SUFFICES ASSUME NEW b \in Clients PROVE clients'[b].ticket <= tickets + 1
      BY <1>2
    <3>1. tickets \in Nat /\ clients[b].ticket \in Nat /\ clients[b].ticket <= tickets
      BY <1>1, CommiterShapes DEF ClientTasks
    <3>2. clients'[b].ticket = clients[b].ticket \/ clients'[b].ticket = tickets + 1
      BY <1>3
    <3> QED BY <3>1, <3>2
  <2>2. ASSUME NEW s \in Seq(Tasks), OwnTickets(s), Submitted(s)
        PROVE  \A i \in DOMAIN s, b \in Clients :
                  s[i].ticket = clients'[b].ticket => s[i].client = b
    BY <1>1, <1>3, <2>2, CommiterShapes DEF OwnTickets, Submitted
  <2>3. OwnTickets(log)' /\ OwnTickets(task_in_process)'
    <3>1. log \in Seq(Tasks) /\ task_in_process \in Seq(Tasks)
      BY <1>1 DEF TypeOK
    <3>2. /\ OwnTickets(log) /\ OwnTickets(task_in_process)
          /\ Submitted(log) /\ Submitted(task_in_process)
      BY <1>1 DEF ClientTasks, TicketOrder
    <3>3. \A i \in DOMAIN log, b \in Clients :
             log[i].ticket = clients'[b].ticket => log[i].client = b
      BY <2>2, <3>1, <3>2
    <3>4. \A i \in DOMAIN task_in_process, b \in Clients :
             task_in_process[i].ticket = clients'[b].ticket
                => task_in_process[i].client = b
      BY <2>2, <3>1, <3>2
    <3> QED BY <1>2, <3>3, <3>4 DEF OwnTickets
  <2>4. OwnTickets(task_queue)'
    <3> SUFFICES ASSUME NEW i \in DOMAIN task_queue', NEW b \in Clients,
                        task_queue'[i].ticket = clients'[b].ticket
                 PROVE  task_queue'[i].client = b
      BY DEF OwnTickets
    <3>1. CASE i = Len(task_queue) + 1
      <4>1. clients[b].ticket \in Nat /\ clients[b].ticket <= tickets
        BY <1>1, CommiterShapes DEF ClientTasks
      <4> QED BY <1>1, <1>3, <1>4, <1>5, <3>1, <4>1, CommiterShapes
    <3>2. CASE i \in DOMAIN task_queue
      <4>1. task_queue[i].ticket \in 1 .. tickets /\ task_queue'[i] = task_queue[i]
        BY <1>1, <1>5, <3>2 DEF TicketOrder, Submitted
      <4>2. b # c
        BY <1>1, <1>3, <4>1, CommiterShapes
      <4> QED BY <1>1, <1>3, <3>2, <4>1, <4>2 DEF ClientTasks, OwnTickets
    <3> QED BY <1>5, <3>1, <3>2
  <2>5. NoneLater(task_in_process)'
    <3>1. \A i \in DOMAIN task_in_process :
             /\ task_in_process[i].client \in Clients
             /\ task_in_process[i].ticket \in 1 .. tickets
      BY <1>1, CommiterShapes DEF TicketOrder, Submitted, TypeOK
    <3> SUFFICES ASSUME NEW i \in DOMAIN task_in_process
                 PROVE  task_in_process[i].ticket
                           <= clients'[task_in_process[i].client].ticket
      BY <1>2 DEF NoneLater
    <3>2. CASE task_in_process[i].client = c
      BY <1>1, <1>3, <3>1, <3>2, CommiterShapes
    <3>3. CASE task_in_process[i].client # c
      BY <1>1, <1>3, <3>1, <3>3 DEF ClientTasks, NoneLater
    <3> QED BY <3>2, <3>3
  <2>6. NoneLater(task_queue)'
    <3>1. \A i \in DOMAIN task_queue :
             /\ task_queue[i].client \in Clients
             /\ task_queue[i].ticket \in 1 .. tickets
      BY <1>1, CommiterShapes DEF TicketOrder, Submitted, TypeOK
    <3> QED BY <1>1, <1>3, <1>4, <1>5, <3>1, CommiterShapes
            DEF ClientTasks, NoneLater
  <2>7. ASSUME NEW b \in Retriers, clients'[b].pc = "waiting",
               NEW i \in DOMAIN log', log'[i].ticket = clients'[b].ticket
        PROVE  log'[i].op = clients'[b].op
    <3>1. i \in DOMAIN log /\ log'[i] = log[i] /\ log[i].ticket \in 1 .. tickets
      BY <1>1, <1>2, <2>7 DEF TicketOrder, Submitted
    <3>2. b # c
      BY <1>1, <1>3, <2>7, <3>1, CommiterShapes
    <3> QED BY <1>1, <1>3, <2>7, <3>1, <3>2, ClientsAssumption DEF ClientTasks
  <2>8. \A i \in resolved' + 1 .. Len(task_in_process') :
           KeyUntouched(task_in_process[i])'
    BY <1>1, <1>2, <1>3, ClientsAssumption DEF ClientTasks, KeyUntouched
  <2>9. \A i \in DOMAIN task_queue' : KeyUntouched(task_queue[i])'
    BY <1>1, <1>3, <1>4, <1>5, ClientsAssumption DEF ClientTasks, KeyUntouched
  <2> QED BY <2>1, <2>3, <2>4, <2>5, <2>6, <2>7, <2>8, <2>9 DEF ClientTasks
<1>11. AckedIsApplied'
  BY <1>1, <1>2, <1>3, ClientsAssumption DEF AckedIsApplied
<1> QED BY <1>6, <1>7, <1>8, <1>9, <1>10, <1>11 DEF CommiterInductive

(* The queue becomes the batch.                                            *)
LEMMA BuildKeeps ==
    ASSUME CommiterInductive, TypeOK', BuildBatch, ~stopped
    PROVE  CommiterInductive'
<1>1. /\ TypeOK /\ TicketOrder /\ CommitPhases /\ AnswerOrder /\ AnswersMatchLog
      /\ ClientTasks /\ AckedIsApplied
  BY DEF CommiterInductive
<1>2. /\ UNCHANGED <<resolved, outcome, clients, tickets, answers, log>>
      /\ pc = "awake" /\ pc' = "write"
      /\ task_in_process = <<>> /\ resolved = 0
      /\ task_in_process' = task_queue
      /\ task_queue' = <<>>
  BY <1>1 DEF BuildBatch, CommitPhases
<1>3. /\ DOMAIN <<>> = {}
      /\ 1 .. Len(task_queue) = DOMAIN task_queue
      /\ 1 .. Len(task_in_process) = {}
  BY <1>1, <1>2, CommiterShapes DEF TypeOK
<1>4. TicketOrder'
  BY <1>1, <1>2, <1>3 DEF TicketOrder, Increasing, Submitted, Before
<1>5. CommitPhases'
  BY <1>2 DEF CommitPhases
<1>6. AnswerOrder'
  BY <1>1, <1>2, <1>3 DEF AnswerOrder
<1>7. AnswersMatchLog'
  BY <1>1, <1>2 DEF AnswersMatchLog, Applied
<1>8. ClientTasks'
  BY <1>1, <1>2, <1>3 DEF ClientTasks, OwnTickets, NoneLater, KeyUntouched
<1>9. AckedIsApplied'
  BY <1>1, <1>2 DEF AckedIsApplied
<1> QED BY <1>4, <1>5, <1>6, <1>7, <1>8, <1>9 DEF CommiterInductive

(* What a log that grows by the tasks in process consists of.              *)
LEMMA LogGrows ==
    ASSUME TypeOK, NEW g, g = log \o Logged(task_in_process)
    PROVE  /\ \A i \in DOMAIN log : i \in DOMAIN g /\ g[i] = log[i]
           /\ \A k \in DOMAIN task_in_process :
                 /\ Len(log) + k \in DOMAIN g
                 /\ g[Len(log) + k].ticket = task_in_process[k].ticket
                 /\ g[Len(log) + k].client = task_in_process[k].client
                 /\ g[Len(log) + k].op = Key(task_in_process[k])
           /\ \A i \in DOMAIN g :
                 \/ i \in DOMAIN log
                 \/ \E k \in DOMAIN task_in_process : i = Len(log) + k
<1> DEFINE m == Logged(task_in_process)
<1>1. /\ m \in Seq(Tasks) /\ DOMAIN m = DOMAIN task_in_process
      /\ \A i \in DOMAIN m : /\ m[i].ticket = task_in_process[i].ticket
                             /\ m[i].client = task_in_process[i].client
                             /\ m[i].op = Key(task_in_process[i])
  <2>1. task_in_process \in Seq(Tasks)
    BY DEF TypeOK
  <2> QED BY <2>1, LoggedType
<1>2. log \in Seq(Tasks) /\ g = log \o m
  BY DEF TypeOK
<1> HIDE DEF m
<1>3. /\ Len(log) \in Nat /\ DOMAIN log = 1 .. Len(log)
      /\ Len(m) \in Nat /\ DOMAIN m = 1 .. Len(m)
  BY <1>1, <1>2
<1>4. /\ DOMAIN g = 1 .. Len(log) + Len(m)
      /\ \A i \in 1 .. Len(log) + Len(m) :
            g[i] = IF i <= Len(log) THEN log[i] ELSE m[i - Len(log)]
  BY <1>1, <1>2
<1>5. \A i \in DOMAIN log : i \in DOMAIN g /\ g[i] = log[i]
  BY <1>3, <1>4
<1>6. ASSUME NEW k \in DOMAIN m
      PROVE  Len(log) + k \in DOMAIN g /\ g[Len(log) + k] = m[k]
  <2>1. k \in 1 .. Len(m) /\ Len(log) + k \in 1 .. Len(log) + Len(m)
    BY <1>3
  <2>2. ~(Len(log) + k <= Len(log)) /\ Len(log) + k - Len(log) = k
    BY <1>3, <2>1
  <2> QED BY <1>4, <2>1, <2>2
<1>7. ASSUME NEW i \in DOMAIN g, i \notin DOMAIN log
      PROVE  \E k \in DOMAIN m : i = Len(log) + k
  <2>1. i - Len(log) \in DOMAIN m /\ i = Len(log) + (i - Len(log))
    BY <1>3, <1>4, <1>7
  <2> QED BY <2>1
<1> QED BY <1>1, <1>5, <1>6, <1>7

(* The batch is applied or not: its tasks follow those in the log and come *)
(* before those in the queue.                                              *)
LEMMA WriteKeeps ==
    ASSUME CommiterInductive, TypeOK', Write
    PROVE  CommiterInductive'
<1>1. /\ TypeOK /\ TicketOrder /\ CommitPhases /\ AnswerOrder /\ AnswersMatchLog
      /\ ClientTasks /\ AckedIsApplied
  BY DEF CommiterInductive
<1>2. /\ UNCHANGED <<task_queue, task_in_process, resolved, clients, tickets,
                     answers>>
      /\ pc = "write" /\ pc' = "resolve" /\ resolved = 0
      /\ outcome' # "none"
      /\ \/ outcome' = "done" /\ log' = log \o Logged(task_in_process)
         \/ outcome' # "done" /\ log' = log
  BY <1>1 DEF Write, CommitPhases, Logged
<1>3. /\ log \in Seq(Tasks) /\ Len(log) \in Nat /\ DOMAIN log = 1 .. Len(log)
      /\ task_in_process \in Seq(Tasks)
      /\ Len(task_in_process) \in Nat
      /\ DOMAIN task_in_process = 1 .. Len(task_in_process)
  BY <1>1, CommiterShapes DEF TypeOK
<1>4. \A i \in DOMAIN log : /\ i \in DOMAIN log' /\ log'[i] = log[i]
                            /\ log[i].ticket \in Nat
  BY <1>1, <1>2, <1>3, LogGrows, CommiterShapes
<1>5. outcome' = "done" =>
         \A k \in DOMAIN task_in_process :
            /\ Len(log) + k \in DOMAIN log'
            /\ log'[Len(log) + k].ticket = task_in_process[k].ticket
            /\ log'[Len(log) + k].client = task_in_process[k].client
            /\ log'[Len(log) + k].op = Key(task_in_process[k])
  BY <1>1, <1>2, LogGrows
<1>6. \A i \in DOMAIN log' :
         \/ i \in DOMAIN log
         \/ /\ outcome' = "done"
            /\ \E k \in DOMAIN task_in_process : i = Len(log) + k
  BY <1>1, <1>2, LogGrows
<1>7. Before(log, task_in_process)
  BY <1>1, <1>2 DEF TicketOrder
<1>8. TicketOrder'
  <2>1. Increasing(log)'
    <3> SUFFICES ASSUME NEW i \in DOMAIN log', NEW j \in DOMAIN log', i < j
                 PROVE  log'[i].ticket < log'[j].ticket
      BY DEF Increasing
    <3>1. CASE i \in DOMAIN log /\ j \in DOMAIN log
      BY <1>1, <1>4, <3>1 DEF TicketOrder, Increasing
    <3>2. ASSUME i \in DOMAIN log, NEW k \in DOMAIN task_in_process,
                 j = Len(log) + k, outcome' = "done"
          PROVE  log'[i].ticket < log'[j].ticket
      BY <1>4, <1>5, <1>7, <3>2 DEF Before
    <3>3. ASSUME NEW k \in DOMAIN task_in_process, i = Len(log) + k,
                 j \in DOMAIN log
          PROVE  FALSE
      BY <1>3, <3>3
    <3>4. ASSUME NEW k \in DOMAIN task_in_process, i = Len(log) + k,
                 NEW m \in DOMAIN task_in_process, j = Len(log) + m,
                 outcome' = "done"
          PROVE  log'[i].ticket < log'[j].ticket
      <4>1. k < m
        BY <1>3, <3>4
      <4> QED BY <1>1, <1>5, <3>4, <4>1 DEF TicketOrder, Increasing
    <3> QED BY <1>6, <3>1, <3>2, <3>3, <3>4
  <2>2. \A i \in DOMAIN log' :
           \/ i \in DOMAIN log /\ log'[i].ticket = log[i].ticket
           \/ \E k \in DOMAIN task_in_process :
                 log'[i].ticket = task_in_process[k].ticket
    BY <1>4, <1>5, <1>6
  <2>3. Submitted(log)'
    BY <1>1, <1>2, <2>2 DEF TicketOrder, Submitted
  <2>4. Before(log, task_queue)'
    BY <1>1, <1>2, <2>2 DEF TicketOrder, Before
  <2>5. /\ Increasing(task_in_process)' /\ Increasing(task_queue)'
        /\ Submitted(task_in_process)' /\ Submitted(task_queue)'
        /\ Before(task_in_process, task_queue)'
    BY <1>1, <1>2 DEF TicketOrder, Increasing, Submitted, Before
  <2> QED BY <1>2, <2>1, <2>3, <2>4, <2>5 DEF TicketOrder
<1>9. CommitPhases'
  BY <1>2 DEF CommitPhases
<1>10. AnswerOrder'
  BY <1>1, <1>2 DEF AnswerOrder
<1>11. AnswersMatchLog'
  <2>1. ASSUME NEW t \in DOMAIN answers PROVE Applied(t)' <=> Applied(t)
    <3>1. \A k \in DOMAIN task_in_process : t # task_in_process[k].ticket
      <4> SUFFICES ASSUME NEW k \in DOMAIN task_in_process
                   PROVE  t # task_in_process[k].ticket
        OBVIOUS
      <4>1. k \in resolved + 1 .. Len(task_in_process)
        BY <1>2, <1>3
      <4>2. t < task_in_process[k].ticket
        BY <1>1, <4>1 DEF AnswerOrder
      <4>3. t \in Nat /\ task_in_process[k].ticket \in Nat
        BY <1>1, <1>3, CommiterShapes DEF TypeOK
      <4> QED BY <4>2, <4>3
    <3> QED BY <1>4, <1>5, <1>6, <3>1 DEF Applied
  <2>2. ASSUME NEW k \in DOMAIN task_in_process
        PROVE  (outcome' = "done") <=> Applied(task_in_process[k].ticket)'
    <3>1. CASE outcome' = "done"
      BY <1>2, <1>5, <3>1 DEF Applied
    <3>2. CASE outcome' # "done"
      <4>1. \A i \in DOMAIN log : log[i].ticket < task_in_process[k].ticket
        BY <1>7 DEF Before
      <4>2. task_in_process[k].ticket \in Nat
        BY <1>1, <1>3, CommiterShapes
      <4>3. \A i \in DOMAIN log : log[i].ticket # task_in_process[k].ticket
        BY <1>4, <4>1, <4>2
      <4> QED BY <1>2, <3>2, <4>3 DEF Applied
    <3> QED BY <3>1, <3>2
  <2>3. \A t \in DOMAIN answers' : (answers'[t] = "done") <=> Applied(t)'
    BY <1>1, <1>2, <2>1 DEF AnswersMatchLog
  <2>4. \A k \in DOMAIN task_in_process' :
           (outcome' = "done") <=> Applied(task_in_process[k].ticket)'
    BY <1>2, <2>2
  <2> QED BY <2>3, <2>4 DEF AnswersMatchLog
<1>12. ClientTasks'
  <2>1. OwnTickets(log)'
    <3> SUFFICES ASSUME NEW i \in DOMAIN log', NEW c \in Clients,
                        log'[i].ticket = clients[c].ticket
                 PROVE  log'[i].client = c
      BY <1>2 DEF OwnTickets
    <3>1. CASE i \in DOMAIN log
      BY <1>1, <1>4, <3>1 DEF ClientTasks, OwnTickets
    <3>2. CASE i \notin DOMAIN log
      BY <1>1, <1>5, <1>6, <3>2 DEF ClientTasks, OwnTickets
    <3> QED BY <3>1, <3>2
  <2>2. ASSUME NEW c \in Retriers, clients[c].pc = "waiting",
               NEW i \in DOMAIN log', log'[i].ticket = clients[c].ticket
        PROVE  log'[i].op = clients[c].op
    <3>1. CASE i \in DOMAIN log
      BY <1>1, <1>4, <2>2, <3>1 DEF ClientTasks
    <3>2. CASE i \notin DOMAIN log
      <4>1. PICK k \in DOMAIN task_in_process :
               /\ log'[i].ticket = task_in_process[k].ticket
               /\ log'[i].op = Key(task_in_process[k])
        BY <1>5, <1>6, <3>2
      <4>2. task_in_process[k].client = c
        <5>1. c \in Clients /\ OwnTickets(task_in_process)
          BY <1>1, <2>2, ClientsAssumption DEF ClientTasks
        <5>2. task_in_process[k].ticket = clients[c].ticket
          BY <2>2, <4>1
        <5> QED BY <5>1, <5>2 DEF OwnTickets
      <4> QED BY <4>1, <4>2 DEF Key
    <3> QED BY <3>1, <3>2
  <2>3. /\ OwnTickets(task_in_process)' /\ OwnTickets(task_queue)'
        /\ NoneLater(task_in_process)' /\ NoneLater(task_queue)'
        /\ \A c \in Clients : clients'[c].ticket <= tickets'
        /\ \A i \in resolved' + 1 .. Len(task_in_process') :
              KeyUntouched(task_in_process[i])'
        /\ \A i \in DOMAIN task_queue' : KeyUntouched(task_queue[i])'
    BY <1>1, <1>2 DEF ClientTasks, OwnTickets, NoneLater, KeyUntouched
  <2> QED BY <1>2, <2>1, <2>2, <2>3 DEF ClientTasks
<1>13. AckedIsApplied'
  BY <1>1, <1>2, <1>4 DEF AckedIsApplied
<1> QED BY <1>8, <1>9, <1>10, <1>11, <1>12, <1>13 DEF CommiterInductive

(* A promise is set: the task's, the first in process not answered yet.    *)
LEMMA ResolveKeeps ==
    ASSUME CommiterInductive, TypeOK', Resolve
    PROVE  CommiterInductive'
<1>1. /\ TypeOK /\ TicketOrder /\ CommitPhases /\ AnswerOrder /\ AnswersMatchLog
      /\ ClientTasks /\ AckedIsApplied
  BY DEF CommiterInductive
<1>2. /\ UNCHANGED <<pc, task_queue, task_in_process, outcome, clients, tickets,
                     log>>
      /\ pc = "resolve" /\ resolved' = resolved + 1
  BY DEF Resolve
<1>3. /\ resolved \in Nat /\ Len(task_in_process) \in Nat
      /\ DOMAIN task_in_process = 1 .. Len(task_in_process)
      /\ resolved + 1 \in DOMAIN task_in_process
      /\ \A i \in resolved + 2 .. Len(task_in_process) :
            i \in DOMAIN task_in_process /\ i \in resolved + 1 .. Len(task_in_process)
  BY <1>1, CommiterShapes DEF Resolve, TypeOK
<1>4. PICK t : t = task_in_process[resolved + 1].ticket
  OBVIOUS
<1>5. /\ t \in 1 .. tickets
      /\ DOMAIN answers' = DOMAIN answers \cup {t}
      /\ answers'[t] = outcome
      /\ \A u \in DOMAIN answers : u # t => answers'[u] = answers[u]
  BY <1>1, <1>2, <1>3, <1>4 DEF Resolve, SetAnswer, TicketOrder, Submitted
<1>6. TicketOrder'
  BY <1>1, <1>2 DEF TicketOrder, Increasing, Submitted, Before
<1>7. CommitPhases'
  BY <1>1, <1>2 DEF CommitPhases
<1>8. AnswerOrder'
  <2>1. DOMAIN answers' \subseteq 1 .. tickets
    BY <1>1, <1>5 DEF AnswerOrder
  <2>2. ASSUME NEW u \in 1 .. tickets, u \notin DOMAIN answers'
        PROVE  \/ \E i \in resolved' + 1 .. Len(task_in_process) :
                     task_in_process[i].ticket = u
               \/ \E i \in DOMAIN task_queue : task_queue[i].ticket = u
    <3>1. u \notin DOMAIN answers /\ u # t
      BY <1>5, <2>2
    <3>2. ASSUME NEW i \in resolved + 1 .. Len(task_in_process),
                 task_in_process[i].ticket = u
          PROVE  i \in resolved' + 1 .. Len(task_in_process)
      BY <1>2, <1>3, <1>4, <3>1, <3>2
    <3> QED BY <1>1, <3>1, <3>2 DEF AnswerOrder
  <2>3. ASSUME NEW i \in resolved' + 1 .. Len(task_in_process)
        PROVE  \A u \in DOMAIN answers' : u < task_in_process[i].ticket
    <3>1. i \in resolved + 2 .. Len(task_in_process) /\ resolved + 1 < i
      BY <1>2, <1>3
    <3>2. t < task_in_process[i].ticket
      BY <1>1, <1>3, <1>4, <3>1 DEF TicketOrder, Increasing
    <3>3. \A u \in DOMAIN answers : u < task_in_process[i].ticket
      BY <1>1, <1>3, <3>1 DEF AnswerOrder
    <3> QED BY <1>5, <3>2, <3>3
  <2>4. ASSUME NEW i \in DOMAIN task_queue
        PROVE  \A u \in DOMAIN answers' : u < task_queue[i].ticket
    BY <1>1, <1>3, <1>4, <1>5 DEF TicketOrder, Before, AnswerOrder
  <2> QED BY <1>2, <2>1, <2>2, <2>3, <2>4 DEF AnswerOrder
<1>9. AnswersMatchLog'
  <2>1. \A u : Applied(u)' <=> Applied(u)
    BY <1>2 DEF Applied
  <2>2. (outcome = "done") <=> Applied(t)
    BY <1>1, <1>2, <1>3, <1>4 DEF AnswersMatchLog
  <2>3. \A u \in DOMAIN answers' : (answers'[u] = "done") <=> Applied(u)
    BY <1>1, <1>5, <2>2 DEF AnswersMatchLog
  <2> QED BY <1>1, <1>2, <2>1, <2>3 DEF AnswersMatchLog
<1>10. ClientTasks'
  <2>1. \A i \in resolved' + 1 .. Len(task_in_process') :
           KeyUntouched(task_in_process[i])'
    <3>1. \A i \in resolved' + 1 .. Len(task_in_process') :
             i \in resolved + 1 .. Len(task_in_process)
      BY <1>2, <1>3
    <3> QED BY <1>1, <1>2, <3>1 DEF ClientTasks, KeyUntouched
  <2> QED BY <1>1, <1>2, <2>1 DEF ClientTasks, OwnTickets, NoneLater, KeyUntouched
<1>11. AckedIsApplied'
  BY <1>1, <1>2 DEF AckedIsApplied
<1> QED BY <1>6, <1>7, <1>8, <1>9, <1>10, <1>11 DEF CommiterInductive

(* A batch is forgotten once every task of it is answered.                 *)
LEMMA ClearKeeps ==
    ASSUME CommiterInductive, TypeOK', Clear
    PROVE  CommiterInductive'
<1>1. /\ TypeOK /\ TicketOrder /\ CommitPhases /\ AnswerOrder /\ AnswersMatchLog
      /\ ClientTasks /\ AckedIsApplied
  BY DEF CommiterInductive
<1>2. /\ UNCHANGED <<task_queue, clients, tickets, answers, log>>
      /\ pc' = "loop" /\ resolved' = 0 /\ task_in_process' = <<>>
      /\ resolved = Len(task_in_process)
  BY DEF Clear
<1>3. /\ DOMAIN <<>> = {} /\ 1 .. Len(<<>>) = {}
      /\ resolved + 1 .. Len(task_in_process) = {}
      /\ resolved' + 1 .. Len(task_in_process') = {}
  BY <1>1, <1>2, CommiterShapes
<1>4. TicketOrder'
  BY <1>1, <1>2, <1>3 DEF TicketOrder, Increasing, Submitted, Before
<1>5. CommitPhases'
  BY <1>2 DEF CommitPhases
<1>6. AnswerOrder'
  BY <1>1, <1>2, <1>3 DEF AnswerOrder
<1>7. AnswersMatchLog'
  BY <1>1, <1>2 DEF AnswersMatchLog, Applied
<1>8. ClientTasks'
  BY <1>1, <1>2, <1>3 DEF ClientTasks, OwnTickets, NoneLater, KeyUntouched
<1>9. AckedIsApplied'
  BY <1>1, <1>2 DEF AckedIsApplied
<1> QED BY <1>4, <1>5, <1>6, <1>7, <1>8, <1>9 DEF CommiterInductive

(* The destructor refuses what is queued, none of which was applied.       *)
LEMMA RefuseKeeps ==
    ASSUME CommiterInductive, TypeOK', JoinAndRefuse
    PROVE  CommiterInductive'
<1>1. /\ TypeOK /\ TicketOrder /\ CommitPhases /\ AnswerOrder /\ AnswersMatchLog
      /\ ClientTasks /\ AckedIsApplied
  BY DEF CommiterInductive
<1> DEFINE left == {task_queue[i].ticket : i \in DOMAIN task_queue}
<1>2. /\ UNCHANGED <<pc, task_in_process, resolved, outcome, clients, tickets, log>>
      /\ pc = "exited" /\ task_queue' = <<>>
      /\ answers' = [t \in DOMAIN answers \cup left |->
                        IF t \in left THEN "busy" ELSE answers[t]]
  BY DEF JoinAndRefuse, commiter
<1>3. /\ task_in_process = <<>> /\ resolved = 0
      /\ DOMAIN <<>> = {} /\ resolved + 1 .. Len(task_in_process) = {}
  BY <1>1, <1>2 DEF CommitPhases
<1>4. left \subseteq 1 .. tickets
  BY <1>1 DEF TicketOrder, Submitted
<1>5. TicketOrder'
  BY <1>1, <1>2, <1>3 DEF TicketOrder, Increasing, Submitted, Before
<1>6. CommitPhases'
  BY <1>1, <1>2 DEF CommitPhases
<1>7. AnswerOrder'
  <2>1. DOMAIN answers' \subseteq 1 .. tickets
    BY <1>1, <1>2, <1>4 DEF AnswerOrder
  <2>2. \A t \in 1 .. tickets : t \in DOMAIN answers'
    BY <1>1, <1>2, <1>3 DEF AnswerOrder
  <2> QED BY <1>2, <1>3, <2>1, <2>2 DEF AnswerOrder
<1>8. AnswersMatchLog'
  <2>1. \A t : Applied(t)' <=> Applied(t)
    BY <1>2 DEF Applied
  <2>2. ASSUME NEW t \in left PROVE ~Applied(t)
    <3>1. PICK i \in DOMAIN task_queue : t = task_queue[i].ticket
      OBVIOUS
    <3>2. \A j \in DOMAIN log : log[j].ticket < t /\ log[j].ticket \in Nat
      BY <1>1, <3>1, CommiterShapes DEF TicketOrder, Before, TypeOK
    <3>3. t \in Nat
      BY <1>4
    <3> QED BY <3>2, <3>3 DEF Applied
  <2>3. \A t \in DOMAIN answers' : (answers'[t] = "done") <=> Applied(t)
    BY <1>1, <1>2, <2>2 DEF AnswersMatchLog
  <2> QED BY <1>2, <2>1, <2>3 DEF AnswersMatchLog
<1>9. ClientTasks'
  BY <1>1, <1>2, <1>3 DEF ClientTasks, OwnTickets, NoneLater, KeyUntouched
<1>10. AckedIsApplied'
  BY <1>1, <1>2 DEF AckedIsApplied
<1> QED BY <1>5, <1>6, <1>7, <1>8, <1>9, <1>10 DEF CommiterInductive
------------------------------------------------------------------------------
(* The invariant holds at first: nothing was submitted.                    *)
LEMMA CommiterInit == Init => CommiterInductive
<1> SUFFICES ASSUME Init PROVE CommiterInductive
  OBVIOUS
<1>1. /\ pc = "loop" /\ task_queue = <<>> /\ task_in_process = <<>> /\ log = <<>>
      /\ resolved = 0 /\ tickets = 0 /\ DOMAIN answers = {}
      /\ clients = [c \in Clients |-> [pc |-> "idle", op |-> 1, ticket |-> 0]]
  BY DEF Init
<1>2. DOMAIN <<>> = {} /\ 1 .. Len(<<>>) = {} /\ 1 .. 0 = {}
  OBVIOUS
<1>3. TypeOK
  BY CommiterInitType
<1>4. TicketOrder
  BY <1>1, <1>2 DEF TicketOrder, Increasing, Submitted, Before
<1>5. CommitPhases
  BY <1>1 DEF CommitPhases
<1>6. AnswerOrder
  BY <1>1, <1>2 DEF AnswerOrder
<1>7. AnswersMatchLog
  BY <1>1, <1>2 DEF AnswersMatchLog
<1>8. ClientTasks
  BY <1>1, <1>2, ClientsAssumption DEF ClientTasks, OwnTickets, NoneLater
<1>9. AckedIsApplied
  BY <1>1, ClientsAssumption DEF AckedIsApplied
<1> QED BY <1>3, <1>4, <1>5, <1>6, <1>7, <1>8, <1>9 DEF CommiterInductive

(* Every step keeps the invariant.                                         *)
LEMMA CommiterNext ==
    ASSUME CommiterInductive, [Next]_vars PROVE CommiterInductive'
<1>1. TypeOK'
  BY CommiterNextType DEF CommiterInductive
<1>2. ASSUME NEW c \in Clients, Submit(c) PROVE CommiterInductive'
  BY <1>1, <1>2, SubmitKeeps
<1>3. ASSUME NEW c \in Clients, Succeeds(c) \/ TimesOut(c) \/ Fails(c)
      PROVE  CommiterInductive'
  BY <1>1, <1>3, CallerKeeps
<1>4. CASE Loop \/ Check \/ FallAsleep \/ WakeUp \/ WakeUpAfter3ms
  <2>1. /\ UNCHANGED <<task_queue, task_in_process, resolved, outcome, clients,
                       tickets, answers, log>>
        /\ {pc, pc'} \cap {"write", "resolve"} = {}
    BY <1>4 DEF Loop, Check, FallAsleep, WakeUp, WakeUpAfter3ms
  <2> QED BY <1>1, <2>1, BetweenBatches
<1>5. CASE BuildBatch
  <2>1. CASE stopped
    <3>1. /\ UNCHANGED <<task_queue, task_in_process, resolved, outcome, clients,
                         tickets, answers, log>>
          /\ {pc, pc'} \cap {"write", "resolve"} = {}
      BY <1>5, <2>1 DEF BuildBatch
    <3> QED BY <1>1, <3>1, BetweenBatches
  <2>2. CASE ~stopped
    BY <1>1, <1>5, <2>2, BuildKeeps
  <2> QED BY <2>1, <2>2
<1>6. CASE Write
  BY <1>1, <1>6, WriteKeeps
<1>7. CASE Resolve
  BY <1>1, <1>7, ResolveKeeps
<1>8. CASE Clear
  BY <1>1, <1>8, ClearKeeps
<1>9. CASE Destroy \/ NotifyStopped \/ UNCHANGED vars
  <2>1. UNCHANGED <<pc, task_queue, task_in_process, resolved, outcome, clients,
                    tickets, answers, log>>
    BY <1>9 DEF Destroy, NotifyStopped, vars, commiter
  <2> QED BY <1>1, <2>1, BetweenBatches
<1>10. CASE JoinAndRefuse
  BY <1>1, <1>10, RefuseKeeps
<1> QED BY <1>2, <1>3, <1>4, <1>5, <1>6, <1>7, <1>8, <1>9, <1>10
        DEF Next, CommitThread, Shutdown

(* The invariant holds for ever: of Write and its timeouts, of batches     *)
(* built, applied, refused and answered, and of the destructor.            *)
THEOREM CommiterInvariant == Spec => []CommiterInductive
<1>1. Init => CommiterInductive
  BY CommiterInit
<1>2. CommiterInductive /\ [Next]_vars => CommiterInductive'
  BY CommiterNext
<1> QED BY <1>1, <1>2, PTL DEF Spec

(* The elements of the sequence of unanswered tasks are those in process   *)
(* past resolved and then those in the queue.                              *)
LEMMA UnresolvedTasks ==
    ASSUME CommiterInductive
    PROVE  /\ \A i \in resolved + 1 .. Len(task_in_process) :
                 \E k \in DOMAIN Unresolved : Unresolved[k] = task_in_process[i]
           /\ \A i \in DOMAIN task_queue :
                 \E k \in DOMAIN Unresolved : Unresolved[k] = task_queue[i]
           /\ DOMAIN Unresolved \subseteq Nat
           /\ \A k \in DOMAIN Unresolved :
                 LET n == Len(task_in_process) - resolved
                 IN \/ /\ k \in 1 .. n
                       /\ resolved + k \in resolved + 1 .. Len(task_in_process)
                       /\ Unresolved[k] = task_in_process[resolved + k]
                    \/ /\ k > n
                       /\ k - n \in DOMAIN task_queue
                       /\ Unresolved[k] = task_queue[k - n]
<1>1. /\ task_in_process \in Seq(Tasks) /\ task_queue \in Seq(Tasks)
      /\ resolved \in Nat /\ resolved <= Len(task_in_process)
      /\ Len(task_in_process) \in Nat /\ Len(task_queue) \in Nat
      /\ DOMAIN task_queue = 1 .. Len(task_queue)
  BY CommiterShapes DEF CommiterInductive, TypeOK
<1> DEFINE n == Len(task_in_process) - resolved
           left == SubSeq(task_in_process, resolved + 1, Len(task_in_process))
<1>2. n \in Nat
  BY <1>1
<1>3. /\ left \in Seq(Tasks) /\ Len(left) = n
      /\ \A i \in 1 .. n : left[i] = task_in_process[resolved + i]
  BY <1>1, SubSeqProperties
<1>4. Unresolved = left \o task_queue
  BY DEF Unresolved
<1> HIDE DEF left
<1>5. /\ DOMAIN Unresolved = 1 .. n + Len(task_queue)
      /\ \A k \in 1 .. n + Len(task_queue) :
            Unresolved[k] = IF k <= n THEN left[k] ELSE task_queue[k - n]
  BY <1>1, <1>3, <1>4, SMTT(30)
<1>6. ASSUME NEW i \in resolved + 1 .. Len(task_in_process)
      PROVE  \E k \in DOMAIN Unresolved : Unresolved[k] = task_in_process[i]
  <2>1. i - resolved \in 1 .. n /\ resolved + (i - resolved) = i
    BY <1>1
  <2>2. i - resolved \in 1 .. n + Len(task_queue) /\ i - resolved <= n
    BY <1>1, <1>2, <2>1
  <2> QED BY <1>3, <1>5, <2>1, <2>2
<1>7. ASSUME NEW i \in DOMAIN task_queue
      PROVE  \E k \in DOMAIN Unresolved : Unresolved[k] = task_queue[i]
  <2>1. i \in Nat /\ 1 <= i /\ i <= Len(task_queue)
    BY <1>1
  <2> HIDE DEF n
  <2> DEFINE k == n + i
  <2>2. k \in 1 .. n + Len(task_queue) /\ ~(k <= n) /\ k - n = i
    BY <1>1, <1>2, <2>1
  <2> HIDE DEF k
  <2>3. k \in DOMAIN Unresolved /\ Unresolved[k] = task_queue[i]
    BY <1>5, <2>2
  <2> QED BY <2>3
<1>8. ASSUME NEW k \in DOMAIN Unresolved
      PROVE  \/ /\ k \in 1 .. n
                /\ resolved + k \in resolved + 1 .. Len(task_in_process)
                /\ Unresolved[k] = task_in_process[resolved + k]
             \/ /\ k > n
                /\ k - n \in DOMAIN task_queue
                /\ Unresolved[k] = task_queue[k - n]
  <2>1. CASE k <= n
    BY <1>1, <1>3, <1>5, <2>1
  <2>2. CASE k > n
    BY <1>1, <1>2, <1>5, <2>2
  <2> QED BY <1>2, <1>5, <2>1, <2>2
<1>9. DOMAIN Unresolved \subseteq Nat
  BY <1>1, <1>2, <1>5
<1> QED BY <1>6, <1>7, <1>8, <1>9
------------------------------------------------------------------------------
(* Tasks reach the updater in the order of their submission, each at most  *)
(* once, though Write may have given them up and been called again.        *)
THEOREM TasksApplyInOrder == Spec => []AppliedInOrder
<1>1. CommiterInductive => AppliedInOrder
  BY DEF CommiterInductive, TicketOrder, Increasing, AppliedInOrder
<1> QED BY <1>1, CommiterInvariant, PTL

(* A task is answered "done" if and only if it was applied, and a caller   *)
(* that retries until it is told so has every key of its in the store.     *)
THEOREM AnswersTellTheTruth == Spec => []AnswersAreTrue
<1>1. CommiterInductive => AnswersAreTrue
  BY DEF CommiterInductive, AnswersMatchLog, AnswersAreTrue
<1> QED BY <1>1, CommiterInvariant, PTL

(* A task is answered or still held by the commit thread or the queue,     *)
(* exactly one of the two, and it is held once.                            *)
THEOREM TasksAreKept == Spec => []NoTaskLost
<1>1. ASSUME CommiterInductive PROVE NoTaskLost
  <2>1. TypeOK /\ TicketOrder /\ AnswerOrder
    BY <1>1 DEF CommiterInductive
  <2>2. /\ tickets \in Nat /\ resolved \in Nat /\ Len(task_in_process) \in Nat
        /\ DOMAIN task_in_process = 1 .. Len(task_in_process)
        /\ DOMAIN task_queue \subseteq Nat
    BY <2>1, CommiterShapes DEF TypeOK
  <2>3. \A i \in resolved + 1 .. Len(task_in_process) : i \in DOMAIN task_in_process
    BY <2>2
  <2>4. ASSUME NEW t \in 1 .. tickets
        PROVE  t \in DOMAIN answers
                  <=> ~\E k \in DOMAIN Unresolved : Unresolved[k].ticket = t
    <3>1. ASSUME t \in DOMAIN answers, NEW k \in DOMAIN Unresolved,
                 Unresolved[k].ticket = t
          PROVE  FALSE
      <4>1. t < Unresolved[k].ticket
        BY <1>1, <2>1, <3>1, UnresolvedTasks DEF AnswerOrder
      <4> QED BY <3>1, <4>1
    <3>2. ASSUME t \notin DOMAIN answers
          PROVE  \E k \in DOMAIN Unresolved : Unresolved[k].ticket = t
      <4>1. CASE \E i \in resolved + 1 .. Len(task_in_process) :
                    task_in_process[i].ticket = t
        BY <1>1, <4>1, UnresolvedTasks
      <4>2. CASE \E i \in DOMAIN task_queue : task_queue[i].ticket = t
        BY <1>1, <4>2, UnresolvedTasks
      <4> QED BY <2>1, <3>2, <4>1, <4>2 DEF AnswerOrder
    <3> QED BY <3>1, <3>2
  <2>5. ASSUME NEW i \in DOMAIN Unresolved, NEW j \in DOMAIN Unresolved, i < j
        PROVE  Unresolved[i].ticket < Unresolved[j].ticket
    <3> DEFINE n == Len(task_in_process) - resolved
    <3>1. n \in Int
      BY <2>2
    <3>2. \/ /\ i \in 1 .. n
             /\ resolved + i \in DOMAIN task_in_process
             /\ Unresolved[i] = task_in_process[resolved + i]
          \/ /\ i > n
             /\ i - n \in DOMAIN task_queue
             /\ Unresolved[i] = task_queue[i - n]
      BY <1>1, <2>3, UnresolvedTasks
    <3>3. \/ /\ j \in 1 .. n
             /\ resolved + j \in DOMAIN task_in_process
             /\ Unresolved[j] = task_in_process[resolved + j]
          \/ /\ j > n
             /\ j - n \in DOMAIN task_queue
             /\ Unresolved[j] = task_queue[j - n]
      BY <1>1, <2>3, UnresolvedTasks
    <3>4. DOMAIN Unresolved \subseteq Int
      BY <1>1, UnresolvedTasks
    <3> HIDE DEF n
    <3>5. CASE i \in 1 .. n /\ j \in 1 .. n
      <4>1. resolved + i < resolved + j
        BY <2>2, <2>5, <3>1, <3>5
      <4> QED BY <2>1, <3>1, <3>2, <3>3, <3>5, <4>1 DEF TicketOrder, Increasing
    <3>6. CASE i \in 1 .. n /\ j > n
      BY <2>1, <3>1, <3>2, <3>3, <3>6 DEF TicketOrder, Before
    <3>7. CASE i > n /\ j > n
      <4>1. i - n < j - n
        BY <2>5, <3>1, <3>4
      <4> QED BY <2>1, <3>1, <3>2, <3>3, <3>7, <4>1 DEF TicketOrder, Increasing
    <3> QED BY <2>5, <3>1, <3>2, <3>3, <3>4, <3>5, <3>6, <3>7
  <2> QED BY <2>4, <2>5 DEF NoTaskLost
<1> QED BY <1>1, CommiterInvariant, PTL

(* A retrier rewrites the buffer of its key only while no task of its is   *)
(* queued or in process: the bytes a task refers to are those submitted.   *)
THEOREM BuffersAreStable == Spec => []BufferStable
<1>1. ASSUME CommiterInductive PROVE BufferStable
  <2> SUFFICES ASSUME NEW k \in DOMAIN Unresolved, Unresolved[k].client \in Retriers
               PROVE  Key(Unresolved[k]) = Unresolved[k].op
    BY DEF BufferStable
  <2>1. KeyUntouched(Unresolved[k])
    BY <1>1, UnresolvedTasks DEF CommiterInductive, ClientTasks
  <2> QED BY <2>1 DEF KeyUntouched, Key
<1> QED BY <1>1, CommiterInvariant, PTL
==============================================================================
