--------------------------- MODULE AsyncLog_proof ---------------------------
(***************************************************************************)
(* Theorems about AsyncLog, for any clients and workers, any levels of the *)
(* loggers, any number of lines and slots, and both policies: the ring     *)
(* under the queue is the bounded queue of BoundedFifo, the pool outlives  *)
(* those who use it, and no line is lost on its way to the file.           *)
(***************************************************************************)
EXTENDS AsyncLog, SequenceTheorems, FiniteSetTheorems, TLAPS

USE QueueAssumption DEF max_items, QueueAssumption
-----------------------------------------------------------------------------
(* The ring                                                                *)

(* Positions stay within the ring, and differ from their successors.       *)
LEMMA AfterType ==
    ASSUME NEW i \in 0 .. Capacity
    PROVE  /\ After(i) = IF i = Capacity THEN 0 ELSE i + 1
           /\ After(i) \in 0 .. Capacity
<1>1. CASE i = Capacity
  <2>1. (i + 1) % (Capacity + 1) = 0 BY <1>1, QueueAssumption
  <2> QED BY <1>1, <2>1 DEF After
<1>2. CASE i # Capacity
  <2>1. i + 1 \in 0 .. Capacity BY <1>2, QueueAssumption
  <2>2. (i + 1) % (Capacity + 1) = i + 1 BY <2>1, QueueAssumption
  <2> QED BY <1>2, <2>1, <2>2 DEF After
<1> QED BY <1>1, <1>2

(* A sequence with one element more, equal to another one before it, is    *)
(* that one with the element appended.                                     *)
LEMMA Appended ==
    ASSUME NEW S, NEW t \in Seq(S), NEW x \in S, NEW u \in Seq(S),
           Len(u) = Len(t) + 1, u[Len(t) + 1] = x,
           \A i \in 1 .. Len(t) : u[i] = t[i]
    PROVE  u = Append(t, x)
<1>1. /\ Append(t, x) \in Seq(S)
      /\ Len(Append(t, x)) = Len(t) + 1
      /\ \A i \in 1 .. Len(t) + 1 :
            Append(t, x)[i] = IF i <= Len(t) THEN t[i] ELSE x
  OBVIOUS
<1>2. \A i \in 1 .. Len(u) : u[i] = Append(t, x)[i]
  BY <1>1, LenProperties
<1> QED BY <1>1, <1>2, SeqEqual

(* A ring is empty, or full, when its contents are.                        *)
LEMMA ContentsLength ==
    ASSUME NEW r \in Rings
    PROVE  /\ Size(r) \in 0 .. Capacity
           /\ Len(Contents(r)) = Size(r)
           /\ DOMAIN Contents(r) = 1 .. Size(r)
           /\ IsEmpty(r) <=> Size(r) = 0
           /\ IsFull(r) <=> Size(r) = Capacity
           /\ Contents(r) \in Seq(Messages \cup {NoItem})
<1>1. r.head \in 0 .. Capacity /\ r.tail \in 0 .. Capacity BY DEF Rings
<1>2. Size(r) \in 0 .. Capacity BY <1>1 DEF Size
<1>3. \A i \in 1 .. Size(r) : Slot(r, i - 1) \in 0 .. Capacity
  BY <1>1, <1>2 DEF Slot
<1>4. \A i \in 0 .. Capacity : r.v[i] \in Messages \cup {NoItem}
  BY DEF Rings
<1>5. Contents(r) \in [1 .. Size(r) -> Messages \cup {NoItem}]
  BY <1>3, <1>4 DEF Contents
<1>6. Contents(r) \in Seq(Messages \cup {NoItem}) /\ Len(Contents(r)) = Size(r)
  BY <1>2, <1>5
<1>7. IsEmpty(r) <=> Size(r) = 0
  BY <1>1 DEF IsEmpty, Size
<1>8. IsFull(r) <=> Size(r) = Capacity
  BY <1>1, AfterType DEF IsFull, Size
<1> QED BY <1>2, <1>5, <1>6, <1>7, <1>8

(* A push appends; into a full ring, it gives up the oldest item and       *)
(* counts it.                                                              *)
LEMMA PushIsPush ==
    ASSUME NEW r \in Rings, NEW m \in Messages
    PROVE  /\ PushBack(r, m) \in Rings
           /\ ~IsFull(r) =>
                /\ Contents(PushBack(r, m)) = Append(Contents(r), m)
                /\ PushBack(r, m).overrun = r.overrun
           /\ IsFull(r) =>
                /\ Contents(PushBack(r, m)) = Append(Tail(Contents(r)), m)
                /\ PushBack(r, m).overrun = r.overrun + 1
<1> DEFINE s == PushBack(r, m)
<1>1. /\ r.head \in 0 .. Capacity /\ r.tail \in 0 .. Capacity
      /\ r.overrun \in Nat
      /\ r.v \in [0 .. Capacity -> Messages \cup {NoItem}]
  BY DEF Rings
<1>2. /\ s.v = [r.v EXCEPT ![r.tail] = m]
      /\ s.tail = After(r.tail)
      /\ s.head = IF IsFull(r) THEN After(r.head) ELSE r.head
      /\ s.overrun = IF IsFull(r) THEN r.overrun + 1 ELSE r.overrun
  BY DEF PushBack, Rings, IsFull
<1> HIDE DEF s
<1>a. /\ After(r.head) = IF r.head = Capacity THEN 0 ELSE r.head + 1
      /\ After(r.tail) = IF r.tail = Capacity THEN 0 ELSE r.tail + 1
  BY <1>1, AfterType
<1>3. s \in Rings
  <2>1. s = [v |-> s.v, head |-> s.head, tail |-> s.tail,
             overrun |-> s.overrun]
    BY DEF PushBack, Rings, s
  <2>2. s.v \in [0 .. Capacity -> Messages \cup {NoItem}] BY <1>1, <1>2
  <2>3. s.head \in 0 .. Capacity /\ s.tail \in 0 .. Capacity
    BY <1>1, <1>2, AfterType
  <2>4. s.overrun \in Nat BY <1>1, <1>2
  <2> QED BY <2>1, <2>2, <2>3, <2>4 DEF Rings
<1>4. \A j \in 0 .. Capacity :
        s.v[j] = IF j = r.tail THEN m ELSE r.v[j]
  BY <1>1, <1>2
<1>5. CASE ~IsFull(r)
  <2>1. Size(s) = Size(r) + 1
    BY <1>1, <1>2, <1>5, <1>a, SMTT(30) DEF Size, IsFull
  <2>2. \A i \in 1 .. Size(r) :
          /\ Slot(s, i - 1) = Slot(r, i - 1)
          /\ Slot(r, i - 1) \in 0 .. Capacity
          /\ Slot(r, i - 1) # r.tail
    BY <1>1, <1>2, <1>5, SMTT(30) DEF Size, Slot
  <2>3. Slot(s, Size(r)) = r.tail
    BY <1>1, <1>2, <1>5, SMTT(30) DEF Size, Slot
  <2>4. Contents(s) = Append(Contents(r), m)
    <3>1. /\ Len(Contents(s)) = Len(Contents(r)) + 1
          /\ Contents(s) \in Seq(Messages \cup {NoItem})
          /\ Contents(r) \in Seq(Messages \cup {NoItem})
          /\ Len(Contents(r)) = Size(r) /\ Size(r) \in 0 .. Capacity
      BY <1>3, <2>1, ContentsLength
    <3>2. \A i \in 1 .. Size(r) + 1 : Contents(s)[i] = s.v[Slot(s, i - 1)]
      BY <2>1 DEF Contents
    <3>3. \A i \in 1 .. Size(r) : Contents(s)[i] = Contents(r)[i]
      <4> TAKE i \in 1 .. Size(r)
      <4>1. Contents(r)[i] = r.v[Slot(r, i - 1)] BY DEF Contents
      <4>2. s.v[Slot(r, i - 1)] = r.v[Slot(r, i - 1)] BY <1>4, <2>2
      <4> QED BY <2>2, <3>1, <3>2, <4>1, <4>2
    <3>4. Contents(s)[Size(r) + 1] = m
      BY <1>1, <1>4, <2>3, <3>1, <3>2, SMTT(30)
    <3> QED BY <3>1, <3>3, <3>4, Appended
  <2> QED BY <1>2, <1>3, <1>5, <2>4 DEF s
<1>6. CASE IsFull(r)
  <2>0. /\ s.tail = r.head
        /\ s.head = IF r.head = Capacity THEN 0 ELSE r.head + 1
        /\ \/ r.tail = Capacity /\ r.head = 0
           \/ r.tail # Capacity /\ r.head = r.tail + 1
    BY <1>1, <1>2, <1>6, <1>a DEF IsFull
  <2>a. \/ r.tail = Capacity /\ r.head = 0 /\ s.head = 1 /\ s.tail = 0
        \/ /\ r.tail = Capacity - 1 /\ r.head = Capacity
           /\ s.head = 0 /\ s.tail = Capacity
        \/ /\ r.tail \in 0 .. Capacity - 2 /\ r.head = r.tail + 1
           /\ s.head = r.tail + 2 /\ s.tail = r.tail + 1
    BY <1>1, <2>0
  <2>1. Size(s) = Size(r) /\ Size(r) = Capacity
    BY <2>a DEF Size
  <2>2. \A i \in 1 .. Capacity - 1 :
          /\ Slot(s, i - 1) = Slot(r, i)
          /\ Slot(r, i) \in 0 .. Capacity
          /\ Slot(r, i) # r.tail
    BY <2>a DEF Slot
  <2>3. Slot(s, Capacity - 1) = r.tail
    BY <2>a DEF Slot
  <2>4. Contents(s) = Append(Tail(Contents(r)), m)
    <3>1. /\ Len(Contents(s)) = Capacity
          /\ Contents(s) \in Seq(Messages \cup {NoItem})
          /\ Contents(r) \in Seq(Messages \cup {NoItem})
          /\ Len(Contents(r)) = Capacity
      BY <1>3, <2>1, ContentsLength
    <3>2. /\ Tail(Contents(r)) \in Seq(Messages \cup {NoItem})
          /\ Len(Tail(Contents(r))) = Capacity - 1
          /\ \A i \in 1 .. Capacity - 1 :
                Tail(Contents(r))[i] = Contents(r)[i + 1]
      BY <3>1, HeadTailProperties
    <3>3. \A i \in 1 .. Capacity : Contents(s)[i] = s.v[Slot(s, i - 1)]
      BY <2>1 DEF Contents
    <3>4. \A i \in 1 .. Capacity - 1 :
            Contents(s)[i] = Tail(Contents(r))[i]
      <4> TAKE i \in 1 .. Capacity - 1
      <4>1. Contents(r)[i + 1] = r.v[Slot(r, i)]
        BY <2>1 DEF Contents
      <4>2. s.v[Slot(r, i)] = r.v[Slot(r, i)] BY <1>4, <2>2
      <4>3. Contents(s)[i] = s.v[Slot(r, i)] BY <2>2, <3>3
      <4> QED BY <3>2, <4>1, <4>2, <4>3
    <3>5. Contents(s)[Capacity] = m
      BY <1>1, <1>4, <2>3, <3>3
    <3> QED BY <3>1, <3>2, <3>4, <3>5, Appended
  <2> QED BY <1>2, <1>3, <1>6, <2>4 DEF s
<1> QED BY <1>5, <1>6

(* A pop takes the oldest item.                                            *)
LEMMA PopIsPop ==
    ASSUME NEW r \in Rings, ~IsEmpty(r)
    PROVE  /\ PopFront(r) \in Rings
           /\ FrontItem(r) = Head(Contents(r))
           /\ Contents(PopFront(r)) = Tail(Contents(r))
           /\ PopFront(r).overrun = r.overrun
<1> DEFINE s == PopFront(r)
<1>1. /\ r.head \in 0 .. Capacity /\ r.tail \in 0 .. Capacity
      /\ r.head # r.tail
      /\ r.overrun \in Nat
      /\ r.v \in [0 .. Capacity -> Messages \cup {NoItem}]
  BY DEF Rings, IsEmpty
<1>2. /\ s.v = [r.v EXCEPT ![r.head] = NoItem]
      /\ s.tail = r.tail
      /\ s.head = After(r.head)
      /\ s.overrun = r.overrun
      /\ s \in Rings
  BY <1>1, AfterType DEF PopFront, Rings
<1>3. \A j \in 0 .. Capacity : j # r.head => s.v[j] = r.v[j]
  BY <1>1, <1>2
<1> HIDE DEF s
<1>a. After(r.head) = IF r.head = Capacity THEN 0 ELSE r.head + 1
  BY <1>1, AfterType
<1>4. Size(r) = Size(s) + 1 /\ Size(s) \in 0 .. Capacity - 1
  BY <1>1, <1>2, <1>a, SMTT(30) DEF Size
<1>5. Slot(r, 0) = r.head /\ Contents(r)[1] = FrontItem(r)
  BY <1>1, <1>4 DEF Slot, Contents, FrontItem
<1>6. ASSUME NEW i \in 1 .. Size(s)
      PROVE  /\ Slot(s, i - 1) = Slot(r, i)
             /\ Slot(r, i) \in 0 .. Capacity
             /\ Slot(r, i) # r.head
  <2>1. i < Size(r) /\ i \in Nat /\ i > 0 /\ i <= Capacity BY <1>4
  <2>2. s.head = IF r.head = Capacity THEN 0 ELSE r.head + 1 BY <1>2, <1>a
  <2>3. Slot(s, i - 1) = Slot(r, i) BY <1>1, <2>1, <2>2 DEF Slot
  <2>4. Slot(r, i) \in 0 .. Capacity /\ Slot(r, i) # r.head
    BY <1>1, <2>1, SMTT(30) DEF Slot
  <2> QED BY <2>3, <2>4
<1>7. /\ Contents(s) \in Seq(Messages \cup {NoItem})
      /\ Len(Contents(s)) = Size(s)
      /\ Contents(r) \in Seq(Messages \cup {NoItem})
      /\ Contents(r) # <<>>
      /\ Len(Contents(r)) = Size(s) + 1
  BY <1>2, <1>4, ContentsLength
<1>8. Contents(s) = Tail(Contents(r))
  <2>1. \A i \in 1 .. Size(s) : Contents(s)[i] = Contents(r)[i + 1]
    BY <1>3, <1>4, <1>6 DEF Contents
  <2>2. /\ Tail(Contents(r)) \in Seq(Messages \cup {NoItem})
        /\ Len(Tail(Contents(r))) = Size(s)
        /\ \A i \in 1 .. Size(s) : Tail(Contents(r))[i] = Contents(r)[i + 1]
    BY <1>4, <1>7, HeadTailProperties
  <2> QED BY <1>7, <2>1, <2>2, SeqEqual
<1>9. FrontItem(r) = Head(Contents(r))
  BY <1>4, <1>5, <1>7
<1> QED BY <1>2, <1>8, <1>9 DEF s
-----------------------------------------------------------------------------
(* The log's queue                                                         *)

QueueTyped == /\ q \in Rings
              /\ msg \in [Callers -> Messages]
              /\ posts \in [Clients -> Nat]

QueueStep == [Fifo!FifoNext]_<<Contents(q), q.overrun>>

(* The ring starts typed and empty, which is an empty FIFO.                *)
LEMMA InitTyped == Init => QueueTyped /\ Fifo!FifoInit
<1> SUFFICES ASSUME Init PROVE QueueTyped /\ Fifo!FifoInit
  OBVIOUS
<1>1. NewRing \in Rings BY DEF NewRing, Rings
<1>2. Nothing \in Messages BY DEF Nothing, Messages, Callers, off
<1>3. QueueTyped BY <1>1, <1>2 DEF Init, QueueTyped
<1>4. Size(NewRing) = 0 /\ NewRing.overrun = 0 BY DEF NewRing, Size
<1>5. Contents(NewRing) \in Seq(Messages \cup {NoItem})
      /\ Len(Contents(NewRing)) = 0
  BY <1>1, <1>4, ContentsLength
<1>6. Contents(NewRing) = <<>> BY <1>5, EmptySeq
<1> QED BY <1>3, <1>4, <1>6 DEF Init, Fifo!FifoInit

(* What a caller posts is a message.                                       *)
LEMMA PostTyped ==
    ASSUME QueueTyped, NEW t \in Callers, NEW m \in Messages, Post(t, m)
    PROVE  msg' \in [Callers -> Messages]
BY DEF Post, QueueTyped

(* Letting go of the pool, the destructor included, leaves a typed message *)
(* in the hands of every caller.                                           *)
LEMMA LetGoTyped ==
    ASSUME QueueTyped, NEW t \in Callers, NEW h, NEW n, LetGo(t, h, n)
    PROVE  msg' \in [Callers -> Messages]
<1>1. Terminator \in Messages
  BY DEF Terminator, Nothing, Messages, Callers, off
<1> QED BY <1>1 DEF LetGo, QueueTyped

(* The steps that leave the ring alone.                                    *)
LEMMA QuietStep ==
    ASSUME QueueTyped, UNCHANGED q, msg' \in [Callers -> Messages],
           posts' \in [Clients -> Nat]
    PROVE  QueueTyped' /\ QueueStep
BY DEF QueueTyped, QueueStep, Contents, Size, Slot

(* A push into the ring, with or without room, keeps its type and pushes   *)
(* onto the FIFO it stands for.                                            *)
LEMMA EnqueuePushes ==
    ASSUME QueueTyped, NEW t \in Callers, Enqueue(t)
    PROVE  QueueTyped' /\ QueueStep
<1> DEFINE m == msg[t]
<1>1. m \in Messages /\ q \in Rings BY DEF QueueTyped
<1>2. q' = PushBack(q, m) /\ UNCHANGED <<msg, posts>>
  BY DEF Enqueue, caller_vars, pool_vars
<1> HIDE DEF m
<1>3. QueueTyped' BY <1>1, <1>2, PushIsPush DEF QueueTyped
<1>4. Contents(q)' = Contents(q') /\ (q.overrun)' = q'.overrun
  BY DEF Contents, Size, Slot
<1>5. /\ Contents(q) \in Seq(Messages \cup {NoItem})
      /\ Len(Contents(q)) \in Nat
      /\ IsFull(q) <=> Len(Contents(q)) = Capacity
      /\ Len(Contents(q)) <= Capacity
      /\ Len(Contents(q')) <= Capacity
  BY <1>1, <1>3, ContentsLength DEF QueueTyped
<1>6. CASE ~IsFull(q)
  <2>1. Contents(q') = Append(Contents(q), m) /\ q'.overrun = q.overrun
    BY <1>1, <1>2, <1>6, PushIsPush
  <2>2. Contents(q') # <<>> /\ Contents(q')[Len(Contents(q'))] = m
    BY <1>1, <1>5, <2>1
  <2>3. Fifo!Push
    BY <1>1, <1>4, <1>5, <1>6, <2>1, <2>2 DEF Fifo!Push
  <2> QED BY <1>3, <2>3 DEF QueueStep, Fifo!FifoNext
<1>7. CASE IsFull(q)
  <2>1. /\ Contents(q') = Append(Tail(Contents(q)), m)
        /\ q'.overrun = q.overrun + 1
    BY <1>1, <1>2, <1>7, PushIsPush
  <2>2. Contents(q) # <<>> /\ Len(Contents(q)) = Capacity BY <1>5, <1>7
  <2>3. Tail(Contents(q)) \in Seq(Messages \cup {NoItem})
    BY <1>5, <2>2, HeadTailProperties
  <2>4. Contents(q') # <<>> /\ Contents(q')[Len(Contents(q'))] = m
    BY <1>1, <2>1, <2>3
  <2>5. Fifo!Push
    BY <1>1, <1>4, <2>1, <2>2, <2>4 DEF Fifo!Push
  <2> QED BY <1>3, <2>5 DEF QueueStep, Fifo!FifoNext
<1> QED BY <1>6, <1>7

(* A pop from the ring keeps its type and pops the FIFO it stands for.     *)
LEMMA DequeuePops ==
    ASSUME QueueTyped, NEW w \in Workers, Dequeue(w)
    PROVE  QueueTyped' /\ QueueStep
<1>1. UNCHANGED <<msg, posts>> /\ q \in Rings
  BY DEF Dequeue, caller_vars, QueueTyped
<1>2. CASE IsEmpty(q)
  BY <1>1, <1>2, QuietStep DEF Dequeue, QueueTyped
<1>3. CASE ~IsEmpty(q)
  <2>1. q' = PopFront(q) BY <1>3 DEF Dequeue
  <2>2. /\ q' \in Rings /\ q'.overrun = q.overrun
        /\ Contents(q') = Tail(Contents(q))
    BY <1>1, <1>3, <2>1, PopIsPop
  <2>3. Contents(q) # <<>> BY <1>1, <1>3, ContentsLength
  <2>4. Contents(q)' = Contents(q') /\ (q.overrun)' = q'.overrun
    BY DEF Contents, Size, Slot
  <2>5. Fifo!Pop BY <2>2, <2>3, <2>4 DEF Fifo!Pop
  <2> QED BY <1>1, <2>2, <2>5 DEF QueueTyped, QueueStep, Fifo!FifoNext
<1> QED BY <1>2, <1>3

(* Every step keeps the ring typed and is a push, a pop or a stutter of    *)
(* the FIFO.                                                               *)
LEMMA StepRefines ==
    ASSUME QueueTyped, [Next]_vars
    PROVE  QueueTyped' /\ QueueStep
<1> USE DEF pool_vars, caller_vars, worker_vars, file_vars
<1>1. ASSUME NEW c \in Clients, Log(c) PROVE QueueTyped' /\ QueueStep
  <2>1. c \in Callers BY DEF Callers
  <2>2. posts[c] + 1 \in Nat /\ LogLevels[c] \in 0 .. off
    BY LevelAssumption DEF QueueTyped, LevelAssumption, off
  <2>3. [kind |-> "log", by |-> c, n |-> posts[c] + 1,
         lvl |-> LogLevels[c]] \in Messages
    BY <2>1, <2>2 DEF Messages
  <2>4. msg' \in [Callers -> Messages]
    BY <1>1, <2>1, <2>3, PostTyped DEF Log
  <2>5. posts' \in [Clients -> Nat] BY <1>1 DEF Log, Counted, QueueTyped
  <2> QED BY <1>1, <2>4, <2>5, QuietStep DEF Log
<1>2. ASSUME NEW c \in Clients, Flush(c) PROVE QueueTyped' /\ QueueStep
  <2>1. c \in Callers BY DEF Callers
  <2>2. [kind |-> "flush", by |-> c, n |-> posts[c] + 1, lvl |-> off]
            \in Messages
    BY <2>1 DEF Messages, QueueTyped, off
  <2>3. msg' \in [Callers -> Messages]
    BY <1>2, <2>1, <2>2, PostTyped DEF Flush
  <2>4. posts' \in [Clients -> Nat] BY <1>2 DEF Flush, Counted, QueueTyped
  <2> QED BY <1>2, <2>3, <2>4, QuietStep DEF Flush
<1>3. CASE FlushAll
  <2>1. Flusher \in Callers BY DEF Callers
  <2>2. [kind |-> "flush", by |-> Flusher, n |-> 0, lvl |-> off] \in Messages
    BY <2>1 DEF Messages, off
  <2>3. msg' \in [Callers -> Messages]
    <3>1. CASE registry.logger
      BY <1>3, <2>1, <2>2, <3>1, PostTyped DEF FlushAll
    <3>2. CASE ~registry.logger
      BY <1>3, <3>2 DEF FlushAll, QueueTyped
    <3> QED BY <3>1, <3>2
  <2> QED BY <1>3, <2>3, QuietStep DEF FlushAll, QueueTyped
<1>4. ASSUME NEW t \in Callers, CallerStep(t) PROVE QueueTyped' /\ QueueStep
  <2>1. CASE Blocks(t) BY <2>1, QuietStep DEF Blocks, QueueTyped
  <2>2. CASE Enqueue(t) BY <2>2, EnqueuePushes
  <2>3. CASE Release(t)
    BY <2>3, LetGoTyped, QuietStep DEF Release, QueueTyped
  <2>4. CASE NextTerminate(t)
    BY <2>4, QuietStep DEF NextTerminate, QueueTyped
  <2>5. CASE Join(t) BY <2>5, QuietStep DEF Join, QueueTyped
  <2> QED BY <1>4, <2>1, <2>2, <2>3, <2>4, <2>5 DEF CallerStep
<1>5. CASE StopFlusher BY <1>5, QuietStep DEF StopFlusher, QueueTyped
<1>6. CASE FlusherExits BY <1>6, QuietStep DEF FlusherExits, QueueTyped
<1>7. CASE MainStep
  <2>1. CASE DropAll BY <2>1, QuietStep DEF DropAll, QueueTyped
  <2>2. CASE ResetTp
    <3>1. Main \in Callers BY DEF Callers
    <3> QED BY <2>2, <3>1, LetGoTyped, QuietStep DEF ResetTp, QueueTyped
  <2> QED BY <1>7, <2>1, <2>2 DEF MainStep
<1>8. ASSUME NEW w \in Workers, Worker(w) PROVE QueueTyped' /\ QueueStep
  <2>1. CASE Dequeue(w) BY <2>1, DequeuePops
  <2>2. CASE WaitTimesOut(w) BY <2>2, QuietStep DEF WaitTimesOut, QueueTyped
  <2>3. CASE NotifyPop(w) BY <2>3, QuietStep DEF NotifyPop, QueueTyped
  <2>4. CASE BackendLog(w) BY <2>4, QuietStep DEF BackendLog, QueueTyped
  <2>5. CASE BackendFlush(w) BY <2>5, QuietStep DEF BackendFlush, QueueTyped
  <2> QED BY <1>8, <2>1, <2>2, <2>3, <2>4, <2>5 DEF Worker
<1>9. CASE UNCHANGED vars BY <1>9, QuietStep DEF vars, QueueTyped
<1> QED BY <1>1, <1>2, <1>3, <1>4, <1>5, <1>6, <1>7, <1>8, <1>9 DEF Next

(* The queue of the thread pool, a ring whose slots are reused, is the     *)
(* bounded first-in first-out queue of BoundedFifo for every capacity and  *)
(* every number of threads, under both overflow policies.                  *)
THEOREM QueueIsAFifo == Spec => ImplementsFifo
<1>1. Init => QueueTyped /\ Fifo!FifoInit BY InitTyped
<1>2. QueueTyped /\ [Next]_vars => QueueTyped' /\ QueueStep BY StepRefines
<1> QED BY <1>1, <1>2, PTL DEF Spec, ImplementsFifo, Fifo!FifoSpec, QueueStep
-----------------------------------------------------------------------------
(* Lines in sequences                                                      *)

(* An appended message adds a line if it is one, and the head of a         *)
(* sequence takes one with it if it is one.                                *)
LEMMA LinesOfAppend ==
    ASSUME NEW s \in Seq(Messages), NEW m \in Messages
    PROVE  /\ Lines(Append(s, m)) = IF IsLog(m) THEN Lines(s) \cup {Len(s) + 1}
                                    ELSE Lines(s)
           /\ Len(s) + 1 \notin Lines(s)
           /\ \A i \in Lines(s) : i \in DOMAIN s /\ Append(s, m)[i] = s[i]
<1>1. /\ Len(s) \in Nat /\ DOMAIN s = 1 .. Len(s)
      /\ DOMAIN Append(s, m) = 1 .. Len(s) + 1
      /\ \A i \in 1 .. Len(s) : Append(s, m)[i] = s[i]
      /\ Append(s, m)[Len(s) + 1] = m
  OBVIOUS
<1>2. \A i \in Lines(s) : i \in DOMAIN s
  BY DEF Lines
<1>3. Lines(Append(s, m)) = IF IsLog(m) THEN Lines(s) \cup {Len(s) + 1}
                            ELSE Lines(s)
  BY <1>1 DEF Lines
<1> QED BY <1>1, <1>2, <1>3

(* A finite sequence holds a finite number of lines.                       *)
LEMMA LinesFinite ==
    ASSUME NEW s \in Seq(Messages)
    PROVE  IsFiniteSet(Lines(s)) /\ Cardinality(Lines(s)) \in Nat
<1>1. Lines(s) \subseteq 1 .. Len(s) /\ Len(s) \in Nat
  BY DEF Lines
<1>2. IsFiniteSet(1 .. Len(s))
  BY <1>1, FS_Interval
<1>3. IsFiniteSet(Lines(s))
  BY <1>1, <1>2, FS_Subset
<1> QED BY <1>3, FS_CardinalityType

(* A message appended to a sequence adds one line when it is a line, and   *)
(* none otherwise.                                                         *)
LEMMA CountOfAppend ==
    ASSUME NEW s \in Seq(Messages), NEW m \in Messages
    PROVE  Cardinality(Lines(Append(s, m)))
              = IF IsLog(m) THEN Cardinality(Lines(s)) + 1
                ELSE Cardinality(Lines(s))
BY LinesOfAppend, LinesFinite, FS_AddElement

(* A message taken from the front of a sequence takes one line with it     *)
(* when it is a line, and none otherwise.                                  *)
LEMMA CountOfTail ==
    ASSUME NEW s \in Seq(Messages), s # <<>>
    PROVE  Cardinality(Lines(s))
              = IF IsLog(Head(s)) THEN Cardinality(Lines(Tail(s))) + 1
                ELSE Cardinality(Lines(Tail(s)))
<1> DEFINE t == Tail(s)
           rest == Lines(s) \ {1}
           f == [i \in Lines(t) |-> i + 1]
<1>1. /\ Len(s) \in Nat /\ Len(s) >= 1 /\ DOMAIN s = 1 .. Len(s)
      /\ t \in Seq(Messages) /\ DOMAIN t = 1 .. Len(s) - 1
      /\ \A i \in 1 .. Len(s) - 1 : t[i] = s[i + 1]
      /\ Head(s) = s[1]
  OBVIOUS
<1> HIDE DEF t
<1>2. \A i \in Lines(t) : /\ i \in 1 .. Len(s) - 1
                          /\ i + 1 \in rest
  BY <1>1 DEF Lines
<1>3. \A j \in rest : j - 1 \in Lines(t) /\ (j - 1) + 1 = j
  BY <1>1 DEF Lines
<1>4. f \in Bijection(Lines(t), rest)
  <2>1. f \in Injection(Lines(t), rest)
    <3>1. f \in [Lines(t) -> rest]
      BY <1>2
    <3>2. \A i, j \in Lines(t) : f[i] = f[j] => i = j
      BY <1>2
    <3> QED BY <3>1, <3>2 DEF Injection, IsInjective
  <2>2. f \in Surjection(Lines(t), rest)
    <3>1. f \in [Lines(t) -> rest]
      BY <1>2
    <3>2. \A j \in rest : \E i \in Lines(t) : f[i] = j
      BY <1>3
    <3> QED BY <3>1, <3>2 DEF Surjection
  <2> QED BY <2>1, <2>2 DEF Bijection
<1>5. Cardinality(rest) = Cardinality(Lines(t))
  BY <1>1, <1>4, LinesFinite, FS_Bijection DEF ExistsBijection
<1>6. 1 \in Lines(s) <=> IsLog(Head(s))
  BY <1>1 DEF Lines
<1>7. Cardinality(rest) = IF 1 \in Lines(s) THEN Cardinality(Lines(s)) - 1
                          ELSE Cardinality(Lines(s))
  BY LinesFinite, FS_RemoveElement
<1>8. Cardinality(Lines(s)) \in Nat /\ Cardinality(Lines(t)) \in Nat
  BY <1>1, LinesFinite
<1> HIDE DEF rest, f
<1> QED BY <1>5, <1>6, <1>7, <1>8 DEF t

(* A line put at the end of both sequences keeps the order ...             *)
LEMMA OrderOfAppend ==
    ASSUME NEW s \in Seq(Messages), NEW t \in Seq(Messages), InOrder(s, t),
           NEW m \in Messages
    PROVE  IF IsLog(m) THEN InOrder(Append(s, m), Append(t, m))
           ELSE InOrder(Append(s, m), t)
<1>1. PICK at \in [Lines(s) -> DOMAIN t] :
         \A i, j \in Lines(s) : /\ t[at[i]] = s[i]
                                /\ i < j => at[i] < at[j]
  BY DEF InOrder
<1>2. /\ \A i \in Lines(s) : i \in 1 .. Len(s) /\ Append(s, m)[i] = s[i]
      /\ Len(s) \in Nat /\ Append(s, m)[Len(s) + 1] = m
      /\ Len(s) + 1 \notin Lines(s)
  BY LinesOfAppend
<1>3. CASE ~IsLog(m)
  <2>1. Lines(Append(s, m)) = Lines(s)
    BY <1>3, LinesOfAppend
  <2>2. InOrder(Append(s, m), t)
    BY <1>1, <1>2, <2>1 DEF InOrder
  <2> QED BY <1>3, <2>2
<1>4. CASE IsLog(m)
  <2> DEFINE L == Lines(s) \cup {Len(s) + 1}
             u == Append(t, m)
             n == Len(t) + 1
             to == [i \in L |-> IF i \in Lines(s) THEN at[i] ELSE n]
  <2>1. Lines(Append(s, m)) = L
    BY <1>4, LinesOfAppend
  <2>2. /\ DOMAIN u = 1 .. n /\ n \in Nat /\ n >= 1 /\ DOMAIN t = 1 .. n - 1
        /\ \A i \in 1 .. n - 1 : u[i] = t[i]
        /\ u[n] = m
    OBVIOUS
  <2>3. \A i \in Lines(s) : at[i] \in 1 .. n - 1
    BY <2>2
  <2> HIDE DEF u, n
  <2>4. to \in [L -> DOMAIN u]
    <3>1. \A i \in 1 .. n - 1 : i \in DOMAIN u
      BY <2>2
    <3>2. n \in DOMAIN u
      BY <2>2
    <3> QED BY <2>3, <3>1, <3>2
  <2>5. \A i \in Lines(s) : to[i] = at[i]
    OBVIOUS
  <2>6. to[Len(s) + 1] = n
    BY <1>2
  <2> HIDE DEF to
  <2>7. ASSUME NEW i \in L
        PROVE  u[to[i]] = Append(s, m)[i]
    <3>1. CASE i \in Lines(s)
      BY <1>1, <1>2, <2>2, <2>3, <2>5, <3>1
    <3>2. CASE i = Len(s) + 1
      BY <1>2, <2>2, <2>6, <3>2
    <3> QED BY <3>1, <3>2
  <2>8. ASSUME NEW i \in L, NEW j \in L, i < j
        PROVE  to[i] < to[j]
    <3>1. i \in Lines(s)
      BY <1>2, <2>8
    <3>2. CASE j \in Lines(s)
      BY <1>1, <2>5, <2>8, <3>1, <3>2
    <3>3. CASE j = Len(s) + 1
      BY <2>2, <2>3, <2>5, <2>6, <3>1, <3>3
    <3> QED BY <3>2, <3>3
  <2>9. InOrder(Append(s, m), u)
    BY <2>1, <2>4, <2>7, <2>8 DEF InOrder
  <2> QED BY <1>4, <2>9 DEF u
<1> QED BY <1>3, <1>4

(* ... and taking a message out keeps it.                                  *)
LEMMA OrderOfTail ==
    ASSUME NEW h \in Seq(Messages), NEW s \in Seq(Messages), s # <<>>,
           NEW t \in Seq(Messages), InOrder(h \o s, t)
    PROVE  InOrder(h \o Tail(s), t)
<1> DEFINE a == h \o s
           b == h \o Tail(s)
           n == Len(h)
           old(i) == IF i <= n THEN i ELSE i + 1
<1>1. /\ Len(s) \in Nat /\ Len(s) >= 1 /\ n \in Nat
      /\ Tail(s) \in Seq(Messages) /\ Len(Tail(s)) = Len(s) - 1
      /\ \A i \in 1 .. Len(s) - 1 : Tail(s)[i] = s[i + 1]
  OBVIOUS
<1>2. /\ DOMAIN a = 1 .. n + Len(s)
      /\ \A i \in 1 .. n + Len(s) : a[i] = IF i <= n THEN h[i] ELSE s[i - n]
  BY ConcatProperties
<1>3. /\ DOMAIN b = 1 .. n + Len(s) - 1
      /\ \A i \in 1 .. n + Len(s) - 1 :
            b[i] = IF i <= n THEN h[i] ELSE Tail(s)[i - n]
  <2>1. Len(b) = n + (Len(s) - 1) /\ b \in Seq(Messages)
    BY <1>1, ConcatProperties
  <2>2. \A i \in 1 .. n + (Len(s) - 1) :
            b[i] = IF i <= n THEN h[i] ELSE Tail(s)[i - n]
    BY <1>1, ConcatProperties
  <2> QED BY <1>1, <2>1, <2>2
<1> HIDE DEF a, b, n
<1>4. ASSUME NEW i \in DOMAIN b
      PROVE  old(i) \in DOMAIN a /\ a[old(i)] = b[i]
  <2>1. CASE i <= n
    BY <1>1, <1>2, <1>3, <2>1
  <2>2. CASE ~(i <= n)
    <3>1. /\ i - n \in 1 .. Len(s) - 1 /\ i + 1 \in 1 .. n + Len(s)
          /\ ~(i + 1 <= n) /\ (i + 1) - n = (i - n) + 1
      BY <1>1, <1>3, <2>2
    <3> QED BY <1>1, <1>2, <1>3, <2>2, <3>1
  <2> QED BY <2>1, <2>2
<1>5. \A i \in Lines(b) : old(i) \in Lines(a) /\ a[old(i)] = b[i]
  BY <1>4 DEF Lines
<1>6. \A i, j \in Lines(b) : i < j => old(i) < old(j)
  <2>1. \A i \in Lines(b) : i \in Int
    BY <1>1, <1>3 DEF Lines
  <2> QED BY <1>1, <2>1
<1>7. PICK at \in [Lines(a) -> DOMAIN t] :
         \A i, j \in Lines(a) : /\ t[at[i]] = a[i]
                                /\ i < j => at[i] < at[j]
  BY DEF InOrder, a
<1> HIDE DEF old
<1> DEFINE to == [i \in Lines(b) |-> at[old(i)]]
<1>8. to \in [Lines(b) -> DOMAIN t]
  BY <1>5
<1>9. \A i \in Lines(b) : t[to[i]] = b[i]
  BY <1>5, <1>7
<1>10. \A i, j \in Lines(b) : i < j => to[i] < to[j]
  BY <1>5, <1>6, <1>7
<1>11. InOrder(b, t)
  <2> HIDE DEF to
  <2> QED BY <1>8, <1>9, <1>10 DEF InOrder
<1> QED BY <1>11 DEF b
-----------------------------------------------------------------------------
(* The life of the pool                                                    *)

(* What the type invariant says of the callers and the pool.               *)
LEMMA CallerShapes ==
    ASSUME PipelineTyped
    PROVE  /\ pool \in {"alive", "dying", "gone"}
           /\ pool_refs \subseteq Callers \cup {"registry"}
           /\ terminates \in Nat
           /\ pc \in [Callers -> {"idle", "enqueue", "blocked", "notify",
                                  "join", "joining", "dropped", "exited",
                                  "done"}]
           /\ msg \in [Callers -> Messages]
           /\ threads \subseteq Workers /\ threads # {}
           /\ IsFiniteSet(threads)
           /\ Cardinality(threads) \in Nat \ {0}
           /\ Cardinality(threads) <= Cardinality(Workers)
           /\ Cardinality(Workers) \in Nat
           /\ Main \in Callers /\ Flusher \in Callers
<1>1. threads \subseteq Workers /\ threads # {}
  BY DEF PipelineTyped
<1>2. IsFiniteSet(Workers) /\ IsFiniteSet(threads)
  BY <1>1, WorkerAssumption, FS_Subset DEF WorkerAssumption
<1>3. /\ Cardinality(threads) \in Nat /\ Cardinality(Workers) \in Nat
      /\ Cardinality(threads) <= Cardinality(Workers)
      /\ Cardinality(threads) # 0
  BY <1>1, <1>2, FS_CardinalityType, FS_Subset, FS_EmptySet
<1>4. terminates \in Nat
  BY <1>3 DEF PipelineTyped, TypeOK
<1> QED BY <1>1, <1>2, <1>3, <1>4 DEF PipelineTyped, TypeOK, Callers

(* The steps in which the callers only move about inside or outside the    *)
(* pool, and no worker that has ended comes back.                          *)
LEMMA PoolUndisturbed ==
    ASSUME PipelineTyped, PoolShared, Destruction,
           UNCHANGED <<threads, pool, pool_refs, terminates, msg>>,
           \A t \in Callers :
              /\ Inside(t)' <=> Inside(t)
              /\ pc'[t] = "join" <=> pc[t] = "join",
           pc'[Main] \in {"idle", "joining", "dropped"}
              <=> pc[Main] \in {"idle", "joining", "dropped"},
           \A w \in threads : wpc[w] = "exited" => wpc'[w] = "exited"
    PROVE  PoolShared' /\ Destruction'
<1>1. \A t \in Callers : Destroys(t)' <=> Destroys(t)
  BY DEF Destroys
<1>2. PoolShared'
  BY <1>1 DEF PoolShared
<1>3. Destruction'
  BY <1>1, CallerShapes DEF Destruction
<1> QED BY <1>2, <1>3

(* A caller that finds the pool alive keeps it alive while it posts.       *)
LEMMA PostPins ==
    ASSUME PipelineTyped, PoolShared, Destruction,
           NEW t \in Callers \ {Main}, pc[t] = "idle",
           NEW m \in Messages, m.kind # "terminate", Post(t, m),
           UNCHANGED <<threads, wpc>>
    PROVE  PoolShared' /\ Destruction'
<1>1. CASE PoolLocks
  <2>1. /\ pool_refs' = pool_refs \cup {t}
        /\ msg' = [msg EXCEPT ![t] = m]
        /\ pc' = [pc EXCEPT ![t] = "enqueue"]
        /\ UNCHANGED <<pool, terminates>>
    BY <1>1 DEF Post
  <2>2. pool = "alive" /\ t # "registry" /\ Main \in Callers
    BY <1>1, CallerShapes, CallersAssumption DEF PoolLocks, PoolShared,
       CallersAssumption
  <2>3. /\ pc'[t] = "enqueue" /\ msg'[t] = m
        /\ \A u \in Callers : u # t => pc'[u] = pc[u] /\ msg'[u] = msg[u]
    BY <2>1, CallerShapes
  <2>4. \A u \in Callers : ~Destroys(u)
    BY <2>2 DEF Destruction
  <2>5. /\ Inside(t)' /\ ~Destroys(t)'
        /\ \A u \in Callers : u # t => (Inside(u)' <=> Inside(u)) /\ ~Destroys(u)'
    BY <2>3, <2>4 DEF Inside, Destroys
  <2>6. PoolShared'
    <3>1. pool' = "alive" <=> pool_refs' # {}
      BY <2>1, <2>2
    <3>2. \A u \in Callers : u \in pool_refs' <=> Inside(u)' /\ ~Destroys(u)'
      BY <2>1, <2>4, <2>5 DEF PoolShared
    <3>3. "registry" \in pool_refs' <=> pc'[Main] \in {"idle", "joining", "dropped"}
      BY <2>1, <2>2, <2>3 DEF PoolShared
    <3> QED BY <3>1, <3>2, <3>3 DEF PoolShared
  <2>7. Destruction'
    <3>1. ~Inside(Main)'
      BY <2>2, <2>4, <2>5 DEF Destruction
    <3>2. \A u \in Callers : pc'[u] # "join"
      BY <2>3, <2>4 DEF Destruction
    <3>3. terminates' = 0 /\ pool' = "alive"
      BY <2>1, <2>2 DEF Destruction
    <3> QED BY <2>5, <3>1, <3>2, <3>3 DEF Destruction
  <2> QED BY <2>6, <2>7
<1>2. CASE ~PoolLocks
  <2>1. UNCHANGED <<pc, msg, pool_refs, pool, terminates>>
    BY <1>2 DEF Post
  <2> QED BY <2>1, PoolUndisturbed DEF Inside
<1> QED BY <1>1, <1>2

(* A reference is given up, by a caller that has posted or by the registry;*)
(* whoever gives up the last one is the only one inside, and destroys.     *)
LEMMA LetGoKeeps ==
    ASSUME PipelineTyped, PoolShared, Destruction,
           NEW t \in Callers, NEW h, NEW next, LetGo(t, h, next),
           \/ /\ t # Main /\ h = t /\ next = "idle"
              /\ pc[t] = "notify" /\ ~Destroys(t)
           \/ /\ t = Main /\ h = "registry" /\ next = "done"
              /\ pc[t] = "dropped",
           UNCHANGED threads,
           \A w \in threads : wpc[w] = "exited" => wpc'[w] = "exited"
    PROVE  PoolShared' /\ Destruction'
<1>1. h \in pool_refs
  BY DEF PoolShared, Inside
<1>2. pool = "alive" /\ terminates = 0 /\ \A u \in Callers : ~Destroys(u)
  BY <1>1 DEF PoolShared, Destruction
<1>3. /\ pool_refs' = pool_refs \ {h}
      /\ \A u \in Callers : u # h => (u \in pool_refs' <=> u \in pool_refs)
      /\ h \notin pool_refs'
  BY DEF LetGo
<1>4. Main \in Callers /\ "registry" \notin Callers
  BY CallerShapes, CallersAssumption DEF CallersAssumption
<1>5. CASE pool_refs = {h}
  <2>1. /\ pool' = "dying" /\ terminates' = Cardinality(threads)
        /\ terminates' # 0
        /\ pc'[t] = "enqueue" /\ msg'[t] = Terminator
        /\ \A u \in Callers : u # t => pc'[u] = pc[u] /\ msg'[u] = msg[u]
        /\ pool_refs' = {}
    BY <1>5, <1>3, CallerShapes DEF LetGo
  <2>2. /\ Destroys(t)' /\ Inside(t)'
        /\ \A u \in Callers : u # t => (Inside(u)' <=> Inside(u)) /\ ~Destroys(u)'
    BY <1>2, <2>1 DEF Inside, Destroys, Terminator, Nothing
  <2>3. \A u \in Callers : u # t => ~Inside(u)
    <3> SUFFICES ASSUME NEW u \in Callers, u # t, Inside(u) PROVE FALSE
      OBVIOUS
    <3>1. u \in pool_refs
      BY <1>2 DEF PoolShared
    <3> QED BY <1>4, <1>5, <3>1
  <2>4. PoolShared'
    <3>1. \A u \in Callers : u \in pool_refs' <=> Inside(u)' /\ ~Destroys(u)'
      BY <2>1, <2>2, <2>3
    <3>2. pc'[Main] \notin {"idle", "joining", "dropped"}
      <4>1. CASE t = Main
        BY <2>1, <4>1
      <4>2. CASE t # Main
        <5>1. "registry" \notin pool_refs
          BY <1>4, <1>5, <4>2
        <5> QED BY <1>4, <2>1, <4>2, <5>1 DEF PoolShared
      <4> QED BY <4>1, <4>2
    <3> QED BY <2>1, <3>1, <3>2 DEF PoolShared
  <2>5. Destruction'
    <3>1. Inside(Main)' => Destroys(Main)'
      BY <1>4, <2>2, <2>3
    <3>2. \A u \in Callers : pc'[u] # "join"
      BY <1>2, <2>1 DEF Destruction
    <3> QED BY <2>1, <2>2, <3>1, <3>2 DEF Destruction
  <2> QED BY <2>4, <2>5
<1>6. CASE pool_refs # {h}
  <2>1. /\ UNCHANGED <<pool, terminates, msg>>
        /\ pc'[t] = next
        /\ \A u \in Callers : u # t => pc'[u] = pc[u]
        /\ pool_refs' # {}
    BY <1>1, <1>3, <1>6, CallerShapes DEF LetGo
  <2>2. /\ ~Inside(t)'
        /\ \A u \in Callers : u # t => (Inside(u)' <=> Inside(u))
        /\ \A u \in Callers : ~Destroys(u)'
    BY <1>2, <2>1 DEF Inside, Destroys
  <2>3. PoolShared'
    <3>1. \A u \in Callers : u \in pool_refs' <=> Inside(u)'
      <4>1. t \notin pool_refs'
        BY <1>2, <1>3, <1>4 DEF PoolShared, Inside
      <4>2. ASSUME NEW u \in Callers, u # t
            PROVE  u \in pool_refs' <=> Inside(u)'
        BY <1>2, <1>3, <1>4, <2>2, <4>2 DEF PoolShared
      <4> QED BY <2>2, <4>1, <4>2
    <3>2. "registry" \in pool_refs' <=> pc'[Main] \in {"idle", "joining", "dropped"}
      BY <1>3, <1>4, <2>1 DEF PoolShared
    <3> QED BY <1>2, <2>1, <2>2, <3>1, <3>2 DEF PoolShared
  <2>4. Destruction'
    <3>1. ~Inside(Main)'
      BY <1>2, <1>4, <2>2 DEF Destruction
    <3>2. \A u \in Callers : pc'[u] # "join"
      BY <1>2, <2>1 DEF Destruction
    <3> QED BY <1>2, <2>1, <2>2, <3>1, <3>2 DEF Destruction
  <2> QED BY <2>3, <2>4
<1> QED BY <1>5, <1>6

(* notify_one moves one waiting worker or nobody.                          *)
LEMMA WokenIsWaiting ==
    ASSUME PipelineTyped, WakeWorker
    PROVE  \A w \in Workers :
              \/ wpc'[w] = wpc[w]
              \/ w \in threads /\ wpc[w] = "waiting" /\ wpc'[w] = "dequeue"
<1>1. wpc \in [Workers -> {"dequeue", "waiting", "popped", "log", "flush",
                           "exited"}]
      /\ threads \subseteq Workers
  BY DEF PipelineTyped, TypeOK
<1> QED BY <1>1 DEF WakeWorker

(* One terminate has been posted; the destructor goes on to the next or to *)
(* the joins.                                                              *)
LEMMA TerminateKeeps ==
    ASSUME PipelineTyped, PoolShared, Destruction,
           NEW t \in Callers, NextTerminate(t)
    PROVE  PoolShared' /\ Destruction'
<1>1. /\ Destroys(t) /\ pool = "dying" /\ terminates # 0
      /\ \A u \in Callers : u # t => ~Destroys(u)
  BY DEF NextTerminate, Destruction, Destroys, Inside
<1>2. /\ UNCHANGED <<pool, pool_refs, threads, msg>>
      /\ terminates' = terminates - 1
      /\ pc'[t] = IF terminates > 1 THEN "enqueue" ELSE "join"
      /\ \A u \in Callers : u # t => pc'[u] = pc[u]
  BY CallerShapes DEF NextTerminate
<1>3. /\ Destroys(t)' /\ Inside(t)' /\ Inside(t)
      /\ \A u \in Callers : u # t => /\ Inside(u)' <=> Inside(u)
                                     /\ ~Destroys(u)'
  BY <1>1, <1>2 DEF Destroys, Inside, NextTerminate
<1>4. PoolShared'
  <2>1. \A u \in Callers : u \in pool_refs' <=> Inside(u)' /\ ~Destroys(u)'
    BY <1>1, <1>2, <1>3 DEF PoolShared
  <2>2. pc'[Main] \in {"idle", "joining", "dropped"}
           <=> pc[Main] \in {"idle", "joining", "dropped"}
    BY <1>1, <1>2, CallerShapes DEF NextTerminate
  <2> QED BY <1>1, <1>2, <2>1, <2>2 DEF PoolShared
<1>5. Destruction'
  <2>1. terminates' = 0 <=> pc'[t] = "join"
    BY <1>1, <1>2, CallerShapes
  <2>2. Inside(Main)' => Destroys(Main)'
    BY <1>1, <1>3, CallerShapes DEF Destruction
  <2>3. ASSUME NEW u \in Callers
        PROVE  /\ pc'[u] = "join" => Destroys(u)'
               /\ Destroys(u)' => u = t
    BY <1>1, <1>2, <1>3 DEF Destruction
  <2> QED BY <1>1, <1>2, <2>1, <2>2, <2>3 DEF Destruction
<1> QED BY <1>4, <1>5

(* The destructor ends when every worker has.                              *)
LEMMA JoinKeeps ==
    ASSUME PipelineTyped, PoolShared, Destruction,
           NEW t \in Callers, Join(t)
    PROVE  PoolShared' /\ Destruction'
<1>1. /\ Destroys(t) /\ pool = "dying" /\ terminates = 0
      /\ \A u \in Callers : u # t => ~Destroys(u)
  BY DEF Join, Destruction, Destroys, Inside
<1>2. /\ UNCHANGED <<pool_refs, threads, msg, terminates, wpc>>
      /\ pool' = "gone" /\ pool_refs = {}
      /\ pc'[t] = IF t = Main THEN "done" ELSE "idle"
      /\ \A u \in Callers : u # t => pc'[u] = pc[u]
      /\ \A w \in threads : wpc[w] = "exited"
  BY <1>1, CallerShapes DEF Join, worker_vars, PoolShared
<1>3. \A u \in Callers : ~Inside(u)' /\ ~Destroys(u)' /\ pc'[u] # "join"
  BY <1>1, <1>2 DEF Destroys, Inside, PoolShared
<1>4. pc'[Main] \notin {"idle", "joining", "dropped"}
  BY <1>2, CallerShapes DEF PoolShared
<1>5. PoolShared'
  BY <1>2, <1>3, <1>4 DEF PoolShared
<1>6. Destruction'
  BY <1>1, <1>2, <1>3, CallerShapes DEF Destruction
<1> QED BY <1>5, <1>6

(* Every step keeps the pool shared and its destruction orderly.           *)
LEMMA PoolNext ==
    ASSUME PipelineTyped, PoolShared, Destruction, [Next]_vars
    PROVE  PoolShared' /\ Destruction'
<1> DEFINE Goal == PoolShared' /\ Destruction'
<1> USE DEF pool_vars, caller_vars, worker_vars, file_vars
<1>0. /\ Main \in Callers /\ Flusher \in Callers /\ Flusher # Main
      /\ pc \in [Callers -> {"idle", "enqueue", "blocked", "notify", "join",
                             "joining", "dropped", "exited", "done"}]
      /\ wpc \in [Workers -> {"dequeue", "waiting", "popped", "log", "flush",
                              "exited"}]
      /\ threads \subseteq Workers
      /\ \A c \in Clients : c \in Callers \ {Main}
  BY CallerShapes, CallersAssumption
  DEF CallersAssumption, PipelineTyped, TypeOK, Callers
<1>1. ASSUME NEW c \in Clients, Log(c) PROVE Goal
  <2>1. c \in Callers \ {Main} /\ posts[c] + 1 \in Nat
        /\ LogLevels[c] \in 0 .. off
    BY <1>0, LevelAssumption DEF PipelineTyped, LevelAssumption, off
  <2> DEFINE m == [kind |-> "log", by |-> c, n |-> posts[c] + 1,
                   lvl |-> LogLevels[c]]
  <2>2. m \in Messages /\ m.kind # "terminate"
    BY <2>1 DEF Messages
  <2>3. Post(c, m) /\ pc[c] = "idle" /\ UNCHANGED <<threads, wpc>>
    BY <1>1 DEF Log, Counted
  <2> HIDE DEF m
  <2> QED BY <2>1, <2>2, <2>3, PostPins
<1>2. ASSUME NEW c \in Clients, Flush(c) PROVE Goal
  <2>1. c \in Callers \ {Main} /\ posts[c] + 1 \in Nat /\ off \in 0 .. off
    BY <1>0 DEF PipelineTyped, off
  <2> DEFINE m == [kind |-> "flush", by |-> c, n |-> posts[c] + 1, lvl |-> off]
  <2>2. m \in Messages /\ m.kind # "terminate"
    BY <2>1 DEF Messages
  <2>3. Post(c, m) /\ pc[c] = "idle" /\ UNCHANGED <<threads, wpc>>
    BY <1>2 DEF Flush, Counted
  <2> HIDE DEF m
  <2> QED BY <2>1, <2>2, <2>3, PostPins
<1>3. CASE FlushAll
  <2>1. CASE registry.logger
    <3> DEFINE m == [kind |-> "flush", by |-> Flusher, n |-> 0, lvl |-> off]
    <3>1. m \in Messages /\ m.kind # "terminate"
      BY <1>0 DEF Messages, off
    <3>2. Post(Flusher, m) /\ pc[Flusher] = "idle"
          /\ UNCHANGED <<threads, wpc>>
      BY <1>3, <2>1 DEF FlushAll
    <3> HIDE DEF m
    <3> QED BY <1>0, <3>1, <3>2, PostPins
  <2>2. CASE ~registry.logger
    BY <1>3, <2>2, PoolUndisturbed DEF FlushAll, Inside
  <2> QED BY <2>1, <2>2
<1>4. CASE FlusherExits
  <2>1. \A t \in Callers : /\ Inside(t)' <=> Inside(t)
                           /\ pc'[t] = "join" <=> pc[t] = "join"
    BY <1>0, <1>4 DEF FlusherExits, Inside
  <2> QED BY <1>0, <1>4, <2>1, PoolUndisturbed DEF FlusherExits
<1>5. CASE StopFlusher
  <2>1. \A t \in Callers : /\ Inside(t)' <=> Inside(t)
                           /\ pc'[t] = "join" <=> pc[t] = "join"
    BY <1>0, <1>5 DEF StopFlusher, Inside
  <2> QED BY <1>0, <1>5, <2>1, PoolUndisturbed DEF StopFlusher
<1>6. CASE DropAll
  <2>1. \A t \in Callers : /\ Inside(t)' <=> Inside(t)
                           /\ pc'[t] = "join" <=> pc[t] = "join"
    BY <1>0, <1>6 DEF DropAll, Inside
  <2> QED BY <1>0, <1>6, <2>1, PoolUndisturbed DEF DropAll
<1>7. CASE ResetTp
  BY <1>0, <1>7, LetGoKeeps DEF ResetTp
<1>8. ASSUME NEW t \in Callers, Blocks(t) PROVE Goal
  <2>1. \A u \in Callers : /\ Inside(u)' <=> Inside(u)
                           /\ pc'[u] = "join" <=> pc[u] = "join"
    BY <1>0, <1>8 DEF Blocks, Inside
  <2>2. pc'[Main] \in {"idle", "joining", "dropped"}
           <=> pc[Main] \in {"idle", "joining", "dropped"}
    BY <1>0, <1>8 DEF Blocks
  <2> QED BY <1>8, <2>1, <2>2, PoolUndisturbed DEF Blocks
<1>9. ASSUME NEW t \in Callers, Enqueue(t) PROVE Goal
  <2>1. \A u \in Callers : /\ Inside(u)' <=> Inside(u)
                           /\ pc'[u] = "join" <=> pc[u] = "join"
    BY <1>0, <1>9 DEF Enqueue, Inside
  <2>2. pc'[Main] \in {"idle", "joining", "dropped"}
           <=> pc[Main] \in {"idle", "joining", "dropped"}
    BY <1>0, <1>9 DEF Enqueue
  <2> QED BY <1>9, <2>1, <2>2, PoolUndisturbed DEF Enqueue
<1>10. ASSUME NEW t \in Callers, Release(t) PROVE Goal
  <2>1. ~Destroys(t) /\ t # Main
    BY <1>10 DEF Release, Destroys, Destruction, Inside
  <2>2. \A w \in threads : wpc[w] = "exited" => wpc'[w] = "exited"
    BY <1>0, <1>10, WokenIsWaiting DEF Release
  <2> QED BY <1>10, <2>1, <2>2, LetGoKeeps DEF Release
<1>11. ASSUME NEW t \in Callers, NextTerminate(t) PROVE Goal
  BY <1>11, TerminateKeeps
<1>12. ASSUME NEW t \in Callers, Join(t) PROVE Goal
  BY <1>12, JoinKeeps
<1>13. ASSUME NEW w \in Workers, Dequeue(w) \/ WaitTimesOut(w)
              \/ BackendLog(w) \/ BackendFlush(w)
       PROVE  Goal
  <2>1. \A v \in threads : wpc[v] = "exited" => wpc'[v] = "exited"
    BY <1>0, <1>13 DEF Dequeue, WaitTimesOut, BackendLog, BackendFlush
  <2>2. UNCHANGED <<threads, pool_vars, caller_vars>>
    BY <1>13 DEF Dequeue, WaitTimesOut, BackendLog, BackendFlush
  <2> QED BY <2>1, <2>2, PoolUndisturbed DEF Inside
<1>14. ASSUME NEW w \in Workers, NotifyPop(w) PROVE Goal
  <2>1. \A v \in threads : wpc[v] = "exited" => wpc'[v] = "exited"
    BY <1>0, <1>14 DEF NotifyPop
  <2>2. \A u \in Callers : \/ pc'[u] = pc[u]
                           \/ pc[u] = "blocked" /\ pc'[u] = "enqueue"
    BY <1>0, <1>14 DEF NotifyPop
  <2>3. \A u \in Callers : /\ Inside(u)' <=> Inside(u)
                           /\ pc'[u] = "join" <=> pc[u] = "join"
    BY <2>2 DEF Inside
  <2>4. pc'[Main] \in {"idle", "joining", "dropped"}
           <=> pc[Main] \in {"idle", "joining", "dropped"}
    BY <1>0, <2>2
  <2> QED BY <1>14, <2>1, <2>3, <2>4, PoolUndisturbed DEF NotifyPop
<1>15. CASE UNCHANGED vars
  BY <1>15, PoolUndisturbed DEF vars, Inside
<1> QED
  BY <1>1, <1>2, <1>3, <1>4, <1>5, <1>6, <1>7, <1>8, <1>9, <1>10, <1>11,
     <1>12, <1>13, <1>14, <1>15
  DEF Next, MainStep, CallerStep, Worker
-----------------------------------------------------------------------------
(* Types                                                                   *)

(* The queue holds messages; they and the ring are what the refinement     *)
(* lemmas are about.                                                       *)
LEMMA TypedQueue ==
    ASSUME PipelineTyped
    PROVE  /\ QueueTyped
           /\ Contents(q) \in Seq(Messages)
           /\ Size(q) \in 0 .. Capacity
           /\ Len(Contents(q)) = Size(q)
           /\ IsEmpty(q) <=> Contents(q) = <<>>
           /\ q.overrun \in Nat
           /\ accepted \in Seq(Messages) /\ handled \in Seq(Messages)
           /\ item \in [Workers -> Messages]
<1>1. QueueTyped
  BY DEF QueueTyped, PipelineTyped, TypeOK
<1>2. /\ Contents(q) \in Seq(Messages \cup {NoItem})
      /\ Len(Contents(q)) = Size(q) /\ Size(q) \in 0 .. Capacity
      /\ IsEmpty(q) <=> Size(q) = 0
      /\ \A i \in DOMAIN Contents(q) : Contents(q)[i] \in Messages
  BY ContentsLength DEF PipelineTyped, TypeOK
<1>3. Contents(q) \in Seq(Messages)
  BY <1>2
<1>4. q.overrun \in Nat
  BY DEF PipelineTyped, TypeOK, Rings
<1>5. IsEmpty(q) <=> Contents(q) = <<>>
  BY <1>2, <1>3, EmptySeq
<1> QED BY <1>1, <1>2, <1>3, <1>4, <1>5 DEF PipelineTyped, TypeOK

(* Enqueue, by what it does to the queue's contents.                       *)
LEMMA EnqueueContents ==
    ASSUME PipelineTyped, NEW t \in Callers, Enqueue(t)
    PROVE  /\ msg[t] \in Messages /\ q' \in Rings
           /\ Contents(q') \in Seq(Messages)
           /\ IF IsFull(q)
              THEN /\ Contents(q') = Append(Tail(Contents(q)), msg[t])
                   /\ q'.overrun = q.overrun + 1
                   /\ Contents(q) # <<>>
                   /\ policy # "block" /\ msg[t].kind # "terminate"
              ELSE /\ Contents(q') = Append(Contents(q), msg[t])
                   /\ q'.overrun = q.overrun
<1>1. msg[t] \in Messages /\ q \in Rings /\ q' = PushBack(q, msg[t])
      /\ Contents(q) \in Seq(Messages)
  BY TypedQueue DEF Enqueue, PipelineTyped, TypeOK
<1>2. CASE IsFull(q)
  <2>1. /\ Contents(q') = Append(Tail(Contents(q)), msg[t])
        /\ q'.overrun = q.overrun + 1 /\ q' \in Rings
    BY <1>1, <1>2, PushIsPush
  <2>2. policy # "block" /\ msg[t].kind # "terminate"
    BY <1>2 DEF Enqueue, MustBlock
  <2>3. Contents(q) # <<>>
    BY <1>1, <1>2, ContentsLength
  <2> QED BY <1>1, <1>2, <2>1, <2>2, <2>3
<1>3. CASE ~IsFull(q)
  <2>1. /\ Contents(q') = Append(Contents(q), msg[t])
        /\ q'.overrun = q.overrun /\ q' \in Rings
    BY <1>1, <1>3, PushIsPush
  <2> QED BY <1>1, <1>3, <2>1
<1> QED BY <1>2, <1>3

(* Dequeue, by what it does to the queue's contents and the worker's item. *)
LEMMA DequeueContents ==
    ASSUME PipelineTyped, NEW w \in Workers, Dequeue(w), Contents(q) # <<>>
    PROVE  /\ q' \in Rings
           /\ q'.overrun = q.overrun
           /\ Contents(q') = Tail(Contents(q))
           /\ Contents(q') \in Seq(Messages)
           /\ Head(Contents(q)) \in Messages
           /\ item' = [item EXCEPT ![w] = Head(Contents(q))]
           /\ wpc' = [wpc EXCEPT ![w] = "popped"]
<1>1. q \in Rings /\ ~IsEmpty(q) /\ Contents(q) \in Seq(Messages)
  BY TypedQueue DEF PipelineTyped, TypeOK
<1>2. /\ q' = PopFront(q)
      /\ item' = [item EXCEPT ![w] = FrontItem(q)]
      /\ wpc' = [wpc EXCEPT ![w] = "popped"]
  BY <1>1 DEF Dequeue
<1>3. Tail(Contents(q)) \in Seq(Messages) /\ Head(Contents(q)) \in Messages
  BY <1>1
<1> QED BY <1>1, <1>2, <1>3, PopIsPop

(* An empty queue leaves the worker waiting.                               *)
LEMMA DequeueNothing ==
    ASSUME PipelineTyped, NEW w \in Workers, Dequeue(w), Contents(q) = <<>>
    PROVE  /\ UNCHANGED <<q, item>>
           /\ wpc' = [wpc EXCEPT ![w] = "waiting"]
BY TypedQueue DEF Dequeue

(* The callers' and the pool's side of the types.                          *)
CallersTyped ==
    /\ pool \in {"alive", "dying", "gone"}
    /\ pool_refs \subseteq Callers \cup {"registry"}
    /\ terminates \in 0 .. Cardinality(Workers)
    /\ pc \in [Callers -> {"idle", "enqueue", "blocked", "notify", "join",
                           "joining", "dropped", "exited", "done"}]
    /\ policy \in {"block", "overrun_oldest"}
    /\ threads \in (SUBSET Workers) \ {{}}

(* The workers' side, with the messages that have gone through the queue.  *)
WorkersTyped ==
    /\ wpc \in [Workers -> {"dequeue", "waiting", "popped", "log", "flush",
                            "exited"}]
    /\ item \in [Workers -> Messages]
    /\ accepted \in Seq(Messages) /\ handled \in Seq(Messages)
    /\ \A i \in DOMAIN Contents(q) : Contents(q)[i] \in Messages
    /\ \A w \in Workers : /\ wpc[w] = "log" => IsLog(item[w])
                          /\ w \notin threads => wpc[w] = "exited"

(* The types of the pipeline are those of its ring, its callers and its    *)
(* workers.                                                                *)
LEMMA TypesInParts == PipelineTyped <=> QueueTyped /\ CallersTyped /\ WorkersTyped
BY DEF PipelineTyped, TypeOK, QueueTyped, CallersTyped, WorkersTyped

(* The same of the next state.                                             *)
LEMMA TypesInPartsNext ==
    ASSUME QueueTyped', CallersTyped', WorkersTyped' PROVE PipelineTyped'
BY DEF PipelineTyped, TypeOK, QueueTyped, CallersTyped, WorkersTyped

(* A reference given up leaves the callers' types.                         *)
LEMMA LetGoCallers ==
    ASSUME PipelineTyped, NEW t \in Callers, NEW h,
           NEW next \in {"idle", "done"}, LetGo(t, h, next),
           UNCHANGED <<policy, threads>>
    PROVE  CallersTyped'
<1>1. /\ CallersTyped /\ Cardinality(threads) \in 0 .. Cardinality(Workers)
  BY TypesInParts, CallerShapes
<1>2. CASE pool_refs = {h}
  <2>1. /\ pool' = "dying" /\ terminates' = Cardinality(threads)
        /\ pc' = [pc EXCEPT ![t] = "enqueue"] /\ pool_refs' = pool_refs \ {h}
    BY <1>2 DEF LetGo
  <2> QED BY <1>1, <2>1 DEF CallersTyped
<1>3. CASE pool_refs # {h}
  <2>1. /\ UNCHANGED <<pool, terminates>>
        /\ pc' = [pc EXCEPT ![t] = next] /\ pool_refs' = pool_refs \ {h}
    BY <1>3 DEF LetGo
  <2> QED BY <1>1, <2>1 DEF CallersTyped
<1> QED BY <1>2, <1>3

(* Every step keeps the callers typed.                                     *)
LEMMA CallersTypedNext ==
    ASSUME PipelineTyped, Destruction, [Next]_vars
    PROVE  CallersTyped'
<1> USE DEF pool_vars, caller_vars, worker_vars, file_vars
<1>0. CallersTyped /\ Main \in Callers /\ Flusher \in Callers
      /\ (\A c \in Clients : c \in Callers)
  BY TypesInParts, CallerShapes DEF Callers
<1>1. ASSUME NEW t \in Callers, NEW m, Post(t, m), UNCHANGED <<policy, threads>>
      PROVE  CallersTyped'
  BY <1>0, <1>1 DEF Post, CallersTyped
<1>2. ASSUME NEW c \in Clients, Log(c) \/ Flush(c) PROVE CallersTyped'
  BY <1>0, <1>1, <1>2 DEF Log, Flush
<1>3. CASE FlushAll
  <2>1. CASE registry.logger
    BY <1>0, <1>1, <1>3, <2>1 DEF FlushAll
  <2>2. CASE ~registry.logger
    BY <1>0, <1>3, <2>2 DEF FlushAll, CallersTyped
  <2> QED BY <2>1, <2>2
<1>4. CASE FlusherExits
  BY <1>0, <1>4 DEF FlusherExits, CallersTyped
<1>5. CASE StopFlusher
  BY <1>0, <1>5 DEF StopFlusher, CallersTyped
<1>6. CASE DropAll
  BY <1>0, <1>6 DEF DropAll, CallersTyped
<1>7. CASE ResetTp
  BY <1>0, <1>7, LetGoCallers DEF ResetTp
<1>8. ASSUME NEW t \in Callers, Blocks(t) PROVE CallersTyped'
  BY <1>0, <1>8 DEF Blocks, CallersTyped
<1>9. ASSUME NEW t \in Callers, Enqueue(t) PROVE CallersTyped'
  BY <1>0, <1>9 DEF Enqueue, CallersTyped
<1>10. ASSUME NEW t \in Callers, Release(t) PROVE CallersTyped'
  BY <1>0, <1>10, LetGoCallers DEF Release
<1>11. ASSUME NEW t \in Callers, NextTerminate(t) PROVE CallersTyped'
  <2>1. terminates # 0
    BY <1>11 DEF NextTerminate, Destruction, Destroys, Inside
  <2>2. terminates - 1 \in 0 .. Cardinality(Workers)
    BY <1>0, <2>1, CallerShapes DEF CallersTyped
  <2>3. /\ terminates' = terminates - 1
        /\ UNCHANGED <<pool, pool_refs, policy, threads>>
        /\ pc' = [pc EXCEPT ![t] = IF terminates > 1 THEN "enqueue"
                                   ELSE "join"]
    BY <1>11 DEF NextTerminate
  <2> QED BY <1>0, <2>2, <2>3 DEF CallersTyped
<1>12. ASSUME NEW t \in Callers, Join(t) PROVE CallersTyped'
  BY <1>0, <1>12 DEF Join, CallersTyped
<1>13. ASSUME NEW w \in Workers, Dequeue(w) \/ WaitTimesOut(w)
              \/ BackendLog(w) \/ BackendFlush(w)
       PROVE  CallersTyped'
  BY <1>0, <1>13
  DEF Dequeue, WaitTimesOut, BackendLog, BackendFlush, CallersTyped
<1>14. ASSUME NEW w \in Workers, NotifyPop(w) PROVE CallersTyped'
  BY <1>0, <1>14 DEF NotifyPop, CallersTyped
<1>15. CASE UNCHANGED vars
  BY <1>0, <1>15 DEF vars, CallersTyped
<1> QED
  BY <1>2, <1>3, <1>4, <1>5, <1>6, <1>7, <1>8, <1>9, <1>10, <1>11,
     <1>12, <1>13, <1>14, <1>15
  DEF Next, MainStep, CallerStep, Worker

(* The steps that change neither the queue nor what the workers do.        *)
LEMMA WorkersUndisturbed ==
    ASSUME PipelineTyped,
           UNCHANGED <<q, item, threads, accepted, handled>>,
           \/ UNCHANGED wpc
           \/ WakeWorker
    PROVE  WorkersTyped'
<1>1. WorkersTyped /\ threads \subseteq Workers
  BY TypesInParts, CallerShapes
<1>2. UNCHANGED Contents(q)
  BY DEF Contents, Size, Slot
<1>3. CASE UNCHANGED wpc
  BY <1>1, <1>2, <1>3 DEF WorkersTyped, IsLog
<1>4. CASE WakeWorker
  <2>1. wpc' \in [Workers -> {"dequeue", "waiting", "popped", "log", "flush",
                              "exited"}]
    BY <1>1, <1>4 DEF WakeWorker, WorkersTyped
  <2> QED BY <1>1, <1>2, <1>4, <2>1, WokenIsWaiting DEF WorkersTyped, IsLog
<1> QED BY <1>3, <1>4

(* Every step keeps the workers typed.                                     *)
LEMMA WorkersTypedNext ==
    ASSUME PipelineTyped, [Next]_vars
    PROVE  WorkersTyped'
<1> USE DEF pool_vars, caller_vars, worker_vars, file_vars
<1>0. WorkersTyped /\ threads \subseteq Workers
  BY TypesInParts, CallerShapes
<1>1. ASSUME NEW c \in Clients, Log(c) \/ Flush(c) PROVE WorkersTyped'
  BY <1>1, WorkersUndisturbed DEF Log, Flush
<1>2. CASE FlushAll \/ FlusherExits \/ StopFlusher \/ DropAll \/ ResetTp
  BY <1>2, WorkersUndisturbed
  DEF FlushAll, FlusherExits, StopFlusher, DropAll, ResetTp
<1>3. ASSUME NEW t \in Callers,
             Blocks(t) \/ Release(t) \/ NextTerminate(t) \/ Join(t)
      PROVE  WorkersTyped'
  BY <1>3, WorkersUndisturbed DEF Blocks, Release, NextTerminate, Join
<1>4. ASSUME NEW t \in Callers, Enqueue(t) PROVE WorkersTyped'
  <2>1. msg[t] \in Messages /\ Contents(q') \in Seq(Messages)
    BY <1>4, EnqueueContents
  <2>2. Contents(q)' = Contents(q')
    BY DEF Contents, Size, Slot
  <2>3. accepted' \in Seq(Messages)
    BY <1>0, <1>4, <2>1 DEF Enqueue, WorkersTyped
  <2>4. \A i \in DOMAIN Contents(q') : Contents(q')[i] \in Messages
    BY <2>1
  <2>5. UNCHANGED <<wpc, item, handled, threads>>
    BY <1>4 DEF Enqueue
  <2> QED BY <1>0, <2>2, <2>3, <2>4, <2>5 DEF WorkersTyped, IsLog
<1>5. ASSUME NEW w \in Workers, Dequeue(w) PROVE WorkersTyped'
  <2>1. wpc[w] = "dequeue" /\ w \in threads
        /\ UNCHANGED <<threads, accepted, handled>>
    BY <1>0, <1>5 DEF Dequeue, WorkersTyped
  <2>2. Contents(q)' = Contents(q')
    BY DEF Contents, Size, Slot
  <2>3. CASE Contents(q) = <<>>
    <3>1. /\ UNCHANGED <<q, item>>
          /\ wpc' = [wpc EXCEPT ![w] = "waiting"]
      BY <1>5, <2>3, DequeueNothing
    <3>2. UNCHANGED Contents(q)
      BY <2>2, <3>1
    <3> QED BY <1>0, <2>1, <3>1, <3>2 DEF WorkersTyped, IsLog
  <2>4. CASE Contents(q) # <<>>
    <3>1. /\ Contents(q') \in Seq(Messages)
          /\ Head(Contents(q)) \in Messages
          /\ item' = [item EXCEPT ![w] = Head(Contents(q))]
          /\ wpc' = [wpc EXCEPT ![w] = "popped"]
      BY <1>5, <2>4, DequeueContents
    <3>2. \A i \in DOMAIN Contents(q') : Contents(q')[i] \in Messages
      BY <3>1
    <3> QED BY <1>0, <2>1, <2>2, <3>1, <3>2 DEF WorkersTyped, IsLog
  <2> QED BY <2>3, <2>4
<1>6. ASSUME NEW w \in Workers, WaitTimesOut(w) \/ NotifyPop(w)
                                \/ BackendLog(w) \/ BackendFlush(w)
      PROVE  WorkersTyped'
  <2>1. /\ wpc[w] \in {"waiting", "popped", "log", "flush"} /\ w \in threads
        /\ UNCHANGED <<q, item, threads, accepted>>
    BY <1>0, <1>6
    DEF WaitTimesOut, NotifyPop, BackendLog, BackendFlush, WorkersTyped
  <2>2. UNCHANGED Contents(q)
    BY <2>1 DEF Contents, Size, Slot
  <2>3. handled' \in Seq(Messages)
    BY <1>0, <1>6
    DEF WaitTimesOut, NotifyPop, BackendLog, BackendFlush, WorkersTyped
  <2>4. PICK at \in {"dequeue", "log", "flush", "exited"} :
           /\ wpc' = [wpc EXCEPT ![w] = at]
           /\ at = "log" => IsLog(item[w])
    <3>1. item[w].kind \in {"log", "flush", "terminate"}
      BY <1>0 DEF WorkersTyped, Messages
    <3> QED BY <1>6, <3>1
      DEF WaitTimesOut, NotifyPop, BackendLog, BackendFlush, IsLog
  <2> QED BY <1>0, <2>1, <2>2, <2>3, <2>4 DEF WorkersTyped, IsLog
<1>7. CASE UNCHANGED vars
  BY <1>7, WorkersUndisturbed DEF vars
<1> QED
  BY <1>1, <1>2, <1>3, <1>4, <1>5, <1>6, <1>7
  DEF Next, MainStep, CallerStep, Worker

(* Every step keeps the pipeline typed.                                    *)
LEMMA TypedNext ==
    ASSUME PipelineTyped, Destruction, [Next]_vars
    PROVE  PipelineTyped'
<1>1. QueueTyped'
  BY TypedQueue, StepRefines
<1> QED BY <1>1, CallersTypedNext, WorkersTypedNext, TypesInPartsNext
-----------------------------------------------------------------------------
(* The terminates                                                          *)

(* Ended is a finite set of workers, and so can be counted.                *)
LEMMA EndedFinite ==
    ASSUME PipelineTyped
    PROVE  /\ IsFiniteSet(Ended) /\ Cardinality(Ended) \in Nat
           /\ Ended \subseteq threads
           /\ ToPost \in Int
<1>1. Ended \subseteq threads
  BY DEF Ended
<1>2. IsFiniteSet(Ended) /\ Cardinality(Ended) \in Nat
  BY <1>1, CallerShapes, FS_Subset, FS_CardinalityType
<1> QED BY <1>1, <1>2, CallerShapes DEF ToPost

(* The workers that have ended are told by their steps.                    *)
LEMMA SameEnded ==
    ASSUME UNCHANGED threads,
           \A w \in threads :
              \/ wpc'[w] = wpc[w] /\ item'[w] = item[w]
              \/ /\ wpc[w] # "exited" /\ wpc[w] # "popped"
                 /\ wpc'[w] # "exited" /\ wpc'[w] # "popped"
              \/ /\ wpc[w] = "popped" /\ wpc'[w] # "popped"
                 /\ wpc'[w] = "exited" <=> item[w].kind = "terminate"
    PROVE  Ended' = Ended
BY DEF Ended

(* What is still to be posted changes with the destroyer only.             *)
LEMMA SameToPost ==
    ASSUME UNCHANGED <<terminates, msg>>,
           \A t \in Callers : msg[t].kind = "terminate" =>
              (pc'[t] = "notify" <=> pc[t] = "notify")
    PROVE  ToPost' = ToPost
<1>1. \A t \in Callers : Destroys(t)' /\ pc'[t] = "notify"
                            <=> Destroys(t) /\ pc[t] = "notify"
  BY DEF Destroys, Inside
<1> QED BY <1>1 DEF ToPost

(* The steps that touch neither the queue nor the count.                   *)
LEMMA LastUndisturbed ==
    ASSUME TerminatesLast, UNCHANGED <<q, threads, pool>>,
           Ended' = Ended,
           pool # "alive" => ToPost' = ToPost
    PROVE  TerminatesLast'
<1>1. PICK n \in 0 .. Size(q) : LastOrdinary(n)
  BY DEF TerminatesLast
<1>2. UNCHANGED <<Contents(q), Size(q)>>
  BY DEF Contents, Size, Slot
<1>3. LastOrdinary(n)'
  BY <1>1, <1>2 DEF LastOrdinary
<1> QED BY <1>1, <1>2, <1>3 DEF TerminatesLast

(* The last reference is given up by one caller when nobody else is        *)
(* inside: every terminate is still to be posted.                          *)
LEMMA LastWhenLetGo ==
    ASSUME PipelineTyped, PoolShared, Destruction, TerminatesLast,
           NEW t \in Callers, NEW h, NEW next \in {"idle", "done"},
           LetGo(t, h, next), h \in pool_refs,
           UNCHANGED <<q, threads>>, Ended' = Ended
    PROVE  TerminatesLast'
<1>1. pool = "alive" /\ \A u \in Callers : ~Destroys(u)
  BY DEF PoolShared, Destruction
<1>2. CASE pool_refs # {h}
  <2>1. UNCHANGED pool
    BY <1>2 DEF LetGo
  <2> QED BY <1>1, <2>1, LastUndisturbed
<1>3. CASE pool_refs = {h}
  <2>1. /\ pool' = "dying" /\ terminates' = Cardinality(threads)
        /\ pc'[t] = "enqueue"
        /\ \A u \in Callers : u # t => pc'[u] = pc[u] /\ msg'[u] = msg[u]
    BY <1>3, CallerShapes DEF LetGo
  <2>2. \A u \in Callers : ~(Destroys(u)' /\ pc'[u] = "notify")
    BY <1>1, <2>1 DEF Destroys, Inside
  <2>3. ToPost' = Cardinality(threads)
    BY <2>1, <2>2 DEF ToPost
  <2>4. PICK n \in 0 .. Size(q) : LastOrdinary(n)
    BY DEF TerminatesLast
  <2>5. n = Size(q) /\ Ended = {} /\ Size(q) \in Nat
    BY <1>1, <2>4, TypedQueue DEF LastOrdinary
  <2>6. UNCHANGED <<Contents(q), Size(q)>>
    BY DEF Contents, Size, Slot
  <2>7. Cardinality(Ended') = 0 /\ Ended' = {}
    BY <2>5, FS_EmptySet
  <2>8. LastOrdinary(n)'
    BY <2>1, <2>3, <2>4, <2>5, <2>6, <2>7, CallerShapes DEF LastOrdinary
  <2> QED BY <2>4, <2>6, <2>8 DEF TerminatesLast
<1> QED BY <1>2, <1>3

(* An ordinary message is put in while the pool is alive; a terminate goes *)
(* behind everything, and then there is one less to post.                  *)
LEMMA LastWhenEnqueued ==
    ASSUME PipelineTyped, PoolShared, Destruction, TerminatesLast,
           NEW t \in Callers, Enqueue(t)
    PROVE  TerminatesLast'
<1>1. PICK n \in 0 .. Size(q) : LastOrdinary(n)
  BY DEF TerminatesLast
<1>2. /\ pc[t] = "enqueue" /\ Inside(t)
      /\ UNCHANGED <<threads, pool, terminates, msg, wpc, item>>
      /\ pc'[t] = "notify"
      /\ \A u \in Callers : u # t => pc'[u] = pc[u]
  BY CallerShapes DEF Enqueue, Inside, pool_vars, worker_vars
<1>3. Ended' = Ended
  BY <1>2, SameEnded
<1>4. Contents(q)' = Contents(q') /\ Size(q)' = Size(q')
  BY DEF Contents, Size, Slot
<1>5. /\ Size(q) \in Nat /\ Size(q') \in Nat
      /\ Len(Contents(q)) = Size(q) /\ Len(Contents(q')) = Size(q')
      /\ Contents(q) \in Seq(Messages) /\ Contents(q') \in Seq(Messages)
      /\ msg[t] \in Messages
  BY TypedQueue, EnqueueContents, ContentsLength
<1>6. CASE msg[t].kind # "terminate"
  <2>1. pool = "alive"
    BY <1>2, <1>6 DEF PoolShared, Destroys
  <2>2. n = Size(q) /\ Ended = {}
    BY <1>1, <2>1 DEF LastOrdinary
  <2>3. \A i \in DOMAIN Contents(q) : Contents(q)[i].kind # "terminate"
    BY <1>1, <1>5, <2>2 DEF LastOrdinary
  <2>4. ASSUME NEW i \in DOMAIN Contents(q')
        PROVE  Contents(q')[i].kind # "terminate"
    <3>1. CASE IsFull(q)
      <4>1. Contents(q') = Append(Tail(Contents(q)), msg[t])
            /\ Contents(q) # <<>>
        BY <3>1, EnqueueContents
      <4>2. \/ i = Size(q) /\ Contents(q')[i] = msg[t]
            \/ /\ i + 1 \in DOMAIN Contents(q)
               /\ Contents(q')[i] = Contents(q)[i + 1]
        BY <1>5, <4>1
      <4> QED BY <1>6, <2>3, <4>2
    <3>2. CASE ~IsFull(q)
      <4>1. Contents(q') = Append(Contents(q), msg[t])
        BY <3>2, EnqueueContents
      <4>2. \/ i = Size(q) + 1 /\ Contents(q')[i] = msg[t]
            \/ /\ i \in DOMAIN Contents(q)
               /\ Contents(q')[i] = Contents(q)[i]
        BY <1>5, <4>1
      <4> QED BY <1>6, <2>3, <4>2
    <3> QED BY <3>1, <3>2
  <2>5. \A i \in DOMAIN Contents(q') : i \in Nat /\ i <= Size(q')
    BY <1>5
  <2>0. PICK last \in Nat : last = Size(q')
    BY <1>5
  <2>6. \A i \in DOMAIN Contents(q') :
           Contents(q')[i].kind = "terminate" <=> i > last
    BY <1>5, <2>0, <2>4, <2>5
  <2>7. LastOrdinary(last)'
    BY <1>2, <1>3, <1>4, <2>0, <2>1, <2>2, <2>6 DEF LastOrdinary
  <2>8. last \in 0 .. Size(q)'
    BY <1>4, <1>5, <2>0
  <2> QED BY <1>4, <2>7, <2>8 DEF TerminatesLast
<1>7. CASE msg[t].kind = "terminate"
  <2>1. /\ Destroys(t) /\ pool = "dying" /\ terminates # 0
        /\ \A u \in Callers : u # t => ~Destroys(u)
    BY <1>2, <1>7 DEF Destroys, Destruction
  <2>2. ToPost = terminates
    BY <1>2, <2>1 DEF ToPost
  <2>3. Destroys(t)' /\ pc'[t] = "notify"
    BY <1>2, <2>1 DEF Destroys, Inside
  <2>4. ToPost' = terminates - 1
    BY <1>2, <2>3 DEF ToPost
  <2>5. Contents(q') = Append(Contents(q), msg[t])
    BY <1>7, EnqueueContents
  <2>6. Size(q') = Size(q) + 1
    BY <1>5, <2>5
  <2>7. \A i \in DOMAIN Contents(q') :
           Contents(q')[i].kind = "terminate" <=> i > n
    <3> TAKE i \in DOMAIN Contents(q')
    <3>1. CASE i \in DOMAIN Contents(q)
      BY <1>1, <1>5, <2>5, <3>1 DEF LastOrdinary
    <3>2. CASE i = Size(q) + 1
      BY <1>1, <1>5, <1>7, <2>5, <3>2
    <3> QED BY <1>5, <2>5, <3>1, <3>2
  <2>8. ToPost' + (Size(q') - n) + Cardinality(Ended')
           = Cardinality(threads)
    <3>1. ToPost + (Size(q) - n) + Cardinality(Ended) = Cardinality(threads)
      BY <1>1, <2>1 DEF LastOrdinary
    <3> QED BY <1>1, <1>3, <1>5, <2>2, <2>4, <2>6, <3>1, EndedFinite,
               CallerShapes
  <2>9. LastOrdinary(n)'
    BY <1>1, <1>2, <1>3, <1>4, <2>1, <2>7, <2>8 DEF LastOrdinary
  <2>10. n \in 0 .. Size(q)'
    BY <1>1, <1>4, <1>5, <2>6
  <2> QED BY <2>9, <2>10 DEF TerminatesLast
<1> QED BY <1>6, <1>7

(* A worker takes an ordinary message while there is one; then it takes a  *)
(* terminate, and has ended.                                               *)
LEMMA LastWhenDequeued ==
    ASSUME PipelineTyped, PoolShared, Destruction, TerminatesLast,
           NEW w \in Workers, Dequeue(w)
    PROVE  TerminatesLast'
<1>1. PICK n \in 0 .. Size(q) : LastOrdinary(n)
  BY DEF TerminatesLast
<1>2. /\ wpc[w] = "dequeue" /\ w \in threads /\ w \notin Ended
      /\ UNCHANGED <<threads, pool, terminates, msg, pc>>
  BY DEF Dequeue, pool_vars, caller_vars, PipelineTyped, Ended
<1>3. ToPost' = ToPost
  BY <1>2, SameToPost
<1>4. wpc \in [Workers -> {"dequeue", "waiting", "popped", "log", "flush",
                           "exited"}]
      /\ item \in [Workers -> Messages] /\ threads \subseteq Workers
  BY CallerShapes DEF PipelineTyped, TypeOK
<1>5. CASE Contents(q) = <<>>
  <2>1. UNCHANGED <<q, item>> /\ wpc' = [wpc EXCEPT ![w] = "waiting"]
    BY <1>5, DequeueNothing
  <2>2. Ended' = Ended
    BY <1>2, <1>4, <2>1, SameEnded
  <2> QED BY <1>2, <1>3, <2>1, <2>2, LastUndisturbed
<1>6. CASE Contents(q) # <<>>
  <2>1. /\ Contents(q') = Tail(Contents(q)) /\ q' \in Rings
        /\ item' = [item EXCEPT ![w] = Head(Contents(q))]
        /\ wpc' = [wpc EXCEPT ![w] = "popped"]
    BY <1>6, DequeueContents
  <2>2. Contents(q)' = Contents(q') /\ Size(q)' = Size(q')
    BY DEF Contents, Size, Slot
  <2>3. /\ Size(q) \in Nat \ {0} /\ Size(q') = Size(q) - 1
        /\ DOMAIN Contents(q) = 1 .. Size(q)
        /\ DOMAIN Contents(q') = 1 .. Size(q) - 1
        /\ Head(Contents(q)) = Contents(q)[1]
        /\ \A i \in 1 .. Size(q) - 1 : Contents(q')[i] = Contents(q)[i + 1]
    <3>1. /\ Contents(q) \in Seq(Messages) /\ Len(Contents(q)) = Size(q)
          /\ Size(q) \in Nat
      BY TypedQueue
    <3>2. Len(Contents(q')) = Size(q')
      BY <2>1, ContentsLength
    <3> QED BY <1>6, <2>1, <3>1, <3>2
  <2>4. /\ wpc'[w] = "popped" /\ item'[w] = Contents(q)[1]
        /\ \A v \in threads : v # w => wpc'[v] = wpc[v] /\ item'[v] = item[v]
    BY <1>2, <1>4, <2>1, <2>3
  <2>5. Contents(q)[1].kind = "terminate" <=> n = 0
    BY <1>1, <2>3 DEF LastOrdinary
  <2>6. CASE n = 0
    <3>1. Ended' = Ended \cup {w}
      BY <1>2, <2>4, <2>5, <2>6 DEF Ended
    <3>2. Cardinality(Ended') = Cardinality(Ended) + 1
      BY <1>2, <3>1, EndedFinite, FS_AddElement
    <3>3. pool # "alive"
      BY <1>1, <2>3, <2>6 DEF LastOrdinary
    <3>4. \A i \in DOMAIN Contents(q') :
             Contents(q')[i].kind = "terminate" <=> i > 0
      BY <1>1, <2>3, <2>6, SMTT(30) DEF LastOrdinary
    <3>5. ToPost' + (Size(q') - 0) + Cardinality(Ended')
             = Cardinality(threads)
      <4>1. ToPost + (Size(q) - 0) + Cardinality(Ended) = Cardinality(threads)
        BY <1>1, <2>6, <3>3 DEF LastOrdinary
      <4> QED BY <1>3, <2>3, <3>2, <4>1, EndedFinite, CallerShapes
    <3>6. LastOrdinary(0)'
      BY <1>2, <2>2, <3>3, <3>4, <3>5 DEF LastOrdinary
    <3>7. 0 \in 0 .. Size(q)'
      BY <2>2, <2>3
    <3> QED BY <3>6, <3>7 DEF TerminatesLast
  <2>7. CASE n # 0
    <3>1. Ended = {}
      BY <1>1, <2>7 DEF LastOrdinary
    <3>2. Ended' = {}
      BY <2>4, <2>5, <2>7, <3>1, <1>2 DEF Ended
    <3>3. \A i \in DOMAIN Contents(q') :
             Contents(q')[i].kind = "terminate" <=> i > n - 1
      BY <1>1, <2>3, <2>7 DEF LastOrdinary
    <3>4. pool = "alive" => n - 1 = Size(q')
      BY <1>1, <2>3 DEF LastOrdinary
    <3>5. pool # "alive" => ToPost' + (Size(q') - (n - 1)) + Cardinality(Ended')
                               = Cardinality(threads)
      <4> HAVE pool # "alive"
      <4>1. ToPost + (Size(q) - n) + Cardinality(Ended) = Cardinality(threads)
        BY <1>1 DEF LastOrdinary
      <4> QED BY <1>1, <1>3, <2>3, <3>1, <3>2, <4>1, EndedFinite, CallerShapes
    <3> DEFINE k == n - 1
    <3>6. LastOrdinary(k)'
      BY <1>2, <2>2, <3>2, <3>3, <3>4, <3>5 DEF LastOrdinary
    <3>7. k \in 0 .. Size(q)'
      BY <1>1, <2>2, <2>3, <2>7
    <3> QED BY <3>6, <3>7 DEF TerminatesLast
  <2> QED BY <2>6, <2>7
<1> QED BY <1>5, <1>6

(* The other steps change neither the queue nor what is left to post.      *)
LEMMA LastNext ==
    ASSUME PipelineTyped, PoolShared, Destruction, TerminatesLast, [Next]_vars
    PROVE  TerminatesLast'
<1> USE DEF pool_vars, caller_vars, worker_vars, file_vars
<1>0. /\ wpc \in [Workers -> {"dequeue", "waiting", "popped", "log", "flush",
                              "exited"}]
      /\ item \in [Workers -> Messages] /\ threads \subseteq Workers
      /\ pc \in [Callers -> {"idle", "enqueue", "blocked", "notify", "join",
                             "joining", "dropped", "exited", "done"}]
      /\ Main \in Callers /\ Flusher \in Callers
      /\ (\A c \in Clients : c \in Callers)
  BY CallerShapes DEF PipelineTyped, TypeOK, Callers
<1>1. ASSUME UNCHANGED <<wpc, item, threads>> PROVE Ended' = Ended
  BY <1>1, SameEnded
<1>2. ASSUME WakeWorker, UNCHANGED <<item, threads>> PROVE Ended' = Ended
  <2>1. \A w \in threads : \/ wpc'[w] = wpc[w] /\ item'[w] = item[w]
                           \/ wpc[w] = "waiting" /\ wpc'[w] = "dequeue"
    BY <1>0, <1>2, WokenIsWaiting
  <2> QED BY <1>2, <2>1, SameEnded
<1>3. ASSUME NEW t \in Callers, NEW m, pc[t] = "idle", Post(t, m),
             UNCHANGED <<q, threads, wpc, item>>
      PROVE  TerminatesLast'
  <2>1. CASE PoolLocks
    <3>1. pool = "alive" /\ UNCHANGED pool
      BY <1>3, <2>1 DEF PoolLocks, PoolShared, Post
    <3> QED BY <1>1, <1>3, <3>1, LastUndisturbed
  <2>2. CASE ~PoolLocks
    <3>1. UNCHANGED <<pc, msg, pool, terminates>>
      BY <1>3, <2>2 DEF Post
    <3> QED BY <1>1, <1>3, <3>1, SameToPost, LastUndisturbed
  <2> QED BY <2>1, <2>2
<1>4. ASSUME NEW c \in Clients, Log(c) \/ Flush(c) PROVE TerminatesLast'
  BY <1>0, <1>3, <1>4 DEF Log, Flush, Counted
<1>5. CASE FlushAll
  <2>1. CASE registry.logger
    BY <1>0, <1>3, <1>5, <2>1 DEF FlushAll
  <2>2. CASE ~registry.logger
    <3>1. UNCHANGED <<q, threads, pool, terminates, msg, pc, wpc, item>>
      BY <1>5, <2>2 DEF FlushAll
    <3> QED BY <1>1, <3>1, SameToPost, LastUndisturbed
  <2> QED BY <2>1, <2>2
<1>6. CASE FlusherExits \/ StopFlusher \/ DropAll
  <2>1. \A t \in Callers : pc'[t] = "notify" <=> pc[t] = "notify"
    BY <1>0, <1>6 DEF FlusherExits, StopFlusher, DropAll
  <2>2. UNCHANGED <<q, threads, pool, terminates, msg, wpc, item>>
    BY <1>6 DEF FlusherExits, StopFlusher, DropAll
  <2> QED BY <1>1, <2>1, <2>2, SameToPost, LastUndisturbed
<1>7. CASE ResetTp
  <2>1. "registry" \in pool_refs
    BY <1>7 DEF ResetTp, PoolShared
  <2>2. LetGo(Main, "registry", "done") /\ UNCHANGED <<q, threads, wpc, item>>
    BY <1>7 DEF ResetTp
  <2> QED BY <1>0, <1>1, <2>1, <2>2, LastWhenLetGo
<1>8. ASSUME NEW t \in Callers, Blocks(t) PROVE TerminatesLast'
  <2>1. \A u \in Callers : pc'[u] = "notify" <=> pc[u] = "notify"
    BY <1>0, <1>8 DEF Blocks
  <2>2. UNCHANGED <<q, threads, pool, terminates, msg, wpc, item>>
    BY <1>8 DEF Blocks
  <2> QED BY <1>1, <2>1, <2>2, SameToPost, LastUndisturbed
<1>9. ASSUME NEW t \in Callers, Enqueue(t) PROVE TerminatesLast'
  BY <1>9, LastWhenEnqueued
<1>10. ASSUME NEW t \in Callers, Release(t) PROVE TerminatesLast'
  <2>1. t \in pool_refs /\ Ended' = Ended
    BY <1>2, <1>10 DEF Release, PoolShared, Inside, Destroys
  <2>2. LetGo(t, t, "idle") /\ UNCHANGED <<q, threads>>
    BY <1>10 DEF Release
  <2> QED BY <2>1, <2>2, LastWhenLetGo
<1>11. ASSUME NEW t \in Callers, NextTerminate(t) PROVE TerminatesLast'
  <2>1. /\ Destroys(t) /\ pc[t] = "notify"
        /\ \A u \in Callers : u # t => ~Destroys(u)
    BY <1>11 DEF NextTerminate, Destruction, Destroys, Inside
  <2>2. /\ terminates' = terminates - 1 /\ pc'[t] # "notify"
        /\ UNCHANGED <<q, threads, pool, msg, item>>
        /\ \A u \in Callers : u # t => pc'[u] = pc[u]
    BY <1>0, <1>11 DEF NextTerminate
  <2>3. \A u \in Callers : ~(Destroys(u)' /\ pc'[u] = "notify")
    BY <2>1, <2>2 DEF Destroys, Inside
  <2>4. ToPost' = ToPost
    BY <2>1, <2>2, <2>3 DEF ToPost
  <2>5. Ended' = Ended
    BY <1>2, <1>11, <2>2 DEF NextTerminate
  <2> QED BY <2>2, <2>4, <2>5, LastUndisturbed
<1>12. ASSUME NEW t \in Callers, Join(t) PROVE TerminatesLast'
  <2>1. pool = "dying" /\ pool' = "gone"
    BY <1>12 DEF Join, Destruction
  <2>2. UNCHANGED <<q, threads, terminates, msg, wpc, item>>
        /\ \A u \in Callers : pc'[u] = "notify" <=> pc[u] = "notify"
    BY <1>0, <1>12 DEF Join
  <2>3. Ended' = Ended /\ ToPost' = ToPost
    BY <1>1, <2>2, SameToPost
  <2>4. UNCHANGED <<Contents(q), Size(q)>>
    BY <2>2 DEF Contents, Size, Slot
  <2>5. PICK n \in 0 .. Size(q) : LastOrdinary(n)
    BY DEF TerminatesLast
  <2>6. LastOrdinary(n)'
    BY <2>1, <2>2, <2>3, <2>4, <2>5 DEF LastOrdinary
  <2> QED BY <2>4, <2>5, <2>6 DEF TerminatesLast
<1>13. ASSUME NEW w \in Workers, Dequeue(w) PROVE TerminatesLast'
  BY <1>13, LastWhenDequeued
<1>14. ASSUME NEW w \in Workers, WaitTimesOut(w) \/ BackendLog(w)
                                 \/ BackendFlush(w)
       PROVE  TerminatesLast'
  <2>1. UNCHANGED <<q, threads, pool, terminates, msg, pc, item>>
    BY <1>14 DEF WaitTimesOut, BackendLog, BackendFlush
  <2>2. \A v \in threads :
           \/ wpc'[v] = wpc[v]
           \/ /\ wpc[v] # "exited" /\ wpc[v] # "popped"
              /\ wpc'[v] # "exited" /\ wpc'[v] # "popped"
    BY <1>0, <1>14 DEF WaitTimesOut, BackendLog, BackendFlush
  <2>3. Ended' = Ended
    BY <2>1, <2>2, SameEnded
  <2> QED BY <2>1, <2>3, SameToPost, LastUndisturbed
<1>15. ASSUME NEW w \in Workers, NotifyPop(w) PROVE TerminatesLast'
  <2>1. UNCHANGED <<q, threads, pool, terminates, msg, item>>
    BY <1>15 DEF NotifyPop
  <2>2. item[w].kind \in {"log", "flush", "terminate"}
    BY <1>0 DEF Messages
  <2>3. /\ wpc[w] = "popped" /\ wpc'[w] # "popped"
        /\ wpc'[w] = "exited" <=> item[w].kind = "terminate"
        /\ \A v \in threads : v # w => wpc'[v] = wpc[v]
    BY <1>0, <1>15, <2>2 DEF NotifyPop
  <2>4. Ended' = Ended
    BY <2>1, <2>3, SameEnded
  <2>5. \A u \in Callers : pc'[u] = "notify" <=> pc[u] = "notify"
    BY <1>0, <1>15 DEF NotifyPop
  <2> QED BY <2>1, <2>4, <2>5, SameToPost, LastUndisturbed
<1>16. CASE UNCHANGED vars
  <2>1. UNCHANGED <<q, threads, pool, terminates, msg, pc, wpc, item>>
    BY <1>16 DEF vars
  <2> QED BY <1>1, <2>1, SameToPost, LastUndisturbed
<1> QED
  BY <1>4, <1>5, <1>6, <1>7, <1>8, <1>9, <1>10, <1>11,
     <1>12, <1>13, <1>14, <1>15, <1>16
  DEF Next, MainStep, CallerStep, Worker
-----------------------------------------------------------------------------
(* No line is lost                                                         *)

(* The line the one worker holds, if it holds one.                         *)
Hand == IF InHand = {} THEN <<>> ELSE <<item[CHOOSE w \in InHand : TRUE]>>

(* What the types say of the workers' hands; used primed as well.          *)
LEMMA HandTyped ==
    PipelineTyped => /\ InHand \subseteq threads /\ IsFiniteSet(InHand)
                     /\ Cardinality(InHand) \in Nat
                     /\ Hand \in Seq(Messages)
                     /\ Pipeline = (handled \o Hand) \o Contents(q)
<1> SUFFICES ASSUME PipelineTyped
             PROVE  /\ InHand \subseteq threads /\ IsFiniteSet(InHand)
                    /\ Cardinality(InHand) \in Nat
                    /\ Hand \in Seq(Messages)
                    /\ Pipeline = (handled \o Hand) \o Contents(q)
  OBVIOUS
<1>1. InHand \subseteq threads
  BY DEF PipelineTyped, InHand
<1>2. IsFiniteSet(InHand) /\ Cardinality(InHand) \in Nat
  BY <1>1, CallerShapes, FS_Subset, FS_CardinalityType
<1>3. Hand \in Seq(Messages)
  <2>1. CASE InHand = {}
    BY <2>1 DEF Hand
  <2>2. CASE InHand # {}
    <3>1. (CHOOSE w \in InHand : TRUE) \in Workers
      BY <1>1, <2>2, CallerShapes
    <3>2. item[CHOOSE w \in InHand : TRUE] \in Messages
      BY <3>1, TypedQueue
    <3> QED BY <2>2, <3>2 DEF Hand
  <2> QED BY <2>1, <2>2
<1> QED BY <1>1, <1>2, <1>3 DEF Pipeline, Hand

(* A pool of one worker holds in hand at most the item of that worker.     *)
LEMMA HandOfOne ==
    \A v \in Workers :
       PipelineTyped /\ OneWorker /\ v \in threads =>
          /\ threads = {v} /\ (InHand = {} \/ InHand = {v})
          /\ Hand = IF v \in InHand THEN <<item[v]>> ELSE <<>>
<1> SUFFICES ASSUME NEW w \in Workers, PipelineTyped, OneWorker, w \in threads
             PROVE  /\ threads = {w} /\ (InHand = {} \/ InHand = {w})
                    /\ Hand = IF w \in InHand THEN <<item[w]>> ELSE <<>>
  OBVIOUS
<1>1. threads = {w}
  <2>1. PICK v : threads = {v}
    BY CallerShapes, FS_Singleton DEF OneWorker
  <2> QED BY <2>1
<1>2. InHand = {} \/ InHand = {w}
  BY <1>1, HandTyped
<1>3. CASE w \in InHand
  <2>1. InHand = {w}
    BY <1>2, <1>3
  <2>2. (CHOOSE v \in InHand : TRUE) = w
    BY <2>1
  <2> QED BY <1>1, <1>2, <1>3, <2>1, <2>2 DEF Hand
<1>4. CASE w \notin InHand
  BY <1>1, <1>2, <1>4 DEF Hand
<1> QED BY <1>3, <1>4

(* The same of the next state.                                             *)
LEMMA HandOfOneNext ==
    ASSUME PipelineTyped', OneWorker', NEW w \in Workers, w \in threads'
    PROVE  Hand' = IF w \in InHand' THEN <<item'[w]>> ELSE <<>>
<1>1. (\A v \in Workers :
         PipelineTyped /\ OneWorker /\ v \in threads =>
            /\ threads = {v} /\ (InHand = {} \/ InHand = {v})
            /\ Hand = IF v \in InHand THEN <<item[v]>> ELSE <<>>)'
  BY HandOfOne, PTL
<1> QED BY <1>1

(* The hands stay as they are when no worker takes or writes a line.       *)
LEMMA SameHand ==
    ASSUME PipelineTyped, InHand' = InHand,
           \A w \in InHand : item'[w] = item[w]
    PROVE  Hand' = Hand
<1>1. CASE InHand = {}
  BY <1>1 DEF Hand
<1>2. CASE InHand # {}
  <2>1. (CHOOSE w \in InHand : TRUE) \in InHand
    BY <1>2
  <2> QED BY <1>2, <2>1 DEF Hand
<1> QED BY <1>1, <1>2

(* The workers with a line in hand do not change when no worker takes,     *)
(* drops or changes a line.                                                *)
LEMMA SameInHand ==
    ASSUME \A w \in Workers :
              \/ /\ item'[w] = item[w]
                 /\ wpc'[w] \in {"popped", "log"} <=> wpc[w] \in {"popped", "log"}
              \/ ~(IsLog(item[w]) /\ wpc[w] \in {"popped", "log"})
                 /\ ~(IsLog(item'[w]) /\ wpc'[w] \in {"popped", "log"})
    PROVE  InHand' = InHand
BY DEF InHand, IsLog

(* The steps in which no line moves.                                       *)
LEMMA LinesUndisturbed ==
    ASSUME PipelineTyped, NoLineLost,
           UNCHANGED <<policy, threads, q, accepted, handled, item>>,
           InHand' = InHand
    PROVE  NoLineLost'
<1>1. Hand' = Hand
  BY SameHand
<1>2. UNCHANGED Contents(q)
  BY DEF Contents, Size, Slot
<1>3. Kept' = Kept /\ (q.overrun)' = q.overrun /\ OneWorker' = OneWorker
  BY <1>2 DEF Kept, OneWorker
<1>4. Pipeline' = Pipeline
  BY <1>1, <1>2 DEF Pipeline, Hand
<1> QED BY <1>3, <1>4 DEF NoLineLost, LinesCounted

(* A message that is put in is counted and comes last; the message that    *)
(* gives way to it is counted as overrun.                                  *)
LEMMA LinesWhenEnqueued ==
    ASSUME PipelineTyped, NoLineLost, NEW t \in Callers, Enqueue(t)
    PROVE  NoLineLost'
<1> DEFINE m == msg[t]
           c == Contents(q)
           k == Len(handled) + Cardinality(InHand)
<1>1. /\ UNCHANGED <<policy, threads, handled, item, wpc>>
      /\ accepted' = IF IsLog(m) THEN Append(accepted, m) ELSE accepted
  BY DEF Enqueue, worker_vars, file_vars, IsLog
<1>2. InHand' = InHand
  BY <1>1, SameInHand
<1>3. Hand' = Hand /\ OneWorker' = OneWorker
  BY <1>1, <1>2, SameHand DEF OneWorker
<1>4. Contents(q)' = Contents(q') /\ (q.overrun)' = q'.overrun
  BY DEF Contents, Size, Slot
<1>5. /\ m \in Messages /\ c \in Seq(Messages)
      /\ Contents(q') \in Seq(Messages)
      /\ accepted \in Seq(Messages) /\ handled \in Seq(Messages)
      /\ Hand \in Seq(Messages) /\ k \in Nat /\ q.overrun \in Nat
      /\ Pipeline = (handled \o Hand) \o c
      /\ Cardinality(Lines(c)) \in Nat
  <2>1. Len(handled) \in Nat
    BY TypedQueue
  <2> QED BY <2>1, TypedQueue, HandTyped, EnqueueContents, LinesFinite, SMTT(30)
<1>6. Len(accepted') = IF IsLog(m) THEN Len(accepted) + 1 ELSE Len(accepted)
  BY <1>1, <1>5
<1>7. /\ Kept' = k + Cardinality(Lines(Contents(q')))
      /\ Kept = k + Cardinality(Lines(c))
  BY <1>1, <1>2, <1>4 DEF Kept
<1>8. Pipeline' = (handled \o Hand) \o Contents(q')
  BY <1>1, <1>3, <1>4 DEF Pipeline, Hand
<1> DEFINE d == IF IsFull(q) THEN Tail(c) ELSE c
<1>9. /\ d \in Seq(Messages) /\ Contents(q') = Append(d, m)
      /\ Cardinality(Lines(d)) \in Nat
      /\ q'.overrun = IF IsFull(q) THEN q.overrun + 1 ELSE q.overrun
      /\ IsFull(q) => policy # "block" /\ c # <<>>
  <2>1. CASE IsFull(q)
    <3>1. /\ Contents(q') = Append(Tail(c), m) /\ q'.overrun = q.overrun + 1
          /\ c # <<>> /\ policy # "block"
      BY <2>1, EnqueueContents
    <3>2. Tail(c) \in Seq(Messages)
      BY <1>5, <3>1
    <3> QED BY <2>1, <3>1, <3>2, LinesFinite
  <2>2. CASE ~IsFull(q)
    BY <1>5, <2>2, EnqueueContents
  <2> QED BY <2>1, <2>2
<1>10. /\ Cardinality(Lines(d)) <= Cardinality(Lines(c))
       /\ Cardinality(Lines(c)) <= Cardinality(Lines(d))
                                      + (q'.overrun - q.overrun)
  <2>1. CASE IsFull(q)
    <3>1. /\ d = Tail(c) /\ c # <<>> /\ q'.overrun - q.overrun = 1
      BY <1>5, <1>9, <2>1
    <3>2. Cardinality(Lines(c)) = IF IsLog(Head(c))
                                  THEN Cardinality(Lines(d)) + 1
                                  ELSE Cardinality(Lines(d))
      BY <1>5, <3>1, CountOfTail
    <3> QED BY <1>5, <1>9, <3>1, <3>2
  <2>2. CASE ~IsFull(q)
    BY <1>5, <1>9, <2>2
  <2> QED BY <2>1, <2>2
<1>11. Cardinality(Lines(Append(d, m)))
          = IF IsLog(m) THEN Cardinality(Lines(d)) + 1
            ELSE Cardinality(Lines(d))
  BY <1>5, <1>9, CountOfAppend
<1>12. OneWorker => InOrder((handled \o Hand) \o d, accepted)
  <2>1. handled \o Hand \in Seq(Messages)
    BY <1>5
  <2>2. CASE IsFull(q)
    BY <1>5, <1>9, <2>1, <2>2, OrderOfTail DEF NoLineLost
  <2>3. CASE ~IsFull(q)
    BY <1>5, <2>3 DEF NoLineLost
  <2> QED BY <2>2, <2>3
<1> HIDE DEF m, c, d, k
<1>13. LinesCounted'
  <2>1. Kept <= Len(accepted) /\ Len(accepted) <= Kept + q.overrun
    BY DEF NoLineLost, LinesCounted
  <2>2. Kept' = k + Cardinality(Lines(Append(d, m)))
    BY <1>7, <1>9
  <2>3. Len(accepted) \in Nat /\ q'.overrun \in Nat
    BY <1>5, <1>9
  <2>4. /\ k + Cardinality(Lines(d)) <= Len(accepted)
        /\ Len(accepted) <= k + Cardinality(Lines(d)) + q'.overrun
    <3> DEFINE lc == Cardinality(Lines(c))
               ld == Cardinality(Lines(d))
               a == Len(accepted)
               o == q.overrun
               p == q'.overrun
    <3>1. k \in Nat /\ lc \in Nat /\ o \in Nat
      BY <1>5
    <3>2. ld \in Nat
      BY <1>9
    <3>3. a \in Nat /\ p \in Nat
      BY <2>3
    <3>4. ld <= lc /\ lc <= ld + (p - o)
      BY <1>10
    <3>5. k + lc <= a /\ a <= (k + lc) + o
      BY <1>7, <2>1
    <3> HIDE DEF lc, ld, a, o, p
    <3>6. k + ld <= a /\ a <= (k + ld) + p
      BY <3>1, <3>2, <3>3, <3>4, <3>5
    <3> QED BY <3>6 DEF ld, a, p
  <2>5. Kept' <= Len(accepted') /\ Len(accepted') <= Kept' + q'.overrun
    <3>1. CASE IsLog(m)
      <4>1. /\ Kept' = k + Cardinality(Lines(d)) + 1
            /\ Len(accepted') = Len(accepted) + 1
        BY <1>5, <1>6, <1>9, <1>11, <2>2, <3>1
      <4> QED BY <1>5, <1>9, <2>3, <2>4, <4>1, SMTT(30)
    <3>2. CASE ~IsLog(m)
      BY <1>6, <1>11, <2>2, <2>4, <3>2
    <3> QED BY <3>1, <3>2
  <2> QED BY <1>4, <2>5 DEF LinesCounted
<1>14. policy' = "block" => (q.overrun)' = 0
  BY <1>1, <1>4, <1>9 DEF NoLineLost
<1>15. ASSUME OneWorker PROVE InOrder(Pipeline', accepted')
  <2> DEFINE a == (handled \o Hand) \o d
  <2>1. a \in Seq(Messages)
    BY <1>5, <1>9
  <2>2. Pipeline' = Append(a, m)
    <3>1. /\ Append(d, m) = d \o <<m>> /\ <<m>> \in Seq(Messages)
          /\ handled \o Hand \in Seq(Messages)
      BY <1>5, <1>9
    <3>2. (handled \o Hand) \o (d \o <<m>>) = a \o <<m>>
      BY <1>9, <3>1, ConcatAssociative, SMTT(30)
    <3>3. Append(a, m) = a \o <<m>>
      BY <1>5, <2>1, AppendIsConcat
    <3> QED BY <1>8, <1>9, <3>1, <3>2, <3>3
  <2>3. InOrder(a, accepted)
    BY <1>12, <1>15
  <2> HIDE DEF a
  <2>4. IF IsLog(m) THEN InOrder(Append(a, m), Append(accepted, m))
        ELSE InOrder(Append(a, m), accepted)
    BY <1>5, <2>1, <2>3, OrderOfAppend
  <2> QED BY <1>1, <2>2, <2>4 DEF m
<1>16. (OneWorker => InOrder(Pipeline, accepted))'
  <2>1. InOrder(Pipeline, accepted)' <=> InOrder(Pipeline', accepted')
    BY DEF InOrder, Lines, IsLog
  <2> QED BY <1>3, <1>15, <2>1
<1> QED BY <1>13, <1>14, <1>16 DEF NoLineLost

(* A line that is taken out goes from the head of the queue to the hand of *)
(* the worker.                                                             *)
LEMMA LinesWhenDequeued ==
    ASSUME PipelineTyped, PipelineTyped', NoLineLost,
           NEW w \in Workers, Dequeue(w)
    PROVE  NoLineLost'
<1> DEFINE c == Contents(q)
           m == Head(Contents(q))
<1>1. /\ wpc[w] = "dequeue" /\ w \in threads /\ w \notin InHand
      /\ UNCHANGED <<policy, threads, accepted, handled>>
  BY DEF Dequeue, file_vars, PipelineTyped, InHand
<1>2. wpc \in [Workers -> {"dequeue", "waiting", "popped", "log", "flush",
                           "exited"}]
      /\ item \in [Workers -> Messages]
  BY DEF PipelineTyped, TypeOK
<1>3. CASE Contents(q) = <<>>
  <2>1. UNCHANGED <<q, item>> /\ wpc' = [wpc EXCEPT ![w] = "waiting"]
    BY <1>3, DequeueNothing
  <2>2. InHand' = InHand
    BY <1>1, <1>2, <2>1, SameInHand
  <2> QED BY <1>1, <2>1, <2>2, LinesUndisturbed
<1>4. CASE Contents(q) # <<>>
  <2>1. /\ Contents(q') = Tail(c) /\ q'.overrun = q.overrun
        /\ Contents(q') \in Seq(Messages) /\ m \in Messages
        /\ item' = [item EXCEPT ![w] = m]
        /\ wpc' = [wpc EXCEPT ![w] = "popped"]
    BY <1>4, DequeueContents
  <2>2. Contents(q)' = Contents(q') /\ (q.overrun)' = q'.overrun
    BY DEF Contents, Size, Slot
  <2>3. /\ wpc'[w] = "popped" /\ item'[w] = m
        /\ \A v \in Workers : v # w => wpc'[v] = wpc[v] /\ item'[v] = item[v]
    BY <1>2, <2>1
  <2>4. /\ c \in Seq(Messages) /\ c # <<>> /\ handled \in Seq(Messages)
        /\ Hand \in Seq(Messages) /\ Len(handled) \in Nat
        /\ IsFiniteSet(InHand) /\ Cardinality(InHand) \in Nat
        /\ Pipeline = (handled \o Hand) \o c
        /\ OneWorker' = OneWorker
    BY <1>1, <1>4, TypedQueue, HandTyped DEF OneWorker
  <2>5. /\ Cardinality(Lines(c)) \in Nat
        /\ Cardinality(Lines(Tail(c))) \in Nat
        /\ Cardinality(Lines(c)) = IF IsLog(m)
                                   THEN Cardinality(Lines(Tail(c))) + 1
                                   ELSE Cardinality(Lines(Tail(c)))
    BY <2>1, <2>4, LinesFinite, CountOfTail
  <2>6. /\ Kept = Len(handled) + Cardinality(InHand) + Cardinality(Lines(c))
        /\ Kept' = Len(handled) + Cardinality(InHand')
                     + Cardinality(Lines(Tail(c)))
    BY <1>1, <2>1, <2>2 DEF Kept
  <2>7. (handled \o Hand)' = handled \o Hand'
    BY <1>1
  <2>8. Pipeline' = (handled \o Hand') \o Tail(c)
    BY <1>1, <2>1, <2>2 DEF Pipeline, Hand
  <2>9. CASE IsLog(m)
    <3>1. InHand' = InHand \cup {w}
      BY <2>3, <2>9 DEF InHand, IsLog
    <3>2. Cardinality(InHand') = Cardinality(InHand) + 1
      BY <1>1, <2>4, <3>1, FS_AddElement
    <3>3. Kept' = Kept
      <4> HIDE DEF c, m
      <4> QED BY <2>4, <2>5, <2>6, <2>9, <3>2
    <3>4. ASSUME OneWorker PROVE Pipeline' = Pipeline
      <4>1. Hand = <<>>
        BY <1>1, <3>4, HandOfOne
      <4>2. w \in InHand' /\ w \in threads' /\ OneWorker'
        BY <1>1, <2>4, <3>1, <3>4
      <4>3. Hand' = <<m>>
        BY <2>3, <4>2, HandOfOneNext
      <4>4. c = <<m>> \o Tail(c) /\ <<m>> \in Seq(Messages)
            /\ Tail(c) \in Seq(Messages)
        BY <2>1, <2>4
      <4>5. handled \o Hand = handled
        BY <2>4, <4>1, ConcatEmptySeq
      <4>6. (handled \o <<m>>) \o Tail(c) = handled \o (<<m>> \o Tail(c))
        <5>1. handled \in Seq(Messages) /\ <<m>> \in Seq(Messages)
              /\ Tail(c) \in Seq(Messages)
          BY <2>4, <4>4
        <5> HIDE DEF m, c
        <5> QED BY <5>1, ConcatAssociative
      <4> QED BY <2>4, <2>8, <4>3, <4>4, <4>5, <4>6
    <3>5. LinesCounted'
      BY <1>1, <2>1, <2>2, <3>3 DEF NoLineLost, LinesCounted
    <3>6. (OneWorker => InOrder(Pipeline, accepted))'
      <4>1. ASSUME OneWorker PROVE InOrder(Pipeline', accepted')
        BY <1>1, <3>4, <4>1 DEF NoLineLost
      <4>2. InOrder(Pipeline, accepted)' <=> InOrder(Pipeline', accepted')
        BY DEF InOrder, Lines, IsLog
      <4> QED BY <2>4, <4>1, <4>2
    <3> QED BY <1>1, <2>1, <2>2, <3>5, <3>6 DEF NoLineLost
  <2>10. CASE ~IsLog(m)
    <3>1. InHand' = InHand /\ \A v \in InHand : item'[v] = item[v]
      BY <1>1, <2>3, <2>10 DEF InHand, IsLog
    <3>2. Hand' = Hand
      BY <3>1, SameHand
    <3>3. Kept' = Kept
      BY <2>5, <2>6, <2>10, <3>1
    <3>4. LinesCounted'
      BY <1>1, <2>1, <2>2, <3>3 DEF NoLineLost, LinesCounted
    <3>5. (OneWorker => InOrder(Pipeline, accepted))'
      <4>1. ASSUME OneWorker PROVE InOrder(Pipeline', accepted')
        <5>1. InOrder((handled \o Hand) \o c, accepted)
          BY <2>4, <4>1 DEF NoLineLost
        <5>2. handled \o Hand \in Seq(Messages) /\ accepted \in Seq(Messages)
          BY <2>4, TypedQueue
        <5>3. InOrder((handled \o Hand) \o Tail(c), accepted)
          BY <2>4, <5>1, <5>2, OrderOfTail
        <5> QED BY <1>1, <2>8, <3>2, <5>3
      <4>2. InOrder(Pipeline, accepted)' <=> InOrder(Pipeline', accepted')
        BY DEF InOrder, Lines, IsLog
      <4> QED BY <2>4, <4>1, <4>2
    <3> QED BY <1>1, <2>1, <2>2, <3>4, <3>5 DEF NoLineLost
  <2> QED BY <2>9, <2>10
<1> QED BY <1>3, <1>4

(* The line in the worker's hand becomes the last one in the file.         *)
LEMMA LinesWhenLogged ==
    ASSUME PipelineTyped, PipelineTyped', NoLineLost,
           NEW w \in Workers, BackendLog(w)
    PROVE  NoLineLost'
<1> DEFINE c == Contents(q)
           m == item[w]
<1>1. /\ wpc[w] = "log" /\ w \in threads /\ IsLog(m) /\ w \in InHand
      /\ UNCHANGED <<policy, threads, q, accepted, item>>
      /\ handled' = Append(handled, m)
      /\ OneWorker' = OneWorker
  BY DEF BackendLog, PipelineTyped, InHand, OneWorker
<1>2. UNCHANGED Contents(q) /\ (q.overrun)' = q.overrun
  BY <1>1 DEF Contents, Size, Slot
<1>3. /\ c \in Seq(Messages) /\ handled \in Seq(Messages) /\ m \in Messages
      /\ IsFiniteSet(InHand) /\ Cardinality(InHand) \in Nat
      /\ Pipeline = (handled \o Hand) \o c
  BY TypedQueue, HandTyped
<1>4. InHand' = InHand \ {w}
  <2>1. \A v \in Workers : v # w => wpc'[v] = wpc[v]
    BY DEF BackendLog, PipelineTyped, TypeOK
  <2>2. wpc'[w] \in {"flush", "dequeue"}
    BY DEF BackendLog, PipelineTyped, TypeOK
  <2> QED BY <1>1, <2>1, <2>2 DEF InHand, IsLog
<1>5. Cardinality(InHand') = Cardinality(InHand) - 1
  BY <1>1, <1>3, <1>4, FS_RemoveElement
<1>6. Kept' = Kept
  <2>1. Len(handled') = Len(handled) + 1 /\ Len(handled) \in Nat
    BY <1>1, <1>3
  <2>2. Cardinality(Lines(c)) \in Nat
    BY <1>3, LinesFinite
  <2>3. Kept' = Len(handled') + Cardinality(InHand') + Cardinality(Lines(c))
    BY <1>2 DEF Kept
  <2>4. Kept = Len(handled) + Cardinality(InHand) + Cardinality(Lines(c))
    BY DEF Kept
  <2> HIDE DEF c
  <2> QED BY <1>3, <1>5, <2>1, <2>2, <2>3, <2>4
<1>7. ASSUME OneWorker PROVE Pipeline' = Pipeline
  <2>1. Hand = <<m>>
    BY <1>1, <1>7, HandOfOne
  <2>2. w \notin InHand' /\ w \in threads' /\ OneWorker'
    BY <1>1, <1>4, <1>7
  <2>3. Hand' = <<>>
    BY <2>2, HandOfOneNext
  <2>4. Append(handled, m) = handled \o <<m>>
    BY <1>3, AppendIsConcat
  <2>5. Pipeline' = (handled' \o Hand') \o c
    BY <1>2 DEF Pipeline, Hand
  <2>6. handled' \o Hand' = handled \o Hand
    BY <1>1, <1>3, <2>1, <2>3, <2>4, ConcatEmptySeq
  <2> QED BY <1>3, <2>5, <2>6
<1>8. LinesCounted'
  BY <1>1, <1>2, <1>6 DEF NoLineLost, LinesCounted
<1>9. (OneWorker => InOrder(Pipeline, accepted))'
  <2>1. ASSUME OneWorker PROVE InOrder(Pipeline', accepted')
    BY <1>1, <1>7, <2>1 DEF NoLineLost
  <2>2. InOrder(Pipeline, accepted)' <=> InOrder(Pipeline', accepted')
    BY DEF InOrder, Lines, IsLog
  <2> QED BY <1>1, <2>1, <2>2
<1> QED BY <1>1, <1>2, <1>8, <1>9 DEF NoLineLost

(* Every step keeps the account of the lines: posted lines are written,    *)
(* overrun, in the ring or in a hand.                                      *)
LEMMA LinesNext ==
    ASSUME PipelineTyped, PipelineTyped', NoLineLost, [Next]_vars
    PROVE  NoLineLost'
<1> USE DEF pool_vars, caller_vars, worker_vars, file_vars
<1>0. /\ wpc \in [Workers -> {"dequeue", "waiting", "popped", "log", "flush",
                              "exited"}]
      /\ item \in [Workers -> Messages]
  BY DEF PipelineTyped, TypeOK
<1>1. ASSUME UNCHANGED <<policy, threads, q, accepted, handled, item>>,
             UNCHANGED wpc \/ WakeWorker
      PROVE  NoLineLost'
  <2>1. \A w \in Workers : wpc'[w] \in {"popped", "log"}
                              <=> wpc[w] \in {"popped", "log"}
    BY <1>1, WokenIsWaiting
  <2>2. InHand' = InHand
    BY <1>1, <2>1, SameInHand
  <2> QED BY <1>1, <2>2, LinesUndisturbed
<1>2. ASSUME NEW c \in Clients, Log(c) \/ Flush(c) PROVE NoLineLost'
  BY <1>1, <1>2 DEF Log, Flush
<1>3. CASE FlushAll \/ FlusherExits \/ StopFlusher \/ DropAll \/ ResetTp
  BY <1>1, <1>3 DEF FlushAll, FlusherExits, StopFlusher, DropAll, ResetTp
<1>4. ASSUME NEW t \in Callers,
             Blocks(t) \/ Release(t) \/ NextTerminate(t) \/ Join(t)
      PROVE  NoLineLost'
  BY <1>1, <1>4 DEF Blocks, Release, NextTerminate, Join
<1>5. ASSUME NEW t \in Callers, Enqueue(t) PROVE NoLineLost'
  BY <1>5, LinesWhenEnqueued
<1>6. ASSUME NEW w \in Workers, Dequeue(w) PROVE NoLineLost'
  BY <1>6, LinesWhenDequeued
<1>7. ASSUME NEW w \in Workers, BackendLog(w) PROVE NoLineLost'
  BY <1>7, LinesWhenLogged
<1>8. ASSUME NEW w \in Workers,
             WaitTimesOut(w) \/ NotifyPop(w) \/ BackendFlush(w)
      PROVE  NoLineLost'
  <2>1. UNCHANGED <<policy, threads, q, accepted, handled, item>>
    BY <1>8 DEF WaitTimesOut, NotifyPop, BackendFlush
  <2>2. \A v \in Workers : v # w => wpc'[v] = wpc[v]
    BY <1>0, <1>8 DEF WaitTimesOut, NotifyPop, BackendFlush
  <2>3. item[w].kind \in {"log", "flush", "terminate"}
    BY <1>0 DEF Messages
  <2>4. IsLog(item[w]) =>
           (wpc'[w] \in {"popped", "log"} <=> wpc[w] \in {"popped", "log"})
    BY <1>0, <1>8, <2>3 DEF WaitTimesOut, NotifyPop, BackendFlush, IsLog
  <2>5. InHand' = InHand
    BY <2>1, <2>2, <2>4 DEF InHand, IsLog
  <2> QED BY <2>1, <2>5, LinesUndisturbed
<1>9. CASE UNCHANGED vars
  BY <1>1, <1>9 DEF vars
<1> QED
  BY <1>2, <1>3, <1>4, <1>5, <1>6, <1>7, <1>8, <1>9
  DEF Next, MainStep, CallerStep, Worker
-----------------------------------------------------------------------------
(* The order of a client's calls                                           *)

(* The steps in which no client posts, and messages only change to the     *)
(* destructor's.                                                           *)
LEMMA CallsUndisturbed ==
    ASSUME PipelineTyped, CallOrder, UNCHANGED <<q, item, posts>>,
           \A t \in Callers : msg'[t] = msg[t] \/ msg'[t] = Terminator,
           \A c \in Clients : Awaiting(c)' => Awaiting(c) /\ msg'[c] = msg[c],
           \A w \in Workers : Holding(w)' => Holding(w)
    PROVE  CallOrder'
<1>1. UNCHANGED Contents(q)
  BY DEF Contents, Size, Slot
<1>2. ASSUME NEW m, Called(m) PROVE Called(m)'
  BY <1>2 DEF Called
<1>3. Terminator.by = Main /\ Terminator.kind = "terminate"
  BY DEF Terminator, Nothing
<1>4. \A t \in Callers : /\ msg'[t].by \in {t, Main}
                         /\ msg'[t].kind = "terminate" => msg'[t].by = Main
                         /\ IsLog(msg'[t]) => msg'[t].by \in Clients
  BY <1>3 DEF CallOrder, IsLog
<1>5. \A c \in Clients : Awaiting(c)' => msg'[c].n = posts'[c]
  BY DEF CallOrder
<1>6. \A i \in DOMAIN Contents(q) : Called(Contents(q)[i])'
  BY <1>1, <1>2 DEF CallOrder
<1>7. \A w \in Workers : Holding(w)' =>
         /\ Called(item[w])'
         /\ \A i \in DOMAIN Contents(q) : Precedes(item[w], Contents(q)[i])'
  BY <1>1, <1>2 DEF CallOrder, Precedes
<1>8. \A i, j \in DOMAIN Contents(q) :
         i < j => Precedes(Contents(q)[i], Contents(q)[j])'
  BY <1>1 DEF CallOrder, Precedes
<1>9. \A t \in Callers : IsLog(msg[t])' <=> IsLog(msg'[t])
  BY DEF IsLog
<1>10. \A i \in DOMAIN Contents(q) :
          IsLog(Contents(q)[i])' => Contents(q)[i].by \in Clients
  BY <1>1 DEF CallOrder, IsLog
<1> QED BY <1>1, <1>4, <1>5, <1>6, <1>7, <1>8, <1>9, <1>10
        DEF CallOrder

(* A client's call: its message is newer than all it has posted before.    *)
LEMMA CallsWhenPosted ==
    ASSUME PipelineTyped, CallOrder,
           NEW t \in Callers, pc[t] = "idle",
           NEW m \in Messages, m.by = t, m.kind # "terminate",
           IsLog(m) => t \in Clients,
           Post(t, m),
           IF t \in Clients
           THEN posts' = [posts EXCEPT ![t] = @ + 1] /\ m.n = posts[t] + 1
           ELSE UNCHANGED posts,
           UNCHANGED <<q, wpc, item>>
    PROVE  CallOrder'
<1>1. UNCHANGED Contents(q)
  BY DEF Contents, Size, Slot
<1>2. /\ posts \in [Clients -> Nat]
      /\ t \in Clients => posts'[t] = posts[t] + 1
      /\ \A c \in Clients : c # t => posts'[c] = posts[c]
  BY DEF PipelineTyped
<1>3. \/ UNCHANGED <<pc, msg>>
      \/ /\ pc'[t] = "enqueue" /\ msg'[t] = m
         /\ \A u \in Callers : u # t => pc'[u] = pc[u] /\ msg'[u] = msg[u]
  BY CallerShapes DEF Post
<1>4. \A c \in Clients : c \in Callers /\ (c # t => (Awaiting(c)' <=> Awaiting(c)))
  BY <1>3 DEF Awaiting, Callers
<1>5. ASSUME NEW k \in Messages, Called(k) PROVE Called(k)'
  <2>1. CASE k.by = t
    <3> SUFFICES ASSUME t \in Clients PROVE k.n < posts'[t]
      BY <1>2, <2>1 DEF Called, Messages, PipelineTyped
    <3>1. k.n <= posts[t] /\ k.n \in Nat /\ posts[t] \in Nat
      BY <1>2, <1>5, <2>1 DEF Called, Messages
    <3> QED BY <1>2, <3>1
  <2>2. CASE k.by # t
    BY <1>2, <1>4, <1>5, <2>2 DEF Called
  <2> QED BY <2>1, <2>2
<1>6. \A u \in Callers : /\ msg'[u].by \in {u, Main}
                         /\ msg'[u].kind = "terminate" => msg'[u].by = Main
                         /\ IsLog(msg'[u]) => msg'[u].by \in Clients
  BY <1>3 DEF CallOrder, IsLog
<1>7. \A c \in Clients : Awaiting(c)' => msg'[c].n = posts'[c]
  <2> SUFFICES ASSUME NEW c \in Clients, Awaiting(c)'
               PROVE  msg'[c].n = posts'[c]
    OBVIOUS
  <2>1. CASE c = t
    <3>1. msg'[t] = m
      BY <1>3, <2>1 DEF Awaiting
    <3> QED BY <1>2, <2>1, <3>1
  <2>2. CASE c # t
    BY <1>2, <1>3, <1>4, <2>2 DEF CallOrder
  <2> QED BY <2>1, <2>2
<1>8. \A i \in DOMAIN Contents(q) : Contents(q)[i] \in Messages
  BY DEF PipelineTyped
<1>9. \A i \in DOMAIN Contents(q) : Called(Contents(q)[i])'
  BY <1>1, <1>5, <1>8 DEF CallOrder
<1>10. \A w \in Workers : Holding(w)' =>
          /\ Called(item[w])'
          /\ \A i \in DOMAIN Contents(q) : Precedes(item[w], Contents(q)[i])'
  <2>1. \A w \in Workers : item[w] \in Messages /\ (Holding(w)' => Holding(w))
    BY DEF Holding, PipelineTyped, TypeOK
  <2>2. ASSUME NEW w \in Workers, Holding(w)
        PROVE  /\ Called(item[w])'
               /\ \A i \in DOMAIN Contents(q) : Precedes(item[w], Contents(q)[i])'
    BY <1>1, <1>5, <2>1, <2>2 DEF CallOrder, Precedes
  <2> QED BY <2>1, <2>2
<1>11. \A i, j \in DOMAIN Contents(q) :
          i < j => Precedes(Contents(q)[i], Contents(q)[j])'
  BY <1>1 DEF CallOrder, Precedes
<1>12. \A u \in Callers : IsLog(msg[u])' <=> IsLog(msg'[u])
  BY DEF IsLog
<1>13. \A i \in DOMAIN Contents(q) :
          IsLog(Contents(q)[i])' => Contents(q)[i].by \in Clients
  BY <1>1 DEF CallOrder, IsLog
<1> QED BY <1>1, <1>6, <1>7, <1>9, <1>10, <1>11, <1>12, <1>13
        DEF CallOrder

(* Every message in the queue after a step is one of those before it, in   *)
(* its old order, or the one that was put in last.                         *)
LEMMA CallsWhenEnqueued ==
    ASSUME PipelineTyped, CallOrder, NEW t \in Callers, Enqueue(t)
    PROVE  CallOrder'
<1> DEFINE m == msg[t]
           c == Contents(q)
           d == Contents(q')
<1>1. /\ pc[t] = "enqueue" /\ pc'[t] = "notify"
      /\ UNCHANGED <<msg, posts, wpc, item>>
      /\ \A u \in Callers : u # t => pc'[u] = pc[u]
      /\ m \in Messages
  BY CallerShapes DEF Enqueue, worker_vars
<1>2. Contents(q)' = d
  BY DEF Contents, Size, Slot
<1>3. PICK s \in {0, 1} :
         \A i \in DOMAIN d :
            /\ i \in Nat
            /\ \/ i + s \in DOMAIN c /\ d[i] = c[i + s]
               \/ d[i] = m /\ \A j \in DOMAIN d : j <= i
  <2>1. c \in Seq(Messages) /\ d \in Seq(Messages)
    BY TypedQueue, EnqueueContents
  <2>2. CASE IsFull(q)
    <3>1. d = Append(Tail(c), m) /\ c # <<>>
      BY <2>2, EnqueueContents
    <3>2. \A i \in DOMAIN d :
             /\ i \in Nat
             /\ \/ i + 1 \in DOMAIN c /\ d[i] = c[i + 1]
                \/ d[i] = m /\ \A j \in DOMAIN d : j <= i
      BY <1>1, <2>1, <3>1
    <3> QED BY <3>2
  <2>3. CASE ~IsFull(q)
    <3>1. d = Append(c, m)
      BY <2>3, EnqueueContents
    <3>2. \A i \in DOMAIN d :
             /\ i \in Nat
             /\ \/ i + 0 \in DOMAIN c /\ d[i] = c[i + 0]
                \/ d[i] = m /\ \A j \in DOMAIN d : j <= i
      BY <1>1, <2>1, <3>1
    <3> QED BY <3>2
  <2> QED BY <2>2, <2>3
<1>4. m.by \in Clients => m.by = t /\ Awaiting(t) /\ m.n = posts[t]
  BY <1>1, CallersAssumption DEF CallOrder, Awaiting, CallersAssumption
<1>5. \A u \in Clients : Awaiting(u)' => Awaiting(u) /\ u # t
  BY <1>1 DEF Awaiting, Callers
<1>6. ASSUME NEW k, Called(k) PROVE Called(k)' /\ Precedes(k, m)
  <2>1. Called(k)'
    BY <1>1, <1>5, <1>6 DEF Called
  <2>2. Precedes(k, m)
    BY <1>4, <1>6 DEF Called, Precedes
  <2> QED BY <2>1, <2>2
<1>7. Called(m)'
  <2> SUFFICES ASSUME m.by \in Clients
               PROVE  m.n <= posts[t] /\ m.by = t /\ ~Awaiting(t)'
    BY <1>1 DEF Called
  <2> QED BY <1>1, <1>4, <1>5 DEF Messages
<1> HIDE DEF m, c, d
<1>8. ASSUME NEW i \in DOMAIN d
      PROVE  /\ \E k : k = d[i] /\ Called(k)'
             /\ IsLog(d[i]) => d[i].by \in Clients
  <2>1. CASE i + s \in DOMAIN c /\ d[i] = c[i + s]
    <3>1. Called(c[i + s]) /\ (IsLog(c[i + s]) => c[i + s].by \in Clients)
      BY <2>1 DEF CallOrder, c
    <3> QED BY <1>6, <2>1, <3>1
  <2>2. CASE d[i] = m
    <3>1. IsLog(m) => m.by \in Clients
      BY DEF CallOrder, m
    <3>2. PICK k : k = m
      OBVIOUS
    <3>3. Called(k)'
      BY <1>1, <1>7, <3>2 DEF Called, m
    <3> QED BY <2>2, <3>1, <3>2, <3>3
  <2> QED BY <1>3, <2>1, <2>2
<1>9. ASSUME NEW i \in DOMAIN d, NEW j \in DOMAIN d, i < j
      PROVE  Precedes(d[i], d[j])
  <2>1. i \in Nat /\ j \in Nat /\ i + s \in DOMAIN c /\ d[i] = c[i + s]
    BY <1>3, <1>9
  <2>2. CASE j + s \in DOMAIN c /\ d[j] = c[j + s]
    <3>1. i + s < j + s
      BY <1>9, <2>1
    <3> QED BY <2>1, <2>2, <3>1 DEF CallOrder, c
  <2>3. CASE d[j] = m
    BY <1>6, <2>1, <2>3 DEF CallOrder, c
  <2> QED BY <1>3, <2>2, <2>3
<1>10. ASSUME NEW w \in Workers, Holding(w)
       PROVE  /\ Called(item[w])'
              /\ \A i \in DOMAIN d : Precedes(item[w], d[i])
  <2>1. Called(item[w]) /\ \A i \in DOMAIN c : Precedes(item[w], c[i])
    BY <1>10 DEF CallOrder, c
  <2>2. Called(item[w])' /\ Precedes(item[w], m)
    BY <1>1, <1>6, <2>1 DEF Called
  <2> QED BY <1>3, <2>1, <2>2
<1>11. \A w \in Workers : Holding(w)' <=> Holding(w)
  BY <1>1 DEF Holding
<1>12. \A u \in Callers : /\ msg'[u].by \in {u, Main}
                          /\ msg'[u].kind = "terminate" => msg'[u].by = Main
                          /\ IsLog(msg'[u]) => msg'[u].by \in Clients
  BY <1>1 DEF CallOrder
<1>13. \A u \in Clients : Awaiting(u)' => msg'[u].n = posts'[u]
  BY <1>1, <1>5 DEF CallOrder
<1>14. \A w \in Workers : item'[w] = item[w]
  BY <1>1
<1>15. CallOrder'
  <2>1. \A i \in DOMAIN Contents(q)' :
           /\ Called(Contents(q)[i])'
           /\ IsLog(Contents(q)[i])' => Contents(q)'[i].by \in Clients
    <3> TAKE i \in DOMAIN Contents(q)'
    <3>1. PICK k : k = Contents(q)'[i] /\ Called(k)'
      BY <1>2, <1>8
    <3>2. Called(Contents(q)[i])'
      BY <3>1 DEF Called
    <3> QED BY <1>2, <1>8, <3>2 DEF IsLog
  <2>2. \A i, j \in DOMAIN Contents(q)' :
           i < j => Precedes(Contents(q)[i], Contents(q)[j])'
    BY <1>2, <1>9 DEF Precedes
  <2>3. \A w \in Workers : Holding(w)' =>
           /\ Called(item[w])'
           /\ \A i \in DOMAIN Contents(q)' : Precedes(item[w], Contents(q)[i])'
    BY <1>2, <1>10, <1>11, <1>14 DEF Precedes
  <2>4. \A u \in Callers : IsLog(msg[u])' <=> IsLog(msg'[u])
    BY DEF IsLog
  <2> QED BY <1>12, <1>13, <2>1, <2>2, <2>3, <2>4 DEF CallOrder
<1> QED BY <1>15

(* What a worker takes came before what stays.                             *)
LEMMA CallsWhenDequeued ==
    ASSUME PipelineTyped, CallOrder, NEW w \in Workers, Dequeue(w)
    PROVE  CallOrder'
<1> DEFINE c == Contents(q)
<1>1. /\ UNCHANGED <<pc, msg, posts>>
      /\ wpc \in [Workers -> {"dequeue", "waiting", "popped", "log", "flush",
                              "exited"}]
      /\ item \in [Workers -> Messages]
  BY DEF Dequeue, caller_vars, PipelineTyped, TypeOK
<1>2. CASE c = <<>>
  <2>1. UNCHANGED <<q, item>> /\ wpc' = [wpc EXCEPT ![w] = "waiting"]
    BY <1>2, DequeueNothing
  <2>2. \A v \in Workers : Holding(v)' => Holding(v)
    BY <1>1, <2>1 DEF Holding
  <2> QED BY <1>1, <2>1, <2>2, CallsUndisturbed DEF Awaiting
<1>3. CASE c # <<>>
  <2>1. /\ Contents(q') = Tail(c)
        /\ item' = [item EXCEPT ![w] = Head(c)]
        /\ wpc' = [wpc EXCEPT ![w] = "popped"]
    BY <1>3, DequeueContents
  <2>2. Contents(q)' = Contents(q')
    BY DEF Contents, Size, Slot
  <2>3. /\ 1 \in DOMAIN c /\ Head(c) = c[1]
        /\ \A i \in DOMAIN Contents(q') :
              /\ i + 1 \in DOMAIN c /\ Contents(q')[i] = c[i + 1]
              /\ i \in Nat /\ 1 < i + 1
    <3>1. c \in Seq(Messages) /\ c # <<>>
      BY <1>3, TypedQueue
    <3> HIDE DEF c
    <3> QED BY <2>1, <3>1
  <2>4. /\ item'[w] = c[1] /\ wpc'[w] = "popped"
        /\ \A v \in Workers : v # w => item'[v] = item[v] /\ wpc'[v] = wpc[v]
    BY <1>1, <2>1, <2>3
  <2>5. ASSUME NEW k, Called(k) PROVE Called(k)'
    BY <1>1, <2>5 DEF Called, Awaiting
  <2> DEFINE d == Contents(q)'
  <2>6. \A i \in DOMAIN d : i + 1 \in DOMAIN c /\ d[i] = c[i + 1]
                            /\ i \in Nat /\ 1 < i + 1
    BY <2>2, <2>3
  <2>7. \A i \in DOMAIN c : Called(c[i]) /\ (IsLog(c[i]) => c[i].by \in Clients)
    BY DEF CallOrder
  <2>8. \A i, j \in DOMAIN c : i < j => Precedes(c[i], c[j])
    BY DEF CallOrder
  <2> HIDE DEF c
  <2>9. ASSUME NEW i \in DOMAIN d
        PROVE  /\ Called(Contents(q)[i])'
               /\ IsLog(Contents(q)[i])' => Contents(q)'[i].by \in Clients
    <3>1. PICK k : k = d[i] /\ Called(k) /\ (IsLog(k) => k.by \in Clients)
      BY <2>6, <2>7
    <3>2. Called(k)'
      BY <2>5, <3>1
    <3> QED BY <3>1, <3>2 DEF Called, IsLog
  <2>10. ASSUME NEW i \in DOMAIN d, NEW j \in DOMAIN d, i < j
         PROVE  Precedes(Contents(q)[i], Contents(q)[j])'
    <3>1. Precedes(d[i], d[j])
      <4>1. i + 1 < j + 1 /\ i + 1 \in DOMAIN c /\ j + 1 \in DOMAIN c
        BY <2>6, <2>10
      <4> QED BY <2>6, <2>8, <4>1
    <3> QED BY <3>1 DEF Precedes
  <2>11. ASSUME NEW v \in Workers, Holding(v)'
         PROVE  /\ Called(item[v])'
                /\ \A i \in DOMAIN d : Precedes(item[v], Contents(q)[i])'
    <3>1. PICK k : /\ k = item'[v] /\ Called(k)
                   /\ \A i \in DOMAIN d : Precedes(k, d[i])
      <4>1. CASE v = w
        BY <2>3, <2>4, <2>6, <2>7, <2>8, <4>1
      <4>2. CASE v # w
        <5>1. Holding(v)
          BY <2>4, <2>11, <4>2 DEF Holding
        <5>2. Called(item[v]) /\ \A i \in DOMAIN c : Precedes(item[v], c[i])
          BY <5>1 DEF CallOrder, c
        <5> QED BY <2>4, <2>6, <4>2, <5>2
      <4> QED BY <4>1, <4>2
    <3>2. Called(k)'
      BY <2>5, <3>1
    <3> QED BY <3>1, <3>2 DEF Called, Precedes
  <2>12. \A u \in Callers :
            /\ msg'[u].by \in {u, Main}
            /\ msg'[u].kind = "terminate" => msg'[u].by = Main
            /\ IsLog(msg[u])' => msg'[u].by \in Clients
    BY <1>1 DEF CallOrder, IsLog
  <2>13. \A u \in Clients : Awaiting(u)' => msg'[u].n = posts'[u]
    BY <1>1 DEF CallOrder, Awaiting
  <2> QED BY <2>9, <2>10, <2>11, <2>12, <2>13 DEF CallOrder
<1> QED BY <1>2, <1>3

(* Every step keeps the order of the calls: a flush waits behind the lines *)
(* its caller posted before it.                                            *)
LEMMA CallsNext ==
    ASSUME PipelineTyped, PoolShared, Destruction, CallOrder, [Next]_vars
    PROVE  CallOrder'
<1> USE DEF pool_vars, caller_vars, worker_vars, file_vars
<1>0. /\ wpc \in [Workers -> {"dequeue", "waiting", "popped", "log", "flush",
                              "exited"}]
      /\ pc \in [Callers -> {"idle", "enqueue", "blocked", "notify", "join",
                             "joining", "dropped", "exited", "done"}]
      /\ msg \in [Callers -> Messages] /\ threads \subseteq Workers
      /\ posts \in [Clients -> Nat]
      /\ Main \in Callers /\ Flusher \in Callers
      /\ Main \notin Clients /\ Flusher \notin Clients
      /\ (\A c \in Clients : c \in Callers)
      /\ Terminator.by = Main
  BY CallerShapes, CallersAssumption
  DEF PipelineTyped, TypeOK, Callers, CallersAssumption, Terminator, Nothing
<1>1. ASSUME UNCHANGED <<q, item, posts, msg>>,
             \A c \in Clients : Awaiting(c)' => Awaiting(c),
             UNCHANGED wpc \/ WakeWorker
      PROVE  CallOrder'
  <2>1. \A w \in Workers : Holding(w)' => Holding(w)
    BY <1>1, WokenIsWaiting DEF Holding
  <2> QED BY <1>1, <2>1, CallsUndisturbed
<1>2. ASSUME NEW c \in Clients, Log(c) PROVE CallOrder'
  <2> DEFINE m == [kind |-> "log", by |-> c, n |-> posts[c] + 1,
                   lvl |-> LogLevels[c]]
  <2>1. posts[c] + 1 \in Nat /\ LogLevels[c] \in 0 .. off
    BY <1>0, LevelAssumption DEF LevelAssumption, off
  <2>2. /\ m \in Messages /\ m.by = c /\ m.kind # "terminate"
        /\ m.n = posts[c] + 1
    BY <1>0, <2>1 DEF Messages
  <2>3. /\ Post(c, m) /\ pc[c] = "idle" /\ UNCHANGED <<q, wpc, item>>
        /\ posts' = [posts EXCEPT ![c] = @ + 1]
    BY <1>2 DEF Log, Counted
  <2> HIDE DEF m
  <2> QED BY <1>0, <2>2, <2>3, CallsWhenPosted
<1>3. ASSUME NEW c \in Clients, Flush(c) PROVE CallOrder'
  <2> DEFINE m == [kind |-> "flush", by |-> c, n |-> posts[c] + 1, lvl |-> off]
  <2>1. posts[c] + 1 \in Nat /\ off \in 0 .. off
    BY <1>0 DEF off
  <2>2. /\ m \in Messages /\ m.by = c /\ m.kind # "terminate"
        /\ m.n = posts[c] + 1
    BY <1>0, <2>1 DEF Messages
  <2>3. /\ Post(c, m) /\ pc[c] = "idle" /\ UNCHANGED <<q, wpc, item>>
        /\ posts' = [posts EXCEPT ![c] = @ + 1]
    BY <1>3 DEF Flush, Counted
  <2> HIDE DEF m
  <2> QED BY <1>0, <2>2, <2>3, CallsWhenPosted
<1>4. CASE FlushAll
  <2>1. CASE registry.logger
    <3> DEFINE m == [kind |-> "flush", by |-> Flusher, n |-> 0, lvl |-> off]
    <3>1. /\ m \in Messages /\ m.by = Flusher /\ m.kind # "terminate"
          /\ ~IsLog(m)
      BY <1>0 DEF Messages, off, IsLog
    <3>2. /\ Post(Flusher, m) /\ pc[Flusher] = "idle"
          /\ UNCHANGED <<q, wpc, item, posts>>
      BY <1>4, <2>1 DEF FlushAll
    <3> HIDE DEF m
    <3> QED BY <1>0, <3>1, <3>2, CallsWhenPosted
  <2>2. CASE ~registry.logger
    BY <1>1, <1>4, <2>2 DEF FlushAll, Awaiting
  <2> QED BY <2>1, <2>2
<1>5. CASE FlusherExits \/ StopFlusher \/ DropAll
  <2>1. \A c \in Clients : Awaiting(c)' => Awaiting(c)
    BY <1>0, <1>5 DEF FlusherExits, StopFlusher, DropAll, Awaiting
  <2>2. UNCHANGED <<q, item, posts, msg, wpc>>
    BY <1>5 DEF FlusherExits, StopFlusher, DropAll
  <2> QED BY <1>1, <2>1, <2>2
<1>6. ASSUME NEW t \in Callers, NEW h, NEW next \in {"idle", "done"},
             LetGo(t, h, next), UNCHANGED <<q, item, posts>>,
             UNCHANGED wpc \/ WakeWorker
      PROVE  CallOrder'
  <2>1. /\ \A u \in Callers : msg'[u] = msg[u] \/ msg'[u] = Terminator
        /\ \A u \in Callers : u # t => pc'[u] = pc[u] /\ msg'[u] = msg[u]
        /\ \/ pc'[t] = next
           \/ msg'[t] = Terminator
    BY <1>0, <1>6 DEF LetGo
  <2>2. \A c \in Clients : Awaiting(c)' => Awaiting(c) /\ msg'[c] = msg[c]
    BY <1>0, <2>1 DEF Awaiting
  <2>3. \A w \in Workers : Holding(w)' => Holding(w)
    BY <1>6, WokenIsWaiting DEF Holding
  <2> QED BY <1>6, <2>1, <2>2, <2>3, CallsUndisturbed
<1>7. CASE ResetTp
  BY <1>0, <1>6, <1>7 DEF ResetTp
<1>8. ASSUME NEW t \in Callers, Blocks(t) \/ Join(t) PROVE CallOrder'
  <2>1. \A c \in Clients : Awaiting(c)' => Awaiting(c)
    BY <1>0, <1>8 DEF Blocks, Join, Awaiting
  <2> QED BY <1>1, <1>8, <2>1 DEF Blocks, Join
<1>9. ASSUME NEW t \in Callers, Enqueue(t) PROVE CallOrder'
  BY <1>9, CallsWhenEnqueued
<1>10. ASSUME NEW t \in Callers, Release(t) PROVE CallOrder'
  BY <1>6, <1>10 DEF Release
<1>11. ASSUME NEW t \in Callers, NextTerminate(t) PROVE CallOrder'
  <2>1. msg[t].by = Main
    BY <1>11 DEF NextTerminate, CallOrder
  <2>2. \A c \in Clients : Awaiting(c)' => Awaiting(c)
    BY <1>0, <1>11, <2>1 DEF NextTerminate, Awaiting
  <2> QED BY <1>1, <1>11, <2>2 DEF NextTerminate
<1>12. ASSUME NEW w \in Workers, Dequeue(w) PROVE CallOrder'
  BY <1>12, CallsWhenDequeued
<1>13. ASSUME NEW w \in Workers, WaitTimesOut(w) \/ NotifyPop(w)
                                 \/ BackendLog(w) \/ BackendFlush(w)
       PROVE  CallOrder'
  <2>1. \A v \in Workers : Holding(v)' => Holding(v)
    BY <1>0, <1>13
    DEF WaitTimesOut, NotifyPop, BackendLog, BackendFlush, Holding
  <2>2. UNCHANGED <<q, item, posts, msg>>
    BY <1>13 DEF WaitTimesOut, NotifyPop, BackendLog, BackendFlush
  <2>3. \A c \in Clients : Awaiting(c)' => Awaiting(c)
    BY <1>0, <1>13
    DEF WaitTimesOut, NotifyPop, BackendLog, BackendFlush, Awaiting
  <2> QED BY <2>1, <2>2, <2>3, CallsUndisturbed
<1>14. CASE UNCHANGED vars
  BY <1>1, <1>14 DEF vars, Awaiting
<1> QED
  BY <1>2, <1>3, <1>4, <1>5, <1>7, <1>8, <1>9, <1>10, <1>11, <1>12, <1>13,
     <1>14
  DEF Next, MainStep, CallerStep, Worker
-----------------------------------------------------------------------------
(* The theorems                                                            *)

(* The initial states satisfy the inductive invariant.                     *)
LEMMA LogInit == Init => LogInductive
<1> SUFFICES ASSUME Init PROVE LogInductive
  OBVIOUS
<1> USE DEF Init
<1>1. QueueTyped /\ Contents(q) = <<>> /\ q.overrun = 0
  BY InitTyped DEF Fifo!FifoInit
<1>2. threads \subseteq Workers /\ threads # {} /\ IsFiniteSet(Workers)
  BY WorkerAssumption DEF WorkerAssumption
<1>3. Cardinality(Workers) \in Nat
  BY <1>2, FS_CardinalityType
<1>4. Nothing \in Messages
  BY DEF Nothing, Messages, Callers, off
<1>5. CallersTyped
  BY <1>2, <1>3 DEF CallersTyped
<1>6. WorkersTyped
  <2>1. accepted \in Seq(Messages) /\ handled \in Seq(Messages)
    OBVIOUS
  <2>2. \A w \in Workers : wpc[w] # "log" /\ (w \notin threads => wpc[w] = "exited")
    OBVIOUS
  <2>3. DOMAIN Contents(q) = {}
    BY <1>1
  <2>4. item \in [Workers -> Messages]
    BY <1>4
  <2>5. wpc \in [Workers -> {"dequeue", "waiting", "popped", "log", "flush",
                             "exited"}]
    OBVIOUS
  <2> QED BY <2>1, <2>2, <2>3, <2>4, <2>5 DEF WorkersTyped
<1>7. PipelineTyped
  BY <1>1, <1>5, <1>6, TypesInParts
<1>8. \A t \in Callers : ~Inside(t) /\ ~Destroys(t)
  BY DEF Inside, Destroys
<1>9. PoolShared
  BY <1>8, CallersAssumption DEF PoolShared, CallersAssumption, Callers
<1>10. Destruction
  BY <1>8, CallersAssumption DEF Destruction, Callers
<1>11. TerminatesLast
  <2>1. Size(q) = 0 /\ DOMAIN Contents(q) = {}
    BY <1>1, <1>7, TypedQueue
  <2>2. Ended = {}
    BY <1>2 DEF Ended
  <2>3. LastOrdinary(0)
    BY <2>1, <2>2 DEF LastOrdinary
  <2> QED BY <2>1, <2>3 DEF TerminatesLast
<1>12. CallOrder
  <2>1. DOMAIN Contents(q) = {}
    BY <1>1
  <2>2. \A t \in Callers : msg[t] = Nothing /\ pc[t] = "idle"
    OBVIOUS
  <2>3. Nothing.kind = "terminate" /\ Nothing.by = Main
    BY DEF Nothing
  <2>4. \A w \in Workers : ~Holding(w)
    BY DEF Holding
  <2> QED BY <2>1, <2>2, <2>3, <2>4
      DEF CallOrder, Awaiting, IsLog, Callers
<1>13. NoLineLost
  <2>1. InHand = {} /\ Lines(Contents(q)) = {} /\ Cardinality({}) = 0
    BY <1>1, FS_EmptySet DEF InHand, Lines
  <2>2. Kept = 0 /\ Len(accepted) = 0
    BY <2>1 DEF Kept
  <2>3. LinesCounted
    BY <1>1, <2>2 DEF LinesCounted
  <2>4. Pipeline = <<>>
    BY <1>1, <2>1 DEF Pipeline
  <2>5. InOrder(Pipeline, accepted)
    <3>1. Lines(Pipeline) = {}
      BY <2>4 DEF Lines
    <3>2. [i \in {} |-> 0] \in [{} -> DOMAIN accepted]
      OBVIOUS
    <3> QED BY <3>1, <3>2 DEF InOrder
  <2> QED BY <1>1, <2>3, <2>5 DEF NoLineLost
<1> QED BY <1>7, <1>9, <1>10, <1>11, <1>12, <1>13
    DEF LogInductive

(* Types, who shares the pool, who destroys it, the terminates behind the  *)
(* last message, and the count and order of the lines hold together, for   *)
(* any callers, any pool of workers and any capacity.                      *)
THEOREM LogInvariant == Spec => []LogInductive
<1>1. LogInductive /\ [Next]_vars => LogInductive'
  <2> SUFFICES ASSUME LogInductive, [Next]_vars PROVE LogInductive'
    OBVIOUS
  <2>1. PipelineTyped'
    BY TypedNext DEF LogInductive
  <2>2. PoolShared' /\ Destruction'
    BY PoolNext DEF LogInductive
  <2>3. TerminatesLast'
    BY LastNext DEF LogInductive
  <2>4. CallOrder'
    BY CallsNext DEF LogInductive
  <2>5. NoLineLost'
    BY <2>1, LinesNext DEF LogInductive
  <2> QED BY <2>1, <2>2, <2>3, <2>4, <2>5 DEF LogInductive
<1> QED BY LogInit, <1>1, PTL DEF Spec

(* Between the loggers and the file no message is lost, doubled or, with   *)
(* one worker, overtaken; only overrun_oldest loses messages, no more than *)
(* the queue has counted.                                                  *)
THEOREM NoLinesAreLost == Spec => []NoLineLost
<1>1. LogInductive => NoLineLost
  BY DEF LogInductive
<1> QED BY <1>1, LogInvariant, PTL

(* Nobody is inside a destroyed pool, and nobody posts to one whose        *)
(* destructor runs: a weak_ptr locked for the length of a post is enough.  *)
THEOREM PoolIsKept == Spec => []PoolOutlivesItsUsers
<1>1. LogInductive => PoolOutlivesItsUsers
  <2> SUFFICES ASSUME LogInductive PROVE PoolOutlivesItsUsers
    OBVIOUS
  <2>1. pool # "alive" => \A t \in Callers : Inside(t) => Destroys(t)
    BY DEF LogInductive, PoolShared
  <2>2. pool = "gone" => \A t \in Callers : ~Inside(t)
    BY <2>1 DEF LogInductive, Destruction
  <2>3. pool = "dying" =>
           \A t, u \in Callers : Inside(t) /\ Inside(u) => t = u
    BY <2>1 DEF LogInductive, Destruction
  <2> QED BY <2>2, <2>3
      DEF PoolOutlivesItsUsers, LogInductive, Destruction, Inside
<1> QED BY <1>1, LogInvariant, PTL

(* Once the pool is gone, by whoever's hand, the queue is empty and the    *)
(* sink has had every line that was not overrun: the destructor's blocking *)
(* terminates stand behind everything that was put in.                     *)
THEOREM EverythingIsLogged == Spec => []EverythingLogged
<1>1. LogInductive => EverythingLogged
  <2> SUFFICES ASSUME LogInductive, pool = "gone"
               PROVE  /\ Contents(q) = <<>>
                      /\ Len(accepted) - Len(handled) <= q.overrun
    BY DEF EverythingLogged
  <2>0. PipelineTyped /\ PoolShared /\ Destruction /\ TerminatesLast
        /\ NoLineLost
    BY DEF LogInductive
  <2>1. Ended = threads /\ threads # {}
    BY <2>0, CallerShapes DEF Destruction, Ended
  <2>2. ToPost = 0
    BY <2>0 DEF Destruction, ToPost
  <2>3. PICK n \in 0 .. Size(q) : LastOrdinary(n)
    BY <2>0 DEF TerminatesLast
  <2>4. n = 0 /\ ToPost + (Size(q) - n) + Cardinality(Ended)
                    = Cardinality(threads)
    BY <2>1, <2>3 DEF LastOrdinary
  <2>5. Size(q) = 0
    BY <2>0, <2>1, <2>2, <2>4, CallerShapes, TypedQueue
  <2>6. Contents(q) = <<>>
    BY <2>0, <2>5, TypedQueue, EmptySeq
  <2>7. InHand = {} /\ Lines(Contents(q)) = {}
    BY <2>0, <2>6 DEF InHand, Lines, Destruction, PipelineTyped
  <2>8. Kept = Len(handled) /\ Len(handled) \in Nat /\ Len(accepted) \in Nat
    BY <2>0, <2>7, FS_EmptySet, TypedQueue DEF Kept
  <2>9. Len(accepted) <= Kept + q.overrun /\ q.overrun \in Nat
    BY <2>0, TypedQueue DEF NoLineLost, LinesCounted
  <2> QED BY <2>6, <2>8, <2>9
<1> QED BY <1>1, LogInvariant, PTL

(* When the worker has done a flush, all that it was given is on disk, and *)
(* what is still queued by the same caller was logged after the flush.     *)
THEOREM FlushesAreBarriers == Spec => FlushIsABarrier
<1> DEFINE Barrier == \A w \in threads :
              wpc[w] = "flush" /\ wpc'[w] # "flush" /\ OneWorker =>
                 /\ flushed' = Len(handled')
                 /\ \A i \in Lines(Contents(q)) :
                       Contents(q)[i].by = item[w].by
                          => Contents(q)[i].n > item[w].n
<1>1. LogInductive /\ [Next]_vars => [Barrier]_vars
  <2> SUFFICES ASSUME LogInductive, Next, NEW w \in threads,
                      wpc[w] = "flush", wpc'[w] # "flush"
               PROVE  /\ flushed' = Len(handled')
                      /\ \A i \in Lines(Contents(q)) :
                            Contents(q)[i].by = item[w].by
                               => Contents(q)[i].n > item[w].n
    OBVIOUS
  <2>0. PipelineTyped /\ CallOrder /\ w \in Workers
    BY CallerShapes DEF LogInductive
  <2>1. BackendFlush(w)
    <3> USE DEF pool_vars, caller_vars, worker_vars, file_vars
    <3>0. wpc \in [Workers -> {"dequeue", "waiting", "popped", "log",
                               "flush", "exited"}]
      BY <2>0 DEF PipelineTyped, TypeOK
    <3>1. wpc' # wpc /\ ~WakeWorker
      BY <2>0, WokenIsWaiting
    <3>2. PICK v \in Workers : Worker(v)
      BY <3>1
      DEF Next, MainStep, CallerStep, Log, Flush, FlushAll, FlusherExits,
          StopFlusher, DropAll, ResetTp, Blocks, Enqueue, Release,
          NextTerminate, Join
    <3>3. /\ \A u \in Workers : u # v => wpc'[u] = wpc[u]
          /\ wpc[v] = "flush" => BackendFlush(v)
      BY <3>0, <3>2
      DEF Worker, Dequeue, WaitTimesOut, NotifyPop, BackendLog, BackendFlush
    <3> QED BY <2>0, <3>3
  <2>2. flushed' = Len(handled')
    BY <2>1 DEF BackendFlush
  <2>3. ASSUME NEW i \in Lines(Contents(q)),
               Contents(q)[i].by = item[w].by
        PROVE  Contents(q)[i].n > item[w].n
    <3>1. i \in DOMAIN Contents(q) /\ IsLog(Contents(q)[i])
      BY DEF Lines
    <3>2. Precedes(item[w], Contents(q)[i])
      BY <2>0, <3>1 DEF CallOrder, Holding
    <3>3. item[w].n < Contents(q)[i].n
      BY <2>0, <2>3, <3>1, <3>2 DEF CallOrder, Precedes
    <3>4. item[w].n \in Nat /\ Contents(q)[i].n \in Nat
      BY <2>0, <3>1 DEF PipelineTyped, TypeOK, Messages
    <3> QED BY <3>3, <3>4
  <2> QED BY <2>2, <2>3
<1> QED BY <1>1, LogInvariant, PTL DEF Spec, FlushIsABarrier
=============================================================================
