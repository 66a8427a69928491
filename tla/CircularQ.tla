----------------------------- MODULE CircularQ -----------------------------
(* details::circular_q, the ring under the log's queue.  One slot more     *)
(* than the capacity tells a full ring from an empty one.                  *)
EXTENDS Naturals, Sequences

CONSTANTS Capacity, Items, NoItem

max_items == Capacity + 1

Rings == [v : [0 .. Capacity -> Items \cup {NoItem}],
          head : 0 .. Capacity, tail : 0 .. Capacity, overrun : Nat]

NewRing == [v |-> [i \in 0 .. Capacity |-> NoItem],
            head |-> 0, tail |-> 0, overrun |-> 0]

After(i) == (i + 1) % max_items

IsEmpty(q) == q.tail = q.head
IsFull(q) == After(q.tail) = q.head

(* The head stays when the ring laps: a full ring becomes an empty one.    *)
PushWithoutOverrun(q, m) ==
    [q EXCEPT !.v[q.tail] = m, !.tail = After(q.tail),
              !.overrun = @ + (IF IsFull(q) THEN 1 ELSE 0)]

PushBack(q, m) ==
    LET pushed == [q EXCEPT !.v[q.tail] = m, !.tail = After(q.tail)]
    IN IF pushed.tail = q.head
       THEN [pushed EXCEPT !.head = After(q.head), !.overrun = @ + 1]
       ELSE pushed

(* The item is moved out of its slot; an overrun one stays in its own      *)
(* until the ring comes round.                                             *)
FrontItem(q) == q.v[q.head]
PopFront(q) == [q EXCEPT !.v[q.head] = NoItem, !.head = After(q.head)]

(* The items from the oldest to the newest.                                *)
Size(q) == IF q.head <= q.tail THEN q.tail - q.head
           ELSE q.tail + max_items - q.head

Slot(q, i) == IF q.head + i < max_items THEN q.head + i
              ELSE q.head + i - max_items

Contents(q) == [i \in 1 .. Size(q) |-> q.v[Slot(q, i - 1)]]
============================================================================
