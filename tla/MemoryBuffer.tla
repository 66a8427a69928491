---------------------------- MODULE MemoryBuffer ----------------------------
(* fmt's basic_memory_buffer on the way of a line through spdlog's queue:  *)
(* formatted piece by piece into log_msg::raw, copied into an async_msg,   *)
(* moved into a slot of the circular queue, moved out of it by the worker, *)
(* copied into a log_msg again.  A buffer has a store of its own and, when *)
(* that is too small, a block of the heap.  Text is a sequence of numbers, *)
(* 0 for a character that nobody wrote.                                    *)
EXTENDS Naturals, Sequences, FiniteSets

CONSTANTS QueueSlots,   \* max_items_ of circular_q: one more than it holds
          StoreSize,    \* characters async_msg::raw has room for itself
          MsgStoreSize, \* and log_msg::raw
          Blocks,       \* bound: blocks of the heap, numbered from 1
          Pieces,       \* the lengths of what is appended at a time
          MaxPieces,    \* bound: pieces of a line
          MaxPosts      \* bound: lines

ASSUME BufferParameters ==
    /\ QueueSlots \in Nat \ {0, 1}
    /\ StoreSize \in Nat \ {0} /\ MsgStoreSize \in Nat \ {0}
    /\ Blocks \subseteq Nat \ {0} /\ Pieces \subseteq Nat
(* The heap does not run out: a block for each buffer and one more.        *)
ASSUME HeapAssumption == IsFiniteSet(Blocks) => Cardinality(Blocks) > QueueSlots + 4
ASSUME BufferBounds == MaxPieces \in Nat /\ MaxPosts \in Nat

VARIABLES memory,   \* the buffers, the heap, and whether it was misused
          head, tail,   \* of circular_q
          posted,   \* lines posted
          queued,   \* history: the texts posted and not popped or overrun
          handed    \* history: the text posted and the text the worker got

buffer_vars == <<memory, head, tail, posted, queued, handed>>

QueueIndices == 0 .. QueueSlots - 1
Locals == QueueSlots .. QueueSlots + 3
msg == QueueSlots           \* logger::log's log_msg::raw
new_msg == QueueSlots + 1   \* async_logger's async_msg::raw
incoming == QueueSlots + 2  \* process_next_msg_'s async_msg::raw
out == QueueSlots + 3       \* its log_msg::raw

SizeOfStore(b) == IF b \in {msg, out} THEN MsgStoreSize ELSE StoreSize
Unwritten(n) == [k \in 1 .. n |-> 0]

(* data 0 is the buffer's own store.                                       *)
NewBuffer(b) == [data |-> 0, size |-> 0, capacity |-> SizeOfStore(b),
                 store |-> Unwritten(SizeOfStore(b))]

BuffersInit ==
    /\ memory = [buffers |-> [b \in QueueIndices \cup Locals |-> NewBuffer(b)],
                 heap |-> [block \in Blocks |-> <<>>], misused |-> FALSE]
    /\ head = 0 /\ tail = 0 /\ posted = 0
    /\ queued = <<>>
    /\ handed = [line |-> <<>>, text |-> <<>>]
------------------------------------------------------------------------------
(* The heap: a block that is free has no characters.                       *)
Contents(m, b) ==
    IF m.buffers[b].data = 0 THEN m.buffers[b].store ELSE m.heap[m.buffers[b].data]

TextOf(m, b, size) ==
    [k \in 1 .. size |-> IF k <= Len(Contents(m, b)) THEN Contents(m, b)[k] ELSE 0]

Put(m, b, offset, text) ==
    LET data == m.buffers[b].data
        was == Contents(m, b)
        now == [k \in DOMAIN was |->
                   IF k \in offset + 1 .. offset + Len(text) THEN text[k - offset]
                                                             ELSE was[k]]
        checked == [m EXCEPT !.misused = @ \/ offset + Len(text) > Len(was)]
    IN IF data = 0 THEN [checked EXCEPT !.buffers[b].store = now]
                   ELSE [checked EXCEPT !.heap[data] = now]

Free(m, block) == [m EXCEPT !.misused = @ \/ m.heap[block] = <<>>,
                            !.heap[block] = <<>>]

SetData(m, b, data, capacity) ==
    [m EXCEPT !.buffers[b].data = data, !.buffers[b].capacity = capacity]

Deallocate(m, b) == IF m.buffers[b].data = 0 THEN m ELSE Free(m, m.buffers[b].data)

Grow(m, b, size) ==
    LET old == m.buffers[b]
        least == old.capacity + old.capacity \div 2
        capacity == IF size > least THEN size ELSE least
        block == CHOOSE free \in Blocks : m.heap[free] = <<>>
        copied == [m EXCEPT !.heap[block] = TextOf(m, b, old.size) \o
                                            Unwritten(capacity - old.size)]
        set == SetData(copied, b, block, capacity)
    IN IF old.data = 0 THEN set ELSE Free(set, old.data)

Reserve(m, b, capacity) ==
    IF capacity > m.buffers[b].capacity THEN Grow(m, b, capacity) ELSE m

Resize(m, b, size) == [Reserve(m, b, size) EXCEPT !.buffers[b].size = size]

AppendText(m, b, text) ==
    LET size == m.buffers[b].size + Len(text)
    IN [Put(Reserve(m, b, size), b, m.buffers[b].size, text) EXCEPT !.buffers[b].size = size]

(* The move leaves the size of other as it was.                            *)
MoveAndShare(m, b, other) ==
    LET from == m.buffers[other]
    IN Resize(IF from.data = 0
              THEN Put(SetData(m, b, 0, from.capacity), b, 0, TextOf(m, other, from.size))
              ELSE SetData(m, b, from.data, from.capacity),
              b, from.size)

Move(m, b, other) ==
    LET from == m.buffers[other]
    IN Resize(IF from.data = 0
              THEN Put(SetData(m, b, 0, from.capacity), b, 0, TextOf(m, other, from.size))
              ELSE SetData(SetData(m, b, from.data, from.capacity), other, 0, 0),
              b, from.size)

Assign(m, b, other) == Move(Deallocate(m, b), b, other)

Destroy(m, b) == [Deallocate(m, b) EXCEPT !.buffers[b] = NewBuffer(b)]
------------------------------------------------------------------------------
After1(i) == (i + 1) % QueueSlots
Lines == UNION {[1 .. n -> Pieces] : n \in 1 .. MaxPieces}

(* The pieces of line n, each of the characters it is made of.             *)
PiecesOf(n, line) ==
    [k \in DOMAIN line |-> [c \in 1 .. line[k] |-> 100 * n + 10 * k + c]]

(* What a line's pieces make of the buffer they are formatted into.        *)
FormattedInto(m, pieces) ==
    LET after[k \in 0 .. Len(pieces)] ==
            IF k = 0 THEN m ELSE AppendText(after[k - 1], msg, pieces[k])
    IN after

TextUpTo(pieces) ==
    LET text[k \in 0 .. Len(pieces)] ==
            IF k = 0 THEN <<>> ELSE text[k - 1] \o pieces[k]
    IN text
WholeText(pieces) == TextUpTo(pieces)[Len(pieces)]

(* A line is formatted, copied, and moved into the queue, over the oldest  *)
(* one if there is no room; its two buffers are destroyed.                 *)
PostLine ==
    /\ posted < MaxPosts
    /\ posted' = posted + 1
    /\ \E line \in Lines :
          \E formatted \in {FormattedInto(memory, PiecesOf(posted', line))[Len(line)]},
             full \in {After1(tail) = head} :
          \E copied \in {AppendText(formatted, new_msg,
                                    TextOf(formatted, msg, formatted.buffers[msg].size))} :
             /\ memory' = Destroy(Destroy(Assign(copied, tail, new_msg), new_msg), msg)
             /\ head' = IF full THEN After1(head) ELSE head
             /\ queued' = Append(IF full THEN Tail(queued) ELSE queued,
                                 WholeText(PiecesOf(posted', line)))
    /\ tail' = After1(tail)
    /\ UNCHANGED handed

(* The worker takes the oldest line, copies it and lets both go.           *)
TakeLine ==
    /\ head # tail
    /\ \E taken \in {Assign(memory, incoming, head)} :
       \E copied \in {AppendText(taken, out,
                                 TextOf(taken, incoming, taken.buffers[incoming].size))} :
          /\ memory' = Destroy(Destroy(copied, out), incoming)
          /\ handed' = [line |-> Head(queued),
                        text |-> TextOf(copied, out, copied.buffers[out].size)]
    /\ head' = After1(head)
    /\ queued' = Tail(queued)
    /\ UNCHANGED <<tail, posted>>

BuffersNext == PostLine \/ TakeLine

BuffersSpec == BuffersInit /\ [][BuffersNext]_buffer_vars
------------------------------------------------------------------------------
(* A line comes out of the queue as it went in, and the slots hold the     *)
(* lines that are queued, whatever they held before and whichever of the   *)
(* buffers a line moved through needed the heap; nothing is written or     *)
(* freed that is not the buffer's, and every block of the heap belongs to  *)
(* one slot, which a later line or the queue's destructor frees.           *)
BuffersKeepTheirText ==
    /\ ~memory.misused
    /\ handed.text = handed.line
    /\ \A k \in DOMAIN queued :
          LET slot == (head + k - 1) % QueueSlots
          IN TextOf(memory, slot, memory.buffers[slot].size) = queued[k]
    /\ \A block \in Blocks :
          LET owners == {b \in DOMAIN memory.buffers : memory.buffers[b].data = block}
          IN Cardinality(owners) = (IF memory.heap[block] = <<>> THEN 0 ELSE 1)
============================================================================
