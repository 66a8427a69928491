---------------------------- MODULE BoundedFifo ----------------------------
(* What mpmc_blocking_queue promises its users: a queue of at most         *)
(* Capacity items, in the order in which they were put in; a push into a   *)
(* full queue, where the caller does not block, gives up the oldest item   *)
(* and is counted.                                                         *)
EXTENDS Naturals, Sequences

CONSTANTS Capacity, Items

VARIABLES items, overrun

FifoInit == items = <<>> /\ overrun = 0

Push == /\ items' # <<>>
        /\ items'[Len(items')] \in Items
        /\ \/ /\ Len(items) < Capacity
              /\ items' = Append(items, items'[Len(items')])
              /\ UNCHANGED overrun
           \/ /\ Len(items) = Capacity
              /\ items' = Append(Tail(items), items'[Len(items')])
              /\ overrun' = overrun + 1

Pop == /\ items # <<>>
       /\ items' = Tail(items)
       /\ UNCHANGED overrun

FifoNext == Pop \/ Push

FifoSpec == FifoInit /\ [][FifoNext]_<<items, overrun>>
============================================================================
