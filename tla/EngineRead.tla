----------------------------- MODULE EngineRead -----------------------------
(***************************************************************************)
(* Reads of class EngineRace while its write path (EngineRace) runs:       *)
(* EngineRace::Read, EngineRace::snapshot_, DBFile_manager::snapshot,      *)
(* Snapshot::read, Memfile::read and SSTable::read.                        *)
(*                                                                         *)
(* A reader takes the memfiles under mutex_, then the tables without it,   *)
(* then looks its key up in one after the other.  The memfile that was     *)
(* mutable when it looked stays shared with the commit thread.             *)
(***************************************************************************)
EXTENDS EngineRace, SequencesExt

CONSTANTS Readers,      \* client threads that read
          MaxReads      \* bound: reads of one client thread

ASSUME ReadersAssumption == Keys # {} /\ MaxReads \in Nat

VARIABLES
    readers,    \* the read each client thread is in or has finished
    seen,       \* history: the values its key had since that read began
    acked,      \* history: the newest value write() answered "done" to, by
                \* key, whatever happened to the process since
    reads       \* reads begun by each thread

rvars == <<vars, readers, seen, acked, reads>>

IsOpen == pc \notin {"closed", "opening"}

Error == -2         \* an answer of kIOError
NoRead == [pc |-> "idle", key |-> CHOOSE k \in Keys : TRUE, memfiles |-> <<>>,
           sstables |-> <<>>, raced |-> FALSE, answer |-> Absent]

RInit == /\ Init
         /\ readers = [r \in Readers |-> NoRead]
         /\ seen = [r \in Readers |-> {}]
         /\ acked = Empty
         /\ reads = [r \in Readers |-> 0]
------------------------------------------------------------------------------
(* Read of k is called on an open engine.                                  *)
Call(r, k) ==
    /\ IsOpen
    /\ readers[r].pc \in {"idle", "done"}
    /\ reads[r] < MaxReads
    /\ reads' = [reads EXCEPT ![r] = @ + 1]
    /\ readers' = [readers EXCEPT ![r] =
                      [NoRead EXCEPT !.pc = "called", !.key = k]]
    /\ seen' = [seen EXCEPT ![r] = {View[k]}]
    /\ UNCHANGED acked

(* snapshot_, under mutex_: the memfile, then the immutable ones from the  *)
(* newest to the oldest.                                                   *)
TakeMemfilesOldestFirst(r) ==
    /\ readers[r].pc = "called"
    /\ ~Locked
    /\ readers' = [readers EXCEPT
          ![r].pc = "tables",
          ![r].memfiles = <<memfile>> \o immutable_memfiles]
    /\ UNCHANGED <<seen, acked, reads>>

TakeMemfilesNotDumping(r) ==
    /\ readers[r].pc = "called"
    /\ ~Locked
    /\ readers' = [readers EXCEPT
          ![r].pc = "tables",
          ![r].memfiles = <<memfile>> \o Reverse(
              IF dumps = {} THEN immutable_memfiles
              ELSE Tail(immutable_memfiles))]
    /\ UNCHANGED <<seen, acked, reads>>

TakeMemfiles(r) ==
    /\ readers[r].pc = "called"
    /\ ~Locked
    /\ readers' = [readers EXCEPT
          ![r].pc = "tables",
          ![r].memfiles = <<memfile>> \o Reverse(immutable_memfiles)]
    /\ UNCHANGED <<seen, acked, reads>>

(* DBFile_manager::snapshot, under rwmutex_ shared: the copy begins ...    *)
StartCopy(r) ==
    /\ readers[r].pc = "tables"
    /\ readers' = [readers EXCEPT ![r].pc = "copying",
                                  ![r].sstables = sstables]
    /\ UNCHANGED <<seen, acked, reads>>

(* ... and ends.  What was copied is good unless apply, which takes no     *)
(* lock, swapped the vector meanwhile.                                     *)
EndCopy(r) ==
    /\ readers[r].pc = "copying"
    /\ readers' = [readers EXCEPT ![r].pc = "reading"]
    /\ UNCHANGED <<seen, acked, reads>>

(* Snapshot::read: the next memfile, which answers or not ...              *)
LookUpMemfile(r) ==
    LET rd == readers[r]
        v == Head(rd.memfiles).content[rd.key]
    IN /\ rd.pc = "reading"
       /\ rd.memfiles # <<>>
       /\ readers' = [readers EXCEPT ![r] =
             IF v = Absent THEN [rd EXCEPT !.memfiles = Tail(@)]
             ELSE [rd EXCEPT !.pc = "done", !.answer = v]]
       /\ UNCHANGED <<seen, acked, reads>>

(* ... then the tables: the first one throws, as SSTable::read makes a     *)
(* string from nullptr, and Read answers kIOError.  A copy that was raced  *)
(* may hold anything.                                                      *)
LookUpTables(r) ==
    LET rd == readers[r]
    IN /\ rd.pc = "reading"
       /\ rd.memfiles = <<>>
       /\ \E a \in IF rd.raced THEN {Error, Absent}
                   ELSE IF rd.sstables = <<>> THEN {Absent} ELSE {Error} :
             readers' = [readers EXCEPT ![r].pc = "done", ![r].answer = a]
       /\ UNCHANGED <<seen, acked, reads>>

ReaderStep(r) == \/ TakeMemfiles(r)
                 \/ StartCopy(r)
                 \/ EndCopy(r)
                 \/ LookUpMemfile(r)
                 \/ LookUpTables(r)

(* What a step of the engine does to the reads under way: a memfile they   *)
(* hold may be the one written to, the vector they copy may be swapped,    *)
(* and they end with the process.                                          *)
Follow(m) == IF m.redo_id = memfile.redo_id /\ memfile'.redo_id = m.redo_id
             THEN memfile' ELSE m

Observe(r) ==
    LET rd == readers[r]
    IN IF pc' = "closed" \/ rd.pc \in {"idle", "done"} THEN
            IF pc' = "closed" THEN NoRead ELSE rd
       ELSE [rd EXCEPT !.memfiles = [i \in DOMAIN @ |-> Follow(@[i])],
                       !.raced = @ \/ (rd.pc = "copying"
                                       /\ \E d \in dumps : Apply(d))]

Acknowledge == IF result = "pending" /\ result' = "done"
               THEN Put(acked, batch.keys, batch.version) ELSE acked

EngineStep ==
    /\ Next
    /\ readers' = [r \in Readers |-> Observe(r)]
    /\ seen' = [r \in Readers |-> IF readers[r].pc \in {"idle", "done"}
                                  THEN seen[r]
                                  ELSE seen[r] \cup {View'[readers[r].key]}]
    /\ acked' = Acknowledge
    /\ UNCHANGED reads

Reading == \E r \in Readers : /\ \/ \E k \in Keys : Call(r, k)
                                 \/ ReaderStep(r)
                              /\ UNCHANGED vars

RNext == EngineStep \/ Reading

RSpec == RInit /\ [][RNext]_rvars

(* The threads the reader may wait for go on, and so does the reader.  (As *)
(* the batches are bounded, mutex_ is free for good in the end; a writer   *)
(* that switched forever would need a fair mutex.)                         *)
RFairness == /\ WF_rvars(Commit /\ EngineStep)
             /\ WF_rvars(AllocRedo /\ EngineStep)
             /\ \A r \in Readers : WF_rvars(ReaderStep(r) /\ UNCHANGED vars)

RFairSpec == RSpec /\ RFairness
------------------------------------------------------------------------------
(* The shape of a read and of the histories.                               *)
RTypeOK ==
    /\ readers \in [Readers ->
          [pc : {"idle", "called", "tables", "copying", "reading", "done"},
           key : Keys, memfiles : Seq(Memfiles), sstables : Seq(Nat),
           raced : BOOLEAN, answer : Int]]
    /\ seen \in [Readers -> SUBSET Int]
    /\ acked \in Contents
    /\ reads \in [Readers -> 0 .. MaxReads]

(* A finished read answers kIOError or a value the key had at some moment  *)
(* between its call and its return, kNotFound only if it had none then:    *)
(* no memfile slips between the two halves of snapshot_ while it is        *)
(* switched, dumped, installed and popped.  (Reads whose copy of the       *)
(* tables is raced are the subject of CopyNotRaced.)                       *)
ReadsAtomic ==
    \A r \in Readers : LET rd == readers[r] IN
        rd.pc = "done" /\ ~rd.raced /\ rd.answer # Error
            => rd.answer \in seen[r]

(* The snapshot of a read is complete until it ends: what it holds from    *)
(* the memfiles and the tables together still answers for every key that   *)
(* had a value when it began (snapshot.h: "strong guarantee").             *)
SnapshotComplete ==
    \A r \in Readers : LET rd == readers[r] IN
        rd.pc = "reading" /\ ~rd.raced /\ rd.memfiles = <<>>
            /\ Absent \notin seen[r]
        => \E i \in DOMAIN rd.sstables :
              TableContent(rd.sstables[i])[rd.key] # Absent

(* Why the properties above hold; an inductive invariant in named parts.   *)

UnderWay(r) == readers[r].pc \in {"called", "tables", "copying", "reading"}
HasMemfiles(r) == readers[r].pc \in {"tables", "copying", "reading"}
HasTables(r) == readers[r].pc \in {"copying", "reading"}

(* The value a key has now is one it has had since the read began.         *)
ViewSeen(r) ==
    UnderWay(r) => IsOpen /\ View[readers[r].key] \in seen[r]

(* The memfile that was mutable is shared with the commit thread as long   *)
(* as it is.                                                               *)
MemfileShared(r) ==
    HasMemfiles(r) =>
       \A i \in DOMAIN readers[r].memfiles : LET m == readers[r].memfiles[i] IN
          /\ m.redo_id <= memfile.redo_id
          /\ m.redo_id = memfile.redo_id => m = memfile

(* The first of the memfiles not yet looked up that has the key has a      *)
(* value that the key has had since the read began.                        *)
FirstWith(ms, k, i) == /\ ms[i].content[k] # Absent
                       /\ \A j \in DOMAIN ms : j < i => ms[j].content[k] = Absent

MemfilesAnswer(r) == LET rd == readers[r] IN
    HasMemfiles(r) =>
       \A i \in DOMAIN rd.memfiles :
          FirstWith(rd.memfiles, rd.key, i)
             => rd.memfiles[i].content[rd.key] \in seen[r]

(* A table is never taken out again.                                       *)
TablesHeld(r) ==
    HasTables(r) =>
       \A i \in DOMAIN readers[r].sstables : \E j \in DOMAIN sstables :
          sstables[j] = readers[r].sstables[i]

(* What is still to be looked up has the key, if it has had a value all    *)
(* the time.                                                               *)
InMemfiles(ms, k) == \E i \in DOMAIN ms : ms[i].content[k] # Absent
InTables(tabs, k) == \E i \in DOMAIN tabs : TableContent(tabs[i])[k] # Absent

SnapshotHolds(r) == LET rd == readers[r] IN
    HasMemfiles(r) /\ Absent \notin seen[r] =>
       \/ InMemfiles(rd.memfiles, rd.key)
       \/ InTables(IF HasTables(r) THEN rd.sstables ELSE sstables, rd.key)

ReadGood(r) == /\ ViewSeen(r)
               /\ MemfileShared(r)
               /\ MemfilesAnswer(r)
               /\ TablesHeld(r)
               /\ SnapshotHolds(r)

ReadInductive == /\ DiskInductive
                 /\ RTypeOK
                 /\ \A r \in Readers : ReadGood(r)
                 /\ ReadsAtomic

(* A read ends: the writer holds mutex_ while it waits for a redo log, but *)
(* the pool thread that makes the log needs no lock of the reader.         *)
ReadReturns == \A r \in Readers :
    (readers[r].pc = "called") ~> (readers[r].pc \in {"idle", "done"})
------------------------------------------------------------------------------
(* What the repository says of reads, and the code does not keep           *)

(* test.cc: a key whose Write answered kSucc is found by Read.             *)
AckedIsReadable ==
    \A r \in Readers : LET rd == readers[r] IN
        rd.pc = "done" /\ ~rd.raced /\ Absent \notin seen[r]
            => rd.answer # Error

(* db_file_manager.h: "strong gurantee", with a lock that snapshot takes   *)
(* to copy the tables: nobody changes them under it.                       *)
CopyNotRaced == \A r \in Readers : ~readers[r].raced

(* RaceRule.md: data is not lost when the process ends unexpectedly.       *)
SurvivesRestart == IsOpen => \A k \in Keys : acked[k] <= View[k]
==============================================================================
