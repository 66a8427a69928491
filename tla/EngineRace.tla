----------------------------- MODULE EngineRace -----------------------------
(***************************************************************************)
(* The write path of class EngineRace (engine_race.cpp) with the parts it  *)
(* owns: the mutable memfile and its redo log, the queue of immutable      *)
(* memfiles, the redo log allocator and its prefetch, the dumper with its  *)
(* completion callbacks, DBMeta, DBFile_manager, the collection of redo    *)
(* logs, the files on disk, and the death and reopening of the process.    *)
(*                                                                         *)
(* Threads: the commit thread (pc), the allocator's pool thread (future),  *)
(* the dumper's thread and the threads that run its continuations (dumps), *)
(* and the collections of redo logs those threads end with (collections).  *)
(* mutex_ is held over several steps by switch_memfile_ only, so it is     *)
(* held exactly when pc = "switching".                                     *)
(***************************************************************************)
EXTENDS Integers, Sequences, FiniteSets

CONSTANTS Keys,           \* the keys the clients write
          KeySize,        \* bytes of a key
          ValueSize,      \* bytes of a value
          MemCapacity,    \* bytes Memfile reserves (2 MiB)
          MaxImmutables,  \* immutable memfiles that stop the writer (32)
          MaxGc,          \* redo logs one gc_ deletes at most (8)
          GetInvalidates, \* boost::future::get() leaves the future !valid()
          FaultKinds,     \* the operations that may fail
          MaxEntries,     \* bound: entries of one batch
          MaxBatches,     \* bound: batches written
          MaxFaults,      \* bound: failures
          MaxCrashes      \* bound: kills of the process

ASSUME KeysAssumption == IsFiniteSet(Keys)
ASSUME SizesAssumption ==
    /\ KeySize \in Nat /\ ValueSize \in Nat /\ MemCapacity \in Nat
    /\ MaxEntries \in Nat
ASSUME BoundsAssumption ==
    /\ MaxImmutables \in Nat \ {0} /\ MaxGc \in Nat \ {0}
    /\ MaxBatches \in Nat /\ MaxFaults \in Nat /\ MaxCrashes \in Nat
ASSUME FlagsAssumption == GetInvalidates \in BOOLEAN

VARIABLES
    pc,                 \* where the commit thread is
    batch,              \* the batch of the current or last write()
    result,             \* what write() answered; "pending" while it runs
    memfile,            \* memfile_, together with redolog_
    immutable_memfiles, \* immutable_memfiles_, oldest first
    future,             \* Redo_allocator::future_
    meta,               \* DBMeta
    sstables,           \* DBFile_manager::sstables_, as file ids
    dumps,              \* dumps submitted whose callbacks are not finished
    collections,        \* calls of gc_ that have not returned
    passed_over,        \* history: obsolete logs that a gc_ has left behind
    redo_files,         \* the *.redo files: id -> content
    db_files,           \* the *.db files of dumps that succeeded: id -> content
    faults,             \* failures so far
    crashes             \* kills so far

writer == <<pc, batch, result>>
memory == <<memfile, immutable_memfiles>>
tables == <<meta, sstables>>
disk == <<redo_files, db_files>>
collected == <<collections, passed_over>>
vars == <<writer, memory, future, tables, dumps, collected, disk, faults,
          crashes>>
------------------------------------------------------------------------------
(* Contents.  A value is the number of the batch that wrote it.            *)

Absent == 0
Dangling == -1      \* the bytes of the value were freed under its string_view

Batches == [keys : (SUBSET Keys) \ {{}}, entries : Nat, version : Nat]
NoBatch == [keys |-> {}, entries |-> 0, version |-> 0]

Put(content, ks, v) == [k \in Keys |-> IF k \in ks THEN v ELSE content[k]]

Empty == [k \in Keys |-> Absent]

(* A directory with file id holding c; opening with "w" truncates it.      *)
WithFile(files, id, c) ==
    [f \in DOMAIN files \cup {id} |-> IF f = id THEN c ELSE files[f]]

NewMemfile(id) ==
    [redo_id |-> id, content |-> Empty, used |-> 0, capacity |-> MemCapacity]

NullMemfile == NewMemfile(0)

(* Memfile::has_room_for adds up keys and values, known keys included.     *)
HasRoomFor(m, n) == m.used + n * (KeySize + ValueSize) <= m.capacity

(* Memfile::add clones every value, and the keys it does not know.         *)
UsedAfter(m, b) ==
    LET new == {k \in b.keys : m.content[k] = Absent}
    IN m.used + b.entries * ValueSize + Cardinality(new) * KeySize

DumpedContent(q, id) ==
    IF \E i \in DOMAIN q : q[i].redo_id = id
    THEN q[CHOOSE i \in DOMAIN q : q[i].redo_id = id].content
    ELSE Empty

NoFault == UNCHANGED faults

Fault(kind) == /\ kind \in FaultKinds
               /\ faults < MaxFaults
               /\ faults' = faults + 1

NewMetaWithSentinel == [redo_id |-> -1, next_redo_id |-> 1, next_file_id |-> 1,
                        sorted_tables |-> <<>>]

NewMeta == [redo_id |-> 0, next_redo_id |-> 1, next_file_id |-> 1,
            sorted_tables |-> <<>>]

NoFuture == [state |-> "none", id |-> 0]
Pending == [state |-> "pending", id |-> 0]

Locked == pc = "switching"
------------------------------------------------------------------------------
Init == /\ pc = "closed"
        /\ batch = NoBatch
        /\ result = "none"
        /\ memfile = NullMemfile
        /\ immutable_memfiles = <<>>
        /\ future = NoFuture
        /\ meta = NewMeta
        /\ sstables = <<>>
        /\ dumps = {}
        /\ collections = {}
        /\ passed_over = {}
        /\ redo_files = [id \in {} |-> Empty]
        /\ db_files = [id \in {} |-> Empty]
        /\ faults = 0
        /\ crashes = 0

(* The process ends: everything but the files is lost.                     *)
LoseMemory == /\ pc' = "closed"
              /\ result' = "none"
              /\ memfile' = NullMemfile
              /\ immutable_memfiles' = <<>>
              /\ future' = NoFuture
              /\ meta' = NewMeta
              /\ sstables' = <<>>
              /\ dumps' = {}
              /\ collections' = {}
              /\ passed_over' = {}

(* EngineRace::Open: the members start afresh whatever the directory       *)
(* holds, replay_ does nothing, and switch_memfile_ is called without the  *)
(* lock, which nobody can contend for yet.                                 *)
Open == /\ pc = "closed"
        /\ pc' = "opening"
        /\ UNCHANGED <<batch, result, memory, future, tables, dumps,
                       collected, disk, faults, crashes>>
------------------------------------------------------------------------------
(* wait_for_room_ waits while this holds.                                  *)
QueueFullOffByOne == Len(immutable_memfiles) > MaxImmutables
QueueFull == Len(immutable_memfiles) >= MaxImmutables

(* The commit thread: write() with the next batch.  ks are its keys and n  *)
(* its entries, of which later ones overwrite earlier ones of their key.   *)
BeginWrite(ks, n) ==
    /\ pc = "idle"
    /\ batch.version < MaxBatches
    /\ Cardinality(ks) <= n
    /\ batch' = [keys |-> ks, entries |-> n, version |-> batch.version + 1]
    /\ result' = "pending"
    /\ pc' = CASE HasRoomFor(memfile, n) -> "append"
               [] ~HasRoomFor(memfile, n) /\ QueueFull -> "waiting"
               [] OTHER -> "switching"
    /\ UNCHANGED <<memory, future, tables, dumps, collected, disk, faults,
                   crashes>>

(* wait_for_room_ finds room after dump_done_ was notified ...             *)
DumpDoneWakeup ==
    /\ pc = "waiting"
    /\ ~QueueFull
    /\ pc' = "switching"
    /\ UNCHANGED <<batch, result, memory, future, tables, dumps, collected,
                   disk, faults, crashes>>

(* ... or its deadline passes, and it gives up without looking again.      *)
WaitTimesOut ==
    /\ pc = "waiting"
    /\ pc' = "idle"
    /\ result' = "busy"
    /\ UNCHANGED <<batch, memory, future, tables, dumps, collected, disk,
                   faults, crashes>>
------------------------------------------------------------------------------
(* Redo_allocator::allocate requests a log unless future_ holds one.       *)
RequestRedo ==
    /\ pc \in {"opening", "switching"}
    /\ future = NoFuture
    /\ future' = Pending
    /\ UNCHANGED <<writer, memory, tables, dumps, collected, disk, faults,
                   crashes>>

(* The pool thread takes an id and creates the file, or fails to; the      *)
(* constructor of Redo_log may fail before or after fopen.                 *)
AllocRedoUnderMutex ==
    /\ future = Pending
    /\ ~Locked
    /\ meta' = [meta EXCEPT !.next_redo_id = @ + 1]
    /\ future' = [state |-> "ready", id |-> meta.next_redo_id]
    /\ redo_files' = WithFile(redo_files, meta.next_redo_id, Empty)
    /\ UNCHANGED <<writer, memory, sstables, dumps, collected, db_files,
                   crashes, faults>>

AllocRedo ==
    /\ future = Pending
    /\ meta' = [meta EXCEPT !.next_redo_id = @ + 1]
    /\ \/ /\ NoFault
          /\ future' = [state |-> "ready", id |-> meta.next_redo_id]
          /\ redo_files' = WithFile(redo_files, meta.next_redo_id, Empty)
       \/ /\ Fault("alloc")
          /\ future' = [state |-> "failed", id |-> 0]
          /\ redo_files' \in
               {redo_files, WithFile(redo_files, meta.next_redo_id, Empty)}
    /\ UNCHANGED <<writer, memory, sstables, dumps, collected, db_files,
                   crashes>>

(* schedule_dump_ for the queue q, while the dumps in rest are under way.  *)
(* If it fails, the exception is swallowed: the file id is used up and     *)
(* nothing is submitted.                                                   *)
Submit(q, rest) ==
    IF q = <<>>
    THEN dumps' = rest /\ UNCHANGED meta
    ELSE /\ meta' = [meta EXCEPT !.next_file_id = @ + 1]
         /\ dumps' = rest \cup {[pc |-> "queued", files |-> <<>>,
                                 redo_id |-> Head(q).redo_id,
                                 file_id |-> meta.next_file_id]}

ScheduleDump(q, rest) ==
    \/ Submit(q, rest) /\ NoFault
    \/ /\ q # <<>>
       /\ Fault("schedule")
       /\ meta' = [meta EXCEPT !.next_file_id = @ + 1]
       /\ dumps' = rest

(* The queue after switch_memfile_: the full memfile, if any, joins it.    *)
Retire == IF memfile.redo_id = 0 THEN immutable_memfiles
          ELSE Append(immutable_memfiles, memfile)

(* wait_for_room_ schedules a dump if the queue was empty before.          *)
StartsDumpAlways(q) == pc = "switching" /\ Len(q) >= 1
StartsDump(q) == pc = "switching" /\ Len(q) = 1

(* switch_memfile_ succeeds.  The next log is requested at once; if that   *)
(* throws, the old future stays, which get() may have left valid().        *)
SwitchMemfile ==
    /\ pc \in {"opening", "switching"}
    /\ future.state = "ready"
    /\ memfile' = NewMemfile(future.id)
    /\ immutable_memfiles' = Retire
    /\ \/ /\ future' = Pending
          /\ IF StartsDump(Retire) THEN ScheduleDump(Retire, dumps)
             ELSE UNCHANGED <<meta, dumps, faults>>
       \/ /\ Fault("prefetch")
          /\ future' = IF GetInvalidates THEN NoFuture
                       ELSE [state |-> "spent", id |-> 0]
          /\ IF StartsDump(Retire) THEN Submit(Retire, dumps)
             ELSE UNCHANGED <<meta, dumps>>
    /\ pc' = IF pc = "opening" THEN "idle" ELSE "append"
    /\ UNCHANGED <<batch, result, sstables, collected, disk, crashes>>

(* switch_memfile_ throws: get() rethrows the failure of the pool thread,  *)
(* or the new memfile cannot be allocated and the new log is dropped.      *)
(* write() passes it on; Open destroys the half-made engine.               *)
FutureAfterFailure ==
    \/ /\ future.state = "failed"
       /\ future' = IF GetInvalidates THEN NoFuture ELSE future
       /\ NoFault
    \/ /\ future.state = "ready"
       /\ future' = Pending
       /\ Fault("memfile")

SwitchFails ==
    /\ pc = "switching"
    /\ FutureAfterFailure
    /\ pc' = "idle"
    /\ result' = "error"
    /\ UNCHANGED <<batch, memory, tables, dumps, collected, disk, crashes>>

OpenFails ==
    /\ pc = "opening"
    /\ \/ future.state = "failed" /\ NoFault /\ UNCHANGED redo_files
       \/ /\ future.state = "ready"
          /\ Fault("memfile")
          /\ redo_files' \in
               {redo_files, WithFile(redo_files, meta.next_redo_id, Empty)}
    /\ LoseMemory
    /\ UNCHANGED <<batch, db_files, crashes>>
------------------------------------------------------------------------------
(* Redo_log::append writes the batch and flushes it once.  If it fails,    *)
(* some of the records may reach the file all the same, or be left in the  *)
(* buffer of the FILE for the next flush, which counts as reaching it.     *)
Log(ks) == IF memfile.redo_id \in DOMAIN redo_files
           THEN WithFile(redo_files, memfile.redo_id,
                   Put(redo_files[memfile.redo_id], ks, batch.version))
           ELSE redo_files      \* unlinked: the records go with the inode

AppendRedo ==
    /\ pc = "append"
    /\ redo_files' = Log(batch.keys)
    /\ pc' = "add"
    /\ UNCHANGED <<batch, result, memory, future, tables, dumps, collected,
                   db_files, faults, crashes>>

AppendFails ==
    /\ pc = "append"
    /\ Fault("append")
    /\ \E ks \in SUBSET batch.keys : redo_files' = Log(ks)
    /\ pc' = "idle"
    /\ result' = "error"
    /\ UNCHANGED <<batch, memory, future, tables, dumps, collected, db_files,
                   crashes>>

(* Memfile::add.  A batch that outgrows the buffer reallocates it, and the *)
(* string_views made before that dangle.                                   *)
AddToMemfile ==
    /\ pc = "add"
    /\ LET used == UsedAfter(memfile, batch)
           content == Put(memfile.content, batch.keys, batch.version)
           known == {k \in Keys : content[k] # Absent}
       IN \/ /\ used <= memfile.capacity
             /\ memfile' = [memfile EXCEPT !.used = used, !.content = content]
          \/ /\ used > memfile.capacity
             /\ \E ks \in SUBSET known, c \in used .. 2 * used :
                   memfile' = [memfile EXCEPT !.used = used, !.capacity = c,
                                  !.content = Put(content, ks, Dangling)]
    /\ pc' = "idle"
    /\ result' = "done"
    /\ UNCHANGED <<batch, immutable_memfiles, future, tables, dumps,
                   collected, disk, faults, crashes>>
------------------------------------------------------------------------------
(* Dumper::run_, on the dumper's only thread, which takes the dumps in the *)
(* order of their submission.  Each dump refers to its memfile by a bare   *)
(* reference.  A failed dump may leave a file, which nobody ever opens: it *)
(* is not counted.                                                         *)
Dump(d) ==
    /\ d.pc = "queued"
    /\ \A e \in dumps : e.pc = "queued" => d.file_id <= e.file_id
    /\ \/ /\ NoFault
          /\ db_files' = WithFile(db_files, d.file_id,
                             DumpedContent(immutable_memfiles, d.redo_id))
          /\ dumps' = (dumps \ {d}) \cup {[d EXCEPT !.pc = "dumped"]}
       \/ /\ Fault("dump")
          /\ UNCHANGED db_files
          /\ dumps' = (dumps \ {d}) \cup {[d EXCEPT !.pc = "failed"]}
    /\ UNCHANGED <<writer, memory, future, tables, collected, redo_files,
                   crashes>>

OnDumpFailed(d) ==
    /\ d.pc = "failed"
    /\ ~Locked
    /\ ScheduleDump(immutable_memfiles, dumps \ {d})
    /\ UNCHANGED <<writer, memory, future, sstables, collected, disk,
                   crashes>>

(* on_dump_completed_, a step per access to shared state.                  *)
BuildNewStateForgetsTables(d) ==
    /\ d.pc = "dumped"
    /\ dumps' = (dumps \ {d}) \cup
                {[d EXCEPT !.pc = "built", !.files = <<d.file_id>>]}
    /\ UNCHANGED <<writer, memory, future, tables, collected, disk, faults,
                   crashes>>

BuildNewState(d) ==
    /\ d.pc = "dumped"
    /\ dumps' = (dumps \ {d}) \cup
                {[d EXCEPT !.pc = "built",
                           !.files = Append(sstables, d.file_id)]}
    /\ UNCHANGED <<writer, memory, future, tables, collected, disk, faults,
                   crashes>>

Checkpoint(d) ==
    /\ d.pc = "built"
    /\ meta' = [meta EXCEPT !.redo_id = d.redo_id,
                            !.sorted_tables = Append(@, d.file_id)]
    /\ dumps' = (dumps \ {d}) \cup {[d EXCEPT !.pc = "checkpointed"]}
    /\ UNCHANGED <<writer, memory, future, sstables, collected, disk, faults,
                   crashes>>

(* build_new_state or checkpoint throws: the whole callback runs again.    *)
CompletionThrowsAfterCheckpoint(d) ==
    /\ d.pc \in {"dumped", "built", "checkpointed"}
    /\ Fault("install")
    /\ dumps' = (dumps \ {d}) \cup
                {[d EXCEPT !.pc = "dumped", !.files = <<>>]}
    /\ UNCHANGED <<writer, memory, future, tables, collected, disk, crashes>>

CompletionThrows(d) ==
    /\ d.pc \in {"dumped", "built"}
    /\ Fault("install")
    /\ dumps' = (dumps \ {d}) \cup
                {[d EXCEPT !.pc = "dumped", !.files = <<>>]}
    /\ UNCHANGED <<writer, memory, future, tables, collected, disk, crashes>>

Apply(d) ==
    /\ d.pc = "checkpointed"
    /\ sstables' = d.files
    /\ dumps' = (dumps \ {d}) \cup {[d EXCEPT !.pc = "applied"]}
    /\ UNCHANGED <<writer, memory, future, meta, collected, disk, faults,
                   crashes>>

(* pop_front, schedule_dump_ and, after the unlock, gc_.                   *)
BeginGc(d) == collections' = collections \cup
                  {[pc |-> "begin", dump |-> d.redo_id, older |-> 0,
                    to_be_deleted |-> {}]}

RescheduleAndPop(d) ==
    /\ d.pc = "applied"
    /\ ~Locked
    /\ immutable_memfiles # <<>>
    /\ ScheduleDump(immutable_memfiles, dumps \ {d})
    /\ immutable_memfiles' = Tail(immutable_memfiles)
    /\ BeginGc(d)
    /\ UNCHANGED <<writer, memfile, future, sstables, passed_over, disk, crashes>>

PopWithoutReschedule(d) ==
    /\ d.pc = "applied"
    /\ ~Locked
    /\ immutable_memfiles # <<>>
    /\ immutable_memfiles' = Tail(immutable_memfiles)
    /\ dumps' = dumps \ {d} /\ NoFault
    /\ BeginGc(d)
    /\ UNCHANGED <<writer, memfile, future, tables, passed_over, disk, crashes>>

PopWithoutGc(d) ==
    /\ d.pc = "applied"
    /\ ~Locked
    /\ immutable_memfiles # <<>>
    /\ immutable_memfiles' = Tail(immutable_memfiles)
    /\ ScheduleDump(Tail(immutable_memfiles), dumps \ {d})
    /\ UNCHANGED <<writer, memfile, future, sstables, collected, disk, crashes>>

PopAndReschedule(d) ==
    /\ d.pc = "applied"
    /\ ~Locked
    /\ immutable_memfiles # <<>>
    /\ immutable_memfiles' = Tail(immutable_memfiles)
    /\ ScheduleDump(Tail(immutable_memfiles), dumps \ {d})
    /\ BeginGc(d)
    /\ UNCHANGED <<writer, memfile, future, sstables, passed_over, disk, crashes>>
------------------------------------------------------------------------------
(* gc_, on the thread of a dump's callback: the next dump's callback may   *)
(* checkpoint, and collect, at the same time.                              *)
OlderOrEqual(id) == {f \in DOMAIN redo_files : f <= id}
OlderThan(id) == {f \in DOMAIN redo_files : f < id}

Obsolete == OlderThan(meta.redo_id)

Rest(g) == collections \ {g}

(* It reads the checkpoint once; ...                                       *)
GcReadsMemfile(g) ==
    /\ g.pc = "begin"
    /\ collections' = Rest(g) \cup {[g EXCEPT !.pc = "list", !.older = memfile.redo_id]}
    /\ UNCHANGED <<writer, memory, future, tables, dumps, passed_over, disk,
                   faults, crashes>>

GcReadsCheckpoint(g) ==
    /\ g.pc = "begin"
    /\ collections' = Rest(g) \cup {[g EXCEPT !.pc = "list", !.older = meta.redo_id]}
    /\ UNCHANGED <<writer, memory, future, tables, dumps, passed_over, disk,
                   faults, crashes>>

(* ... takes older logs in the order of the directory, at most MaxGc, and  *)
(* removes them one by one: another collection may have done so.  It       *)
(* returns when none is left.                                              *)
Deleting(g, some) == IF some = {} THEN {}
                     ELSE {[g EXCEPT !.pc = "remove", !.to_be_deleted = some]}

GcLists(g) ==
    /\ g.pc = "list"
    /\ LET older == OlderThan(g.older)
       IN \E some \in SUBSET older :
             /\ Cardinality(some) <= MaxGc
             /\ some = older \/ Cardinality(some) = MaxGc
             /\ collections' = Rest(g) \cup Deleting(g, some)
             /\ passed_over' = passed_over \cup (older \ some)
    /\ UNCHANGED <<writer, memory, future, tables, dumps, disk, faults, crashes>>

GcRemoves(g) ==
    /\ \E id \in g.to_be_deleted :
          /\ redo_files' = [f \in DOMAIN redo_files \ {id} |-> redo_files[f]]
          /\ collections' = Rest(g) \cup Deleting(g, g.to_be_deleted \ {id})
          /\ passed_over' = passed_over \ {id}
    /\ UNCHANGED <<writer, memory, future, tables, dumps, db_files, faults,
                   crashes>>

(* Where it throws, the rest stays.                                        *)
Due(g) == CASE g.pc = "begin" -> Obsolete
            [] g.pc = "list" -> OlderThan(g.older)
            [] g.pc = "remove" -> g.to_be_deleted

GcFails(g) ==
    /\ Due(g) # {}
    /\ Fault("gc")
    /\ collections' = Rest(g)
    /\ passed_over' = passed_over \cup Due(g)
    /\ UNCHANGED <<writer, memory, future, tables, dumps, disk, crashes>>
------------------------------------------------------------------------------
(* The end of the process: it is killed; ...                               *)
Crash == /\ pc # "closed"
         /\ crashes < MaxCrashes
         /\ crashes' = crashes + 1
         /\ LoseMemory
         /\ UNCHANGED <<batch, disk, faults>>

(* ... a logged batch cannot be added to the memfile, and write() calls    *)
(* std::terminate; ...                                                     *)
Terminate == /\ pc = "add"
             /\ Fault("add")
             /\ LoseMemory
             /\ UNCHANGED <<batch, disk, crashes>>

(* ... or get() hands out again the log it has moved out before, and       *)
(* switch_memfile_ asks the null pointer for its id.                       *)
UseSpentLog == /\ pc = "switching"
               /\ future.state = "spent"
               /\ LoseMemory
               /\ UNCHANGED <<batch, disk, faults, crashes>>
------------------------------------------------------------------------------
Begin == \E ks \in (SUBSET Keys) \ {{}}, n \in 1 .. MaxEntries :
            BeginWrite(ks, n)

Commit == \/ DumpDoneWakeup
          \/ WaitTimesOut
          \/ RequestRedo
          \/ SwitchMemfile
          \/ SwitchFails
          \/ UseSpentLog
          \/ AppendRedo
          \/ AppendFails
          \/ AddToMemfile
          \/ Terminate

DumperStep(d) == \/ Dump(d)
                 \/ OnDumpFailed(d)
                 \/ BuildNewState(d)
                 \/ Checkpoint(d)
                 \/ CompletionThrows(d)
                 \/ Apply(d)
                 \/ PopAndReschedule(d)

Gc(g) == \/ GcReadsCheckpoint(g)
         \/ GcLists(g)
         \/ GcRemoves(g)
         \/ GcFails(g)

Collect == \E g \in collections : Gc(g)

Next == \/ Open
        \/ OpenFails
        \/ Begin
        \/ Commit
        \/ AllocRedo
        \/ \E d \in dumps : DumperStep(d)
        \/ Collect
        \/ Crash

Spec == Init /\ [][Next]_vars

(* Every thread goes on: the commit thread, whose wait has a deadline, the *)
(* pool thread, the dumper with its continuations, the collections.  That  *)
(* a client writes or opens, and that the process dies, is never assumed.  *)
Fairness == /\ WF_vars(Commit)
            /\ WF_vars(AllocRedo)
            /\ WF_vars(\E d \in dumps : DumperStep(d))
            /\ WF_vars(Collect)

FairSpec == Spec /\ Fairness
------------------------------------------------------------------------------
(* Types                                                                   *)

Contents == [Keys -> Int]
Memfiles == [redo_id : Nat, content : Contents, used : Nat, capacity : Nat]
Dumps == [pc : {"queued", "dumped", "failed", "built", "checkpointed",
                "applied"},
          redo_id : Nat, file_id : Nat, files : Seq(Nat)]
Collections == [pc : {"begin", "list", "remove"}, dump : Nat, older : Nat,
                to_be_deleted : SUBSET Nat]

(* Every variable keeps the shape of the member it stands for.             *)
TypeOK ==
    /\ pc \in {"closed", "opening", "idle", "waiting", "switching", "append",
               "add"}
    /\ batch \in Batches \cup {NoBatch}
    /\ result \in {"none", "pending", "done", "busy", "error"}
    /\ memfile \in Memfiles
    /\ immutable_memfiles \in Seq(Memfiles)
    /\ future \in [state : {"none", "pending", "ready", "failed", "spent"},
                   id : Nat]
    /\ meta \in [redo_id : Nat, next_redo_id : Nat, next_file_id : Nat,
                 sorted_tables : Seq(Nat)]
    /\ sstables \in Seq(Nat)
    /\ dumps \subseteq Dumps
    /\ collections \subseteq Collections
    /\ passed_over \subseteq Nat
    /\ DOMAIN redo_files \subseteq Nat
    /\ redo_files \in [DOMAIN redo_files -> [Keys -> Nat]]
    /\ DOMAIN db_files \subseteq Nat
    /\ db_files \in [DOMAIN db_files -> Contents]
    /\ faults \in Nat
    /\ crashes \in Nat
------------------------------------------------------------------------------
(* What the engine holds, oldest layer first: the installed tables, the    *)
(* immutable memfiles, the memfile.  The newest layer that has a key has   *)
(* its value.  (What Read makes of the tables is EngineRead's subject.)    *)

TableContent(f) == IF f \in DOMAIN db_files THEN db_files[f] ELSE Empty

Layers == [i \in 1 .. Len(sstables) |-> TableContent(sstables[i])]
          \o [i \in 1 .. Len(immutable_memfiles) |->
                 immutable_memfiles[i].content]
          \o <<memfile.content>>

Newest(layers, k) ==
    LET hits == {i \in DOMAIN layers : layers[i][k] # Absent}
    IN IF hits = {} THEN Absent
       ELSE layers[CHOOSE i \in hits : \A j \in hits : j <= i][k]

View == [k \in Keys |-> Newest(Layers, k)]

LiveMemfiles ==
    {immutable_memfiles[i] : i \in DOMAIN immutable_memfiles}
    \cup (IF memfile.redo_id = 0 THEN {} ELSE {memfile})
------------------------------------------------------------------------------
(* Safety                                                                  *)

(* The writer is held back at MaxImmutables full memfiles, whatever the    *)
(* dumper, its failures and the deadlines do (wait_for_room_).             *)
ImmutablesBounded == Len(immutable_memfiles) <= MaxImmutables

(* At most one dump is under way, and it is of the oldest immutable        *)
(* memfile, which therefore outlives the dumper's bare reference to it;    *)
(* "serialized by the dumper" in engine_race.cpp rests on this, though the *)
(* callbacks run on threads of their own.                                  *)
OneDumpOfTheOldest ==
    \A d \in dumps :
        /\ immutable_memfiles # <<>>
        /\ d.redo_id = Head(immutable_memfiles).redo_id
        /\ \A e \in dumps : e = d

(* The assertions of DBMeta::checkpoint never fail: checkpoints advance,   *)
(* although redo ids are taken by a pool thread and spent on failures.     *)
CheckpointAsserts ==
    \A d \in dumps : d.pc = "built" =>
        meta.redo_id < d.redo_id /\ d.redo_id < meta.next_redo_id

(* Nothing is in memory only: the log of every memfile still alive exists  *)
(* (gc_ is never early) and has its values or later ones.                  *)
Covered(m) == /\ m.redo_id \in DOMAIN redo_files
              /\ \A k \in Keys : m.content[k] <= redo_files[m.redo_id][k]

WalCoversMemory == \A m \in LiveMemfiles : Covered(m)

(* Every value the engine holds is in a redo log or in a table that the    *)
(* checkpoint lists, at every moment of a switch, a dump, a checkpoint and *)
(* a collection: a process killed now leaves it to a replay.               *)
EveryValueOnDisk ==
    \A k \in Keys : View[k] # Absent =>
        \/ \E id \in DOMAIN redo_files : redo_files[id][k] >= View[k]
        \/ \E i \in DOMAIN meta.sorted_tables :
              TableContent(meta.sorted_tables[i])[k] = View[k]

(* DBMeta and DBFile_manager agree on the tables, except between checkpoint*)
(* and apply, when the new list is the one about to be applied; and every  *)
(* table listed is a file (that of a failed dump may not exist).           *)
TablesMatchManifest ==
    /\ \/ meta.sorted_tables = sstables
       \/ \E d \in dumps : d.pc = "checkpointed" /\ meta.sorted_tables = d.files
    /\ \A i \in DOMAIN meta.sorted_tables :
          meta.sorted_tables[i] \in DOMAIN db_files

(* Why the properties above hold; an inductive invariant in named parts.   *)

(* A closed or opening engine has no memfile, and so nothing to dump.      *)
Lifecycle ==
    /\ (pc \in {"closed", "opening"}) <=> (memfile.redo_id = 0)
    /\ memfile.redo_id = 0 => /\ immutable_memfiles = <<>>
                              /\ meta.redo_id = 0
    /\ pc = "switching" => ~QueueFull

(* Redo ids grow from the checkpoint over the queue and the memfile to the *)
(* log made in advance and the next id.                                    *)
RedoOrder ==
    /\ meta.next_redo_id > memfile.redo_id
    /\ future.state = "ready" => /\ memfile.redo_id < future.id
                                 /\ future.id < meta.next_redo_id
    /\ \A i \in DOMAIN immutable_memfiles :
          /\ meta.redo_id <= immutable_memfiles[i].redo_id
          /\ immutable_memfiles[i].redo_id < memfile.redo_id
    /\ \A i, j \in DOMAIN immutable_memfiles :
          i < j => immutable_memfiles[i].redo_id < immutable_memfiles[j].redo_id
    /\ memfile.redo_id # 0 => meta.redo_id < memfile.redo_id

(* The checkpoint has reached the memfile being dumped exactly when the    *)
(* dump is past it; without a dump the whole queue is ahead of it.         *)
DumpOrder ==
    /\ \A d \in dumps : IF d.pc \in {"checkpointed", "applied"}
                        THEN meta.redo_id = d.redo_id
                        ELSE meta.redo_id < d.redo_id
    /\ dumps = {} => \A i \in DOMAIN immutable_memfiles :
                        meta.redo_id < immutable_memfiles[i].redo_id

(* Nothing in the memfile is newer than the batch, and when the batch is   *)
(* about to be added it is in the log; a log made in advance exists.       *)
WalAhead ==
    /\ \A k \in Keys : memfile.content[k] <= batch.version
    /\ pc = "add" => \A k \in batch.keys :
                        redo_files[memfile.redo_id][k] >= batch.version
    /\ future.state = "ready" => future.id \in DOMAIN redo_files

Inductive == /\ TypeOK
             /\ Lifecycle
             /\ ImmutablesBounded
             /\ RedoOrder
             /\ OneDumpOfTheOldest
             /\ DumpOrder
             /\ WalAhead
             /\ WalCoversMemory

(* A collection is after nothing but logs older than the checkpoint; with  *)
(* this, Inductive is inductive.                                           *)
CollectsOld ==
    \A g \in collections : /\ g.older <= meta.redo_id
                           /\ \A id \in g.to_be_deleted : id < g.older

(* The tables in use are files, with ids handed out before.                *)
TablesOnDisk == \A i \in DOMAIN sstables : /\ sstables[i] \in DOMAIN db_files
                                           /\ sstables[i] < meta.next_file_id

(* What a dump has written, and how far the lists know of it: its file     *)
(* has an id of its own, holds the oldest immutable memfile once dumped,   *)
(* and is the last of DBMeta's list, then of DBFile_manager's.             *)
DumpInstalled(d) ==
    /\ d.file_id < meta.next_file_id
    /\ d.pc # "applied" => \A i \in DOMAIN sstables : sstables[i] < d.file_id
    /\ d.pc \in {"dumped", "built", "checkpointed", "applied"} =>
          /\ d.file_id \in DOMAIN db_files
          /\ db_files[d.file_id] = Head(immutable_memfiles).content
    /\ d.pc \in {"built", "checkpointed"} => d.files = Append(sstables, d.file_id)
    /\ d.pc = "checkpointed" => meta.sorted_tables = d.files
    /\ d.pc = "applied" => /\ sstables # <<>>
                           /\ sstables[Len(sstables)] = d.file_id

NoneCheckpointed == \A d \in dumps : d.pc # "checkpointed"

Manifest ==
    /\ memfile.redo_id = 0 => memfile.content = Empty /\ sstables = <<>>
    /\ TablesOnDisk
    /\ \A d \in dumps : DumpInstalled(d)
    /\ NoneCheckpointed => meta.sorted_tables = sstables

(* write() runs exactly while its answer is pending, with a batch that     *)
(* has a number and no more keys than entries.                             *)
Writing == pc \in {"waiting", "switching", "append", "add"}

WriterState == /\ (result = "pending") <=> Writing
               /\ Writing => /\ batch.version > 0
                             /\ Cardinality(batch.keys) <= batch.entries
                             /\ batch.entries <= MaxEntries

DiskInductive == Inductive /\ CollectsOld /\ Manifest /\ WriterState

(* No batch outgrows an empty memfile (the code does not see to this), and *)
(* so the memfile a batch is added to has room for it.                     *)
BatchesFit == MaxEntries * (KeySize + ValueSize) <= MemCapacity

RoomForBatch == pc \in {"append", "add"} => HasRoomFor(memfile, batch.entries)

(* README.md v7: a memfile allocates its 2MB once; the string_views into   *)
(* its buffer stay good.                                                   *)
ViewsStayGood == \A m \in LiveMemfiles, k \in Keys : m.content[k] # Dangling

(* The write path implements the store of KvUpdater: each write() changes  *)
(* what the engine holds atomically, and only if it answers "done"; switches,  *)
(* dumps, checkpoints, collections and failures change nothing.            *)
Kv == INSTANCE KvUpdater WITH store <- View
ImplementsKvUpdater == Kv!KvSpec
------------------------------------------------------------------------------
(* Liveness                                                                *)

(* Every write() returns: the wait for room has a deadline, and the wait   *)
(* for a log under mutex_ does not depend on anyone who needs mutex_.      *)
WriteReturns == (result = "pending") ~> (result # "pending")

RedoIds == 1 .. MaxBatches + MaxFaults - 1
Waits(id) == \E i \in DOMAIN immutable_memfiles :
                immutable_memfiles[i].redo_id = id

(* Every immutable memfile is dumped and leaves the queue, after finitely  *)
(* many failures of dumps and of their installation.                       *)
ImmutablesDrain == \A id \in RedoIds : Waits(id) ~> ~Waits(id)

(* Every obsolete redo log is removed, unless a collection has passed it   *)
(* over and no other is about to remove it: gc_ gives up where it throws   *)
(* and after MaxGc logs, and without a later dump nobody comes back for    *)
(* the rest.                                                               *)
LeftBehind(id) == /\ id \in passed_over
                  /\ \A g \in collections : id \notin g.to_be_deleted

RedoReclaimed == \A id \in RedoIds :
                    (id \in Obsolete) ~> (id \notin Obsolete \/ LeftBehind(id))
==============================================================================
