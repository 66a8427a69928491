-------------------------- MODULE EngineRace_proof --------------------------
(***************************************************************************)
(* Theorems about EngineRace, for any keys, sizes, limits, kinds and       *)
(* numbers of failures, numbers of batches and of kills.                   *)
(***************************************************************************)
EXTENDS EngineRace, FiniteSetTheorems, SequenceTheorems, WellFoundedInduction,
        TLAPS

USE DEF Absent, Dangling

------------------------------------------------------------------------------
(* Lemmas on the operators of the model                                    *)

(* A directory keeps its type when a file is created or truncated.         *)
LEMMA RedoFileType ==
    ASSUME TypeOK, NEW id \in Nat, NEW c \in [Keys -> Nat],
           redo_files' = WithFile(redo_files, id, c)
    PROVE  /\ DOMAIN redo_files' \subseteq Nat
           /\ redo_files' \in [DOMAIN redo_files' -> [Keys -> Nat]]
BY DEF WithFile, TypeOK

(* The same of the directory of tables.                                    *)
LEMMA DbFileType ==
    ASSUME TypeOK, NEW id \in Nat, NEW c \in Contents,
           db_files' = WithFile(db_files, id, c)
    PROVE  /\ DOMAIN db_files' \subseteq Nat
           /\ db_files' \in [DOMAIN db_files' -> Contents]
BY DEF WithFile, TypeOK

(* A batch replaces the values of its keys and of no others.               *)
LEMMA PutValue ==
    ASSUME NEW content, NEW ks, NEW v, NEW k \in Keys
    PROVE  Put(content, ks, v)[k] = IF k \in ks THEN v ELSE content[k]
BY DEF Put

(* A batch put on top of what a redo log holds is again what a redo log    *)
(* holds.                                                                  *)
LEMMA PutLogged ==
    ASSUME NEW content \in [Keys -> Nat], NEW ks, NEW v \in Nat
    PROVE  Put(content, ks, v) \in [Keys -> Nat]
BY DEF Put

(* A batch put on top of a content is a content.                           *)
LEMMA PutContents ==
    ASSUME NEW content \in Contents, NEW ks, NEW v \in Int
    PROVE  Put(content, ks, v) \in Contents
BY DEF Put, Contents

(* A new memfile is typed, has the id of its redo log and holds nothing.   *)
LEMMA NewMemfileType ==
    ASSUME NEW id \in Nat
    PROVE  /\ NewMemfile(id) \in Memfiles
           /\ NewMemfile(id).redo_id = id
           /\ NewMemfile(id).content = Empty
BY SizesAssumption DEF NewMemfile, Memfiles, Contents, Empty

(* The bytes a batch takes are a natural number.                           *)
LEMMA UsedAfterType ==
    ASSUME NEW m \in Memfiles, NEW b \in Batches
    PROVE  UsedAfter(m, b) \in Nat
<1> DEFINE new == {k \in b.keys : m.content[k] = Absent}
<1>1. IsFiniteSet(new)
  BY KeysAssumption, FS_Subset, new \subseteq Keys DEF Batches
<1>2. Cardinality(new) \in Nat
  BY <1>1, FS_CardinalityType
<1>3. m.used \in Nat /\ b.entries \in Nat
  BY DEF Memfiles, Batches
<1>4. b.entries * ValueSize \in Nat
  BY <1>3, SizesAssumption
<1> HIDE DEF new
<1>5. Cardinality(new) * KeySize \in Nat
  BY <1>2, SizesAssumption
<1>6. m.used + b.entries * ValueSize + Cardinality(new) * KeySize \in Nat
  BY <1>3, <1>4, <1>5
<1> QED BY <1>6 DEF UsedAfter, new

(* What the dumper writes is the content of a memfile.                     *)
LEMMA DumpedContentType ==
    ASSUME NEW q \in Seq(Memfiles), NEW id
    PROVE  DumpedContent(q, id) \in Contents
<1>1. \A i \in DOMAIN q : q[i].content \in Contents
  <2> TAKE i \in DOMAIN q
  <2>1. q[i] \in Memfiles
    OBVIOUS
  <2> QED BY <2>1 DEF Memfiles
<1>2. Empty \in Contents
  BY DEF Empty, Contents
<1>3. CASE \E i \in DOMAIN q : q[i].redo_id = id
  <2> DEFINE i == CHOOSE i \in DOMAIN q : q[i].redo_id = id
  <2>1. i \in DOMAIN q
    BY <1>3
  <2> QED BY <1>1, <1>3, <2>1 DEF DumpedContent
<1> QED BY <1>2, <1>3 DEF DumpedContent

(* schedule_dump_ keeps the types of what it changes.                      *)
LEMMA ScheduleType ==
    ASSUME TypeOK, NEW q \in Seq(Memfiles), NEW rest, rest \subseteq Dumps,
           ScheduleDump(q, rest) \/ (Submit(q, rest) /\ faults' \in Nat)
    PROVE  /\ meta' \in [redo_id : Nat, next_redo_id : Nat,
                         next_file_id : Nat, sorted_tables : Seq(Nat)]
           /\ dumps' \subseteq Dumps
           /\ faults' \in Nat
           /\ meta'.redo_id = meta.redo_id
           /\ meta'.next_redo_id = meta.next_redo_id
           /\ meta'.sorted_tables = meta.sorted_tables
<1>1. ASSUME q # <<>> PROVE Head(q).redo_id \in Nat
  <2>1. Head(q) \in Memfiles
    BY <1>1
  <2> QED BY <2>1 DEF Memfiles
<1>2. <<>> \in Seq(Nat)
  OBVIOUS
<1>3. meta.next_file_id \in Nat /\ meta.next_file_id + 1 \in Nat
  BY DEF TypeOK
<1>4. ASSUME q # <<>>
      PROVE [pc |-> "queued", files |-> <<>>, redo_id |-> Head(q).redo_id,
             file_id |-> meta.next_file_id] \in Dumps
  BY <1>1, <1>2, <1>3, <1>4 DEF Dumps
<1>5. faults' \in Nat
  BY DEF ScheduleDump, Fault, NoFault, TypeOK
<1>6. CASE meta' = meta /\ dumps' = rest
  BY <1>5, <1>6 DEF TypeOK
<1>7. CASE /\ meta' = [meta EXCEPT !.next_file_id = @ + 1]
           /\ dumps' = rest
  BY <1>3, <1>5, <1>7 DEF TypeOK
<1>8. CASE /\ q # <<>>
           /\ meta' = [meta EXCEPT !.next_file_id = @ + 1]
           /\ dumps' = rest \cup {[pc |-> "queued", files |-> <<>>,
                                   redo_id |-> Head(q).redo_id,
                                   file_id |-> meta.next_file_id]}
  BY <1>3, <1>4, <1>5, <1>8 DEF TypeOK
<1> QED BY <1>6, <1>7, <1>8 DEF ScheduleDump, Submit
------------------------------------------------------------------------------
(* Every variable keeps its type, in one step per action.                  *)
LEMMA InitType == Init => TypeOK
<1> SUFFICES ASSUME Init PROVE TypeOK
  OBVIOUS
<1>1. NullMemfile \in Memfiles
  BY NewMemfileType DEF NullMemfile
<1>2. <<>> \in Seq(Memfiles) /\ <<>> \in Seq(Nat)
  OBVIOUS
<1>3. NewMeta \in [redo_id : Nat, next_redo_id : Nat, next_file_id : Nat,
                   sorted_tables : Seq(Nat)]
  BY <1>2 DEF NewMeta
<1>4. \A T : [id \in {} |-> Empty] \in [{} -> T]
  OBVIOUS
<1> QED BY <1>1, <1>2, <1>3, <1>4 DEF Init, TypeOK, NoBatch, NoFuture

(* Losing the memory keeps the types.                                      *)
LEMMA LoseMemoryType ==
    ASSUME TypeOK, LoseMemory, batch' = batch, faults' \in Nat, crashes' \in Nat,
           DOMAIN redo_files' \subseteq Nat,
           redo_files' \in [DOMAIN redo_files' -> [Keys -> Nat]],
           UNCHANGED db_files
    PROVE  TypeOK'
<1>1. NullMemfile \in Memfiles
  BY NewMemfileType DEF NullMemfile
<1>2. <<>> \in Seq(Memfiles) /\ <<>> \in Seq(Nat)
  OBVIOUS
<1>3. NewMeta \in [redo_id : Nat, next_redo_id : Nat, next_file_id : Nat,
                   sorted_tables : Seq(Nat)]
  BY <1>2 DEF NewMeta
<1>4. pc' = "closed" /\ result' = "none" /\ memfile' \in Memfiles
      /\ immutable_memfiles' \in Seq(Memfiles) /\ collections' = {} /\ passed_over' = {}
      /\ sstables' \in Seq(Nat) /\ dumps' \subseteq Dumps
  BY <1>1, <1>2 DEF LoseMemory
<1>5. future' \in [state : {"none", "pending", "ready", "failed", "spent"},
                   id : Nat]
  BY DEF LoseMemory, NoFuture
<1>6. meta' \in [redo_id : Nat, next_redo_id : Nat, next_file_id : Nat,
                 sorted_tables : Seq(Nat)]
  BY <1>3 DEF LoseMemory
<1> QED BY <1>4, <1>5, <1>6 DEF TypeOK

(* A collection changes itself and what it passes over, and removes one of *)
(* the logs it has listed.                                                 *)
LEMMA GcEffect ==
    ASSUME TypeOK, NEW g \in collections, Gc(g)
    PROVE  /\ UNCHANGED <<pc, batch, result, memfile, immutable_memfiles, future,
                         meta, sstables, dumps, db_files, crashes>>
           /\ faults' \in Nat
           /\ \/ redo_files' = redo_files
              \/ \E id \in g.to_be_deleted :
                    redo_files' = [f \in DOMAIN redo_files \ {id} |-> redo_files[f]]
<1> USE DEF writer, memory, tables, disk
<1>1. CASE GcReadsCheckpoint(g)
  BY <1>1 DEF GcReadsCheckpoint, TypeOK
<1>2. CASE GcLists(g)
  BY <1>2 DEF GcLists, TypeOK
<1>3. CASE GcRemoves(g)
  BY <1>3 DEF GcRemoves, TypeOK
<1>4. CASE GcFails(g)
  BY <1>4 DEF GcFails, Fault, TypeOK
<1> QED BY <1>1, <1>2, <1>3, <1>4 DEF Gc

(* Where it goes: it ends, has read the checkpoint, or has logs to remove  *)
(* that it has found older than the checkpoint it read.                    *)
LEMMA GcMovesOn ==
    ASSUME TypeOK, NEW g \in collections, Gc(g)
    PROVE  \/ collections' = Rest(g)
           \/ GcReadsCheckpoint(g)
           \/ \E some : /\ some \subseteq OlderThan(g.older) \cup g.to_be_deleted
                        /\ collections' = Rest(g) \cup
                              {[g EXCEPT !.pc = "remove", !.to_be_deleted = some]}
<1>2. ASSUME NEW some, collections' = Rest(g) \cup Deleting(g, some)
      PROVE  \/ collections' = Rest(g)
             \/ collections' = Rest(g) \cup
                   {[g EXCEPT !.pc = "remove", !.to_be_deleted = some]}
  BY <1>2 DEF Deleting
<1>3. CASE GcLists(g)
  <2>1. PICK some \in SUBSET OlderThan(g.older) :
           collections' = Rest(g) \cup Deleting(g, some)
    BY <1>3 DEF GcLists
  <2>2. some \subseteq OlderThan(g.older) \cup g.to_be_deleted
    OBVIOUS
  <2> QED BY <1>2, <2>1, <2>2
<1>4. CASE GcRemoves(g)
  <2>1. PICK id \in g.to_be_deleted :
           collections' = Rest(g) \cup Deleting(g, g.to_be_deleted \ {id})
    BY <1>4 DEF GcRemoves
  <2> DEFINE some == g.to_be_deleted \ {id}
  <2>2. some \subseteq OlderThan(g.older) \cup g.to_be_deleted
    OBVIOUS
  <2>3. collections' = Rest(g) \cup Deleting(g, some)
    BY <2>1
  <2> HIDE DEF some
  <2> QED BY <1>2, <2>2, <2>3
<1>5. CASE GcFails(g)
  BY <1>5 DEF GcFails
<1> QED BY <1>3, <1>4, <1>5 DEF Gc

LEMMA GcType ==
    ASSUME TypeOK, NEW g \in collections, Gc(g)
    PROVE  TypeOK'
<1>1. /\ g \in Collections /\ meta.redo_id \in Nat /\ DOMAIN redo_files \subseteq Nat
      /\ collections \subseteq Collections /\ passed_over \subseteq Nat
  BY DEF TypeOK
<1>2. OlderThan(g.older) \subseteq Nat /\ OlderThan(meta.redo_id) \subseteq Nat
  BY <1>1 DEF OlderThan
<1>3. collections' \subseteq Collections
  <2>1. Rest(g) \subseteq Collections
    BY <1>1 DEF Rest
  <2>2. [g EXCEPT !.pc = "list", !.older = meta.redo_id] \in Collections
    BY <1>1 DEF Collections
  <2>3. ASSUME NEW some, some \subseteq OlderThan(g.older) \cup g.to_be_deleted
        PROVE  [g EXCEPT !.pc = "remove", !.to_be_deleted = some] \in Collections
    BY <1>1, <1>2, <2>3 DEF Collections
  <2> QED BY <2>1, <2>2, <2>3, GcMovesOn DEF GcReadsCheckpoint
<1>4. passed_over' \subseteq Nat
  <2>1. CASE GcReadsCheckpoint(g)
    BY <1>1, <2>1 DEF GcReadsCheckpoint
  <2>2. CASE GcLists(g)
    BY <1>1, <1>2, <2>2 DEF GcLists
  <2>3. CASE GcRemoves(g)
    BY <1>1, <2>3 DEF GcRemoves
  <2>4. CASE GcFails(g)
    <3>1. Due(g) \subseteq Nat
      BY <1>1, <1>2 DEF Due, Obsolete, Collections
    <3> QED BY <1>1, <2>4, <3>1 DEF GcFails
  <2> QED BY <2>1, <2>2, <2>3, <2>4 DEF Gc
<1>5. /\ DOMAIN redo_files' \subseteq Nat
      /\ redo_files' \in [DOMAIN redo_files' -> [Keys -> Nat]]
  <2>1. CASE redo_files' = redo_files
    BY <2>1 DEF TypeOK
  <2>2. ASSUME NEW id,
               redo_files' = [f \in DOMAIN redo_files \ {id} |-> redo_files[f]]
        PROVE  /\ DOMAIN redo_files' \subseteq Nat
               /\ redo_files' \in [DOMAIN redo_files' -> [Keys -> Nat]]
    BY <2>2 DEF TypeOK
  <2> QED BY <2>1, <2>2, GcEffect
<1> QED BY <1>3, <1>4, <1>5, GcEffect DEF TypeOK

(* Every step keeps the types.                                             *)
LEMMA NextType == ASSUME TypeOK, [Next]_vars PROVE TypeOK'
<1> USE DEF Batches, collected
<1>1. CASE Open
  BY <1>1 DEF Open, TypeOK, memory, tables, disk
<1>2. CASE OpenFails
  <2>1. \/ UNCHANGED redo_files
        \/ redo_files' = WithFile(redo_files, meta.next_redo_id, Empty)
    BY <1>2 DEF OpenFails
  <2>2. /\ DOMAIN redo_files' \subseteq Nat
        /\ redo_files' \in [DOMAIN redo_files' -> [Keys -> Nat]]
    <3>1. Empty \in [Keys -> Nat] /\ meta.next_redo_id \in Nat
      BY DEF Empty, TypeOK
    <3>2. CASE UNCHANGED redo_files
      BY <3>2 DEF TypeOK
    <3> QED BY <2>1, <3>1, <3>2, RedoFileType
  <2>3. faults' \in Nat
    BY <1>2 DEF OpenFails, NoFault, Fault, TypeOK
  <2>4. batch' = batch /\ crashes' \in Nat /\ UNCHANGED db_files
    BY <1>2 DEF OpenFails, TypeOK
  <2> QED BY <1>2, <2>2, <2>3, <2>4, LoseMemoryType DEF OpenFails
<1>3. CASE Begin
  <2>1. PICK ks \in (SUBSET Keys) \ {{}}, n \in 1 .. MaxEntries :
           BeginWrite(ks, n)
    BY <1>3 DEF Begin
  <2>2. pc' \in {"append", "waiting", "switching"}
    BY <2>1 DEF BeginWrite
  <2>3. batch' \in Batches
    <3>1. n \in Nat
      BY SizesAssumption
    <3>2. batch.version \in Nat
      BY DEF TypeOK, NoBatch
    <3> QED BY <2>1, <3>1, <3>2 DEF BeginWrite
  <2> QED BY <2>1, <2>2, <2>3 DEF BeginWrite, TypeOK, memory, tables, disk
<1>4. CASE Commit
  <2>1. CASE DumpDoneWakeup
    BY <2>1 DEF DumpDoneWakeup, TypeOK, memory, tables, disk
  <2>2. CASE WaitTimesOut
    BY <2>2 DEF WaitTimesOut, TypeOK, memory, tables, disk
  <2>3. CASE RequestRedo
    BY <2>3 DEF RequestRedo, Pending, TypeOK, writer, memory, tables, disk
  <2>4. CASE SwitchMemfile
    <3>1. future.id \in Nat /\ memfile' \in Memfiles
      BY <2>4, NewMemfileType DEF SwitchMemfile, TypeOK
    <3>2. Retire \in Seq(Memfiles)
      BY DEF Retire, TypeOK
    <3>3. future' \in [state : {"none", "pending", "ready", "failed", "spent"},
                       id : Nat]
      BY <2>4 DEF SwitchMemfile, Pending, NoFuture
    <3>4. \/ UNCHANGED <<meta, dumps>> /\ faults' \in Nat
          \/ ScheduleDump(Retire, dumps)
          \/ Submit(Retire, dumps) /\ faults' \in Nat
      BY <2>4 DEF SwitchMemfile, Fault, TypeOK
    <3>5. /\ meta' \in [redo_id : Nat, next_redo_id : Nat, next_file_id : Nat,
                        sorted_tables : Seq(Nat)]
          /\ dumps' \subseteq Dumps
          /\ faults' \in Nat
      BY <3>2, <3>4, ScheduleType DEF TypeOK
    <3>6. pc' \in {"idle", "append"} /\ immutable_memfiles' \in Seq(Memfiles)
      BY <2>4, <3>2 DEF SwitchMemfile
    <3> QED BY <2>4, <3>1, <3>3, <3>5, <3>6 DEF SwitchMemfile, TypeOK, disk
  <2>5. CASE SwitchFails
    <3>1. /\ faults' \in Nat
          /\ future' \in [state : {"none", "pending", "ready", "failed",
                                   "spent"}, id : Nat]
      BY <2>5 DEF SwitchFails, FutureAfterFailure, NoFault, Fault, TypeOK,
                  Pending, NoFuture
    <3> QED BY <2>5, <3>1 DEF SwitchFails, TypeOK, memory, tables, disk
  <2>6. CASE UseSpentLog
    <3>1. /\ batch' = batch /\ faults' \in Nat /\ crashes' \in Nat
          /\ UNCHANGED disk
      BY <2>6 DEF UseSpentLog, TypeOK
    <3>2. /\ DOMAIN redo_files' \subseteq Nat
          /\ redo_files' \in [DOMAIN redo_files' -> [Keys -> Nat]]
      BY <3>1 DEF disk, TypeOK
    <3> QED BY <2>6, <3>1, <3>2, LoseMemoryType DEF UseSpentLog, disk
  <2>7. CASE AppendRedo \/ AppendFails
    <3>1. PICK ks \in SUBSET batch.keys : redo_files' = Log(ks)
      BY <2>7 DEF AppendRedo, AppendFails
    <3>2. batch.version \in Nat
      BY DEF TypeOK, NoBatch
    <3>3. /\ DOMAIN redo_files' \subseteq Nat
          /\ redo_files' \in [DOMAIN redo_files' -> [Keys -> Nat]]
      <4>1. CASE memfile.redo_id \in DOMAIN redo_files
        <5>1. redo_files[memfile.redo_id] \in [Keys -> Nat]
          BY <4>1 DEF TypeOK
        <5>2. Put(redo_files[memfile.redo_id], ks, batch.version)
                \in [Keys -> Nat]
          BY <3>2, <5>1, PutLogged
        <5>3. memfile.redo_id \in Nat
          BY DEF TypeOK, Memfiles
        <5> QED BY <3>1, <4>1, <5>2, <5>3, RedoFileType DEF Log
      <4>2. CASE memfile.redo_id \notin DOMAIN redo_files
        BY <3>1, <4>2 DEF Log, TypeOK
      <4> QED BY <4>1, <4>2
    <3>4. faults' \in Nat
      BY <2>7 DEF AppendRedo, AppendFails, Fault, TypeOK
    <3>5. pc' \in {"add", "idle"} /\ result' \in {result, "error"}
      BY <2>7 DEF AppendRedo, AppendFails
    <3> QED BY <2>7, <3>3, <3>4, <3>5
            DEF AppendRedo, AppendFails, TypeOK, memory, tables
  <2>8. CASE AddToMemfile
    <3> DEFINE content == Put(memfile.content, batch.keys, batch.version)
               used == UsedAfter(memfile, batch)
    <3>1. /\ memfile.content \in Contents
          /\ batch.version \in Int
      BY DEF TypeOK, Memfiles, NoBatch
    <3>2. content \in Contents
      BY <3>1, PutContents
    <3>3. used \in Nat
      <4>1. CASE batch \in Batches
        BY <4>1, UsedAfterType DEF TypeOK
      <4>2. CASE batch = NoBatch
        <5>1. {k \in {} : memfile.content[k] = Absent} = {}
          OBVIOUS
        <5>2. memfile.used \in Nat
          BY DEF TypeOK, Memfiles
        <5>3. 0 * ValueSize = 0 /\ 0 * KeySize = 0
          BY SizesAssumption
        <5> QED BY <4>2, <5>1, <5>2, <5>3, FS_EmptySet DEF UsedAfter, NoBatch
      <4> QED BY <4>1, <4>2 DEF TypeOK
    <3> HIDE DEF content, used
    <3>4. memfile' \in Memfiles
      <4>1. CASE memfile' = [memfile EXCEPT !.used = used, !.content = content]
        BY <3>2, <3>3, <4>1 DEF TypeOK, Memfiles
      <4>2. ASSUME NEW ks, NEW c \in used .. 2 * used,
                   memfile' = [memfile EXCEPT !.used = used, !.capacity = c,
                                  !.content = Put(content, ks, Dangling)]
            PROVE  memfile' \in Memfiles
        <5>1. Put(content, ks, Dangling) \in Contents
          BY <3>2, PutContents
        <5>2. c \in Nat
          BY <3>3
        <5> QED BY <3>3, <4>2, <5>1, <5>2 DEF TypeOK, Memfiles
      <4> QED BY <2>8, <4>1, <4>2 DEF AddToMemfile, content, used
    <3> QED BY <2>8, <3>4 DEF AddToMemfile, TypeOK, tables, disk
  <2>9. CASE Terminate
    <3>1. /\ batch' = batch /\ faults' \in Nat /\ crashes' \in Nat
          /\ UNCHANGED disk
      BY <2>9 DEF Terminate, Fault, TypeOK
    <3>2. /\ DOMAIN redo_files' \subseteq Nat
          /\ redo_files' \in [DOMAIN redo_files' -> [Keys -> Nat]]
      BY <3>1 DEF disk, TypeOK
    <3> QED BY <2>9, <3>1, <3>2, LoseMemoryType DEF Terminate, disk
  <2> QED BY <1>4, <2>1, <2>2, <2>3, <2>4, <2>5, <2>6, <2>7, <2>8, <2>9
          DEF Commit
<1>5. CASE AllocRedo
  <2>1. Empty \in [Keys -> Nat] /\ meta.next_redo_id \in Nat
    BY DEF Empty, TypeOK
  <2>2. /\ DOMAIN redo_files' \subseteq Nat
        /\ redo_files' \in [DOMAIN redo_files' -> [Keys -> Nat]]
    <3>1. \/ redo_files' = redo_files
          \/ redo_files' = WithFile(redo_files, meta.next_redo_id, Empty)
      BY <1>5 DEF AllocRedo
    <3>2. CASE UNCHANGED redo_files
      BY <3>2 DEF TypeOK
    <3> QED BY <2>1, <3>1, <3>2, RedoFileType
  <2>3. /\ faults' \in Nat
        /\ future' \in [state : {"none", "pending", "ready", "failed",
                                 "spent"}, id : Nat]
    BY <1>5, <2>1 DEF AllocRedo, NoFault, Fault, TypeOK
  <2>4. meta' \in [redo_id : Nat, next_redo_id : Nat, next_file_id : Nat,
                   sorted_tables : Seq(Nat)]
    <3>1. meta.next_redo_id + 1 \in Nat
      BY <2>1
    <3> QED BY <1>5, <3>1 DEF AllocRedo, TypeOK
  <2> QED BY <1>5, <2>2, <2>3, <2>4 DEF AllocRedo, TypeOK, writer, memory
<1>6. ASSUME NEW d \in dumps, DumperStep(d)
      PROVE  TypeOK'
  <2>1. d \in Dumps /\ dumps \ {d} \subseteq Dumps
    BY DEF TypeOK
  <2>2. /\ d.file_id \in Nat /\ d.redo_id \in Nat /\ d.files \in Seq(Nat)
        /\ Append(sstables, d.file_id) \in Seq(Nat) /\ <<>> \in Seq(Nat)
    BY <2>1 DEF Dumps, TypeOK
  <2>3. CASE Dump(d)
    <3>1. \/ dumps' = (dumps \ {d}) \cup {[d EXCEPT !.pc = "dumped"]}
          \/ dumps' = (dumps \ {d}) \cup {[d EXCEPT !.pc = "failed"]}
      BY <2>3 DEF Dump
    <3>2. dumps' \subseteq Dumps
      BY <2>1, <3>1 DEF Dumps
    <3>3. PICK c \in Contents : \/ db_files' = db_files
                                \/ db_files' = WithFile(db_files, d.file_id, c)
      <4>1. /\ DumpedContent(immutable_memfiles, d.redo_id) \in Contents
            /\ Empty \in Contents
        BY DumpedContentType DEF TypeOK, Empty, Contents
      <4> QED BY <2>3, <4>1 DEF Dump
    <3>4. /\ DOMAIN db_files' \subseteq Nat
          /\ db_files' \in [DOMAIN db_files' -> Contents]
      <4>1. CASE UNCHANGED db_files
        BY <4>1 DEF TypeOK
      <4> QED BY <2>2, <3>3, <4>1, DbFileType
    <3>5. faults' \in Nat
      BY <2>3 DEF Dump, NoFault, Fault, TypeOK
    <3> QED BY <2>3, <3>2, <3>4, <3>5
            DEF Dump, TypeOK, writer, memory, tables
  <2>4. CASE OnDumpFailed(d)
    <3>1. immutable_memfiles \in Seq(Memfiles)
      BY DEF TypeOK
    <3>2. /\ meta' \in [redo_id : Nat, next_redo_id : Nat, next_file_id : Nat,
                        sorted_tables : Seq(Nat)]
          /\ dumps' \subseteq Dumps
          /\ faults' \in Nat
      BY <2>1, <2>4, <3>1, ScheduleType DEF OnDumpFailed
    <3> QED BY <2>4, <3>2 DEF OnDumpFailed, TypeOK, writer, memory, disk
  <2>5. CASE BuildNewState(d)
    <3>1. dumps' \subseteq Dumps
      BY <2>1, <2>2, <2>5 DEF BuildNewState, Dumps
    <3> QED BY <2>5, <3>1
            DEF BuildNewState, TypeOK, writer, memory, tables, disk
  <2>6. CASE Checkpoint(d)
    <3>1. dumps' \subseteq Dumps
      BY <2>1, <2>6 DEF Checkpoint, Dumps
    <3>2. Append(meta.sorted_tables, d.file_id) \in Seq(Nat)
      BY <2>2 DEF TypeOK
    <3>3. meta' \in [redo_id : Nat, next_redo_id : Nat, next_file_id : Nat,
                     sorted_tables : Seq(Nat)]
      BY <2>2, <2>6, <3>2 DEF Checkpoint, TypeOK
    <3> QED BY <2>6, <3>1, <3>3 DEF Checkpoint, TypeOK, writer, memory, disk
  <2>7. CASE CompletionThrows(d)
    <3>1. dumps' \subseteq Dumps
      BY <2>1, <2>2, <2>7 DEF CompletionThrows, Dumps
    <3> QED BY <2>7, <3>1, SMTT(30)
            DEF CompletionThrows, Fault, TypeOK, writer, memory, tables, disk
  <2>8. CASE Apply(d)
    <3>1. dumps' \subseteq Dumps
      BY <2>1, <2>8 DEF Apply, Dumps
    <3> QED BY <2>2, <2>8, <3>1 DEF Apply, TypeOK, writer, memory, disk
  <2>9. CASE PopAndReschedule(d)
    <3>1. Tail(immutable_memfiles) \in Seq(Memfiles)
      BY <2>9 DEF PopAndReschedule, TypeOK
    <3>2. /\ meta' \in [redo_id : Nat, next_redo_id : Nat, next_file_id : Nat,
                        sorted_tables : Seq(Nat)]
          /\ dumps' \subseteq Dumps
          /\ faults' \in Nat
      BY <2>1, <2>9, <3>1, ScheduleType DEF PopAndReschedule
    <3>3. /\ immutable_memfiles' \in Seq(Memfiles)
          /\ collections' \subseteq Collections /\ passed_over' = passed_over
      BY <2>1, <2>9, <3>1
         DEF PopAndReschedule, BeginGc, Collections, Dumps, TypeOK
    <3>4. UNCHANGED <<pc, batch, result, memfile, future, sstables, redo_files,
                      db_files, crashes>>
      BY <2>9 DEF PopAndReschedule, writer, disk
    <3> QED BY <3>2, <3>3, <3>4 DEF TypeOK
  <2> QED BY <1>6, <2>3, <2>4, <2>5, <2>6, <2>7, <2>8, <2>9 DEF DumperStep
<1>7. CASE Collect
  <2>1. PICK g \in collections : Gc(g)
    BY <1>7 DEF Collect
  <2> QED BY <2>1, GcType
<1>8. CASE Crash
  <2>1. /\ batch' = batch /\ faults' \in Nat /\ crashes' \in Nat
        /\ UNCHANGED disk
    BY <1>8 DEF Crash, TypeOK
  <2>2. /\ DOMAIN redo_files' \subseteq Nat
        /\ redo_files' \in [DOMAIN redo_files' -> [Keys -> Nat]]
    BY <2>1 DEF disk, TypeOK
  <2> QED BY <1>8, <2>1, <2>2, LoseMemoryType DEF Crash, disk
<1>9. CASE UNCHANGED vars
  BY <1>9 DEF vars, TypeOK, writer, memory, tables, disk
<1> QED BY <1>1, <1>2, <1>3, <1>4, <1>5, <1>6, <1>7, <1>8, <1>9 DEF Next

(* The members keep their types, whatever the bounds and the failures.     *)
THEOREM TypeCorrect == Spec => []TypeOK
<1>1. Init => TypeOK
  BY InitType
<1>2. TypeOK /\ [Next]_vars => TypeOK'
  BY NextType
<1> QED BY <1>1, <1>2, PTL DEF Spec
------------------------------------------------------------------------------
(* The safety properties that rest on the order of the redo ids: Inductive *)
(* is an invariant.                                                        *)

(* What TypeOK says of the parts of the state, for the arithmetic below.   *)
LEMMA Shapes ==
    ASSUME TypeOK
    PROVE  /\ Len(immutable_memfiles) \in Nat
           /\ DOMAIN immutable_memfiles = 1 .. Len(immutable_memfiles)
           /\ \A i \in DOMAIN immutable_memfiles :
                 /\ immutable_memfiles[i].redo_id \in Nat
                 /\ immutable_memfiles[i].content \in Contents
           /\ memfile.redo_id \in Nat
           /\ memfile.content \in Contents
           /\ future.id \in Nat
           /\ meta.redo_id \in Nat
           /\ meta.next_redo_id \in Nat
           /\ \A d \in dumps : d.redo_id \in Nat
           /\ batch.version \in Nat
           /\ batch.keys \subseteq Keys
           /\ \A id \in DOMAIN redo_files :
                 id \in Nat /\ redo_files[id] \in [Keys -> Nat]
<1>1. \A i \in DOMAIN immutable_memfiles :
         immutable_memfiles[i] \in Memfiles
  BY DEF TypeOK
<1>2. \A m \in Memfiles : m.redo_id \in Nat /\ m.content \in Contents
  BY DEF Memfiles
<1>3. \A d \in dumps : d.redo_id \in Nat
  BY DEF TypeOK, Dumps
<1>4. batch.version \in Nat /\ batch.keys \subseteq Keys
  BY DEF TypeOK, Batches, NoBatch
<1>5. /\ Len(immutable_memfiles) \in Nat
      /\ DOMAIN immutable_memfiles = 1 .. Len(immutable_memfiles)
  BY DEF TypeOK
<1> QED BY <1>1, <1>2, <1>3, <1>4, <1>5 DEF TypeOK

(* The live memfiles one by one.                                           *)
LEMMA CoverageByMemfile ==
    WalCoversMemory <=>
        /\ \A i \in DOMAIN immutable_memfiles : Covered(immutable_memfiles[i])
        /\ memfile.redo_id # 0 => Covered(memfile)
BY DEF WalCoversMemory, LiveMemfiles

(* schedule_dump_ submits at most one dump, of the head of the queue, and  *)
(* leaves the checkpoint and the redo ids alone.                           *)
LEMMA ScheduleEffect ==
    ASSUME TypeOK, NEW q \in Seq(Memfiles), NEW rest,
           ScheduleDump(q, rest) \/ Submit(q, rest)
    PROVE  /\ meta'.redo_id = meta.redo_id
           /\ meta'.next_redo_id = meta.next_redo_id
           /\ \/ dumps' = rest
              \/ /\ q # <<>>
                 /\ \E n : /\ dumps' = rest \cup {n}
                           /\ n.pc = "queued"
                           /\ n.redo_id = Head(q).redo_id
<1>1. CASE meta' = meta /\ dumps' = rest
  BY <1>1
<1>2. CASE /\ meta' = [meta EXCEPT !.next_file_id = @ + 1]
           /\ dumps' = rest
  BY <1>2 DEF TypeOK
<1>3. CASE /\ q # <<>>
           /\ meta' = [meta EXCEPT !.next_file_id = @ + 1]
           /\ dumps' = rest \cup {[pc |-> "queued", files |-> <<>>,
                                   redo_id |-> Head(q).redo_id,
                                   file_id |-> meta.next_file_id]}
  <2> DEFINE n == [pc |-> "queued", files |-> <<>>,
                   redo_id |-> Head(q).redo_id, file_id |-> meta.next_file_id]
  <2>1. n.pc = "queued" /\ n.redo_id = Head(q).redo_id
    OBVIOUS
  <2>2. dumps' = rest \cup {n}
    BY <1>3
  <2>3. meta'.redo_id = meta.redo_id /\ meta'.next_redo_id = meta.next_redo_id
    BY <1>3 DEF TypeOK
  <2> HIDE DEF n
  <2> QED BY <1>3, <2>1, <2>2, <2>3
<1> QED BY <1>1, <1>2, <1>3 DEF ScheduleDump, Submit

(* If no other dump is under way and the checkpoint is behind the whole    *)
(* queue, scheduling restores the order of dumps and checkpoints.          *)
LEMMA ScheduleKeepsOrder ==
    ASSUME NEW q \in Seq(Memfiles), immutable_memfiles' = q,
           \A i \in DOMAIN q : meta'.redo_id < q[i].redo_id,
           \/ dumps' = {}
           \/ /\ q # <<>>
              /\ \E n : /\ dumps' = {n}
                        /\ n.pc = "queued"
                        /\ n.redo_id = Head(q).redo_id
    PROVE  OneDumpOfTheOldest' /\ DumpOrder'
<1>1. CASE dumps' = {}
  BY <1>1 DEF OneDumpOfTheOldest, DumpOrder
<1>2. CASE q # <<>>
  <2>1. Head(q) = q[1] /\ 1 \in DOMAIN q
    BY <1>2
  <2>2. ASSUME NEW n, dumps' = {n}, n.pc = "queued",
               n.redo_id = Head(q).redo_id
        PROVE  OneDumpOfTheOldest' /\ DumpOrder'
    BY <1>2, <2>1, <2>2 DEF OneDumpOfTheOldest, DumpOrder
  <2> QED BY <1>1, <2>2
<1> QED BY <1>1, <1>2

(* A dump that moves on keeps the order, if it passes the checkpoint only  *)
(* with the checkpoint.                                                    *)
LEMMA DumpMovesOn ==
    ASSUME OneDumpOfTheOldest, NEW d \in dumps, NEW e,
           dumps' = (dumps \ {d}) \cup {e},
           e.redo_id = d.redo_id,
           UNCHANGED immutable_memfiles,
           IF e.pc \in {"checkpointed", "applied"}
           THEN meta'.redo_id = e.redo_id
           ELSE meta'.redo_id < e.redo_id
    PROVE  OneDumpOfTheOldest' /\ DumpOrder'
<1>1. dumps = {d}
  BY DEF OneDumpOfTheOldest
<1>2. dumps' = {e}
  BY <1>1
<1>3. /\ immutable_memfiles' # <<>>
      /\ e.redo_id = Head(immutable_memfiles').redo_id
  BY DEF OneDumpOfTheOldest
<1> QED BY <1>2, <1>3 DEF OneDumpOfTheOldest, DumpOrder
------------------------------------------------------------------------------
(* The live memfiles stay covered if each one is.                          *)
LEMMA CoverageKept ==
    ASSUME \A i \in DOMAIN immutable_memfiles' :
              Covered(immutable_memfiles[i])',
           memfile'.redo_id # 0 => Covered(memfile)'
    PROVE  WalCoversMemory'
BY DEF WalCoversMemory, LiveMemfiles

(* Steps that touch neither the queue, nor the dumps, nor the checkpoint.  *)
LEMMA DumpsUndisturbed ==
    ASSUME OneDumpOfTheOldest, DumpOrder, meta'.redo_id = meta.redo_id,
           UNCHANGED <<immutable_memfiles, dumps>>
    PROVE  OneDumpOfTheOldest' /\ DumpOrder'
BY DEF OneDumpOfTheOldest, DumpOrder

(* Steps that touch neither the memfiles nor the redo logs.                *)
LEMMA CoverageUndisturbed ==
    ASSUME WalCoversMemory,
           UNCHANGED <<memfile, immutable_memfiles, redo_files>>
    PROVE  WalCoversMemory'
BY DEF WalCoversMemory, LiveMemfiles, Covered

(* Steps of the writer's control only: the memory, the logs, the tables    *)
(* and the dumps stay.                                                     *)
LEMMA ControlStep ==
    ASSUME Inductive, TypeOK',
           UNCHANGED <<memfile, immutable_memfiles, meta, dumps, redo_files>>,
           \/ UNCHANGED future
           \/ future'.state # "ready",
           (pc' \in {"closed", "opening"}) <=> (pc \in {"closed", "opening"}),
           pc' = "switching" => pc = "switching" \/ ~QueueFull,
           pc' # "add",
           batch'.version >= batch.version
    PROVE  Inductive'
<1> USE DEF Inductive
<1>1. Lifecycle' /\ ImmutablesBounded'
  BY DEF Lifecycle, ImmutablesBounded, QueueFull
<1>2. RedoOrder'
  BY DEF RedoOrder
<1>3. OneDumpOfTheOldest' /\ DumpOrder'
  BY DumpsUndisturbed
<1>4. WalAhead'
  <2>1. \A k \in Keys : memfile.content[k] \in Int
    BY Shapes DEF Contents
  <2>2. batch.version \in Int /\ batch'.version \in Int
    <3>1. batch.version \in Int
      BY Shapes
    <3>2. batch' \in Batches \cup {NoBatch}
      BY DEF TypeOK
    <3> QED BY <3>1, <3>2 DEF Batches, NoBatch
  <2>3. \A k \in Keys : memfile'.content[k] <= batch'.version
    BY <2>1, <2>2 DEF WalAhead
  <2>4. future'.state = "ready" => future'.id \in DOMAIN redo_files'
    BY DEF WalAhead
  <2> QED BY <2>3, <2>4 DEF WalAhead
<1>5. WalCoversMemory'
  BY CoverageUndisturbed
<1> QED BY <1>1, <1>2, <1>3, <1>4, <1>5

(* A process that ends leaves nothing to be said of its memory.            *)
LEMMA NothingInMemory ==
    ASSUME TypeOK', pc' = "closed", memfile' = NullMemfile,
           immutable_memfiles' = <<>>, future' = NoFuture, meta' = NewMeta,
           dumps' = {}
    PROVE  Inductive'
<1>1. NullMemfile.redo_id = 0 /\ NullMemfile.content = Empty
  BY DEF NullMemfile, NewMemfile
<1>2. NewMeta.redo_id = 0 /\ NewMeta.next_redo_id = 1
  BY DEF NewMeta
<1>3. DOMAIN immutable_memfiles' = {} /\ Len(immutable_memfiles') = 0
  OBVIOUS
<1>4. Lifecycle' /\ ImmutablesBounded'
  BY <1>1, <1>2, <1>3, BoundsAssumption DEF Lifecycle, ImmutablesBounded
<1>5. RedoOrder'
  BY <1>1, <1>2, <1>3 DEF RedoOrder, NoFuture
<1>6. OneDumpOfTheOldest' /\ DumpOrder'
  BY <1>3 DEF OneDumpOfTheOldest, DumpOrder
<1>7. WalAhead'
  <2>1. batch'.version \in Nat
    BY DEF TypeOK, Batches, NoBatch
  <2>2. \A k \in Keys : Empty[k] = 0
    BY DEF Empty
  <2>3. \A k \in Keys : memfile'.content[k] <= batch'.version
    BY <1>1, <2>1, <2>2
  <2>4. future'.state # "ready" /\ pc' # "add"
    BY DEF NoFuture
  <2> QED BY <2>3, <2>4 DEF WalAhead
<1>8. WalCoversMemory'
  BY <1>1, <1>3, CoverageKept
<1> QED BY <1>4, <1>5, <1>6, <1>7, <1>8 DEF Inductive

(* The initial state satisfies the inductive invariant.                    *)
LEMMA InductiveInit == Init => Inductive
<1> SUFFICES ASSUME Init PROVE Inductive
  OBVIOUS
<1>1. NullMemfile.redo_id = 0 /\ NullMemfile.content = Empty
  BY DEF NullMemfile, NewMemfile
<1>2. NewMeta.redo_id = 0 /\ NewMeta.next_redo_id = 1
  BY DEF NewMeta
<1>3. DOMAIN immutable_memfiles = {} /\ Len(immutable_memfiles) = 0
  BY DEF Init
<1>4. Lifecycle /\ ImmutablesBounded
  BY <1>1, <1>2, <1>3, BoundsAssumption
     DEF Init, Lifecycle, ImmutablesBounded
<1>5. RedoOrder
  BY <1>1, <1>2, <1>3 DEF Init, RedoOrder, NoFuture
<1>6. OneDumpOfTheOldest /\ DumpOrder
  BY <1>3 DEF Init, OneDumpOfTheOldest, DumpOrder
<1>7. WalAhead
  <2>1. \A k \in Keys : Empty[k] = 0
    BY DEF Empty
  <2>2. \A k \in Keys : memfile.content[k] <= batch.version
    BY <1>1, <2>1 DEF Init, NoBatch
  <2>3. future.state # "ready" /\ pc # "add"
    BY DEF Init, NoFuture
  <2> QED BY <2>2, <2>3 DEF WalAhead
<1>8. WalCoversMemory
  BY <1>1, <1>3, CoverageByMemfile DEF Init
<1> QED BY <1>4, <1>5, <1>6, <1>7, <1>8, InitType DEF Inductive
------------------------------------------------------------------------------
(* The commit thread                                                       *)

(* A new batch, admitted or kept waiting for room, keeps it.               *)
LEMMA BeginKeeps ==
    ASSUME Inductive, TypeOK', NEW ks, NEW n, BeginWrite(ks, n)
    PROVE  Inductive'
<1>1. batch.version \in Int /\ batch'.version = batch.version + 1
  <2>1. batch.version \in Int
    BY Shapes DEF Inductive
  <2>2. batch'.version = batch.version + 1
    BY DEF BeginWrite
  <2> QED BY <2>1, <2>2
<1>2. /\ pc = "idle"
      /\ pc' \in {"append", "waiting", "switching"}
      /\ pc' = "switching" => ~QueueFull
  BY DEF BeginWrite
<1>3. UNCHANGED <<memfile, immutable_memfiles, meta, dumps, redo_files, future>>
  BY DEF BeginWrite, memory, tables, disk
<1> QED BY <1>1, <1>2, <1>3, ControlStep

(* switch_memfile_ installs the log made in advance, whose id is the       *)
(* largest yet, and starts a dump only if no other can be under way.       *)
LEMMA SwitchKeeps ==
    ASSUME Inductive, TypeOK', SwitchMemfile
    PROVE  Inductive'
<1> USE DEF Inductive
<1>1. /\ future.id \in Nat
      /\ memfile' = NewMemfile(future.id)
      /\ memfile'.redo_id = future.id
      /\ memfile'.content = Empty
  BY Shapes, NewMemfileType DEF SwitchMemfile
<1>2. /\ memfile.redo_id < future.id
      /\ future.id < meta.next_redo_id
      /\ future.id \in DOMAIN redo_files
      /\ memfile.redo_id \in Nat
      /\ future.id # 0
  BY <1>1, Shapes DEF SwitchMemfile, RedoOrder, WalAhead
<1>3. /\ Retire \in Seq(Memfiles)
      /\ immutable_memfiles' = Retire
  BY DEF SwitchMemfile, Retire, TypeOK
<1>4. \/ UNCHANGED <<meta, dumps>> /\ ~StartsDump(Retire)
      \/ /\ StartsDump(Retire)
         /\ ScheduleDump(Retire, dumps) \/ Submit(Retire, dumps)
  BY DEF SwitchMemfile
<1>5. meta'.redo_id = meta.redo_id /\ meta'.next_redo_id = meta.next_redo_id
  BY <1>3, <1>4, ScheduleEffect
<1>6. /\ redo_files' = redo_files
      /\ pc' \in {"idle", "append"}
      /\ future'.state # "ready"
      /\ batch' = batch
  BY DEF SwitchMemfile, disk, Pending, NoFuture
<1>7. Covered(memfile)'
  <2>1. \A k \in Keys : redo_files[future.id][k] \in Nat
    BY <1>2, Shapes
  <2>2. \A k \in Keys : Empty[k] = 0
    BY DEF Empty
  <2> QED BY <1>1, <1>2, <1>6, <2>1, <2>2 DEF Covered
<1>8. WalAhead'
  <2>1. \A k \in Keys : Empty[k] = 0
    BY DEF Empty
  <2>2. batch.version \in Nat
    BY Shapes
  <2>3. \A k \in Keys : memfile'.content[k] <= batch'.version
    BY <1>1, <1>6, <2>1, <2>2
  <2> QED BY <1>6, <2>3 DEF WalAhead
(* What Retire holds: nothing when the engine opens, or the full memfile.  *)
<1>9. CASE Retire = immutable_memfiles /\ memfile.redo_id = 0
  <2>1. immutable_memfiles = <<>> /\ meta.redo_id = 0 /\ pc = "opening"
    BY <1>9 DEF Lifecycle, SwitchMemfile
  <2>2. DOMAIN immutable_memfiles' = {} /\ Len(immutable_memfiles') = 0
    BY <1>3, <1>9, <2>1
  <2>3. dumps' = {}
    BY <1>4, <2>1 DEF OneDumpOfTheOldest, StartsDump
  <2>4. Lifecycle' /\ ImmutablesBounded'
    BY <1>1, <1>2, <1>6, <2>2, BoundsAssumption
       DEF Lifecycle, ImmutablesBounded
  <2>5. RedoOrder'
    BY <1>1, <1>2, <1>5, <1>6, <2>1, <2>2 DEF RedoOrder
  <2>6. OneDumpOfTheOldest' /\ DumpOrder'
    BY <2>2, <2>3 DEF OneDumpOfTheOldest, DumpOrder
  <2>7. WalCoversMemory'
    BY <1>7, <2>2, CoverageKept
  <2> QED BY <1>8, <2>4, <2>5, <2>6, <2>7
<1>10. CASE Retire = Append(immutable_memfiles, memfile) /\ memfile.redo_id # 0
  <2> DEFINE q == immutable_memfiles
             n == Len(q)
  <2>1. n \in Nat /\ DOMAIN q = 1 .. n /\ q \in Seq(Memfiles) /\ memfile \in Memfiles
    BY Shapes DEF TypeOK
  <2>2. /\ Len(Retire) = n + 1
        /\ DOMAIN Retire = 1 .. n + 1
        /\ \A i \in 1 .. n : Retire[i] = q[i]
        /\ Retire[n + 1] = memfile
    BY <1>10, <2>1
  <2>3. pc = "switching" /\ n < MaxImmutables
    BY <1>10, <2>1, BoundsAssumption DEF SwitchMemfile, Lifecycle, QueueFull
  <2>4. meta.redo_id < memfile.redo_id /\ meta.redo_id \in Nat
    BY <1>10, Shapes DEF RedoOrder
  <2>5. /\ \A i \in 1 .. n : /\ meta.redo_id <= q[i].redo_id
                             /\ q[i].redo_id < memfile.redo_id
                             /\ q[i].redo_id \in Nat
        /\ \A i, j \in 1 .. n : i < j => q[i].redo_id < q[j].redo_id
    BY <2>1, Shapes DEF RedoOrder
  <2> HIDE DEF q, n
  <2>6. Lifecycle' /\ ImmutablesBounded'
    BY <1>1, <1>2, <1>3, <1>6, <2>1, <2>2, <2>3, BoundsAssumption
       DEF Lifecycle, ImmutablesBounded
  <2>7. RedoOrder'
    <3>1. \A i \in 1 .. n + 1 : i \in 1 .. n \/ i = n + 1
      BY <2>1
    <3>2. \A i \in 1 .. n + 1 : /\ meta.redo_id <= Retire[i].redo_id
                                /\ Retire[i].redo_id < future.id
      BY <1>1, <1>2, <2>2, <2>4, <2>5, <3>1
    <3>3. \A i, j \in 1 .. n + 1 :
             i < j => Retire[i].redo_id < Retire[j].redo_id
      <4> TAKE i, j \in 1 .. n + 1
      <4> HAVE i < j
      <4>1. i \in 1 .. n
        BY <2>1
      <4>2. CASE j \in 1 .. n
        BY <2>2, <2>5, <4>1, <4>2
      <4>3. CASE j = n + 1
        BY <2>2, <2>5, <4>1, <4>3
      <4> QED BY <3>1, <4>2, <4>3
    <3>4. meta.redo_id < future.id
      BY <1>1, <1>2, <2>4
    <3> QED BY <1>1, <1>2, <1>3, <1>5, <1>6, <2>2, <3>2, <3>3, <3>4
            DEF RedoOrder
  <2>8. OneDumpOfTheOldest' /\ DumpOrder'
    <3>1. CASE n = 0
      <4>1. q = <<>> /\ dumps = {}
        BY <2>1, <3>1 DEF q, n, OneDumpOfTheOldest
      <4>2. StartsDump(Retire)
        BY <2>2, <2>3, <3>1 DEF StartsDump
      <4>3. \/ dumps' = {}
            \/ /\ Retire # <<>>
               /\ \E e : /\ dumps' = {e}
                         /\ e.pc = "queued"
                         /\ e.redo_id = Head(Retire).redo_id
        BY <1>3, <1>4, <4>1, <4>2, ScheduleEffect
      <4>4. \A i \in DOMAIN Retire : meta'.redo_id < Retire[i].redo_id
        BY <1>5, <2>2, <2>4, <3>1
      <4> QED BY <1>3, <4>3, <4>4, ScheduleKeepsOrder
    <3>2. CASE n # 0
      <4>1. ~StartsDump(Retire)
        BY <2>1, <2>2, <3>2 DEF StartsDump
      <4>2. UNCHANGED <<meta, dumps>>
        BY <1>4, <4>1
      <4>3. /\ q # <<>> /\ Retire # <<>>
            /\ Head(Retire) = q[1] /\ Head(q) = q[1]
        <5>1. q # <<>> /\ 1 \in 1 .. n
          BY <2>1, <3>2 DEF q, n
        <5>2. Retire # <<>>
          BY <2>1, <2>2
        <5> QED BY <1>3, <2>1, <2>2, <5>1, <5>2
      <4>4. OneDumpOfTheOldest'
        BY <1>3, <4>2, <4>3 DEF OneDumpOfTheOldest, q
      <4>5. dumps = {} => \A i \in 1 .. n + 1 : meta.redo_id < Retire[i].redo_id
        <5>1. dumps = {} => \A i \in 1 .. n : meta.redo_id < q[i].redo_id
          BY <2>1 DEF DumpOrder, q
        <5>2. \A i \in 1 .. n + 1 : i \in 1 .. n \/ i = n + 1
          BY <2>1
        <5> QED BY <2>2, <2>4, <5>1, <5>2
      <4>6. DumpOrder'
        BY <1>3, <2>2, <4>2, <4>5 DEF DumpOrder
      <4> QED BY <4>4, <4>6
    <3> QED BY <3>1, <3>2
  <2>9. WalCoversMemory'
    <3>1. \A i \in 1 .. n : Covered(q[i])
      BY <2>1, CoverageByMemfile DEF q
    <3>2. Covered(memfile)
      BY <1>10, CoverageByMemfile
    <3>3. \A i \in 1 .. n + 1 : i \in 1 .. n \/ i = n + 1
      BY <2>1
    <3>4. \A i \in 1 .. n + 1 : Covered(Retire[i])
      BY <2>2, <3>1, <3>2, <3>3
    <3>5. \A i \in DOMAIN immutable_memfiles' : Covered(immutable_memfiles[i])'
      BY <1>3, <1>6, <2>2, <3>4 DEF Covered
    <3> QED BY <1>7, <3>5, CoverageKept
  <2> QED BY <1>8, <2>6, <2>7, <2>8, <2>9
<1> QED BY <1>9, <1>10 DEF Retire

(* Redo_log::append raises values of the memfile's own log only.           *)
LEMMA LogRaises ==
    ASSUME Inductive, memfile.redo_id # 0, NEW ks \in SUBSET batch.keys,
           redo_files' = Log(ks), UNCHANGED <<memfile, immutable_memfiles>>
    PROVE  /\ WalCoversMemory'
           /\ DOMAIN redo_files' = DOMAIN redo_files
           /\ \A k \in ks : redo_files'[memfile.redo_id][k] = batch.version
<1> DEFINE id == memfile.redo_id
           c == Put(redo_files[id], ks, batch.version)
<1>1. Covered(memfile) /\ \A i \in DOMAIN immutable_memfiles :
                             Covered(immutable_memfiles[i])
  BY CoverageByMemfile DEF Inductive
<1>2. id \in DOMAIN redo_files
  BY <1>1 DEF Covered
<1>3. redo_files' = WithFile(redo_files, id, c)
  BY <1>2 DEF Log
<1>4. \A k \in Keys : c[k] = IF k \in ks THEN batch.version
                             ELSE redo_files[id][k]
  BY PutValue
<1>5. ks \subseteq Keys
  BY Shapes DEF Inductive
<1> HIDE DEF c, id
<1>6. /\ DOMAIN redo_files' = DOMAIN redo_files
      /\ redo_files'[id] = c
      /\ \A f \in DOMAIN redo_files : f # id => redo_files'[f] = redo_files[f]
  BY <1>2, <1>3 DEF WithFile
<1>7. \A k \in Keys : memfile.content[k] <= c[k]
  BY <1>1, <1>4 DEF Covered, Inductive, WalAhead, id
<1>8. Covered(memfile)'
  BY <1>2, <1>6, <1>7 DEF Covered, id
<1>9. \A i \in DOMAIN immutable_memfiles : immutable_memfiles[i].redo_id # id
  BY Shapes DEF Inductive, RedoOrder, id
<1>10. \A i \in DOMAIN immutable_memfiles' : Covered(immutable_memfiles[i])'
  BY <1>1, <1>6, <1>9 DEF Covered
<1> QED BY <1>4, <1>5, <1>6, <1>8, <1>10, CoverageKept DEF id

(* An append to the redo log, whole or failed, keeps it.                   *)
LEMMA AppendKeeps ==
    ASSUME Inductive, TypeOK', AppendRedo \/ AppendFails
    PROVE  Inductive'
<1> USE DEF Inductive
<1>1. /\ pc = "append" /\ pc' \in {"add", "idle"}
      /\ UNCHANGED <<memfile, immutable_memfiles, future, meta, dumps, batch>>
  BY DEF AppendRedo, AppendFails, memory, tables
<1>2. memfile.redo_id # 0
  BY <1>1 DEF Lifecycle
<1>3. PICK ks \in SUBSET batch.keys : /\ redo_files' = Log(ks)
                                      /\ pc' = "add" => ks = batch.keys
  BY DEF AppendRedo, AppendFails
<1>4. /\ WalCoversMemory'
      /\ DOMAIN redo_files' = DOMAIN redo_files
      /\ \A k \in ks : redo_files'[memfile.redo_id][k] = batch.version
  BY <1>1, <1>2, <1>3, LogRaises
<1>5. Lifecycle' /\ ImmutablesBounded' /\ RedoOrder'
  BY <1>1 DEF Lifecycle, ImmutablesBounded, RedoOrder
<1>6. OneDumpOfTheOldest' /\ DumpOrder'
  BY <1>1, DumpsUndisturbed
<1>7. WalAhead'
  <2>1. batch.version \in Nat
    BY Shapes
  <2> QED BY <1>1, <1>3, <1>4, <2>1 DEF WalAhead
<1> QED BY <1>4, <1>5, <1>6, <1>7

(* Memfile::add stores what the log already has.                           *)
LEMMA AddKeeps ==
    ASSUME Inductive, TypeOK', AddToMemfile
    PROVE  Inductive'
<1> USE DEF Inductive
<1> DEFINE content == Put(memfile.content, batch.keys, batch.version)
<1>1. /\ pc = "add" /\ pc' = "idle"
      /\ UNCHANGED <<immutable_memfiles, future, meta, dumps, batch, redo_files>>
  BY DEF AddToMemfile, tables, disk
<1>2. memfile.redo_id # 0 /\ batch.version \in Nat
  BY <1>1, Shapes DEF Lifecycle
<1>3. /\ memfile'.redo_id = memfile.redo_id
      /\ \A k \in Keys : \/ memfile'.content[k] = content[k]
                         \/ memfile'.content[k] = Dangling
  <2> HIDE DEF content
  <2>1. CASE \E used : memfile' = [memfile EXCEPT !.used = used,
                                       !.content = content]
    BY <2>1 DEF TypeOK, Memfiles
  <2>2. ASSUME NEW used, NEW ks, NEW c,
               memfile' = [memfile EXCEPT !.used = used, !.capacity = c,
                              !.content = Put(content, ks, Dangling)]
        PROVE  /\ memfile'.redo_id = memfile.redo_id
               /\ \A k \in Keys : \/ memfile'.content[k] = content[k]
                                  \/ memfile'.content[k] = Dangling
    <3>1. /\ memfile'.redo_id = memfile.redo_id
          /\ memfile'.content = Put(content, ks, Dangling)
      BY <2>2 DEF TypeOK, Memfiles
    <3> QED BY <3>1, PutValue
  <2>3. \/ \E used : memfile' = [memfile EXCEPT !.used = used,
                                    !.content = content]
        \/ \E used, ks, c :
              memfile' = [memfile EXCEPT !.used = used, !.capacity = c,
                             !.content = Put(content, ks, Dangling)]
    BY DEF AddToMemfile, content
  <2> QED BY <2>1, <2>2, <2>3
<1>4. \A k \in Keys : content[k] = IF k \in batch.keys THEN batch.version
                                   ELSE memfile.content[k]
  BY PutValue
<1>5. Covered(memfile)
  BY <1>2, CoverageByMemfile
<1>6. \A k \in Keys : redo_files[memfile.redo_id][k] \in Nat
  BY <1>5, Shapes DEF Covered
<1> HIDE DEF content
<1>7. Covered(memfile)'
  <2>1. \A k \in Keys : content[k] <= redo_files[memfile.redo_id][k]
    BY <1>1, <1>4, <1>5 DEF Covered, WalAhead
  <2> QED BY <1>1, <1>3, <1>5, <1>6, <2>1 DEF Covered
<1>8. WalCoversMemory'
  <2>1. \A i \in DOMAIN immutable_memfiles : Covered(immutable_memfiles[i])
    BY CoverageByMemfile
  <2>2. \A i \in DOMAIN immutable_memfiles' : Covered(immutable_memfiles[i])'
    BY <1>1, <2>1 DEF Covered
  <2> QED BY <1>7, <2>2, CoverageKept
<1>9. Lifecycle' /\ ImmutablesBounded' /\ RedoOrder'
  BY <1>1, <1>3 DEF Lifecycle, ImmutablesBounded, RedoOrder
<1>10. OneDumpOfTheOldest' /\ DumpOrder'
  BY <1>1, DumpsUndisturbed
<1>11. WalAhead'
  <2>1. \A k \in Keys : content[k] <= batch.version
    BY <1>2, <1>4 DEF WalAhead
  <2>2. \A k \in Keys : memfile'.content[k] <= batch'.version
    BY <1>1, <1>2, <1>3, <2>1
  <2> QED BY <1>1, <2>2 DEF WalAhead
<1> QED BY <1>7, <1>8, <1>9, <1>10, <1>11

(* The checkpoint and the new list of a completed dump keep it.            *)
LEMMA CommitKeeps ==
    ASSUME Inductive, TypeOK', Commit
    PROVE  Inductive'
<1>1. CASE DumpDoneWakeup
  <2>1. batch' = batch /\ batch.version \in Nat
    BY <1>1, Shapes DEF DumpDoneWakeup, Inductive
  <2> QED BY <1>1, <2>1, ControlStep DEF DumpDoneWakeup, memory, tables, disk
<1>2. CASE WaitTimesOut
  <2>1. batch' = batch /\ batch.version \in Nat
    BY <1>2, Shapes DEF WaitTimesOut, Inductive
  <2> QED BY <1>2, <2>1, ControlStep DEF WaitTimesOut, memory, tables, disk
<1>3. CASE RequestRedo
  <2>1. batch' = batch /\ batch.version \in Nat
    BY <1>3, Shapes DEF RequestRedo, writer, Inductive
  <2> QED BY <1>3, <2>1, ControlStep
          DEF RequestRedo, writer, memory, tables, disk, Pending
<1>4. CASE SwitchMemfile
  BY <1>4, SwitchKeeps
<1>5. CASE SwitchFails
  <2>1. batch' = batch /\ batch.version \in Nat
    BY <1>5, Shapes DEF SwitchFails, Inductive
  <2>2. future' = future \/ future'.state # "ready"
    BY <1>5 DEF SwitchFails, FutureAfterFailure, NoFuture, Pending
  <2> QED BY <1>5, <2>1, <2>2, ControlStep
          DEF SwitchFails, memory, tables, disk
<1>6. CASE UseSpentLog \/ Terminate
  BY <1>6, NothingInMemory DEF UseSpentLog, Terminate, LoseMemory
<1>7. CASE AppendRedo \/ AppendFails
  BY <1>7, AppendKeeps
<1>8. CASE AddToMemfile
  BY <1>8, AddKeeps
<1> QED BY <1>1, <1>2, <1>3, <1>4, <1>5, <1>6, <1>7, <1>8 DEF Commit
------------------------------------------------------------------------------
(* The other threads                                                       *)

(* The pool thread creates a log with an id of its own.                    *)
LEMMA AllocRedoKeeps ==
    ASSUME Inductive, TypeOK', AllocRedo
    PROVE  Inductive'
<1> USE DEF Inductive
<1> DEFINE id == meta.next_redo_id
<1>1. /\ id \in Nat
      /\ meta'.next_redo_id = id + 1
      /\ meta'.redo_id = meta.redo_id
  BY Shapes DEF AllocRedo, TypeOK
<1>2. UNCHANGED <<pc, batch, memfile, immutable_memfiles, dumps>>
  BY DEF AllocRedo, writer, memory
<1>3. \/ redo_files' = redo_files
      \/ redo_files' = WithFile(redo_files, id, Empty)
  BY DEF AllocRedo
<1>4. future'.state = "ready" =>
        /\ future'.id = id
        /\ redo_files' = WithFile(redo_files, id, Empty)
  BY DEF AllocRedo
<1>5. /\ memfile.redo_id \in Nat /\ memfile.redo_id < id
      /\ \A i \in DOMAIN immutable_memfiles :
            /\ immutable_memfiles[i].redo_id \in Nat
            /\ immutable_memfiles[i].redo_id < id
  BY Shapes DEF RedoOrder
<1> HIDE DEF id
<1>6. \A f \in DOMAIN redo_files :
         f # id => f \in DOMAIN redo_files' /\ redo_files'[f] = redo_files[f]
  BY <1>3 DEF WithFile
<1>7. Lifecycle' /\ ImmutablesBounded'
  BY <1>1, <1>2 DEF Lifecycle, ImmutablesBounded, QueueFull
<1>8. RedoOrder'
  BY <1>1, <1>2, <1>4, <1>5 DEF RedoOrder
<1>9. OneDumpOfTheOldest' /\ DumpOrder'
  BY <1>1, <1>2, DumpsUndisturbed
<1>10. /\ memfile.redo_id # 0 => Covered(memfile)
       /\ \A i \in DOMAIN immutable_memfiles : Covered(immutable_memfiles[i])
  BY CoverageByMemfile
<1>11. WalCoversMemory'
  <2>1. memfile'.redo_id # 0 => Covered(memfile)'
    BY <1>2, <1>5, <1>6, <1>10 DEF Covered
  <2>2. \A i \in DOMAIN immutable_memfiles' : Covered(immutable_memfiles[i])'
    BY <1>2, <1>5, <1>6, <1>10 DEF Covered
  <2> QED BY <2>1, <2>2, CoverageKept
<1>12. WalAhead'
  <2>1. pc = "add" => /\ memfile.redo_id # id
                      /\ memfile.redo_id \in DOMAIN redo_files
    BY <1>5, <1>10 DEF Lifecycle, Covered
  <2>2. future'.state = "ready" => future'.id \in DOMAIN redo_files'
    BY <1>4 DEF WithFile
  <2> QED BY <1>2, <1>6, <2>1, <2>2 DEF WalAhead
<1> QED BY <1>7, <1>8, <1>9, <1>11, <1>12

(* A dump and its callbacks change neither the memfile nor the logs; what  *)
(* remains to show of them is the order of dumps and checkpoints.          *)
LEMMA DumperKeeps ==
    ASSUME Inductive, TypeOK', NEW d \in dumps, DumperStep(d)
    PROVE  Inductive'
<1> USE DEF Inductive
<1> DEFINE q == immutable_memfiles
<1>1. /\ dumps = {d} /\ q # <<>> /\ d.redo_id = Head(q).redo_id
      /\ q \in Seq(Memfiles)
  <2>1. dumps = {d} /\ q # <<>> /\ d.redo_id = Head(q).redo_id
    BY DEF OneDumpOfTheOldest
  <2>2. q \in Seq(Memfiles)
    BY DEF TypeOK
  <2> QED BY <2>1, <2>2
<1>2. /\ Head(q) = q[1] /\ 1 \in DOMAIN q
      /\ Len(q) \in Nat /\ DOMAIN q = 1 .. Len(q)
  BY <1>1, Shapes
<1>3. /\ meta.redo_id \in Nat
      /\ \A i \in DOMAIN q : q[i].redo_id \in Nat /\ d.redo_id <= q[i].redo_id
      /\ \A i \in DOMAIN q : i # 1 => d.redo_id < q[i].redo_id
      /\ d.redo_id < memfile.redo_id /\ d.redo_id \in Nat
  <2>1. /\ meta.redo_id \in Nat /\ d.redo_id \in Nat
        /\ \A i \in DOMAIN q : q[i].redo_id \in Nat
    BY Shapes
  <2>2. d.redo_id = q[1].redo_id
    BY <1>1, <1>2
  <2>3. \A i, j \in DOMAIN q : i < j => q[i].redo_id < q[j].redo_id
    BY DEF RedoOrder
  <2>4. \A i \in DOMAIN q : i # 1 => d.redo_id < q[i].redo_id
    <3> HIDE DEF q
    <3> QED BY <1>2, <2>2, <2>3
  <2>5. d.redo_id < memfile.redo_id
    BY <1>2, <2>2 DEF RedoOrder
  <2> HIDE DEF q
  <2> QED BY <2>1, <2>2, <2>4, <2>5
<1>4. UNCHANGED <<pc, batch, memfile, future, redo_files>>
  BY DEF DumperStep, Dump, OnDumpFailed, BuildNewState, Checkpoint,
         CompletionThrows, Apply, PopAndReschedule, writer, memory, disk
<1>5. pc \notin {"closed", "opening"}
  BY <1>3, Shapes DEF Lifecycle
(* The callbacks that leave the queue alone.                               *)
<1>6. CASE Dump(d) \/ BuildNewState(d) \/ Checkpoint(d) \/ CompletionThrows(d)
           \/ Apply(d)
  <2>1. UNCHANGED immutable_memfiles /\ meta'.next_redo_id = meta.next_redo_id
    BY <1>6 DEF Dump, BuildNewState, Checkpoint, CompletionThrows, Apply,
                memory, tables, TypeOK
  <2>2. \/ meta'.redo_id = meta.redo_id
        \/ meta'.redo_id = d.redo_id /\ Checkpoint(d)
    BY <1>6 DEF Dump, BuildNewState, Checkpoint, CompletionThrows, Apply,
                tables, TypeOK
  <2>3. PICK e : /\ dumps' = (dumps \ {d}) \cup {e}
                 /\ e.redo_id = d.redo_id
                 /\ IF e.pc \in {"checkpointed", "applied"}
                    THEN meta'.redo_id = e.redo_id
                    ELSE meta'.redo_id < e.redo_id
    <3> DEFINE at(v) == [d EXCEPT !.pc = v]
               with(v, fs) == [d EXCEPT !.pc = v, !.files = fs]
    <3>1. \A v, fs : /\ at(v).pc = v /\ at(v).redo_id = d.redo_id
                     /\ with(v, fs).pc = v /\ with(v, fs).redo_id = d.redo_id
      <4>1. d \in Dumps
        BY DEF TypeOK
      <4> QED BY <4>1 DEF Dumps
    <3>2. /\ d.pc \in {"checkpointed", "applied"} => meta.redo_id = d.redo_id
          /\ d.pc \notin {"checkpointed", "applied"} => meta.redo_id < d.redo_id
      BY DEF DumpOrder
    <3>3. ASSUME Dump(d) \/ BuildNewState(d) \/ CompletionThrows(d)
          PROVE  /\ meta' = meta /\ d.pc \notin {"checkpointed", "applied"}
                 /\ \/ \E v \in {"dumped", "failed"} :
                          dumps' = (dumps \ {d}) \cup {at(v)}
                    \/ \E v \in {"dumped", "built"} : \E fs :
                          dumps' = (dumps \ {d}) \cup {with(v, fs)}
      BY <3>3 DEF Dump, BuildNewState, CompletionThrows, tables
    <3>4. ASSUME Checkpoint(d) \/ Apply(d)
          PROVE  /\ meta'.redo_id = d.redo_id
                 /\ \E v \in {"checkpointed", "applied"} :
                       dumps' = (dumps \ {d}) \cup {at(v)}
      <4>1. CASE Checkpoint(d)
        BY <4>1 DEF Checkpoint, TypeOK
      <4>2. CASE Apply(d)
        BY <3>2, <4>2 DEF Apply
      <4> QED BY <3>4, <4>1, <4>2
    <3> HIDE DEF at, with
    <3>5. CASE Dump(d) \/ BuildNewState(d) \/ CompletionThrows(d)
      BY <3>1, <3>2, <3>3, <3>5
    <3>6. CASE Checkpoint(d) \/ Apply(d)
      BY <3>1, <3>4, <3>6
    <3> QED BY <1>6, <3>5, <3>6
  <2>4. OneDumpOfTheOldest' /\ DumpOrder'
    BY <2>1, <2>3, DumpMovesOn
  <2>5. RedoOrder'
    BY <1>3, <1>4, <2>1, <2>2 DEF RedoOrder
  <2>6. Lifecycle' /\ ImmutablesBounded'
    BY <1>3, <1>4, <1>5, <2>1 DEF Lifecycle, ImmutablesBounded, QueueFull
  <2>7. WalAhead' /\ WalCoversMemory'
    BY <1>4, <2>1, CoverageUndisturbed DEF WalAhead
  <2> QED BY <2>4, <2>5, <2>6, <2>7
(* The failed dump is replaced by another of the same memfile.             *)
<1>7. CASE OnDumpFailed(d)
  <2>1. UNCHANGED immutable_memfiles
    BY <1>7 DEF OnDumpFailed, memory
  <2>2. ScheduleDump(q, {}) /\ meta.redo_id < d.redo_id
    <3>1. dumps \ {d} = {}
      BY <1>1
    <3> QED BY <1>7, <3>1 DEF OnDumpFailed, DumpOrder
  <2> HIDE DEF q
  <2>3. /\ meta'.redo_id = meta.redo_id
        /\ meta'.next_redo_id = meta.next_redo_id
        /\ \/ dumps' = {}
           \/ /\ q # <<>>
              /\ \E n : /\ dumps' = {n}
                        /\ n.pc = "queued"
                        /\ n.redo_id = Head(q).redo_id
    BY <1>1, <2>2, ScheduleEffect
  <2>4. \A i \in DOMAIN q : meta'.redo_id < q[i].redo_id
    BY <1>3, <2>2, <2>3
  <2>5. immutable_memfiles' = q
    BY <2>1 DEF q
  <2>6. OneDumpOfTheOldest' /\ DumpOrder'
    BY <1>1, <2>3, <2>4, <2>5, ScheduleKeepsOrder
  <2>7. RedoOrder' /\ Lifecycle' /\ ImmutablesBounded'
    BY <1>4, <1>5, <2>1, <2>3
       DEF RedoOrder, Lifecycle, ImmutablesBounded, QueueFull
  <2>8. WalAhead' /\ WalCoversMemory'
    BY <1>4, <2>1, CoverageUndisturbed DEF WalAhead
  <2> QED BY <2>6, <2>7, <2>8
(* The dumped memfile leaves the queue; the checkpoint is behind the rest. *)
<1>8. CASE PopAndReschedule(d)
  <2> DEFINE rest == Tail(q)
  <2>1. /\ rest \in Seq(Memfiles)
        /\ Len(rest) = Len(q) - 1
        /\ DOMAIN rest = 1 .. Len(q) - 1
        /\ \A i \in DOMAIN rest : /\ rest[i] = q[i + 1]
                                  /\ i + 1 \in DOMAIN q
                                  /\ i + 1 # 1
                                  /\ i \in Nat
    BY <1>1, <1>2
  <2>2. /\ immutable_memfiles' = rest
        /\ ScheduleDump(rest, {})
        /\ meta.redo_id = d.redo_id
    <3>1. dumps \ {d} = {}
      BY <1>1
    <3> QED BY <1>8, <3>1 DEF PopAndReschedule, DumpOrder
  <2> HIDE DEF rest
  <2>3. /\ meta'.redo_id = meta.redo_id
        /\ meta'.next_redo_id = meta.next_redo_id
        /\ \/ dumps' = {}
           \/ /\ rest # <<>>
              /\ \E n : /\ dumps' = {n}
                        /\ n.pc = "queued"
                        /\ n.redo_id = Head(rest).redo_id
    BY <2>1, <2>2, ScheduleEffect
  <2>4. \A i \in DOMAIN rest : meta'.redo_id < rest[i].redo_id
    BY <1>3, <2>1, <2>2, <2>3
  <2>5. OneDumpOfTheOldest' /\ DumpOrder'
    BY <2>1, <2>2, <2>3, <2>4, ScheduleKeepsOrder
  <2>6. Lifecycle' /\ ImmutablesBounded'
    BY <1>2, <1>3, <1>4, <1>5, <2>1, <2>2, BoundsAssumption
       DEF Lifecycle, ImmutablesBounded, QueueFull
  <2>7. RedoOrder'
    <3>1. \A i \in DOMAIN rest : /\ meta'.redo_id <= rest[i].redo_id
                                 /\ rest[i].redo_id < memfile.redo_id
      BY <1>3, <2>1, <2>2, <2>3 DEF RedoOrder
    <3>2. \A i, j \in DOMAIN rest : i < j => rest[i].redo_id < rest[j].redo_id
      BY <2>1 DEF RedoOrder
    <3> QED BY <1>4, <2>2, <2>3, <3>1, <3>2 DEF RedoOrder
  <2>8. WalCoversMemory'
    <3>1. memfile'.redo_id # 0 => Covered(memfile)'
      BY <1>4, CoverageByMemfile DEF Covered
    <3>2. \A i \in DOMAIN q : Covered(q[i])
      BY CoverageByMemfile
    <3>3. \A i \in DOMAIN rest : Covered(rest[i])
      BY <2>1, <3>2
    <3>4. \A i \in DOMAIN immutable_memfiles' : Covered(immutable_memfiles[i])'
      BY <1>4, <2>2, <3>3 DEF Covered
    <3> QED BY <3>1, <3>4, CoverageKept
  <2>9. WalAhead'
    BY <1>4 DEF WalAhead
  <2> QED BY <2>5, <2>6, <2>7, <2>8, <2>9
<1> QED BY <1>6, <1>7, <1>8 DEF DumperStep

(* gc_ removes logs behind the checkpoint only, and no memfile is there.   *)
LEMMA GcKeeps ==
    ASSUME Inductive, CollectsOld, TypeOK', NEW g \in collections, Gc(g)
    PROVE  Inductive'
<1> USE DEF Inductive
<1>1. UNCHANGED <<pc, batch, memfile, immutable_memfiles, future, meta, dumps>>
  BY GcEffect
<1>2. \A f \in DOMAIN redo_files :
         f >= meta.redo_id => /\ f \in DOMAIN redo_files'
                              /\ redo_files'[f] = redo_files[f]
  <2>1. CASE redo_files' = redo_files
    BY <2>1
  <2>2. ASSUME NEW id \in g.to_be_deleted,
               redo_files' = [f \in DOMAIN redo_files \ {id} |-> redo_files[f]]
        PROVE  \A f \in DOMAIN redo_files :
                  f >= meta.redo_id => /\ f \in DOMAIN redo_files'
                                       /\ redo_files'[f] = redo_files[f]
    <3>1. id < meta.redo_id
      <4>1. /\ g.older \in Nat /\ id \in Nat /\ meta.redo_id \in Nat
            /\ g.older <= meta.redo_id /\ id < g.older
        BY Shapes DEF TypeOK, Collections, CollectsOld
      <4> QED BY <4>1
    <3>2. \A f \in DOMAIN redo_files : f >= meta.redo_id => f # id
      BY <3>1, Shapes
    <3> QED BY <2>2, <3>2
  <2> QED BY <2>1, <2>2, GcEffect
<1>3. memfile.redo_id # 0 => memfile.redo_id >= meta.redo_id
  BY Shapes DEF RedoOrder
<1>4. \A i \in DOMAIN immutable_memfiles :
         immutable_memfiles[i].redo_id >= meta.redo_id
  BY Shapes DEF RedoOrder
<1>5. /\ memfile.redo_id # 0 => Covered(memfile)
      /\ \A i \in DOMAIN immutable_memfiles : Covered(immutable_memfiles[i])
  BY CoverageByMemfile
<1>6. WalCoversMemory'
  <2>1. memfile'.redo_id # 0 => Covered(memfile)'
    BY <1>1, <1>2, <1>3, <1>5 DEF Covered
  <2>2. \A i \in DOMAIN immutable_memfiles' : Covered(immutable_memfiles[i])'
    BY <1>1, <1>2, <1>4, <1>5 DEF Covered
  <2> QED BY <2>1, <2>2, CoverageKept
<1>7. WalAhead'
  <2>1. pc = "add" => /\ memfile.redo_id >= meta.redo_id
                      /\ memfile.redo_id \in DOMAIN redo_files
    BY <1>3, <1>5 DEF Lifecycle, Covered
  <2>2. future.state = "ready" => future.id >= meta.redo_id
    <3>1. future.state = "ready" => memfile.redo_id < future.id
      BY DEF RedoOrder
    <3> QED BY <1>3, <3>1, Shapes DEF Lifecycle
  <2> QED BY <1>1, <1>2, <2>1, <2>2 DEF WalAhead
<1>8. Lifecycle' /\ ImmutablesBounded' /\ RedoOrder'
  BY <1>1 DEF Lifecycle, ImmutablesBounded, RedoOrder, QueueFull
<1>9. OneDumpOfTheOldest' /\ DumpOrder'
  BY <1>1, DumpsUndisturbed
<1> QED BY <1>6, <1>7, <1>8, <1>9
------------------------------------------------------------------------------

(* Every step keeps it.                                                    *)
LEMMA InductiveNext ==
    ASSUME Inductive, CollectsOld, [Next]_vars
    PROVE  Inductive'
<1>1. TypeOK'
  BY NextType DEF Inductive
<1>2. batch.version \in Nat
  BY Shapes DEF Inductive
<1>3. CASE Open
  <2>1. /\ pc = "closed" /\ pc' = "opening"
        /\ UNCHANGED <<memfile, immutable_memfiles, meta, dumps, redo_files,
                       future, batch>>
    BY <1>3 DEF Open, memory, tables, disk
  <2> QED BY <1>1, <1>2, <2>1, ControlStep
<1>4. CASE OpenFails \/ Crash
  BY <1>1, <1>4, NothingInMemory DEF OpenFails, Crash, LoseMemory
<1>5. CASE Begin
  BY <1>1, <1>5, BeginKeeps DEF Begin
<1>6. CASE Commit
  BY <1>1, <1>6, CommitKeeps
<1>7. CASE AllocRedo
  BY <1>1, <1>7, AllocRedoKeeps
<1>8. ASSUME NEW d \in dumps, DumperStep(d) PROVE Inductive'
  BY <1>1, <1>8, DumperKeeps
<1>9. CASE Collect
  BY <1>1, <1>9, GcKeeps DEF Collect
<1>10. CASE UNCHANGED vars
  <2>1. UNCHANGED <<pc, batch, memfile, immutable_memfiles, future, meta, dumps,
                    redo_files>>
    BY <1>10 DEF vars, writer, memory, tables, disk
  <2>2. Lifecycle' /\ ImmutablesBounded' /\ RedoOrder' /\ WalAhead'
    BY <2>1
       DEF Inductive, Lifecycle, ImmutablesBounded, RedoOrder, WalAhead, QueueFull
  <2> QED BY <1>1, <2>1, <2>2, DumpsUndisturbed, CoverageUndisturbed
          DEF Inductive
<1> QED BY <1>3, <1>4, <1>5, <1>6, <1>7, <1>8, <1>9, <1>10 DEF Next

(* The checkpoint only grows while there are collections, and what they    *)
(* list is older than the one they have read.                              *)
LEMMA CollectsNext ==
    ASSUME Inductive, CollectsOld, [Next]_vars
    PROVE  CollectsOld'
<1>1. meta.redo_id \in Nat /\ collections \subseteq Collections
  BY Shapes DEF Inductive, TypeOK
<1>2. \A g \in collections : g.older \in Nat /\ g.to_be_deleted \subseteq Nat
  BY <1>1 DEF Collections
<1>3. ASSUME collections' = collections, meta'.redo_id = meta.redo_id
      PROVE  CollectsOld'
  BY <1>3 DEF CollectsOld
<1>4. ASSUME collections' = {}
      PROVE  CollectsOld'
  BY <1>4 DEF CollectsOld
<1>5. CASE LoseMemory
  BY <1>4, <1>5 DEF LoseMemory
<1>6. CASE Open \/ Begin
  BY <1>3, <1>6 DEF Open, Begin, BeginWrite, tables, collected
<1>7. CASE OpenFails \/ Crash
  BY <1>5, <1>7 DEF OpenFails, Crash
<1>8. CASE AllocRedo
  <2>1. meta'.redo_id = meta.redo_id /\ collections' = collections
    BY <1>8 DEF AllocRedo, collected, Inductive, TypeOK
  <2> QED BY <1>3, <2>1
<1>9. CASE Commit
  <2>1. CASE \/ DumpDoneWakeup \/ WaitTimesOut \/ RequestRedo \/ SwitchFails
             \/ AppendRedo \/ AppendFails \/ AddToMemfile
    BY <1>3, <2>1 DEF DumpDoneWakeup, WaitTimesOut, RequestRedo, SwitchFails,
                      AppendRedo, AppendFails, AddToMemfile, tables, collected
  <2>2. CASE SwitchMemfile
    <3>1. Retire \in Seq(Memfiles)
      BY DEF Retire, Inductive, TypeOK
    <3>2. meta'.redo_id = meta.redo_id
      <4>1. CASE ScheduleDump(Retire, dumps) \/ Submit(Retire, dumps)
        BY <3>1, <4>1, ScheduleEffect DEF Inductive
      <4>2. CASE UNCHANGED meta
        BY <4>2
      <4> QED BY <2>2, <4>1, <4>2 DEF SwitchMemfile
    <3>3. collections' = collections
      BY <2>2 DEF SwitchMemfile, collected
    <3> QED BY <1>3, <3>2, <3>3
  <2>3. CASE UseSpentLog \/ Terminate
    BY <1>5, <2>3 DEF UseSpentLog, Terminate
  <2> QED BY <1>9, <2>1, <2>2, <2>3 DEF Commit
<1>10. ASSUME NEW d \in dumps, DumperStep(d)
       PROVE  CollectsOld'
  <2>1. d.redo_id \in Nat
    BY Shapes DEF Inductive
  <2>2. CASE Dump(d) \/ BuildNewState(d) \/ CompletionThrows(d) \/ Apply(d)
    BY <1>3, <2>2 DEF Dump, BuildNewState, CompletionThrows, Apply, tables, collected
  <2>3. CASE OnDumpFailed(d)
    <3>1. meta'.redo_id = meta.redo_id
      BY <2>3, ScheduleEffect DEF OnDumpFailed, Inductive, TypeOK
    <3>2. collections' = collections
      BY <2>3 DEF OnDumpFailed, collected
    <3> QED BY <1>3, <3>1, <3>2
  <2>4. CASE Checkpoint(d)
    <3>1. collections' = collections /\ meta'.redo_id = d.redo_id
      BY <2>4 DEF Checkpoint, collected, Inductive, TypeOK
    <3>2. meta.redo_id < d.redo_id
      BY <2>4 DEF Checkpoint, Inductive, DumpOrder
    <3> QED BY <1>1, <1>2, <2>1, <3>1, <3>2 DEF CollectsOld
  <2>5. CASE PopAndReschedule(d)
    <3>1. Tail(immutable_memfiles) \in Seq(Memfiles)
      BY <2>5 DEF PopAndReschedule, Inductive, TypeOK
    <3>2. meta'.redo_id = meta.redo_id
      BY <2>5, <3>1, ScheduleEffect DEF PopAndReschedule, Inductive
    <3>3. \A g \in collections' :
             g \in collections \/ (g.older = 0 /\ g.to_be_deleted = {})
      BY <2>5 DEF PopAndReschedule, BeginGc
    <3> QED BY <1>1, <3>2, <3>3 DEF CollectsOld
  <2> QED BY <1>10, <2>2, <2>3, <2>4, <2>5 DEF DumperStep
<1>11. ASSUME NEW g \in collections, Gc(g)
       PROVE  CollectsOld'
  <2>1. meta' = meta
    BY <1>11, GcEffect DEF Inductive
  <2>2. g.older <= meta.redo_id /\ \A id \in g.to_be_deleted : id < g.older
    BY DEF CollectsOld
  <2>3. \A h \in Rest(g) : /\ h.older <= meta.redo_id
                           /\ \A id \in h.to_be_deleted : id < h.older
    BY DEF Rest, CollectsOld
  <2>4. CASE collections' = Rest(g)
    BY <2>1, <2>3, <2>4 DEF CollectsOld
  <2>5. CASE GcReadsCheckpoint(g)
    <3> DEFINE h == [g EXCEPT !.pc = "list", !.older = meta.redo_id]
    <3>1. collections' = Rest(g) \cup {h}
      BY <2>5 DEF GcReadsCheckpoint
    <3>2. h.older = meta.redo_id /\ h.to_be_deleted = g.to_be_deleted
      BY <1>1 DEF Collections
    <3>3. \A id \in h.to_be_deleted : id < h.older
      BY <1>1, <1>2, <2>2, <3>2
    <3> HIDE DEF h
    <3> QED BY <1>1, <2>1, <2>3, <3>1, <3>2, <3>3 DEF CollectsOld
  <2>6. ASSUME NEW some, some \subseteq OlderThan(g.older) \cup g.to_be_deleted,
               collections' = Rest(g) \cup
                  {[g EXCEPT !.pc = "remove", !.to_be_deleted = some]}
        PROVE  CollectsOld'
    <3> DEFINE h == [g EXCEPT !.pc = "remove", !.to_be_deleted = some]
    <3>1. h.older = g.older /\ h.to_be_deleted = some
      BY <1>1 DEF Collections
    <3>2. \A id \in some : id < g.older
      BY <2>2, <2>6 DEF OlderThan
    <3>3. collections' = Rest(g) \cup {h}
      BY <2>6
    <3> HIDE DEF h
    <3> QED BY <2>1, <2>2, <2>3, <3>1, <3>2, <3>3 DEF CollectsOld
  <2>7. GcReadsCheckpoint(g) \/ collections' = Rest(g)
        \/ \E some : /\ some \subseteq OlderThan(g.older) \cup g.to_be_deleted
                     /\ collections' = Rest(g) \cup
                           {[g EXCEPT !.pc = "remove", !.to_be_deleted = some]}
    BY <1>11, GcMovesOn DEF Inductive
  <2> QED BY <2>4, <2>5, <2>6, <2>7
<1>12. CASE UNCHANGED vars
  BY <1>3, <1>12 DEF vars, tables, collected
<1> QED BY <1>6, <1>7, <1>8, <1>9, <1>10, <1>11, <1>12 DEF Next, Collect

(* The engine keeps the order of redo ids, checkpoints, dumps and logs     *)
(* through every interleaving of its threads, every failure and restart.   *)
THEOREM InductiveInvariant == Spec => []Inductive
<1>1. Init => Inductive /\ CollectsOld
  BY InductiveInit DEF Init, CollectsOld
<1>2. Inductive /\ CollectsOld /\ [Next]_vars => Inductive' /\ CollectsOld'
  BY InductiveNext, CollectsNext
<1> QED BY <1>1, <1>2, PTL DEF Spec

(* The writer never queues more than MaxImmutables full memfiles.          *)
THEOREM ImmutablesAlwaysBounded == Spec => []ImmutablesBounded
<1>1. Inductive => ImmutablesBounded
  BY DEF Inductive
<1> QED BY <1>1, InductiveInvariant, PTL

(* Dumps are serialized and each is of the oldest immutable memfile, which *)
(* stays in the queue until its dump is installed.                         *)
THEOREM DumpsAreSerialized == Spec => []OneDumpOfTheOldest
<1>1. Inductive => OneDumpOfTheOldest
  BY DEF Inductive
<1> QED BY <1>1, InductiveInvariant, PTL

(* DBMeta::checkpoint never fails an assertion.                            *)
THEOREM CheckpointsAdvance == Spec => []CheckpointAsserts
<1>1. Inductive => CheckpointAsserts
  <2> SUFFICES ASSUME Inductive, NEW d \in dumps, d.pc = "built"
               PROVE  /\ meta.redo_id < d.redo_id
                      /\ d.redo_id < meta.next_redo_id
    BY DEF CheckpointAsserts
  <2>1. meta.redo_id < d.redo_id
    BY DEF Inductive, DumpOrder
  <2>2. /\ immutable_memfiles \in Seq(Memfiles) /\ immutable_memfiles # <<>>
        /\ d.redo_id = Head(immutable_memfiles).redo_id
    BY DEF Inductive, OneDumpOfTheOldest, TypeOK
  <2>3. /\ Head(immutable_memfiles) = immutable_memfiles[1]
        /\ 1 \in DOMAIN immutable_memfiles
    BY <2>2
  <2>4. d.redo_id < memfile.redo_id /\ memfile.redo_id < meta.next_redo_id
    BY <2>2, <2>3 DEF Inductive, RedoOrder
  <2> QED BY <2>1, <2>2, <2>3, <2>4, Shapes DEF Inductive
<1> QED BY <1>1, InductiveInvariant, PTL

(* The redo log of every memfile in memory exists and has its values, or   *)
(* later ones: gc_ never removes one too early.                            *)
THEOREM LogsCoverMemory == Spec => []WalCoversMemory
<1>1. Inductive => WalCoversMemory
  BY DEF Inductive
<1> QED BY <1>1, InductiveInvariant, PTL

------------------------------------------------------------------------------
(* What the engine keeps on disk: the files of the tables, the manifest    *)
(* and the list that reads use agree, at each step of a dump and after a   *)
(* kill.                                                                   *)

(* What TypeOK says of the tables and the dumps.                           *)
LEMMA TableShapes ==
    ASSUME TypeOK
    PROVE  /\ Len(sstables) \in Nat
           /\ DOMAIN sstables = 1 .. Len(sstables)
           /\ \A i \in DOMAIN sstables : sstables[i] \in Nat
           /\ meta.next_file_id \in Nat
           /\ meta.sorted_tables \in Seq(Nat)
           /\ \A d \in dumps : d \in Dumps /\ d.file_id \in Nat
           /\ \A f \in DOMAIN db_files : f \in Nat /\ db_files[f] \in Contents
<1>1. \A d \in Dumps : d.file_id \in Nat
  BY DEF Dumps
<1> QED BY <1>1 DEF TypeOK

(* Steps that leave the tables, the dumps and the files alone, and the     *)
(* memfile being dumped where it is.                                       *)
LEMMA ManifestUndisturbed ==
    ASSUME TypeOK, Manifest,
           UNCHANGED <<sstables, dumps, db_files>>,
           meta'.sorted_tables = meta.sorted_tables,
           meta'.next_file_id = meta.next_file_id,
           dumps # {} => Head(immutable_memfiles)' = Head(immutable_memfiles),
           \/ memfile'.redo_id # 0
           \/ UNCHANGED memfile
    PROVE  Manifest'
<1>1. TablesOnDisk'
  BY DEF Manifest, TablesOnDisk
<1>2. \A d \in dumps' : DumpInstalled(d)'
  BY DEF Manifest, DumpInstalled
<1>3. NoneCheckpointed' => meta'.sorted_tables = sstables'
  BY DEF Manifest, NoneCheckpointed
<1> QED BY <1>1, <1>2, <1>3 DEF Manifest

(* Of a schedule_dump_ the tables see a fresh file id and a queued dump.   *)
LEMMA ScheduleFiles ==
    ASSUME TypeOK, NEW q \in Seq(Memfiles), NEW rest,
           ScheduleDump(q, rest) \/ Submit(q, rest)
    PROVE  /\ meta'.sorted_tables = meta.sorted_tables
           /\ meta'.next_file_id >= meta.next_file_id
           /\ \/ dumps' = rest
              \/ \E n : /\ dumps' = rest \cup {n}
                        /\ n.pc = "queued"
                        /\ n.file_id = meta.next_file_id
                        /\ meta'.next_file_id = meta.next_file_id + 1
<1>1. meta.next_file_id \in Nat
  BY TableShapes
<1>2. CASE meta' = meta /\ dumps' = rest
  BY <1>1, <1>2
<1>3. CASE meta' = [meta EXCEPT !.next_file_id = @ + 1]
  <2>1. /\ meta'.next_file_id = meta.next_file_id + 1
        /\ meta'.sorted_tables = meta.sorted_tables
    BY <1>3 DEF TypeOK
  <2> DEFINE n == [pc |-> "queued", files |-> <<>>,
                   redo_id |-> Head(q).redo_id, file_id |-> meta.next_file_id]
  <2>2. n.pc = "queued" /\ n.file_id = meta.next_file_id
    OBVIOUS
  <2>3. \/ dumps' = rest
        \/ dumps' = rest \cup {n}
    BY DEF ScheduleDump, Submit
  <2> HIDE DEF n
  <2> QED BY <1>1, <2>1, <2>2, <2>3
<1> QED BY <1>2, <1>3 DEF ScheduleDump, Submit

(* If no dump is left, scheduling one keeps the manifest.                  *)
LEMMA ScheduleKeepsManifest ==
    ASSUME TypeOK, Manifest, NoneCheckpointed, NEW q \in Seq(Memfiles),
           ScheduleDump(q, {}) \/ Submit(q, {}),
           UNCHANGED <<sstables, db_files>>,
           memfile'.redo_id # 0
    PROVE  Manifest'
<1>1. /\ meta'.sorted_tables = meta.sorted_tables
      /\ meta'.next_file_id >= meta.next_file_id
      /\ \/ dumps' = {}
         \/ \E n : /\ dumps' = {n}
                   /\ n.pc = "queued"
                   /\ n.file_id = meta.next_file_id
                   /\ meta'.next_file_id = meta.next_file_id + 1
  BY ScheduleFiles
<1>2. /\ meta.next_file_id \in Nat
      /\ \A i \in DOMAIN sstables : /\ sstables[i] \in Nat
                                    /\ sstables[i] < meta.next_file_id
  BY TableShapes DEF Manifest, TablesOnDisk
<1>3. meta'.next_file_id \in Int
  <2>1. CASE meta' = meta
    BY <1>2, <2>1
  <2>2. CASE meta' = [meta EXCEPT !.next_file_id = @ + 1]
    BY <1>2, <2>2 DEF TypeOK
  <2> QED BY <2>1, <2>2 DEF ScheduleDump, Submit
<1>4. TablesOnDisk'
  BY <1>1, <1>2, <1>3 DEF Manifest, TablesOnDisk
<1>5. \A d \in dumps' : DumpInstalled(d)'
  BY <1>1, <1>2 DEF DumpInstalled
<1>6. meta'.sorted_tables = sstables'
  BY <1>1 DEF Manifest
<1> QED BY <1>4, <1>5, <1>6 DEF Manifest

(* The dump of the oldest memfile writes its content: no other memfile has *)
(* its redo id.                                                            *)
LEMMA DumpedIsTheHead ==
    ASSUME Inductive, immutable_memfiles # <<>>
    PROVE  DumpedContent(immutable_memfiles, Head(immutable_memfiles).redo_id)
              = Head(immutable_memfiles).content
<1> DEFINE q == immutable_memfiles
<1>1. /\ q # <<>> /\ Head(q) = q[1] /\ 1 \in DOMAIN q
      /\ DOMAIN q = 1 .. Len(q) /\ Len(q) \in Nat
  BY Shapes DEF Inductive, TypeOK
<1>2. \A i \in DOMAIN q : q[i].redo_id = q[1].redo_id => i = 1
  <2>1. \A i \in DOMAIN q : i # 1 => 1 < i
    BY <1>1
  <2>2. \A i \in DOMAIN q : q[i].redo_id \in Nat
    BY Shapes DEF Inductive
  <2>3. \A i, j \in DOMAIN q : i < j => q[i].redo_id < q[j].redo_id
    BY DEF Inductive, RedoOrder
  <2> HIDE DEF q
  <2> QED BY <1>1, <2>1, <2>2, <2>3
<1> HIDE DEF q
<1>3. (CHOOSE i \in DOMAIN q : q[i].redo_id = Head(q).redo_id) = 1
  BY <1>1, <1>2
<1> QED BY <1>1, <1>3 DEF DumpedContent, q

(* A dump that moves on keeps the manifest if what it has done to the      *)
(* files and to the lists is what its new step says.                       *)
LEMMA DumpKeepsManifest ==
    ASSUME Manifest, TablesOnDisk', NEW e, dumps' = {e}, DumpInstalled(e)',
           \/ memfile'.redo_id # 0
           \/ UNCHANGED <<memfile, sstables>>,
           e.pc # "checkpointed" => meta'.sorted_tables = sstables'
    PROVE  Manifest'
<1>1. \A d \in dumps' : DumpInstalled(d)'
  OBVIOUS
<1> QED BY <1>1 DEF Manifest, NoneCheckpointed

(* Every step of a dump, its failures and retries included, keeps the list *)
(* of tables and the files in agreement.                                   *)
LEMMA DumperKeepsManifest ==
    ASSUME Inductive, Manifest, NEW d \in dumps, DumperStep(d)
    PROVE  Manifest'
<1>1. /\ dumps = {d} /\ immutable_memfiles # <<>>
      /\ d.redo_id = Head(immutable_memfiles).redo_id
      /\ immutable_memfiles \in Seq(Memfiles)
      /\ dumps \ {d} = {}
  BY DEF Inductive, OneDumpOfTheOldest, TypeOK
<1>2. /\ d \in Dumps /\ d.file_id \in Nat /\ meta.next_file_id \in Nat
      /\ DOMAIN sstables = 1 .. Len(sstables) /\ Len(sstables) \in Nat
      /\ \A i \in DOMAIN sstables : sstables[i] \in Nat
  BY TableShapes DEF Inductive
<1>3. UNCHANGED memfile /\ memfile.redo_id # 0
  <2>1. UNCHANGED memfile
    BY DEF DumperStep, Dump, OnDumpFailed, BuildNewState, Checkpoint,
           CompletionThrows, Apply, PopAndReschedule, memory
  <2>2. memfile.redo_id # 0
    BY <1>1 DEF Inductive, Lifecycle
  <2> QED BY <2>1, <2>2
<1>4. /\ DumpInstalled(d) /\ TablesOnDisk
      /\ d.pc # "checkpointed" => meta.sorted_tables = sstables
  BY <1>1 DEF Manifest, NoneCheckpointed
<1> DEFINE at(v) == [d EXCEPT !.pc = v]
           with(v, fs) == [d EXCEPT !.pc = v, !.files = fs]
<1>5. \A v : /\ at(v).pc = v /\ at(v).file_id = d.file_id
             /\ at(v).files = d.files
  BY <1>2 DEF Dumps
<1>6. \A v, fs : /\ with(v, fs).pc = v /\ with(v, fs).file_id = d.file_id
                 /\ with(v, fs).files = fs
  BY <1>2 DEF Dumps
<1>7. CASE Dump(d)
  <2>1. /\ d.pc = "queued"
        /\ UNCHANGED <<immutable_memfiles, meta, sstables>>
    BY <1>7 DEF Dump, memory, tables
  <2>2. DumpedContent(immutable_memfiles, d.redo_id)
           = Head(immutable_memfiles).content
    BY <1>1, DumpedIsTheHead
  <2>3. \/ /\ db_files' = WithFile(db_files, d.file_id,
                                   Head(immutable_memfiles).content)
           /\ dumps' = {at("dumped")}
        \/ /\ \/ db_files' = db_files
              \/ db_files' = WithFile(db_files, d.file_id, Empty)
           /\ dumps' = {at("failed")}
    BY <1>1, <1>7, <2>2 DEF Dump
  <2> HIDE DEF at
  <2>4. DOMAIN db_files \subseteq DOMAIN db_files'
    BY <2>3 DEF WithFile
  <2>5. TablesOnDisk'
    BY <1>4, <2>1, <2>4 DEF TablesOnDisk
  <2>6. CASE dumps' = {at("dumped")} /\ db_files' = WithFile(db_files, d.file_id,
                                           Head(immutable_memfiles).content)
    <3>1. DumpInstalled(at("dumped"))'
      BY <1>4, <1>5, <2>1, <2>6 DEF DumpInstalled, WithFile
    <3> QED BY <1>3, <1>4, <1>5, <2>1, <2>5, <2>6, <3>1, DumpKeepsManifest
  <2>7. CASE dumps' = {at("failed")}
    <3>1. DumpInstalled(at("failed"))'
      BY <1>4, <1>5, <2>1 DEF DumpInstalled
    <3> QED BY <1>3, <1>4, <1>5, <2>1, <2>5, <2>7, <3>1, DumpKeepsManifest
  <2> QED BY <2>3, <2>6, <2>7
<1>8. CASE OnDumpFailed(d)
  <2>1. /\ ScheduleDump(immutable_memfiles, {})
        /\ UNCHANGED <<sstables, db_files>>
        /\ d.pc = "failed"
    BY <1>1, <1>8 DEF OnDumpFailed, disk
  <2>2. NoneCheckpointed
    BY <1>1, <2>1 DEF NoneCheckpointed
  <2> QED BY <1>1, <1>3, <2>1, <2>2, ScheduleKeepsManifest DEF Inductive
<1>9. CASE BuildNewState(d) \/ CompletionThrows(d)
  <2>1. UNCHANGED <<immutable_memfiles, meta, sstables, db_files>>
    BY <1>9 DEF BuildNewState, CompletionThrows, memory, tables, disk
  <2>2. TablesOnDisk'
    BY <1>4, <2>1 DEF TablesOnDisk
  <2>3. PICK v, fs : /\ dumps' = {with(v, fs)}
                     /\ \/ v = "built" /\ fs = Append(sstables, d.file_id)
                        \/ v = "dumped"
    BY <1>1, <1>9 DEF BuildNewState, CompletionThrows
  <2>4. d.pc \in {"dumped", "built"}
    BY <1>9 DEF BuildNewState, CompletionThrows
  <2> HIDE DEF with
  <2>5. DumpInstalled(with(v, fs))'
    BY <1>4, <1>6, <2>1, <2>3, <2>4 DEF DumpInstalled
  <2> QED BY <1>3, <1>4, <1>6, <2>1, <2>2, <2>3, <2>4, <2>5, DumpKeepsManifest
<1>10. CASE Checkpoint(d)
  <2>1. /\ UNCHANGED <<immutable_memfiles, sstables, db_files>>
        /\ d.pc = "built" /\ dumps' = {at("checkpointed")}
    BY <1>1, <1>10 DEF Checkpoint, memory, disk
  <2>2. /\ meta'.next_file_id = meta.next_file_id
        /\ meta'.sorted_tables = Append(meta.sorted_tables, d.file_id)
    BY <1>10 DEF Checkpoint, Inductive, TypeOK
  <2>3. TablesOnDisk'
    BY <1>4, <2>1, <2>2 DEF TablesOnDisk
  <2> HIDE DEF at
  <2>4. DumpInstalled(at("checkpointed"))'
    BY <1>4, <1>5, <2>1, <2>2 DEF DumpInstalled
  <2> QED BY <1>3, <1>5, <2>1, <2>3, <2>4, DumpKeepsManifest
<1>11. CASE Apply(d)
  <2>1. /\ UNCHANGED <<immutable_memfiles, meta, db_files>>
        /\ d.pc = "checkpointed" /\ dumps' = {at("applied")}
        /\ sstables' = d.files
    BY <1>1, <1>11 DEF Apply, memory, disk
  <2>2. sstables' = Append(sstables, d.file_id) /\ meta.sorted_tables = sstables'
    BY <1>4, <2>1 DEF DumpInstalled
  <2>3. /\ Len(sstables') = Len(sstables) + 1
        /\ DOMAIN sstables' = 1 .. Len(sstables) + 1
        /\ \A i \in 1 .. Len(sstables) : sstables'[i] = sstables[i]
        /\ sstables'[Len(sstables) + 1] = d.file_id
        /\ sstables' # <<>>
    BY <1>2, <2>2, SMTT(30) DEF Inductive, TypeOK
  <2>4. TablesOnDisk'
    BY <1>2, <1>4, <2>1, <2>3 DEF TablesOnDisk, DumpInstalled
  <2> HIDE DEF at
  <2>5. DumpInstalled(at("applied"))'
    BY <1>4, <1>5, <2>1, <2>3 DEF DumpInstalled
  <2> QED BY <1>3, <1>5, <2>1, <2>2, <2>4, <2>5, DumpKeepsManifest
<1>12. CASE PopAndReschedule(d)
  <2>1. /\ ScheduleDump(Tail(immutable_memfiles), {})
        /\ UNCHANGED <<sstables, db_files>>
        /\ d.pc = "applied"
    BY <1>1, <1>12 DEF PopAndReschedule, disk
  <2>2. NoneCheckpointed
    BY <1>1, <2>1 DEF NoneCheckpointed
  <2>3. Tail(immutable_memfiles) \in Seq(Memfiles)
    BY <1>1
  <2> QED BY <1>3, <2>1, <2>2, <2>3, ScheduleKeepsManifest DEF Inductive
<1> QED BY <1>7, <1>8, <1>9, <1>10, <1>11, <1>12 DEF DumperStep
------------------------------------------------------------------------------
(* A process that ends forgets the tables and the dumps.                   *)
LEMMA ForgottenManifest ==
    ASSUME memfile' = NullMemfile, meta' = NewMeta, sstables' = <<>>,
           dumps' = {}
    PROVE  Manifest'
<1>1. memfile'.redo_id = 0 /\ memfile'.content = Empty
  BY NewMemfileType DEF NullMemfile
<1>2. meta'.sorted_tables = <<>>
  BY DEF NewMeta
<1> QED BY <1>1, <1>2 DEF Manifest, TablesOnDisk

(* The full memfile joins the queue behind the one being dumped.           *)
LEMMA SwitchKeepsManifest ==
    ASSUME Inductive, Manifest, SwitchMemfile
    PROVE  Manifest'
<1>1. /\ memfile'.redo_id = future.id
      /\ UNCHANGED <<sstables, db_files>>
      /\ immutable_memfiles' = Retire
      /\ future.state = "ready"
  BY Shapes, NewMemfileType DEF Inductive, SwitchMemfile, disk
<1>2. memfile'.redo_id # 0
  BY <1>1, Shapes DEF Inductive, RedoOrder
<1>3. Retire \in Seq(Memfiles) /\ immutable_memfiles \in Seq(Memfiles)
  BY DEF Inductive, Retire, TypeOK
<1>4. CASE UNCHANGED <<meta, dumps>>
  <2>1. dumps # {} => Head(immutable_memfiles)' = Head(immutable_memfiles)
    <3> SUFFICES ASSUME dumps # {}
                 PROVE  Head(Retire) = Head(immutable_memfiles)
      BY <1>1
    <3>1. immutable_memfiles # <<>>
      BY DEF Inductive, OneDumpOfTheOldest
    <3>2. CASE Retire = Append(immutable_memfiles, memfile)
      <4>1. memfile \in Memfiles
        BY DEF Inductive, TypeOK
      <4> QED BY <1>3, <3>1, <3>2, <4>1
    <3> QED BY <3>2 DEF Retire
  <2> QED BY <1>1, <1>2, <1>4, <2>1, ManifestUndisturbed DEF Inductive
<1>5. CASE /\ StartsDump(Retire)
           /\ ScheduleDump(Retire, dumps) \/ Submit(Retire, dumps)
  <2>1. immutable_memfiles = <<>>
    <3>1. Len(Retire) = 1
      BY <1>5 DEF StartsDump
    <3>2. memfile \in Memfiles /\ memfile.redo_id # 0
      BY <1>5 DEF Inductive, TypeOK, Lifecycle, StartsDump
    <3> QED BY <1>3, <3>1, <3>2 DEF Retire
  <2>2. dumps = {}
    BY <2>1 DEF Inductive, OneDumpOfTheOldest
  <2>3. NoneCheckpointed
    BY <2>2 DEF NoneCheckpointed
  <2> HIDE DEF Retire
  <2> QED BY <1>1, <1>2, <1>3, <1>5, <2>2, <2>3, ScheduleKeepsManifest
          DEF Inductive
<1> QED BY <1>4, <1>5 DEF SwitchMemfile

(* The steps that touch neither the tables, nor the dumps, nor the queue.  *)
QuietStep == \/ Open \/ Begin \/ DumpDoneWakeup \/ WaitTimesOut \/ RequestRedo
             \/ SwitchFails \/ AppendRedo \/ AppendFails \/ AllocRedo \/ Collect

LosingStep == OpenFails \/ UseSpentLog \/ Terminate \/ Crash

(* Every step is one of the dumper's, a switch of memfiles, an addition to *)
(* the memfile, a loss of the memory, or touches none of what the manifest *)
(* speaks of.                                                              *)
LEMMA StepKinds ==
    ASSUME Next
    PROVE  \/ QuietStep
           \/ LosingStep
           \/ SwitchMemfile
           \/ AddToMemfile
           \/ \E d \in dumps : DumperStep(d)
BY DEF Next, Commit, QuietStep, LosingStep

(* What a step of the last kind leaves alone.                              *)
LEMMA QuietEffect ==
    ASSUME TypeOK, QuietStep
    PROVE  /\ UNCHANGED <<memfile, immutable_memfiles, sstables, dumps, db_files>>
           /\ meta'.sorted_tables = meta.sorted_tables
           /\ meta'.next_file_id = meta.next_file_id
<1>1. CASE AllocRedo
  BY <1>1 DEF AllocRedo, writer, memory, TypeOK
<1>2. CASE QuietStep /\ ~AllocRedo
  <2>1. CASE Begin
    BY <2>1 DEF Begin, BeginWrite, memory, tables, disk
  <2>2. CASE Open \/ DumpDoneWakeup \/ WaitTimesOut \/ RequestRedo \/ SwitchFails
    BY <2>2 DEF Open, DumpDoneWakeup, WaitTimesOut, RequestRedo, SwitchFails,
                memory, tables, disk
  <2>3. CASE AppendRedo \/ AppendFails
    BY <2>3 DEF AppendRedo, AppendFails, memory, tables
  <2>4. CASE Collect
    BY <2>4, GcEffect DEF Collect
  <2> QED BY <1>2, <2>1, <2>2, <2>3, <2>4 DEF QuietStep
<1> QED BY <1>1, <1>2

(* An addition changes the content of the memfile only.                    *)
LEMMA AddEffect ==
    ASSUME TypeOK, AddToMemfile
    PROVE  /\ UNCHANGED <<immutable_memfiles, meta, sstables, dumps, db_files>>
           /\ memfile'.redo_id = memfile.redo_id
BY DEF AddToMemfile, tables, disk, TypeOK, Memfiles

(* A death of the process, or a start after it, loses the memory and keeps *)
(* the tables.                                                             *)
LEMMA LosingEffect ==
    ASSUME LosingStep
    PROVE  LoseMemory /\ UNCHANGED <<batch, db_files>>
BY DEF LosingStep, OpenFails, UseSpentLog, Terminate, Crash, disk

(* Every step keeps the list of tables and the files in agreement.         *)
LEMMA ManifestNext ==
    ASSUME Inductive, Manifest, [Next]_vars
    PROVE  Manifest'
<1>1. CASE QuietStep
  BY <1>1, QuietEffect, ManifestUndisturbed DEF Inductive
<1>2. CASE LosingStep
  BY <1>2, LosingEffect, ForgottenManifest DEF LoseMemory
<1>3. CASE SwitchMemfile
  BY <1>3, SwitchKeepsManifest
<1>4. CASE AddToMemfile
  <2>1. memfile.redo_id # 0
    BY <1>4 DEF AddToMemfile, Inductive, Lifecycle
  <2> QED BY <1>4, <2>1, AddEffect, ManifestUndisturbed DEF Inductive
<1>5. CASE \E d \in dumps : DumperStep(d)
  BY <1>5, DumperKeepsManifest
<1>6. CASE UNCHANGED vars
  BY <1>6, ManifestUndisturbed DEF Inductive, vars, memory, tables, disk
<1> QED BY <1>1, <1>2, <1>3, <1>4, <1>5, <1>6, StepKinds

(* Where the writer goes from each place, and with which answer.           *)
LEMMA WriterNext ==
    ASSUME Inductive, WriterState, [Next]_vars
    PROVE  WriterState'
<1>1. batch.version \in Nat
  BY Shapes DEF Inductive
<1>2. CASE Begin
  <2>1. PICK ks \in SUBSET Keys, n \in 1 .. MaxEntries : BeginWrite(ks, n)
    BY <1>2 DEF Begin
  <2>2. /\ batch'.keys = ks /\ batch'.entries = n
        /\ batch'.version = batch.version + 1
        /\ Cardinality(ks) <= n
        /\ result' = "pending"
        /\ pc' \in {"append", "waiting", "switching"}
    BY <2>1 DEF BeginWrite
  <2>3. n <= MaxEntries
    BY SizesAssumption
  <2> QED BY <1>1, <2>2, <2>3 DEF WriterState, Writing
<1>3. CASE Open \/ DumpDoneWakeup \/ AppendRedo
  BY <1>3 DEF Open, DumpDoneWakeup, AppendRedo, WriterState, Writing
<1>4. CASE WaitTimesOut \/ SwitchFails \/ AppendFails \/ AddToMemfile
  BY <1>4 DEF WaitTimesOut, SwitchFails, AppendFails, AddToMemfile,
              WriterState, Writing
<1>5. CASE RequestRedo \/ AllocRedo \/ Collect
  <2>1. UNCHANGED <<pc, batch, result>>
    BY <1>5, GcEffect DEF RequestRedo, AllocRedo, Collect, writer, Inductive
  <2> QED BY <2>1 DEF WriterState, Writing
<1>6. CASE SwitchMemfile
  BY <1>6 DEF SwitchMemfile, WriterState, Writing
<1>7. CASE LosingStep
  BY <1>7, LosingEffect DEF LoseMemory, WriterState, Writing
<1>8. CASE \E d \in dumps : DumperStep(d)
  <2>1. UNCHANGED writer
    BY <1>8 DEF DumperStep, Dump, OnDumpFailed, BuildNewState, Checkpoint,
                CompletionThrows, Apply, PopAndReschedule
  <2> QED BY <2>1 DEF writer, WriterState, Writing
<1>9. CASE UNCHANGED vars
  BY <1>9 DEF vars, writer, WriterState, Writing
<1> QED BY <1>2, <1>3, <1>4, <1>5, <1>6, <1>7, <1>8, <1>9, StepKinds
        DEF QuietStep

(* A fresh engine has nothing that could disagree.                         *)
LEMMA DiskInit == Init => DiskInductive
<1> SUFFICES ASSUME Init PROVE DiskInductive
  OBVIOUS
<1>1. memfile.content = Empty
  BY NewMemfileType DEF Init, NullMemfile
<1>2. meta.sorted_tables = <<>> /\ sstables = <<>> /\ dumps = {}
  BY DEF Init, NewMeta
<1>3. Manifest
  BY <1>1, <1>2 DEF Manifest, TablesOnDisk
<1>4. WriterState
  BY DEF Init, WriterState, Writing
<1>5. CollectsOld
  BY DEF Init, CollectsOld
<1> QED BY <1>3, <1>4, <1>5, InductiveInit DEF DiskInductive

(* Every step keeps the lists, the files and the writer in agreement.      *)
LEMMA DiskNext == ASSUME DiskInductive, [Next]_vars PROVE DiskInductive'
BY InductiveNext, CollectsNext, ManifestNext, WriterNext DEF DiskInductive

(* The lists, the files and the writer agree in every state.               *)
THEOREM DiskInvariant == Spec => []DiskInductive
<1>1. DiskInductive /\ [Next]_vars => DiskInductive'
  BY DiskNext
<1> QED BY <1>1, DiskInit, PTL DEF Spec

(* DBMeta and DBFile_manager list the same tables, except between a        *)
(* checkpoint and its installation, and every table listed is a file.      *)
THEOREM TablesAreListed == Spec => []TablesMatchManifest
<1>1. DiskInductive => TablesMatchManifest
  <2> SUFFICES ASSUME DiskInductive PROVE TablesMatchManifest
    OBVIOUS
  <2>1. CASE NoneCheckpointed
    <3>1. meta.sorted_tables = sstables
      BY <2>1 DEF DiskInductive, Manifest
    <3> QED BY <3>1 DEF DiskInductive, Manifest, TablesOnDisk, TablesMatchManifest
  <2>2. CASE ~NoneCheckpointed
    <3>1. PICK d \in dumps : d.pc = "checkpointed"
      BY <2>2 DEF NoneCheckpointed
    <3>2. DumpInstalled(d) /\ TablesOnDisk /\ sstables \in Seq(Nat)
      BY DEF DiskInductive, Inductive, TypeOK, Manifest
    <3>3. /\ meta.sorted_tables = d.files
          /\ d.files = Append(sstables, d.file_id)
          /\ d.file_id \in DOMAIN db_files
      BY <3>1, <3>2 DEF DumpInstalled
    <3>4. \A i \in DOMAIN d.files : d.files[i] \in DOMAIN db_files
      BY <3>2, <3>3 DEF TablesOnDisk
    <3> QED BY <3>1, <3>3, <3>4 DEF TablesMatchManifest
  <2> QED BY <2>1, <2>2
<1> QED BY <1>1, DiskInvariant, PTL

------------------------------------------------------------------------------
(* What the engine holds, layer by layer: every value is on disk, and the  *)
(* write path implements KvUpdater as long as no batch outgrows a memfile. *)

(* Layers in general                                                       *)

(* A non-empty set of positions has a last one.                            *)
LEMMA GreatestExists ==
    ASSUME NEW n \in Nat, NEW S \in SUBSET (1 .. n), S # {}
    PROVE  \E i \in S : \A j \in S : j <= i
<1> DEFINE U == 1 .. n
           above(i) == {j \in U : j > i}
           R == StrictSubsetOrdering(U)
           T == {above(i) : i \in S}
<1>1. IsFiniteSet(U)
  BY FS_Interval
<1>2. IsWellFoundedOn(R, SUBSET U)
  BY <1>1, FS_StrictSubsetOrderingWellFounded, FS_FiniteSubsetsOfFinite
<1>3. T \subseteq SUBSET U /\ T # {}
  OBVIOUS
<1>4. PICK A \in T : \A B \in T : ~(<<B, A>> \in R)
  <2> HIDE DEF R, T, U
  <2> QED BY <1>2, <1>3, WFMin
<1>5. PICK i \in S : A = above(i)
  BY <1>4
<1>6. \A j \in S : j <= i
  <2> SUFFICES ASSUME NEW j \in S, j > i PROVE FALSE
    OBVIOUS
  <2>1. above(j) \subseteq above(i)
    OBVIOUS
  <2>2. j \in above(i) /\ j \notin above(j)
    OBVIOUS
  <2>3. <<above(j), above(i)>> \in R
    BY <2>1, <2>2 DEF StrictSubsetOrdering
  <2>4. above(j) \in T
    OBVIOUS
  <2> QED BY <1>4, <1>5, <2>3, <2>4
<1> QED BY <1>6

(* The value of a key is that of the last layer that has it.               *)
LEMMA NewestIs ==
    ASSUME NEW L \in Seq(Contents), NEW k \in Keys, NEW i \in DOMAIN L,
           L[i][k] # Absent, \A j \in DOMAIN L : j > i => L[j][k] = Absent
    PROVE  Newest(L, k) = L[i][k]
<1> DEFINE hits == {j \in DOMAIN L : L[j][k] # Absent}
<1>1. i \in hits /\ \A j \in hits : j <= i
  OBVIOUS
<1>2. \A j \in hits : (\A h \in hits : h <= j) => j = i
  BY <1>1
<1>3. (CHOOSE j \in hits : \A h \in hits : h <= j) = i
  <2> HIDE DEF hits
  <2> QED BY <1>1, <1>2
<1>4. hits # {}
  BY <1>1
<1> QED BY <1>3, <1>4 DEF Newest

(* A key that no layer holds has no newest value.                          *)
LEMMA NewestNone ==
    ASSUME NEW L, NEW k, \A i \in DOMAIN L : L[i][k] = Absent
    PROVE  Newest(L, k) = Absent
<1>1. {j \in DOMAIN L : L[j][k] # Absent} = {}
  OBVIOUS
<1> QED BY <1>1 DEF Newest

(* A key that some layer holds has the value of the last layer that holds  *)
(* it.                                                                     *)
LEMMA NewestExists ==
    ASSUME NEW L \in Seq(Contents), NEW k \in Keys,
           \E i \in DOMAIN L : L[i][k] # Absent
    PROVE  \E i \in DOMAIN L : /\ L[i][k] # Absent
                               /\ \A j \in DOMAIN L : j > i => L[j][k] = Absent
                               /\ Newest(L, k) = L[i][k]
<1> DEFINE hits == {j \in DOMAIN L : L[j][k] # Absent}
<1>1. hits # {} /\ hits \subseteq 1 .. Len(L) /\ Len(L) \in Nat
  OBVIOUS
<1>2. PICK i \in hits : \A j \in hits : j <= i
  <2> HIDE DEF hits
  <2> QED BY <1>1, GreatestExists
<1>3. \A j \in DOMAIN L : j > i => L[j][k] = Absent
  BY <1>2
<1> QED BY <1>2, <1>3, NewestIs

(* Of two stacks of layers the upper one decides if it has the key.        *)
LEMMA NewestOfTwo ==
    ASSUME NEW A \in Seq(Contents), NEW B \in Seq(Contents), NEW k \in Keys
    PROVE  Newest(A \o B, k) = IF Newest(B, k) # Absent THEN Newest(B, k)
                               ELSE Newest(A, k)
<1> DEFINE L == A \o B
           m == Len(A)
           n == Len(B)
<1>1. /\ m \in Nat /\ n \in Nat /\ L \in Seq(Contents)
      /\ DOMAIN A = 1 .. m /\ DOMAIN B = 1 .. n /\ DOMAIN L = 1 .. m + n
      /\ \A i \in 1 .. m : L[i] = A[i]
      /\ \A i \in 1 .. n : L[m + i] = B[i]
  BY ConcatProperties
<1> HIDE DEF L, m, n
<1>2. \A j \in 1 .. m + n : j > m => j - m \in 1 .. n /\ L[j] = B[j - m]
  <2> TAKE j \in 1 .. m + n
  <2> HAVE j > m
  <2>1. j - m \in 1 .. n /\ j = m + (j - m)
    BY <1>1
  <2> QED BY <1>1, <2>1
<1>3. CASE \E i \in DOMAIN B : B[i][k] # Absent
  <2>1. PICK i \in DOMAIN B : /\ B[i][k] # Absent
                              /\ \A j \in DOMAIN B : j > i => B[j][k] = Absent
                              /\ Newest(B, k) = B[i][k]
    BY <1>3, NewestExists
  <2>2. m + i \in DOMAIN L /\ L[m + i] = B[i]
    BY <1>1
  <2>3. ASSUME NEW j \in DOMAIN L, j > m + i PROVE L[j][k] = Absent
    <3>1. j > m /\ j - m > i
      BY <1>1, <2>3
    <3>2. j - m \in DOMAIN B /\ L[j] = B[j - m]
      BY <1>1, <1>2, <3>1
    <3> QED BY <2>1, <3>1, <3>2
  <2>4. Newest(L, k) = B[i][k]
    BY <1>1, <2>1, <2>2, <2>3, NewestIs, ZenonT(30)
  <2> QED BY <2>1, <2>4 DEF L
<1>4. CASE \A i \in DOMAIN B : B[i][k] = Absent
  <2>1. Newest(B, k) = Absent
    BY <1>4, NewestNone
  <2>2. \A j \in DOMAIN L : j > m => L[j][k] = Absent
    BY <1>1, <1>2, <1>4
  <2>3. CASE \E i \in DOMAIN A : A[i][k] # Absent
    <3>1. PICK i \in DOMAIN A : /\ A[i][k] # Absent
                                /\ \A j \in DOMAIN A : j > i => A[j][k] = Absent
                                /\ Newest(A, k) = A[i][k]
      BY <2>3, NewestExists
    <3>2. i \in DOMAIN L /\ L[i] = A[i]
      BY <1>1
    <3>3. ASSUME NEW j \in DOMAIN L, j > i PROVE L[j][k] = Absent
      <4>1. CASE j > m
        BY <2>2, <4>1
      <4>2. CASE ~(j > m)
        <5>1. j \in DOMAIN A /\ L[j] = A[j]
          BY <1>1, <4>2
        <5> QED BY <3>1, <3>3, <5>1
      <4> QED BY <4>1, <4>2
    <3>4. Newest(L, k) = A[i][k]
      BY <1>1, <3>1, <3>2, <3>3, NewestIs, ZenonT(30)
    <3> QED BY <2>1, <3>1, <3>4 DEF L
  <2>4. CASE \A i \in DOMAIN A : A[i][k] = Absent
    <3>1. \A j \in DOMAIN L : L[j][k] = Absent
      BY <1>1, <2>2, <2>4
    <3> QED BY <2>1, <2>4, <3>1, NewestNone DEF L
  <2> QED BY <2>3, <2>4
<1> QED BY <1>3, <1>4

(* The newest value in one layer is the value in that layer.               *)
LEMMA NewestOfOne ==
    ASSUME NEW c \in Contents, NEW k \in Keys
    PROVE  Newest(<<c>>, k) = c[k]
<1>1. <<c>> \in Seq(Contents) /\ DOMAIN <<c>> = {1} /\ <<c>>[1] = c
  OBVIOUS
<1>2. CASE c[k] = Absent
  BY <1>1, <1>2, NewestNone
<1>3. CASE c[k] # Absent
  <2>1. \A j \in DOMAIN <<c>> : j > 1 => <<c>>[j][k] = Absent
    BY <1>1
  <2> QED BY <1>1, <1>3, <2>1, NewestIs
<1> QED BY <1>2, <1>3
(* A layer on top of a stack decides first.                                *)
LEMMA NewestAppend ==
    ASSUME NEW A \in Seq(Contents), NEW c \in Contents, NEW k \in Keys
    PROVE  Newest(Append(A, c), k) = IF c[k] # Absent THEN c[k]
                                     ELSE Newest(A, k)
<1>1. Append(A, c) = A \o <<c>> /\ <<c>> \in Seq(Contents)
  BY AppendIsConcat
<1>2. Newest(A \o <<c>>, k) = IF Newest(<<c>>, k) # Absent
                             THEN Newest(<<c>>, k) ELSE Newest(A, k)
  BY <1>1, NewestOfTwo
<1>3. Newest(<<c>>, k) = c[k]
  BY NewestOfOne
<1> QED BY <1>1, <1>2, <1>3
------------------------------------------------------------------------------
(* The layers of the engine                                                *)

(* Those of a list of tables in a directory, and those of a queue.         *)
TableLayers(tabs, files) ==
    [i \in 1 .. Len(tabs) |-> IF tabs[i] \in DOMAIN files THEN files[tabs[i]]
                              ELSE Empty]
QueueLayers(q) == [i \in 1 .. Len(q) |-> q[i].content]

(* What is held of a key by tables, a queue and a memfile.                 *)
Held(tabs, files, q, m, k) ==
    IF m.content[k] # Absent THEN m.content[k]
    ELSE IF Newest(QueueLayers(q), k) # Absent THEN Newest(QueueLayers(q), k)
         ELSE Newest(TableLayers(tabs, files), k)

(* A new memfile is a content that holds no key.                           *)
LEMMA EmptyContent == Empty \in Contents /\ \A k \in Keys : Empty[k] = Absent
BY DEF Empty, Contents

(* The tables listed are layers of contents.                               *)
LEMMA TableLayersType ==
    ASSUME NEW tabs \in Seq(Nat), NEW files, files \in [DOMAIN files -> Contents]
    PROVE  TableLayers(tabs, files) \in Seq(Contents)
BY EmptyContent DEF TableLayers

(* The queued memfiles are layers of contents.                             *)
LEMMA QueueLayersType ==
    ASSUME NEW q \in Seq(Memfiles)
    PROVE  QueueLayers(q) \in Seq(Contents)
<1>1. \A i \in 1 .. Len(q) : q[i] \in Memfiles
  OBVIOUS
<1>2. \A i \in 1 .. Len(q) : q[i].content \in Contents
  BY <1>1 DEF Memfiles
<1> QED BY <1>2 DEF QueueLayers

(* A read of a key through all the layers is a read of the memfile, then   *)
(* of the queue, then of the tables.                                       *)
LEMMA HeldByLayer ==
    ASSUME NEW tabs \in Seq(Nat), NEW files, files \in [DOMAIN files -> Contents],
           NEW q \in Seq(Memfiles), NEW m \in Memfiles, NEW k \in Keys
    PROVE  Newest((TableLayers(tabs, files) \o QueueLayers(q)) \o <<m.content>>, k)
              = Held(tabs, files, q, m, k)
<1> DEFINE T == TableLayers(tabs, files)
           Q == QueueLayers(q)
           c == m.content
<1>1. T \in Seq(Contents) /\ Q \in Seq(Contents) /\ c \in Contents
  BY TableLayersType, QueueLayersType DEF Memfiles
<1> HIDE DEF T, Q, c
<1>2. T \o Q \in Seq(Contents) /\ <<c>> \in Seq(Contents)
  BY <1>1, ConcatProperties
<1>3. Newest((T \o Q) \o <<c>>, k) = IF Newest(<<c>>, k) # Absent
                                     THEN Newest(<<c>>, k)
                                     ELSE Newest(T \o Q, k)
  BY <1>2, NewestOfTwo
<1>4. Newest(T \o Q, k) = IF Newest(Q, k) # Absent THEN Newest(Q, k)
                          ELSE Newest(T, k)
  BY <1>1, NewestOfTwo
<1>5. Newest(<<c>>, k) = c[k]
  BY <1>1, NewestOfOne
<1> QED BY <1>3, <1>4, <1>5 DEF T, Q, c, Held

(* The view, now and after a step.                                         *)
LEMMA ViewIsHeld ==
    ASSUME TypeOK
    PROVE  /\ View = [k \in Keys |-> View[k]]
           /\ \A k \in Keys :
                 View[k] = Held(sstables, db_files, immutable_memfiles, memfile, k)
<1>1. Layers = (TableLayers(sstables, db_files)
                  \o QueueLayers(immutable_memfiles)) \o <<memfile.content>>
  BY DEF Layers, TableLayers, QueueLayers, TableContent
<1>2. \A k \in Keys : View[k] = Newest(Layers, k)
  BY DEF View
<1>3. View = [k \in Keys |-> View[k]]
  BY <1>2 DEF View
<1>4. /\ sstables \in Seq(Nat) /\ immutable_memfiles \in Seq(Memfiles)
      /\ memfile \in Memfiles
      /\ db_files \in [DOMAIN db_files -> Contents]
  BY DEF TypeOK
<1>5. ASSUME NEW k \in Keys
      PROVE  View[k] = Held(sstables, db_files, immutable_memfiles,
                            memfile, k)
  BY <1>1, <1>2, <1>4, HeldByLayer
<1> QED BY <1>3, <1>5

(* The same of the next state's store.                                     *)
LEMMA ViewIsHeldNext ==
    ASSUME TypeOK'
    PROVE  /\ View' = [k \in Keys |-> View'[k]]
           /\ \A k \in Keys :
                 View'[k] = Held(sstables', db_files', immutable_memfiles',
                                 memfile', k)
<1>1. Layers' = (TableLayers(sstables', db_files')
                   \o QueueLayers(immutable_memfiles')) \o <<memfile'.content>>
  BY DEF Layers, TableLayers, QueueLayers, TableContent
<1>2. \A k \in Keys : View'[k] = Newest(Layers', k)
  BY DEF View
<1>3. View' = [k \in Keys |-> View'[k]]
  BY <1>2 DEF View
<1>4. /\ sstables' \in Seq(Nat) /\ immutable_memfiles' \in Seq(Memfiles)
      /\ memfile' \in Memfiles
      /\ db_files' \in [DOMAIN db_files' -> Contents]
  BY DEF TypeOK
<1>5. ASSUME NEW k \in Keys
      PROVE  View'[k] = Held(sstables', db_files', immutable_memfiles',
                            memfile', k)
  BY <1>1, <1>2, <1>4, HeldByLayer
<1> QED BY <1>3, <1>5

(* The view stays if each key keeps the value that is held of it.          *)
LEMMA ViewKept ==
    ASSUME TypeOK, TypeOK',
           \A k \in Keys :
              Held(sstables', db_files', immutable_memfiles', memfile', k)
                 = Held(sstables, db_files, immutable_memfiles, memfile, k)
    PROVE  View' = View
<1>1. \A k \in Keys : View'[k] = View[k]
  BY ViewIsHeld, ViewIsHeldNext
<1> QED BY <1>1, ViewIsHeld, ViewIsHeldNext

(* A file of a table changes no layer, unless the table is in use.         *)
LEMMA LayersOfWith ==
    ASSUME NEW tabs \in Seq(Nat), NEW files, NEW id, NEW c,
           \A i \in DOMAIN tabs : tabs[i] # id
    PROVE  TableLayers(tabs, WithFile(files, id, c)) = TableLayers(tabs, files)
BY DEF TableLayers, WithFile

(* A table appended to the list is one more layer on top of the tables.    *)
LEMMA LayersOfAppend ==
    ASSUME NEW tabs \in Seq(Nat), NEW id \in Nat, NEW files,
           files \in [DOMAIN files -> Contents], id \in DOMAIN files
    PROVE  TableLayers(Append(tabs, id), files)
              = Append(TableLayers(tabs, files), files[id])
<1> DEFINE n == Len(tabs)
           T == TableLayers(tabs, files)
           A == TableLayers(Append(tabs, id), files)
<1>1. /\ n \in Nat /\ Len(Append(tabs, id)) = n + 1
      /\ \A i \in 1 .. n : Append(tabs, id)[i] = tabs[i]
      /\ Append(tabs, id)[n + 1] = id
  OBVIOUS
<1>2. A = [i \in 1 .. n + 1 |-> IF i = n + 1 THEN files[id] ELSE T[i]]
  BY <1>1 DEF TableLayers
<1>3. T \in Seq(Contents) /\ Len(T) = n /\ files[id] \in Contents
  <2>1. T \in Seq(Contents)
    BY TableLayersType
  <2>2. DOMAIN T = 1 .. n
    BY DEF TableLayers
  <2> HIDE DEF T
  <2> QED BY <1>1, <2>1, <2>2
<1>4. A \in Seq(Contents) /\ DOMAIN A = 1 .. n + 1
  <2>1. Append(tabs, id) \in Seq(Nat)
    OBVIOUS
  <2> QED BY <1>2, <2>1, TableLayersType
<1> HIDE DEF T, A, n
<1>5. /\ Append(T, files[id]) \in Seq(Contents)
      /\ Len(Append(T, files[id])) = n + 1
      /\ \A i \in 1 .. n : Append(T, files[id])[i] = T[i]
      /\ Append(T, files[id])[n + 1] = files[id]
  BY <1>3, AppendProperties
<1>6. A \in Seq(Contents) /\ Len(A) = n + 1
  BY <1>1, <1>4
<1>7. \A i \in 1 .. n + 1 : A[i] = Append(T, files[id])[i]
  BY <1>1, <1>2, <1>5
<1>8. A = Append(T, files[id])
  BY <1>5, <1>6, <1>7, SeqEqual
<1> QED BY <1>8 DEF T, A

(* A memfile pushed to the queue is one more layer on top of it, and a     *)
(* memfile popped was its lowest layer.                                    *)
LEMMA LayersOfQueue ==
    ASSUME NEW q \in Seq(Memfiles)
    PROVE  /\ QueueLayers(<<>>) = <<>>
           /\ \A m \in Memfiles :
                 QueueLayers(Append(q, m)) = Append(QueueLayers(q), m.content)
           /\ q # <<>> => QueueLayers(q) = <<Head(q).content>>
                                           \o QueueLayers(Tail(q))
<1>1. QueueLayers(<<>>) = <<>>
  BY DEF QueueLayers
<1>2. ASSUME NEW m \in Memfiles
      PROVE  QueueLayers(Append(q, m)) = Append(QueueLayers(q), m.content)
  <2> DEFINE A == QueueLayers(Append(q, m))
             B == Append(QueueLayers(q), m.content)
  <2>1. /\ Len(q) \in Nat /\ Len(Append(q, m)) = Len(q) + 1
        /\ \A i \in 1 .. Len(q) : Append(q, m)[i] = q[i]
        /\ Append(q, m)[Len(q) + 1] = m
        /\ Append(q, m) \in Seq(Memfiles)
    OBVIOUS
  <2>2. A \in Seq(Contents) /\ QueueLayers(q) \in Seq(Contents)
        /\ m.content \in Contents
    BY <2>1, QueueLayersType DEF Memfiles
  <2>3. Len(QueueLayers(q)) = Len(q) /\ Len(A) = Len(q) + 1
    <3>1. DOMAIN QueueLayers(q) = 1 .. Len(q) /\ DOMAIN A = 1 .. Len(q) + 1
      BY <2>1 DEF QueueLayers
    <3> HIDE DEF A
    <3> QED BY <2>1, <2>2, <3>1
  <2>4. /\ B \in Seq(Contents) /\ Len(B) = Len(q) + 1
        /\ \A i \in 1 .. Len(q) : B[i] = QueueLayers(q)[i]
        /\ B[Len(q) + 1] = m.content
    BY <2>2, <2>3, AppendProperties
  <2>5. /\ \A i \in 1 .. Len(q) : A[i] = QueueLayers(q)[i]
        /\ A[Len(q) + 1] = m.content
    BY <2>1 DEF QueueLayers
  <2> HIDE DEF A, B
  <2>6. \A i \in 1 .. Len(q) + 1 : A[i] = B[i]
    BY <2>1, <2>4, <2>5
  <2>7. A = B
    BY <2>2, <2>3, <2>4, <2>6, SeqEqual
  <2> QED BY <2>7 DEF A, B
<1>3. ASSUME q # <<>>
      PROVE  QueueLayers(q) = <<Head(q).content>> \o QueueLayers(Tail(q))
  <2> DEFINE A == QueueLayers(q)
             t == QueueLayers(Tail(q))
             B == <<Head(q).content>> \o t
             n == Len(q)
  <2>1. /\ n \in Nat /\ n >= 1 /\ Head(q) = q[1] /\ Head(q) \in Memfiles
        /\ Tail(q) \in Seq(Memfiles) /\ Len(Tail(q)) = n - 1
        /\ \A i \in 1 .. n - 1 : Tail(q)[i] = q[i + 1]
    BY <1>3
  <2>2. /\ A \in Seq(Contents) /\ t \in Seq(Contents)
        /\ <<Head(q).content>> \in Seq(Contents)
    <3>1. A \in Seq(Contents) /\ t \in Seq(Contents)
      BY <2>1, QueueLayersType
    <3>2. Head(q).content \in Contents
      BY <2>1 DEF Memfiles
    <3> QED BY <3>1, <3>2
  <2>3. Len(A) = n /\ Len(t) = n - 1
    <3>1. DOMAIN A = 1 .. n /\ DOMAIN t = 1 .. n - 1
      BY <2>1 DEF QueueLayers
    <3> HIDE DEF A, t, n
    <3> QED BY <2>1, <2>2, <3>1
  <2>4. /\ \A i \in 1 .. n : A[i] = q[i].content
        /\ \A i \in 1 .. n - 1 : t[i] = q[i + 1].content
    BY <2>1 DEF QueueLayers
  <2> HIDE DEF A, t, n
  <2>5. /\ B \in Seq(Contents) /\ Len(B) = n
        /\ B[1] = Head(q).content
        /\ \A i \in 1 .. n : i # 1 => B[i] = t[i - 1]
    BY <2>1, <2>2, <2>3, ConcatProperties
  <2> HIDE DEF B
  <2>6. \A i \in 1 .. n : A[i] = B[i]
    <3> TAKE i \in 1 .. n
    <3>1. CASE i = 1
      BY <2>1, <2>4, <2>5, <3>1
    <3>2. CASE i # 1
      <4>1. i - 1 \in 1 .. n - 1 /\ (i - 1) + 1 = i
        BY <2>1, <3>2
      <4> QED BY <2>4, <2>5, <3>2, <4>1
    <3> QED BY <3>1, <3>2
  <2>7. A = B
    BY <2>2, <2>3, <2>5, <2>6, SeqEqual
  <2> QED BY <2>7 DEF A, B, t
<1> QED BY <1>1, <1>2, <1>3

(* What a push and a pop do to the newest value of a key in the queue.     *)
LEMMA NewestInQueue ==
    ASSUME NEW q \in Seq(Memfiles), NEW k \in Keys
    PROVE  /\ Newest(QueueLayers(<<>>), k) = Absent
           /\ \A m \in Memfiles :
                 Newest(QueueLayers(Append(q, m)), k)
                    = IF m.content[k] # Absent THEN m.content[k]
                      ELSE Newest(QueueLayers(q), k)
           /\ q # <<>> => Newest(QueueLayers(q), k)
                            = IF Newest(QueueLayers(Tail(q)), k) # Absent
                              THEN Newest(QueueLayers(Tail(q)), k)
                              ELSE Head(q).content[k]
<1>1. Newest(QueueLayers(<<>>), k) = Absent
  <2>1. DOMAIN QueueLayers(<<>>) = {}
    BY DEF QueueLayers
  <2> QED BY <2>1, NewestNone
<1>2. ASSUME NEW m \in Memfiles
      PROVE  Newest(QueueLayers(Append(q, m)), k)
                = IF m.content[k] # Absent THEN m.content[k]
                  ELSE Newest(QueueLayers(q), k)
  <2>1. QueueLayers(q) \in Seq(Contents) /\ m.content \in Contents
    BY QueueLayersType DEF Memfiles
  <2>2. QueueLayers(Append(q, m)) = Append(QueueLayers(q), m.content)
    BY LayersOfQueue
  <2> QED BY <2>1, <2>2, NewestAppend
<1>3. ASSUME q # <<>>
      PROVE  Newest(QueueLayers(q), k) = IF Newest(QueueLayers(Tail(q)), k) # Absent
                                         THEN Newest(QueueLayers(Tail(q)), k)
                                         ELSE Head(q).content[k]
  <2>1. Tail(q) \in Seq(Memfiles) /\ Head(q) \in Memfiles
    BY <1>3
  <2>2. QueueLayers(Tail(q)) \in Seq(Contents) /\ Head(q).content \in Contents
    BY <2>1, QueueLayersType DEF Memfiles
  <2>3. <<Head(q).content>> \in Seq(Contents)
    BY <2>2
  <2>4. QueueLayers(q) = <<Head(q).content>> \o QueueLayers(Tail(q))
    BY <1>3, LayersOfQueue
  <2>5. Newest(<<Head(q).content>>, k) = Head(q).content[k]
    BY <2>2, NewestOfOne
  <2>6. Newest(<<Head(q).content>> \o QueueLayers(Tail(q)), k)
           = IF Newest(QueueLayers(Tail(q)), k) # Absent
             THEN Newest(QueueLayers(Tail(q)), k)
             ELSE Newest(<<Head(q).content>>, k)
    BY <2>2, <2>3, NewestOfTwo
  <2> QED BY <2>4, <2>5, <2>6
<1> QED BY <1>1, <1>2, <1>3

(* What a new table does to the newest value of a key in the tables.       *)
LEMMA NewestInTables ==
    ASSUME NEW tabs \in Seq(Nat), NEW id \in Nat, NEW files,
           files \in [DOMAIN files -> Contents], id \in DOMAIN files,
           NEW k \in Keys
    PROVE  Newest(TableLayers(Append(tabs, id), files), k)
              = IF files[id][k] # Absent THEN files[id][k]
                ELSE Newest(TableLayers(tabs, files), k)
<1>1. TableLayers(tabs, files) \in Seq(Contents) /\ files[id] \in Contents
  BY TableLayersType
<1>2. TableLayers(Append(tabs, id), files)
         = Append(TableLayers(tabs, files), files[id])
  BY LayersOfAppend
<1> QED BY <1>1, <1>2, NewestAppend
------------------------------------------------------------------------------
(* What a step does to the view                                            *)

(* A new memfile takes nothing away: the old one joins the queue.          *)
LEMMA SwitchKeepsView ==
    ASSUME Inductive, Manifest, TypeOK', SwitchMemfile
    PROVE  View' = View
<1>1. /\ memfile'.content = Empty
      /\ UNCHANGED <<sstables, db_files>>
      /\ immutable_memfiles' = Retire
  BY Shapes, NewMemfileType DEF Inductive, SwitchMemfile, disk
<1>2. immutable_memfiles \in Seq(Memfiles) /\ memfile \in Memfiles
  BY DEF Inductive, TypeOK
<1>3. ASSUME NEW k \in Keys
      PROVE  Held(sstables', db_files', immutable_memfiles', memfile', k)
                = Held(sstables, db_files, immutable_memfiles, memfile, k)
  <2>1. memfile'.content[k] = Absent
    BY <1>1, EmptyContent
  <2>2. CASE Retire = immutable_memfiles /\ memfile.redo_id = 0
    <3>1. memfile.content[k] = Absent
      BY <2>2, EmptyContent DEF Manifest
    <3> QED BY <1>1, <2>1, <2>2, <3>1 DEF Held
  <2>3. CASE Retire = Append(immutable_memfiles, memfile)
    <3>1. Newest(QueueLayers(Retire), k)
             = IF memfile.content[k] # Absent THEN memfile.content[k]
               ELSE Newest(QueueLayers(immutable_memfiles), k)
      BY <1>2, <2>3, NewestInQueue
    <3> QED BY <1>1, <2>1, <3>1 DEF Held
  <2> QED BY <2>2, <2>3 DEF Retire
<1> QED BY <1>3, ViewKept DEF Inductive

(* A dump and its installation take nothing away: the table is listed      *)
(* before the memfile leaves the queue.                                    *)
LEMMA DumperKeepsView ==
    ASSUME Inductive, Manifest, TypeOK', NEW d \in dumps, DumperStep(d)
    PROVE  View' = View
<1> DEFINE q == immutable_memfiles
           h == Head(q)
<1>1. /\ dumps = {d} /\ q # <<>> /\ q \in Seq(Memfiles)
      /\ h \in Memfiles /\ UNCHANGED memfile
  <2>1. dumps = {d} /\ q # <<>> /\ q \in Seq(Memfiles)
    BY SMTT(30) DEF Inductive, OneDumpOfTheOldest, TypeOK
  <2>2. UNCHANGED memfile
    BY DEF DumperStep, Dump, OnDumpFailed, BuildNewState, Checkpoint,
           CompletionThrows, Apply, PopAndReschedule, memory
  <2> QED BY <2>1, <2>2
<1>2. /\ sstables \in Seq(Nat) /\ d.file_id \in Nat
      /\ db_files \in [DOMAIN db_files -> Contents]
      /\ DOMAIN sstables = 1 .. Len(sstables) /\ Len(sstables) \in Nat
      /\ \A i \in DOMAIN sstables : sstables[i] \in Nat
  BY TableShapes DEF Inductive, TypeOK
<1>3. DumpInstalled(d)
  BY DEF Manifest
<1>4. CASE Dump(d)
  <2>1. d.pc = "queued" /\ UNCHANGED <<immutable_memfiles, sstables>>
    BY <1>4 DEF Dump, memory, tables
  <2>2. \/ db_files' = db_files
        \/ \E c : db_files' = WithFile(db_files, d.file_id, c)
    BY <1>4 DEF Dump
  <2>3. \A i \in DOMAIN sstables : sstables[i] # d.file_id
    BY <1>2, <1>3, <2>1 DEF DumpInstalled
  <2>4. TableLayers(sstables, db_files') = TableLayers(sstables, db_files)
    BY <1>2, <2>2, <2>3, LayersOfWith
  <2>5. ASSUME NEW k \in Keys
        PROVE  Held(sstables', db_files', immutable_memfiles', memfile', k)
                  = Held(sstables, db_files, immutable_memfiles, memfile, k)
    BY <1>1, <2>1, <2>4 DEF Held
  <2> QED BY <2>5, ViewKept DEF Inductive
<1>5. CASE OnDumpFailed(d) \/ BuildNewState(d) \/ Checkpoint(d)
           \/ CompletionThrows(d)
  <2>1. UNCHANGED <<memfile, immutable_memfiles, sstables, db_files>>
    BY <1>5 DEF OnDumpFailed, BuildNewState, Checkpoint, CompletionThrows,
                memory, tables, disk
  <2> QED BY <2>1 DEF View, Layers, TableContent
<1>6. CASE Apply(d)
  <2>1. /\ UNCHANGED <<immutable_memfiles, db_files>>
        /\ sstables' = Append(sstables, d.file_id)
        /\ d.file_id \in DOMAIN db_files
        /\ db_files[d.file_id] = h.content
    BY <1>3, <1>6 DEF Apply, DumpInstalled, memory, disk
  <2>2. ASSUME NEW k \in Keys
        PROVE  Held(sstables', db_files', immutable_memfiles', memfile', k)
                  = Held(sstables, db_files, immutable_memfiles, memfile, k)
    <3>1. Newest(TableLayers(sstables', db_files), k)
             = IF h.content[k] # Absent THEN h.content[k]
               ELSE Newest(TableLayers(sstables, db_files), k)
      BY <1>2, <2>1, NewestInTables
    <3>2. Newest(QueueLayers(q), k)
             = IF Newest(QueueLayers(Tail(q)), k) # Absent
               THEN Newest(QueueLayers(Tail(q)), k) ELSE h.content[k]
      BY <1>1, NewestInQueue
    <3> QED BY <1>1, <2>1, <3>1, <3>2 DEF Held
  <2> QED BY <2>2, ViewKept DEF Inductive
<1>7. CASE PopAndReschedule(d)
  <2>1. /\ UNCHANGED <<sstables, db_files>> /\ d.pc = "applied"
        /\ immutable_memfiles' = Tail(q)
    BY <1>7 DEF PopAndReschedule, disk
  <2>2. /\ sstables # <<>>
        /\ sstables[Len(sstables)] \in DOMAIN db_files
        /\ db_files[sstables[Len(sstables)]] = h.content
    BY <1>3, <2>1 DEF DumpInstalled
  <2> DEFINE front == SubSeq(sstables, 1, Len(sstables) - 1)
             last == sstables[Len(sstables)]
  <2>3. /\ front \in Seq(Nat) /\ last \in Nat
        /\ sstables = Append(front, last)
        /\ last \in DOMAIN db_files /\ db_files[last] = h.content
    BY <1>2, <2>2
  <2>4. ASSUME NEW k \in Keys
        PROVE  Held(sstables', db_files', immutable_memfiles', memfile', k)
                  = Held(sstables, db_files, immutable_memfiles, memfile, k)
    <3> HIDE DEF front, last
    <3>1. Newest(TableLayers(sstables, db_files), k)
             = IF h.content[k] # Absent THEN h.content[k]
               ELSE Newest(TableLayers(front, db_files), k)
      BY <1>2, <2>3, NewestInTables
    <3>2. Newest(QueueLayers(q), k)
             = IF Newest(QueueLayers(Tail(q)), k) # Absent
               THEN Newest(QueueLayers(Tail(q)), k) ELSE h.content[k]
      BY <1>1, NewestInQueue
    <3> QED BY <1>1, <2>1, <3>1, <3>2 DEF Held
  <2> QED BY <2>4, ViewKept DEF Inductive
<1> QED BY <1>4, <1>5, <1>6, <1>7 DEF DumperStep

(* A process that ends holds nothing.                                      *)
LEMMA LosingView ==
    ASSUME TypeOK', LosingStep
    PROVE  View' = [k \in Keys |-> 0]
<1>1. /\ memfile'.content = Empty /\ immutable_memfiles' = <<>>
      /\ sstables' = <<>>
  BY LosingEffect, NewMemfileType DEF LoseMemory, NullMemfile
<1>2. ASSUME NEW k \in Keys PROVE View'[k] = 0
  <2>1. Newest(TableLayers(<<>>, db_files'), k) = Absent
    <3>1. DOMAIN TableLayers(<<>>, db_files') = {}
      BY DEF TableLayers
    <3> QED BY <3>1, NewestNone
  <2>2. Newest(QueueLayers(<<>>), k) = Absent
    <3>1. <<>> \in Seq(Memfiles)
      OBVIOUS
    <3> QED BY <3>1, NewestInQueue
  <2> QED BY <1>1, <2>1, <2>2, EmptyContent, ViewIsHeldNext DEF Held
<1>3. View' = [k \in Keys |-> View'[k]]
  BY ViewIsHeldNext
<1> QED BY <1>2, <1>3

(* A batch that is added, and leaves no view dangling, shows at once.      *)
LEMMA AddView ==
    ASSUME Inductive, WriterState, TypeOK', AddToMemfile,
           memfile'.content = Put(memfile.content, batch.keys, batch.version)
    PROVE  View' = Put(View, batch.keys, batch.version)
<1>1. UNCHANGED <<immutable_memfiles, sstables, db_files>>
  BY AddEffect DEF Inductive
<1>2. batch.version # Absent
  <2>1. batch.version > 0
    BY DEF AddToMemfile, WriterState, Writing
  <2> QED BY <2>1
<1>3. ASSUME NEW k \in Keys
      PROVE  View'[k] = IF k \in batch.keys THEN batch.version ELSE View[k]
  <2>1. memfile'.content[k] = IF k \in batch.keys THEN batch.version
                              ELSE memfile.content[k]
    BY PutValue
  <2>2. View[k] = Held(sstables, db_files, immutable_memfiles, memfile, k)
    BY ViewIsHeld DEF Inductive
  <2>3. View'[k] = Held(sstables, db_files, immutable_memfiles, memfile', k)
    BY <1>1, ViewIsHeldNext
  <2> QED BY <1>2, <2>1, <2>2, <2>3 DEF Held
<1>4. View' = [k \in Keys |-> View'[k]]
  BY ViewIsHeldNext
<1> QED BY <1>3, <1>4 DEF Put
------------------------------------------------------------------------------
(* Every value is on disk                                                  *)

(* Whatever the engine holds is in a redo log or in a listed table, at     *)
(* every moment of a switch, a dump, its installation and a collection.    *)
THEOREM NothingOnlyInMemory == Spec => []EveryValueOnDisk
<1>1. DiskInductive => EveryValueOnDisk
  <2> SUFFICES ASSUME DiskInductive, NEW k \in Keys, View[k] # Absent
               PROVE  \/ \E id \in DOMAIN redo_files :
                            redo_files[id][k] >= View[k]
                      \/ \E i \in DOMAIN meta.sorted_tables :
                            TableContent(meta.sorted_tables[i])[k] = View[k]
    BY DEF EveryValueOnDisk
  <2> USE DEF DiskInductive
  <2> DEFINE q == immutable_memfiles
             T == TableLayers(sstables, db_files)
  <2>1. View[k] = Held(sstables, db_files, q, memfile, k)
    BY ViewIsHeld DEF Inductive
  <2>2. /\ memfile.redo_id # 0 => Covered(memfile)
        /\ \A i \in DOMAIN q : Covered(q[i])
    BY CoverageByMemfile DEF Inductive
  <2>3. /\ q \in Seq(Memfiles) /\ sstables \in Seq(Nat)
        /\ db_files \in [DOMAIN db_files -> Contents]
    BY DEF Inductive, TypeOK
  <2>4. CASE memfile.content[k] # Absent
    <3>1. View[k] = memfile.content[k]
      BY <2>1, <2>4 DEF Held
    <3>2. memfile.redo_id # 0
      BY <2>4, EmptyContent DEF Manifest
    <3>3. /\ memfile.content[k] \in Int
          /\ memfile.redo_id \in DOMAIN redo_files
          /\ redo_files[memfile.redo_id][k] \in Int
      BY <2>2, <3>2, Shapes DEF Inductive, Covered, Contents
    <3> QED BY <2>2, <3>1, <3>2, <3>3 DEF Covered
  <2>5. CASE /\ memfile.content[k] = Absent
             /\ Newest(QueueLayers(q), k) # Absent
    <3>1. View[k] = Newest(QueueLayers(q), k)
      BY <2>1, <2>5 DEF Held
    <3>2. QueueLayers(q) \in Seq(Contents)
      BY <2>3, QueueLayersType
    <3>3. \E i \in DOMAIN QueueLayers(q) : QueueLayers(q)[i][k] # Absent
      BY <2>5, NewestNone
    <3>4. PICK i \in DOMAIN QueueLayers(q) : View[k] = QueueLayers(q)[i][k]
      BY <3>1, <3>2, <3>3, NewestExists
    <3>5. i \in DOMAIN q /\ View[k] = q[i].content[k]
      BY <2>3, <3>4 DEF QueueLayers
    <3>6. /\ q[i].content[k] \in Int
          /\ q[i].redo_id \in DOMAIN redo_files
          /\ redo_files[q[i].redo_id][k] \in Int
      BY <2>2, <3>5, Shapes DEF Inductive, Covered, Contents
    <3> QED BY <2>2, <3>5, <3>6 DEF Covered
  <2>6. CASE /\ memfile.content[k] = Absent
             /\ Newest(QueueLayers(q), k) = Absent
    <3>1. View[k] = Newest(T, k)
      BY <2>1, <2>6 DEF Held
    <3>2. T \in Seq(Contents)
      BY <2>3, TableLayersType
    <3>3. \E i \in DOMAIN T : T[i][k] # Absent
      BY <3>1, NewestNone
    <3>4. PICK i \in DOMAIN T : View[k] = T[i][k]
      BY <3>1, <3>2, <3>3, NewestExists
    <3>5. i \in DOMAIN sstables /\ View[k] = TableContent(sstables[i])[k]
      BY <2>3, <3>4 DEF TableLayers, TableContent
    <3>6. \E j \in DOMAIN meta.sorted_tables : meta.sorted_tables[j] = sstables[i]
      <4>1. CASE NoneCheckpointed
        BY <3>5, <4>1 DEF Manifest
      <4>2. CASE ~NoneCheckpointed
        <5>1. PICK d \in dumps : d.pc = "checkpointed"
          BY <4>2 DEF NoneCheckpointed
        <5>2. meta.sorted_tables = Append(sstables, d.file_id)
          BY <5>1 DEF Manifest, DumpInstalled
        <5>3. sstables \in Seq(Nat) /\ d.file_id \in Nat /\ i \in 1 .. Len(sstables)
          BY <2>3, <3>5, TableShapes DEF Inductive
        <5>4. /\ i \in DOMAIN Append(sstables, d.file_id)
              /\ Append(sstables, d.file_id)[i] = sstables[i]
          BY <5>3
        <5> QED BY <5>2, <5>4
      <4> QED BY <4>1, <4>2
    <3> QED BY <3>5, <3>6
  <2> QED BY <2>4, <2>5, <2>6
<1> QED BY <1>1, DiskInvariant, PTL
------------------------------------------------------------------------------
(* The store of KvUpdater                                                  *)

(* Memfile::add does no more than put the batch, if no view dangles after  *)
(* it.                                                                     *)
LEMMA AddContent ==
    ASSUME Inductive, AddToMemfile, ViewsStayGood'
    PROVE  memfile'.content = Put(memfile.content, batch.keys, batch.version)
<1> DEFINE content == Put(memfile.content, batch.keys, batch.version)
           known == {k \in Keys : content[k] # Absent}
<1>1. memfile'.redo_id # 0
  BY AddEffect DEF AddToMemfile, Inductive, Lifecycle
<1>2. \A k \in Keys : memfile'.content[k] # Dangling
  BY <1>1 DEF ViewsStayGood, LiveMemfiles
<1>3. \/ \E used : memfile' = [memfile EXCEPT !.used = used,
                                  !.content = content]
      \/ \E used, c, ks : /\ ks \subseteq known
                          /\ memfile' = [memfile EXCEPT !.used = used,
                                !.capacity = c,
                                !.content = Put(content, ks, Dangling)]
  BY DEF AddToMemfile
<1>4. content = [k \in Keys |-> content[k]]
  BY DEF Put
<1> HIDE DEF content
<1>5. ASSUME NEW ks, ks \subseteq known,
             memfile'.content = Put(content, ks, Dangling)
      PROVE  memfile'.content = content
  <2>1. \A k \in Keys : k \notin ks
    BY <1>2, <1>5 DEF Put
  <2> QED BY <1>4, <1>5, <2>1 DEF Put
<1>6. \/ memfile'.content = content
      \/ \E ks : ks \subseteq known /\ memfile'.content = Put(content, ks, Dangling)
  <2> HIDE DEF known
  <2> QED BY <1>3 DEF Inductive, TypeOK, Memfiles
<1> QED BY <1>5, <1>6 DEF content

(* Every step of the engine is one of the store, or none at all.           *)
LEMMA KvStep ==
    ASSUME DiskInductive, TypeOK', ViewsStayGood', [Next]_vars
    PROVE  [Kv!KvNext]_(Kv!kvvars)
<1> USE DEF DiskInductive
<1> DEFINE stutter == UNCHANGED <<batch, result, View>>
           refuse == /\ result = "pending" /\ result' \in {"busy", "error"}
                     /\ UNCHANGED <<batch, View>>
<1>1. ASSUME stutter \/ refuse
      PROVE  [Kv!KvNext]_(Kv!kvvars)
  BY <1>1 DEF Kv!KvNext, Kv!KvRefuse, Kv!kvvars
<1>2. ASSUME UNCHANGED <<memfile, immutable_memfiles, sstables, db_files>>
      PROVE  View' = View
  BY <1>2 DEF View, Layers, TableContent
<1>3. CASE QuietStep
  <2>1. View' = View
    BY <1>2, <1>3, QuietEffect DEF Inductive
  <2>2. CASE Begin
    <3>1. PICK ks \in (SUBSET Keys) \ {{}}, n \in 1 .. MaxEntries :
             BeginWrite(ks, n)
      BY <2>2 DEF Begin
    <3>2. batch' \in Kv!Batches
      <4>1. n \in Nat /\ batch.version \in Nat
        BY SizesAssumption, Shapes DEF Inductive
      <4> QED BY <3>1, <4>1 DEF BeginWrite, Kv!Batches
    <3>3. /\ result # "pending" /\ batch.version < MaxBatches
          /\ batch'.version = batch.version + 1
          /\ result' = "pending"
      BY <3>1 DEF BeginWrite, WriterState, Writing
    <3> QED BY <2>1, <3>2, <3>3 DEF Kv!KvNext, Kv!KvBegin
  <2>3. CASE WaitTimesOut \/ SwitchFails \/ AppendFails
    <3>1. refuse
      BY <2>1, <2>3 DEF WaitTimesOut, SwitchFails, AppendFails, WriterState,
                        Writing
    <3> QED BY <1>1, <3>1
  <2>4. CASE Open \/ DumpDoneWakeup \/ RequestRedo \/ AppendRedo \/ AllocRedo \/ Collect
    <3>1. UNCHANGED <<batch, result>>
      BY <2>4, GcEffect
         DEF Open, DumpDoneWakeup, RequestRedo, AppendRedo, AllocRedo, Collect,
             writer, Inductive
    <3> QED BY <1>1, <2>1, <3>1
  <2> QED BY <1>3, <2>2, <2>3, <2>4 DEF QuietStep
<1>4. CASE LosingStep
  <2>1. View' = [k \in Keys |-> 0] /\ result' = "none" /\ batch' = batch
    BY <1>4, LosingView, LosingEffect DEF LoseMemory
  <2>2. View' = Kv!EmptyStore
    BY <2>1 DEF Kv!EmptyStore, Kv!Absent
  <2> QED BY <2>1, <2>2 DEF Kv!KvNext, Kv!KvRestart
<1>5. CASE SwitchMemfile
  <2>1. View' = View /\ UNCHANGED <<batch, result>>
    BY <1>5, SwitchKeepsView DEF SwitchMemfile
  <2> QED BY <1>1, <2>1
<1>6. CASE AddToMemfile
  <2>1. View' = Put(View, batch.keys, batch.version)
    BY <1>6, AddContent, AddView
  <2>2. result = "pending" /\ result' = "done" /\ batch' = batch
    BY <1>6 DEF AddToMemfile, WriterState, Writing
  <2> QED BY <2>1, <2>2 DEF Kv!KvNext, Kv!KvApply, Kv!Put, Put
<1>7. CASE \E d \in dumps : DumperStep(d)
  <2>1. View' = View
    BY <1>7, DumperKeepsView
  <2>2. UNCHANGED writer
    BY <1>7 DEF DumperStep, Dump, OnDumpFailed, BuildNewState, Checkpoint,
                CompletionThrows, Apply, PopAndReschedule
  <2> QED BY <1>1, <2>1, <2>2 DEF writer
<1>8. CASE UNCHANGED vars
  <2>1. View' = View /\ UNCHANGED writer
    BY <1>2, <1>8 DEF vars, memory, tables, disk
  <2> QED BY <1>1, <2>1 DEF writer
<1> QED BY <1>3, <1>4, <1>5, <1>6, <1>7, <1>8, StepKinds

(* The write path implements the store of KvUpdater, through every switch, *)
(* dump, installation, failure and restart, as long as no memfile has a    *)
(* view that dangles.                                                      *)
THEOREM GoodViewsMakeAStore == Spec /\ []ViewsStayGood => ImplementsKvUpdater
<1>1. Init => Kv!KvInit
  <2> SUFFICES ASSUME Init PROVE Kv!KvInit
    OBVIOUS
  <2>1. TypeOK /\ immutable_memfiles = <<>> /\ sstables = <<>>
    BY InitType DEF Init
  <2>2. memfile.content = Empty
    BY NewMemfileType DEF Init, NullMemfile
  <2>3. ASSUME NEW k \in Keys PROVE View[k] = 0
    <3>1. Newest(TableLayers(<<>>, db_files), k) = Absent
      <4>1. DOMAIN TableLayers(<<>>, db_files) = {}
        BY DEF TableLayers
      <4> QED BY <4>1, NewestNone
    <3>2. Newest(QueueLayers(<<>>), k) = Absent
      <4>1. <<>> \in Seq(Memfiles)
        OBVIOUS
      <4> QED BY <4>1, NewestInQueue
    <3> QED BY <2>1, <2>2, <3>1, <3>2, EmptyContent, ViewIsHeld DEF Held
  <2>4. View = Kv!EmptyStore
    BY <2>1, <2>3, ViewIsHeld DEF Kv!EmptyStore, Kv!Absent
  <2> QED BY <2>4 DEF Init, Kv!KvInit, NoBatch, Kv!NoBatch
<1>2. DiskInductive => TypeOK
  BY DEF DiskInductive, Inductive
<1>3. DiskInductive /\ TypeOK' /\ ViewsStayGood' /\ [Next]_vars
         => [Kv!KvNext]_(Kv!kvvars)
  BY KvStep
<1> QED BY <1>1, <1>2, <1>3, DiskInvariant, PTL
        DEF Spec, ImplementsKvUpdater, Kv!KvSpec
------------------------------------------------------------------------------
(* Batches that fit                                                        *)

(* A product grows with its factors.                                       *)
LEMMA MonotonicProduct ==
    ASSUME NEW a \in Nat, NEW b \in Nat, NEW c \in Nat, a <= b
    PROVE  a * c <= b * c
OBVIOUS

(* The batch to be logged or added has been found to fit, or the memfile   *)
(* has just been made.                                                     *)
LEMMA RoomNext ==
    ASSUME BatchesFit, Inductive, WriterState, RoomForBatch, [Next]_vars
    PROVE  RoomForBatch'
<1>1. CASE Begin
  BY <1>1 DEF Begin, BeginWrite, memory, RoomForBatch, HasRoomFor
<1>2. CASE SwitchMemfile
  <2>1. CASE pc = "switching"
    <3>1. /\ memfile'.used = 0 /\ memfile'.capacity = MemCapacity
          /\ batch' = batch
      BY <1>2 DEF SwitchMemfile, NewMemfile
    <3>2. batch.entries <= MaxEntries
      BY <2>1 DEF WriterState, Writing
    <3>3. batch.entries \in Nat
      BY DEF Inductive, TypeOK, Batches, NoBatch
    <3> DEFINE size == KeySize + ValueSize
    <3>4. size \in Nat /\ MaxEntries \in Nat /\ MemCapacity \in Nat
      BY SizesAssumption
    <3> HIDE DEF size
    <3>5. batch.entries * size <= MaxEntries * size
      BY <3>2, <3>3, <3>4, MonotonicProduct
    <3>6. MaxEntries * size <= MemCapacity
      BY DEF BatchesFit, size
    <3>7. batch.entries * size \in Nat /\ MaxEntries * size \in Nat
      BY <3>3, <3>4
    <3>8. 0 + batch.entries * size <= MemCapacity
      BY <3>4, <3>5, <3>6, <3>7
    <3> QED BY <3>1, <3>8 DEF RoomForBatch, HasRoomFor, size
  <2>2. CASE pc = "opening"
    BY <1>2, <2>2 DEF SwitchMemfile, RoomForBatch
  <2> QED BY <1>2, <2>1, <2>2 DEF SwitchMemfile
<1>3. CASE AppendRedo
  BY <1>3 DEF AppendRedo, memory, RoomForBatch, HasRoomFor
<1>4. CASE \/ Open \/ DumpDoneWakeup \/ WaitTimesOut \/ SwitchFails \/ AppendFails
           \/ AddToMemfile
  BY <1>4 DEF Open, DumpDoneWakeup, WaitTimesOut, SwitchFails, AppendFails,
              AddToMemfile, RoomForBatch
<1>5. CASE LosingStep
  BY <1>5, LosingEffect DEF LoseMemory, RoomForBatch
<1>6. CASE RequestRedo \/ AllocRedo \/ Collect
  <2>1. UNCHANGED <<pc, batch, memfile>>
    BY <1>6, GcEffect DEF RequestRedo, AllocRedo, Collect, writer, memory, Inductive
  <2> QED BY <2>1 DEF RoomForBatch, HasRoomFor
<1>7. CASE \E d \in dumps : DumperStep(d)
  <2>1. UNCHANGED <<pc, batch, memfile>>
    BY <1>7 DEF DumperStep, Dump, OnDumpFailed, BuildNewState, Checkpoint,
                CompletionThrows, Apply, PopAndReschedule, writer, memory
  <2> QED BY <2>1 DEF RoomForBatch, HasRoomFor
<1>8. CASE UNCHANGED vars
  BY <1>8 DEF vars, writer, memory, RoomForBatch, HasRoomFor
<1> QED BY <1>1, <1>2, <1>3, <1>4, <1>5, <1>6, <1>7, <1>8, StepKinds
        DEF QuietStep

(* What has_room_for allows is never more than add uses.                   *)
LEMMA RoomIsEnough ==
    ASSUME Inductive, WriterState, RoomForBatch, pc = "add"
    PROVE  UsedAfter(memfile, batch) <= memfile.capacity
<1> DEFINE new == {k \in batch.keys : memfile.content[k] = Absent}
           n == batch.entries
<1>1. IsFiniteSet(batch.keys)
  <2>1. batch.keys \subseteq Keys
    BY Shapes DEF Inductive
  <2> QED BY <2>1, KeysAssumption, FS_Subset
<1>2. /\ Cardinality(new) \in Nat
      /\ Cardinality(new) <= Cardinality(batch.keys)
      /\ Cardinality(batch.keys) \in Nat
  <2>1. new \subseteq batch.keys
    OBVIOUS
  <2> HIDE DEF new
  <2> QED BY <1>1, <2>1, FS_Subset, FS_CardinalityType
<1>3. Cardinality(batch.keys) <= n /\ n \in Nat
  BY DEF WriterState, Writing, Inductive, TypeOK, Batches, NoBatch
<1>4. memfile.used \in Nat /\ memfile.capacity \in Nat
  BY DEF Inductive, TypeOK, Memfiles
<1>5. memfile.used + n * (KeySize + ValueSize) <= memfile.capacity
  BY DEF RoomForBatch, HasRoomFor
<1> DEFINE u == Cardinality(new)
<1> HIDE DEF n, u, new
<1>6. u \in Nat /\ u <= n
  BY <1>2, <1>3 DEF u
<1>7. u * KeySize <= n * KeySize
  BY <1>3, <1>6, SizesAssumption, MonotonicProduct
<1>8. n * (KeySize + ValueSize) = n * KeySize + n * ValueSize
  BY <1>3, SizesAssumption
<1>9. u * KeySize \in Nat /\ n * KeySize \in Nat /\ n * ValueSize \in Nat
  BY <1>3, <1>6, SizesAssumption
<1>10. memfile.used + n * ValueSize + u * KeySize <= memfile.capacity
  BY <1>4, <1>5, <1>7, <1>8, <1>9
<1> QED BY <1>10 DEF UsedAfter, n, u, new

(* Every step keeps the store the result of whole batches.                 *)
LEMMA GoodViewsNext ==
    ASSUME Inductive, WriterState, RoomForBatch, ViewsStayGood, [Next]_vars
    PROVE  ViewsStayGood'
<1>1. ASSUME UNCHANGED <<memfile, immutable_memfiles>>
      PROVE  ViewsStayGood'
  BY <1>1 DEF ViewsStayGood, LiveMemfiles
<1>2. ASSUME \A i \in DOMAIN immutable_memfiles' : \A k \in Keys :
                immutable_memfiles'[i].content[k] # Dangling,
             memfile'.redo_id # 0 =>
                \A k \in Keys : memfile'.content[k] # Dangling
      PROVE  ViewsStayGood'
  BY <1>2 DEF ViewsStayGood, LiveMemfiles
<1>3. /\ \A i \in DOMAIN immutable_memfiles : \A k \in Keys :
            immutable_memfiles[i].content[k] # Dangling
      /\ memfile.redo_id # 0 => \A k \in Keys : memfile.content[k] # Dangling
  BY DEF ViewsStayGood, LiveMemfiles
<1>4. \A k \in Keys : Empty[k] # Dangling
  BY EmptyContent
<1>5. immutable_memfiles \in Seq(Memfiles) /\ memfile \in Memfiles
  BY DEF Inductive, TypeOK
<1>6. CASE QuietStep
  BY <1>1, <1>6, QuietEffect DEF Inductive
<1>7. CASE LosingStep
  <2>1. immutable_memfiles' = <<>> /\ memfile'.redo_id = 0
    BY <1>7, LosingEffect, NewMemfileType DEF LoseMemory, NullMemfile
  <2> QED BY <1>2, <2>1
<1>8. CASE SwitchMemfile
  <2>1. immutable_memfiles' = Retire /\ memfile'.content = Empty
    BY <1>8, Shapes, NewMemfileType DEF Inductive, SwitchMemfile
  <2>2. ASSUME memfile.redo_id # 0, NEW i \in DOMAIN Retire
        PROVE  \A k \in Keys : Retire[i].content[k] # Dangling
    <3>1. Retire[i] = memfile \/ /\ i \in DOMAIN immutable_memfiles
                                 /\ Retire[i] = immutable_memfiles[i]
      BY <1>5, <2>2 DEF Retire
    <3> QED BY <1>3, <2>2, <3>1
  <2>3. memfile.redo_id = 0 => Retire = immutable_memfiles
    BY DEF Retire
  <2> QED BY <1>2, <1>3, <1>4, <2>1, <2>2, <2>3
<1>9. CASE AddToMemfile
  <2>1. /\ pc = "add" /\ UNCHANGED immutable_memfiles
        /\ memfile.redo_id # 0 /\ batch.version > 0
    BY <1>9 DEF AddToMemfile, Inductive, Lifecycle, WriterState, Writing
  <2>2. ~(UsedAfter(memfile, batch) > memfile.capacity)
    <3>1. UsedAfter(memfile, batch) <= memfile.capacity
      BY <2>1, RoomIsEnough
    <3>2. UsedAfter(memfile, batch) \in Nat /\ memfile.capacity \in Nat
      <4>1. batch \in Batches
        BY <2>1 DEF Inductive, TypeOK, NoBatch
      <4> QED BY <1>5, <4>1, UsedAfterType DEF Memfiles
    <3> QED BY <3>1, <3>2
  <2>3. memfile'.content = Put(memfile.content, batch.keys, batch.version)
    <3> DEFINE content == Put(memfile.content, batch.keys, batch.version)
    <3>1. \E used : memfile' = [memfile EXCEPT !.used = used, !.content = content]
      BY <1>9, <2>2 DEF AddToMemfile
    <3> HIDE DEF content
    <3>2. memfile'.content = content
      BY <1>5, <3>1 DEF Memfiles
    <3> QED BY <3>2 DEF content
  <2>4. \A k \in Keys : memfile'.content[k] # Dangling
    <3>1. \A k \in Keys : memfile'.content[k] = IF k \in batch.keys
                                                 THEN batch.version
                                                 ELSE memfile.content[k]
      BY <2>3, PutValue
    <3>2. batch.version # Dangling
      BY <2>1
    <3> QED BY <1>3, <2>1, <3>1, <3>2
  <2> QED BY <1>2, <1>3, <2>1, <2>4
<1>10. CASE \E d \in dumps : DumperStep(d)
  <2>1. UNCHANGED memfile
    BY <1>10 DEF DumperStep, Dump, OnDumpFailed, BuildNewState, Checkpoint,
                 CompletionThrows, Apply, PopAndReschedule, memory
  <2>2. \/ UNCHANGED immutable_memfiles
        \/ /\ immutable_memfiles # <<>>
           /\ immutable_memfiles' = Tail(immutable_memfiles)
    BY <1>10 DEF DumperStep, Dump, OnDumpFailed, BuildNewState, Checkpoint,
                 CompletionThrows, Apply, PopAndReschedule, memory
  <2>3. ASSUME immutable_memfiles # <<>>,
               NEW i \in DOMAIN Tail(immutable_memfiles)
        PROVE  /\ i + 1 \in DOMAIN immutable_memfiles
               /\ Tail(immutable_memfiles)[i] = immutable_memfiles[i + 1]
    BY <1>5, <2>3
  <2> QED BY <1>1, <1>2, <1>3, <2>1, <2>2, <2>3
<1>11. CASE UNCHANGED vars
  BY <1>1, <1>11 DEF vars, memory
<1> QED BY <1>6, <1>7, <1>8, <1>9, <1>10, <1>11, StepKinds

(* If no batch outgrows an empty memfile, no view into a memfile ever      *)
(* dangles: has_room_for asks for at least what add takes.                 *)
THEOREM FittingBatchesKeepViews ==
    ASSUME BatchesFit PROVE Spec => []ViewsStayGood
<1>1. Init => RoomForBatch /\ ViewsStayGood
  <2>1. Init => immutable_memfiles = <<>> /\ memfile.redo_id = 0
    BY NewMemfileType DEF Init, NullMemfile
  <2> QED BY <2>1 DEF Init, RoomForBatch, ViewsStayGood, LiveMemfiles
<1>2. /\ DiskInductive /\ RoomForBatch /\ ViewsStayGood
      /\ [Next]_vars
      => RoomForBatch' /\ ViewsStayGood'
  BY RoomNext, GoodViewsNext DEF DiskInductive
<1> QED BY <1>1, <1>2, DiskInvariant, PTL DEF Spec

(* Then every write() is atomic.                                           *)
THEOREM WritesAreAtomic ==
    ASSUME BatchesFit PROVE Spec => ImplementsKvUpdater
BY FittingBatchesKeepViews, GoodViewsMakeAStore, PTL
=============================================================================
