-------------------------- MODULE EngineRead_proof --------------------------
(***************************************************************************)
(* Reads, for any number of readers, keys and reads and for any values of  *)
(* the constants of the engine: a snapshot is complete, and what a read    *)
(* answers from it is a value its key had while the read ran.              *)
(***************************************************************************)
EXTENDS EngineRead, EngineRace_proof

USE DEF Absent, Dangling

------------------------------------------------------------------------------
(* What a step of the engine leaves to the reads under way                 *)

(* A table in use stays in use and keeps its content, unless the process   *)
(* ends: dumps write to files of their own, and tables are only added.     *)
LEMMA TablesStay ==
    ASSUME DiskInductive, Next, pc' # "closed"
    PROVE  \A i \in DOMAIN sstables :
              /\ \E j \in DOMAIN sstables' : sstables'[j] = sstables[i]
              /\ sstables[i] \in DOMAIN db_files
              /\ sstables[i] \in DOMAIN db_files'
              /\ db_files'[sstables[i]] = db_files[sstables[i]]
<1> USE DEF DiskInductive
<1>1. \A i \in DOMAIN sstables : sstables[i] \in DOMAIN db_files
  BY DEF Manifest, TablesOnDisk
<1>2. ASSUME UNCHANGED <<sstables, db_files>>
      PROVE  \A i \in DOMAIN sstables :
                /\ \E j \in DOMAIN sstables' : sstables'[j] = sstables[i]
                /\ sstables[i] \in DOMAIN db_files'
                /\ db_files'[sstables[i]] = db_files[sstables[i]]
  BY <1>1, <1>2
<1>3. CASE QuietStep \/ AddToMemfile \/ SwitchMemfile
  <2>1. UNCHANGED <<sstables, db_files>>
    BY <1>3, QuietEffect, AddEffect DEF Inductive, SwitchMemfile, disk
  <2> QED BY <1>1, <1>2, <2>1
<1>4. ~LosingStep
  BY LosingEffect DEF LoseMemory
<1>5. ASSUME NEW d \in dumps, DumperStep(d)
      PROVE  \A i \in DOMAIN sstables :
                /\ \E j \in DOMAIN sstables' : sstables'[j] = sstables[i]
                /\ sstables[i] \in DOMAIN db_files'
                /\ db_files'[sstables[i]] = db_files[sstables[i]]
  <2>1. /\ DumpInstalled(d) /\ sstables \in Seq(Nat) /\ d.file_id \in Nat
        /\ \A i \in DOMAIN sstables : sstables[i] \in Nat
    BY TableShapes DEF Manifest, Inductive, TypeOK
  <2>2. CASE Dump(d)
    <3>1. d.pc = "queued" /\ UNCHANGED sstables
      BY <2>2 DEF Dump, tables
    <3>2. \/ db_files' = db_files
          \/ \E c : db_files' = WithFile(db_files, d.file_id, c)
      BY <2>2 DEF Dump
    <3>3. \A i \in DOMAIN sstables : sstables[i] # d.file_id
      BY <2>1, <3>1 DEF DumpInstalled
    <3> QED BY <1>1, <3>1, <3>2, <3>3 DEF WithFile
  <2>3. CASE Apply(d)
    <3>1. sstables' = Append(sstables, d.file_id) /\ UNCHANGED db_files
      BY <2>1, <2>3 DEF Apply, DumpInstalled, disk
    <3>2. \A i \in DOMAIN sstables : /\ i \in DOMAIN sstables'
                                     /\ sstables'[i] = sstables[i]
      BY <2>1, <3>1
    <3> QED BY <1>1, <3>1, <3>2
  <2>4. CASE ~Dump(d) /\ ~Apply(d)
    <3>1. UNCHANGED <<sstables, db_files>>
      BY <1>5, <2>4 DEF DumperStep, OnDumpFailed, BuildNewState, Checkpoint,
                        CompletionThrows, PopAndReschedule, tables, disk
    <3> QED BY <1>2, <3>1
  <2> QED BY <2>2, <2>3, <2>4
<1> QED BY <1>1, <1>3, <1>4, <1>5, StepKinds

(* A memfile is left for one with a greater id; as long as it stays, it    *)
(* keeps what keys it has, though their values may change under a reader.  *)
LEMMA MemfileStays ==
    ASSUME DiskInductive, Next, pc' # "closed"
    PROVE  /\ memfile.redo_id <= memfile'.redo_id
           /\ memfile'.redo_id = memfile.redo_id =>
                 \A k \in Keys : memfile.content[k] # Absent
                                    => memfile'.content[k] # Absent
<1> USE DEF DiskInductive
<1>1. memfile.redo_id \in Nat /\ memfile \in Memfiles
  BY Shapes DEF Inductive, TypeOK
<1>2. ASSUME UNCHANGED memfile
      PROVE  /\ memfile.redo_id <= memfile'.redo_id
             /\ \A k \in Keys : memfile.content[k] # Absent
                                   => memfile'.content[k] # Absent
  BY <1>1, <1>2
<1>3. CASE QuietStep
  BY <1>2, <1>3, QuietEffect DEF Inductive
<1>4. ~LosingStep
  BY LosingEffect DEF LoseMemory
<1>5. CASE SwitchMemfile
  <2>1. memfile'.redo_id = future.id /\ future.state = "ready" /\ future.id \in Nat
    BY <1>5, Shapes, NewMemfileType DEF Inductive, SwitchMemfile
  <2>2. memfile.redo_id < future.id
    BY <2>1 DEF Inductive, RedoOrder
  <2> QED BY <1>1, <2>1, <2>2
<1>6. CASE AddToMemfile
  <2> DEFINE content == Put(memfile.content, batch.keys, batch.version)
  <2>1. memfile'.redo_id = memfile.redo_id
    BY <1>6, AddEffect DEF Inductive
  <2>2. batch.version > 0
    BY <1>6 DEF AddToMemfile, WriterState, Writing
  <2>3. \A k \in Keys : content[k] = IF k \in batch.keys THEN batch.version
                                     ELSE memfile.content[k]
    BY PutValue
  <2>4. \/ \E u : memfile' = [memfile EXCEPT !.used = u, !.content = content]
        \/ \E u, c, ks : memfile' = [memfile EXCEPT !.used = u, !.capacity = c,
                            !.content = Put(content, ks, Dangling)]
    BY <1>6 DEF AddToMemfile
  <2> HIDE DEF content
  <2>5. \/ memfile'.content = content
        \/ \E ks : memfile'.content = Put(content, ks, Dangling)
    BY <1>1, <2>4 DEF Memfiles
  <2>6. ASSUME NEW k \in Keys, memfile.content[k] # Absent
        PROVE  memfile'.content[k] # Absent
    <3>1. content[k] # Absent
      BY <2>2, <2>3, <2>6
    <3>2. ASSUME NEW ks, memfile'.content = Put(content, ks, Dangling)
          PROVE  memfile'.content[k] # Absent
      BY <3>1, <3>2, PutValue
    <3> QED BY <2>5, <3>1, <3>2
  <2> QED BY <1>1, <2>1, <2>6
<1>7. ASSUME NEW d \in dumps, DumperStep(d)
      PROVE  UNCHANGED memfile
  BY <1>7 DEF DumperStep, Dump, OnDumpFailed, BuildNewState, Checkpoint,
              CompletionThrows, Apply, PopAndReschedule, memory
<1> QED BY <1>2, <1>3, <1>4, <1>5, <1>6, <1>7, StepKinds

(* An open engine stays open until the process ends.                       *)
LEMMA StaysOpen ==
    ASSUME DiskInductive, DiskInductive', Next, pc' # "closed", IsOpen
    PROVE  IsOpen'
<1>1. memfile.redo_id # 0 /\ memfile.redo_id \in Nat /\ memfile'.redo_id \in Nat
  <2>1. memfile.redo_id # 0
    BY DEF DiskInductive, Inductive, Lifecycle, IsOpen
  <2>2. memfile.redo_id \in Nat
    BY DEF DiskInductive, Inductive, TypeOK, Memfiles
  <2>3. memfile'.redo_id \in Nat
    BY DEF DiskInductive, Inductive, TypeOK, Memfiles
  <2> QED BY <2>1, <2>2, <2>3
<1>2. memfile'.redo_id # 0
  BY <1>1, MemfileStays
<1>3. ~(pc' \in {"closed", "opening"})
  BY <1>2 DEF DiskInductive, Inductive, Lifecycle
<1> QED BY <1>3 DEF IsOpen

(* What the mutable memfile has of a key is what the engine holds of it.   *)
LEMMA MemfileDecides ==
    ASSUME TypeOK', NEW k \in Keys, memfile'.content[k] # Absent
    PROVE  View'[k] = memfile'.content[k]
BY ViewIsHeldNext DEF Held
------------------------------------------------------------------------------
(* What snapshot_ takes                                                    *)

(* Reversing a queue and putting the memfile before it.                    *)
LEMMA NewestFirst ==
    ASSUME NEW q \in Seq(Memfiles), NEW m \in Memfiles
    PROVE  LET ms == <<m>> \o Reverse(q)
           IN /\ ms \in Seq(Memfiles)
              /\ DOMAIN ms = 1 .. Len(q) + 1
              /\ ms[1] = m
              /\ \A i \in 2 .. Len(q) + 1 : /\ Len(q) + 2 - i \in DOMAIN q
                                            /\ ms[i] = q[Len(q) + 2 - i]
<1> DEFINE n == Len(q)
           rev == Reverse(q)
           ms == <<m>> \o rev
<1>1. n \in Nat /\ DOMAIN q = 1 .. n
  OBVIOUS
<1>2. rev = [i \in 1 .. n |-> q[(n - i) + 1]]
  BY DEF Reverse
<1>3. \A i \in 1 .. n : (n - i) + 1 \in 1 .. n
  BY <1>1
<1>4. rev \in Seq(Memfiles) /\ Len(rev) = n
  <2>1. rev \in [1 .. n -> Memfiles]
    BY <1>1, <1>2, <1>3
  <2> HIDE DEF rev, n
  <2> QED BY <1>1, <2>1
<1>5. \A i \in 1 .. n : rev[i] = q[(n - i) + 1]
  BY <1>2
<1> HIDE DEF n, rev
<1>6. <<m>> \in Seq(Memfiles) /\ Len(<<m>>) = 1 /\ <<m>>[1] = m
  OBVIOUS
<1>7. /\ ms \in Seq(Memfiles) /\ Len(ms) = n + 1 /\ ms[1] = m
      /\ \A i \in 1 .. n + 1 : i # 1 => ms[i] = rev[i - 1]
  BY <1>1, <1>4, <1>6, ConcatProperties
<1> HIDE DEF ms
<1>8. DOMAIN ms = 1 .. n + 1
  BY <1>1, <1>7
<1>9. ASSUME NEW i \in 2 .. n + 1
      PROVE  n + 2 - i \in DOMAIN q /\ ms[i] = q[n + 2 - i]
  <2>1. i - 1 \in 1 .. n /\ (n - (i - 1)) + 1 = n + 2 - i /\ i \in 1 .. n + 1 /\ i # 1
    BY <1>1
  <2> QED BY <1>1, <1>3, <1>5, <1>7, <2>1
<1>10. <<m>> \o Reverse(q) = ms
  BY DEF ms, rev
<1> QED BY <1>7, <1>8, <1>9, <1>10 DEF n

(* From the memfile over the queue, newest first, the first layer that has *)
(* a key has the value the engine holds; and a key that is held is in one  *)
(* of them or in a table.                                                  *)
LEMMA SnapshotAnswers ==
    ASSUME TypeOK, NEW k \in Keys, NEW ms,
           ms = <<memfile>> \o Reverse(immutable_memfiles)
    PROVE  /\ \A i \in DOMAIN ms : FirstWith(ms, k, i)
                                      => ms[i].content[k] = View[k]
           /\ View[k] # Absent => InMemfiles(ms, k) \/ InTables(sstables, k)
<1> DEFINE q == immutable_memfiles
           Q == QueueLayers(q)
           T == TableLayers(sstables, db_files)
           n == Len(q)
<1>1. /\ q \in Seq(Memfiles) /\ memfile \in Memfiles /\ sstables \in Seq(Nat)
      /\ db_files \in [DOMAIN db_files -> Contents]
      /\ n \in Nat /\ DOMAIN q = 1 .. n
  BY DEF TypeOK
<1>2. /\ DOMAIN ms = 1 .. n + 1
      /\ ms[1] = memfile
      /\ \A i \in 2 .. n + 1 : n + 2 - i \in DOMAIN q /\ ms[i] = q[n + 2 - i]
  BY <1>1, NewestFirst
<1>3. View[k] = IF memfile.content[k] # Absent THEN memfile.content[k]
                ELSE IF Newest(Q, k) # Absent THEN Newest(Q, k)
                     ELSE Newest(T, k)
  BY ViewIsHeld DEF Held
<1>4. Q \in Seq(Contents) /\ T \in Seq(Contents)
  BY <1>1, QueueLayersType, TableLayersType
<1>5. DOMAIN Q = DOMAIN q /\ \A i \in DOMAIN q : Q[i] = q[i].content
  BY <1>1 DEF QueueLayers
<1>6. /\ DOMAIN T = DOMAIN sstables
      /\ \A i \in DOMAIN sstables : T[i] = TableContent(sstables[i])
  BY <1>1 DEF TableLayers, TableContent
<1> HIDE DEF q, Q, T, n
<1>7. \A j \in DOMAIN q : /\ n + 2 - j \in 2 .. n + 1
                          /\ ms[n + 2 - j] = q[j]
  <2> TAKE j \in DOMAIN q
  <2>1. n + 2 - j \in 2 .. n + 1 /\ n + 2 - (n + 2 - j) = j
    BY <1>1
  <2> QED BY <1>2, <2>1
<1>8. \A j \in DOMAIN q : n + 2 - j \in DOMAIN ms /\ ms[n + 2 - j] = q[j]
  BY <1>1, <1>2, <1>7, SMTT(30)
<1>9. ASSUME NEW i \in DOMAIN ms, FirstWith(ms, k, i)
      PROVE  ms[i].content[k] = View[k]
  <2>1. CASE i = 1
    BY <1>2, <1>3, <1>9, <2>1 DEF FirstWith
  <2>2. CASE i # 1
    <3>1. /\ i \in 2 .. n + 1 /\ n + 2 - i \in DOMAIN q
          /\ ms[i] = q[n + 2 - i] /\ 1 < i /\ 1 \in DOMAIN ms
      BY <1>1, <1>2, <2>2
    <3>2. memfile.content[k] = Absent
      BY <1>2, <1>9, <3>1 DEF FirstWith
    <3>3. ASSUME NEW j \in DOMAIN Q, j > n + 2 - i PROVE Q[j][k] = Absent
      <4>1. j \in DOMAIN q /\ Q[j] = q[j].content
        BY <1>5
      <4>2. n + 2 - j \in DOMAIN ms /\ ms[n + 2 - j] = q[j]
        BY <1>8, <4>1
      <4>3. n + 2 - j < i
        BY <1>1, <3>1, <3>3, <4>1
      <4> QED BY <1>9, <4>1, <4>2, <4>3 DEF FirstWith
    <3>4. n + 2 - i \in DOMAIN Q /\ Q[n + 2 - i][k] # Absent
      BY <1>5, <1>9, <3>1 DEF FirstWith
    <3>5. Newest(Q, k) = Q[n + 2 - i][k]
      BY <1>4, <3>3, <3>4, NewestIs
    <3> QED BY <1>3, <1>5, <3>1, <3>2, <3>4, <3>5
  <2> QED BY <2>1, <2>2
<1>10. ASSUME View[k] # Absent
      PROVE  InMemfiles(ms, k) \/ InTables(sstables, k)
  <2>1. CASE memfile.content[k] # Absent
    <3>1. 1 \in DOMAIN ms
      BY <1>1, <1>2
    <3> QED BY <1>2, <2>1, <3>1 DEF InMemfiles
  <2>2. CASE Newest(Q, k) # Absent
    <3>1. PICK j \in DOMAIN Q : Q[j][k] # Absent
      BY <2>2, NewestNone
    <3>2. n + 2 - j \in DOMAIN ms /\ ms[n + 2 - j].content[k] # Absent
      BY <1>5, <1>8, <3>1
    <3> QED BY <3>2 DEF InMemfiles
  <2>3. CASE memfile.content[k] = Absent /\ Newest(Q, k) = Absent
    <3>1. Newest(T, k) # Absent
      BY <1>3, <1>10, <2>3
    <3>2. PICK j \in DOMAIN T : T[j][k] # Absent
      BY <3>1, NewestNone
    <3> QED BY <1>6, <3>2 DEF InTables
  <2> QED BY <2>1, <2>2, <2>3
<1> QED BY <1>9, <1>10

(* The values the engine holds are integers.                               *)
LEMMA NewestType ==
    ASSUME NEW L \in Seq(Contents), NEW k \in Keys
    PROVE  Newest(L, k) \in Int
<1>1. CASE \A i \in DOMAIN L : L[i][k] = Absent
  BY <1>1, NewestNone
<1>2. CASE \E i \in DOMAIN L : L[i][k] # Absent
  <2>1. PICK i \in DOMAIN L : Newest(L, k) = L[i][k]
    BY <1>2, NewestExists
  <2>2. L[i] \in Contents
    OBVIOUS
  <2> QED BY <2>1, <2>2 DEF Contents
<1> QED BY <1>1, <1>2

(* What the layers hold of a key is a version, or its absence.             *)
LEMMA HeldType ==
    ASSUME NEW tabs \in Seq(Nat), NEW files, files \in [DOMAIN files -> Contents],
           NEW q \in Seq(Memfiles), NEW m \in Memfiles, NEW k \in Keys
    PROVE  Held(tabs, files, q, m, k) \in Int
<1>1. TableLayers(tabs, files) \in Seq(Contents) /\ QueueLayers(q) \in Seq(Contents)
  BY TableLayersType, QueueLayersType
<1>2. m.content[k] \in Int
  BY DEF Memfiles, Contents
<1> QED BY <1>1, <1>2, NewestType DEF Held

(* So is what the store holds of a key.                                    *)
LEMMA ViewType == ASSUME TypeOK, NEW k \in Keys PROVE View[k] \in Int
<1>1. /\ sstables \in Seq(Nat) /\ immutable_memfiles \in Seq(Memfiles)
      /\ memfile \in Memfiles
      /\ db_files \in [DOMAIN db_files -> Contents]
  BY DEF TypeOK
<1> QED BY <1>1, HeldType, ViewIsHeld

(* The same of the next state.                                             *)
LEMMA ViewTypeNext == ASSUME TypeOK', NEW k \in Keys PROVE View'[k] \in Int
<1>1. /\ sstables' \in Seq(Nat) /\ immutable_memfiles' \in Seq(Memfiles)
      /\ memfile' \in Memfiles
      /\ db_files' \in [DOMAIN db_files' -> Contents]
  BY DEF TypeOK
<1> QED BY <1>1, HeldType, ViewIsHeldNext
------------------------------------------------------------------------------
(* A step of the engine                                                    *)

(* A memfile a read holds is, after a step of the engine, what it was, or  *)
(* the memfile that is still mutable.                                      *)
LEMMA FollowedMemfiles ==
    ASSUME NEW r \in Readers, RTypeOK, MemfileShared(r), HasMemfiles(r),
           DiskInductive, Next, pc' # "closed",
           NEW i \in DOMAIN readers[r].memfiles
    PROVE  LET m == readers[r].memfiles[i] IN
           \/ /\ Follow(m) = m
              /\ m.redo_id = memfile.redo_id => m.redo_id # memfile'.redo_id
           \/ /\ Follow(m) = memfile' /\ m = memfile
              /\ memfile'.redo_id = memfile.redo_id
              /\ \A k \in Keys : m.content[k] # Absent
                                    => memfile'.content[k] # Absent
<1> DEFINE m == readers[r].memfiles[i]
<1>1. m.redo_id = memfile.redo_id => m = memfile
  BY DEF MemfileShared
<1> QED BY <1>1, MemfileStays DEF Follow

(* What a read under way is, once it has followed a step of the engine.    *)
LEMMA ObservedRead ==
    ASSUME NEW r \in Readers, RTypeOK, UnderWay(r), EngineStep, pc' # "closed"
    PROVE  /\ readers'[r].pc = readers[r].pc
           /\ readers'[r].key = readers[r].key
           /\ readers'[r].sstables = readers[r].sstables
           /\ readers'[r].answer = readers[r].answer
           /\ readers'[r].raced \in BOOLEAN
           /\ readers'[r].memfiles = [i \in DOMAIN readers[r].memfiles |->
                                         Follow(readers[r].memfiles[i])]
           /\ readers[r].key \in Keys
           /\ seen'[r] = seen[r] \cup {View'[readers[r].key]}
<1> DEFINE rd == readers[r]
           raced == rd.raced \/ (rd.pc = "copying" /\ \E d \in dumps : Apply(d))
           ms == [i \in DOMAIN rd.memfiles |-> Follow(rd.memfiles[i])]
<1>1. /\ rd.key \in Keys /\ rd.raced \in BOOLEAN
      /\ rd \in [pc : {"idle", "called", "tables", "copying", "reading", "done"},
                 key : Keys, memfiles : Seq(Memfiles), sstables : Seq(Nat),
                 raced : BOOLEAN, answer : Int]
  BY DEF RTypeOK
<1>2. rd.pc \notin {"idle", "done"}
  BY DEF UnderWay
<1>3. readers'[r] = [rd EXCEPT !.memfiles = ms, !.raced = raced]
  BY <1>2 DEF EngineStep, Observe
<1>4. seen'[r] = seen[r] \cup {View'[rd.key]}
  BY <1>2 DEF EngineStep
<1>5. raced \in BOOLEAN
  OBVIOUS
<1> HIDE DEF ms, raced
<1> QED BY <1>1, <1>3, <1>4, <1>5 DEF ms

(* Reads under way go through a step of the engine with what they hold.    *)
LEMMA EngineKeepsRead ==
    ASSUME NEW r \in Readers, RTypeOK, ReadGood(r), UnderWay(r),
           DiskInductive, DiskInductive', EngineStep, pc' # "closed"
    PROVE  ReadGood(r)'
<1> DEFINE rd == readers[r]
           ms == rd.memfiles
           k == rd.key
<1>1. /\ readers'[r].pc = rd.pc
      /\ readers'[r].key = k
      /\ readers'[r].sstables = rd.sstables
      /\ readers'[r].memfiles = [i \in DOMAIN ms |-> Follow(ms[i])]
      /\ k \in Keys
      /\ seen'[r] = seen[r] \cup {View'[k]}
  BY ObservedRead
<1>2. Next
  BY DEF EngineStep
<1>3. /\ memfile.redo_id \in Nat /\ memfile'.redo_id \in Nat
      /\ memfile.redo_id <= memfile'.redo_id
  BY <1>2, MemfileStays DEF DiskInductive, Inductive, TypeOK, Memfiles
<1>4. ASSUME HasMemfiles(r), NEW i \in DOMAIN ms
      PROVE  /\ ms[i].redo_id \in Nat
             /\ ms[i].redo_id <= memfile.redo_id
  <2>1. ms \in Seq(Memfiles)
    BY DEF RTypeOK
  <2>2. ms[i] \in Memfiles
    BY <2>1
  <2> QED BY <1>4, <2>2 DEF Memfiles, ReadGood, MemfileShared
<1>5. ASSUME HasMemfiles(r), NEW i \in DOMAIN ms
      PROVE  \/ /\ Follow(ms[i]) = ms[i]
                /\ ms[i].redo_id = memfile.redo_id
                      => ms[i].redo_id # memfile'.redo_id
             \/ /\ Follow(ms[i]) = memfile' /\ ms[i] = memfile
                /\ memfile'.redo_id = memfile.redo_id
                /\ \A l \in Keys : ms[i].content[l] # Absent
                                      => memfile'.content[l] # Absent
  BY <1>2, <1>5, FollowedMemfiles DEF ReadGood
<1>6. ASSUME HasMemfiles(r), NEW i \in DOMAIN ms, ms[i].content[k] # Absent
      PROVE  Follow(ms[i]).content[k] # Absent
  BY <1>1, <1>5, <1>6
<1>7. /\ DOMAIN readers'[r].memfiles = DOMAIN ms
      /\ \A i \in DOMAIN ms : readers'[r].memfiles[i] = Follow(ms[i])
  BY <1>1
<1>8. /\ HasMemfiles(r)' <=> HasMemfiles(r)
      /\ HasTables(r)' <=> HasTables(r)
  BY <1>1 DEF HasMemfiles, HasTables
<1>9. ViewSeen(r)'
  <2>1. IsOpen'
    BY <1>2, StaysOpen DEF ReadGood, ViewSeen
  <2> QED BY <1>1, <2>1 DEF ViewSeen
<1>10. MemfileShared(r)'
  <2> SUFFICES ASSUME HasMemfiles(r), NEW i \in DOMAIN ms
               PROVE  /\ Follow(ms[i]).redo_id <= memfile'.redo_id
                      /\ Follow(ms[i]).redo_id = memfile'.redo_id
                            => Follow(ms[i]) = memfile'
    BY <1>7, <1>8 DEF MemfileShared
  <2>1. CASE Follow(ms[i]) = memfile'
    BY <1>3, <2>1
  <2>2. CASE /\ Follow(ms[i]) = ms[i]
             /\ ms[i].redo_id = memfile.redo_id => ms[i].redo_id # memfile'.redo_id
    BY <1>3, <1>4, <2>2
  <2> QED BY <1>5, <2>1, <2>2
<1>11. MemfilesAnswer(r)'
  <2> DEFINE mt == readers'[r].memfiles
  <2> SUFFICES ASSUME HasMemfiles(r), NEW i \in DOMAIN mt, FirstWith(mt, k, i)
               PROVE  mt[i].content[k] \in seen'[r]
    BY <1>1, <1>8 DEF MemfilesAnswer
  <2>1. /\ i \in DOMAIN ms /\ mt[i] = Follow(ms[i])
        /\ Follow(ms[i]).content[k] # Absent
        /\ \A j \in DOMAIN ms : j < i => Follow(ms[j]).content[k] = Absent
    BY <1>7 DEF FirstWith
  <2>2. CASE Follow(ms[i]) = memfile'
    <3>1. TypeOK' /\ memfile'.content[k] # Absent
      BY <2>1, <2>2 DEF DiskInductive, Inductive
    <3>2. View'[k] = memfile'.content[k]
      BY <1>1, <3>1, MemfileDecides
    <3> QED BY <1>1, <2>1, <2>2, <3>2
  <2>3. CASE Follow(ms[i]) = ms[i]
    <3>1. FirstWith(ms, k, i)
      BY <1>6, <2>1, <2>3 DEF FirstWith
    <3>2. ms[i].content[k] \in seen[r]
      BY <2>1, <3>1 DEF ReadGood, MemfilesAnswer
    <3> QED BY <1>1, <2>1, <2>3, <3>2
  <2> QED BY <1>5, <2>1, <2>2, <2>3
<1>12. \A i \in DOMAIN sstables :
          /\ \E j \in DOMAIN sstables' : sstables'[j] = sstables[i]
          /\ TableContent(sstables[i]) = db_files[sstables[i]]
          /\ sstables[i] \in DOMAIN db_files'
          /\ db_files'[sstables[i]] = db_files[sstables[i]]
  BY <1>2, TablesStay DEF TableContent
<1>13. TablesHeld(r)'
  BY <1>1, <1>8, <1>12 DEF ReadGood, TablesHeld
<1>14. SnapshotHolds(r)'
  <2> SUFFICES ASSUME HasMemfiles(r), Absent \notin seen'[r]
               PROVE  \/ InMemfiles(readers'[r].memfiles, k)
                      \/ /\ HasTables(r)
                         /\ InTables(rd.sstables, k)'
                      \/ /\ ~HasTables(r)
                         /\ InTables(sstables, k)'
    BY <1>1, <1>8 DEF SnapshotHolds
  <2>1. CASE InMemfiles(ms, k)
    BY <1>6, <1>7, <2>1 DEF InMemfiles
  <2>2. CASE HasTables(r) /\ InTables(rd.sstables, k)
    <3>1. PICK i \in DOMAIN rd.sstables : TableContent(rd.sstables[i])[k] # Absent
      BY <2>2 DEF InTables
    <3>2. PICK j \in DOMAIN sstables : sstables[j] = rd.sstables[i]
      BY <2>2 DEF ReadGood, TablesHeld
    <3>3. /\ rd.sstables[i] \in DOMAIN db_files'
          /\ db_files'[rd.sstables[i]] = TableContent(rd.sstables[i])
      BY <1>12, <3>2
    <3> QED BY <1>1, <2>2, <3>1, <3>3 DEF InTables, TableContent
  <2>3. CASE ~HasTables(r) /\ InTables(sstables, k)
    <3>1. PICK i \in DOMAIN sstables : TableContent(sstables[i])[k] # Absent
      BY <2>3 DEF InTables
    <3>2. PICK j \in DOMAIN sstables' : sstables'[j] = sstables[i]
      BY <1>12
    <3>3. /\ sstables'[j] \in DOMAIN db_files'
          /\ db_files'[sstables'[j]][k] # Absent
      BY <1>12, <3>1, <3>2
    <3> QED BY <1>1, <2>3, <3>3 DEF InTables, TableContent
  <2>4. Absent \notin seen[r]
    BY <1>1
  <2> QED BY <2>1, <2>2, <2>3, <2>4 DEF ReadGood, SnapshotHolds
<1> QED BY <1>9, <1>10, <1>11, <1>13, <1>14 DEF ReadGood

(* A thread that is not reading has nothing to keep.                       *)
LEMMA NothingToKeep ==
    ASSUME NEW r \in Readers,
           readers'[r].pc \notin {"called", "tables", "copying", "reading"}
    PROVE  ReadGood(r)'
BY DEF ReadGood, ViewSeen, MemfileShared, MemfilesAnswer, TablesHeld,
       SnapshotHolds, UnderWay, HasMemfiles, HasTables

Reads == [pc : {"idle", "called", "tables", "copying", "reading", "done"},
          key : Keys, memfiles : Seq(Memfiles), sstables : Seq(Nat),
          raced : BOOLEAN, answer : Int]

(* The shape of a read, also of one that has not begun.                    *)
LEMMA NoReadType == NoRead \in Reads /\ NoRead.pc = "idle"
BY ReadersAssumption DEF NoRead, Reads

(* A step of the engine keeps the shape of the reads and of the histories. *)
LEMMA EngineStepType ==
    ASSUME RTypeOK, TypeOK, TypeOK', EngineStep
    PROVE  RTypeOK'
<1>1. readers \in [Readers -> Reads]
  BY DEF RTypeOK, Reads
<1>2. memfile' \in Memfiles /\ batch.version \in Int
  <2>1. memfile' \in Memfiles
    BY DEF TypeOK
  <2>2. batch.version \in Int
    BY Shapes
  <2> QED BY <2>1, <2>2
<1>3. readers' \in [Readers -> Reads]
  <2> SUFFICES ASSUME NEW r \in Readers PROVE readers'[r] \in Reads
    BY DEF EngineStep
  <2> DEFINE rd == readers[r]
  <2>1. rd \in Reads /\ readers'[r] = Observe(r)
    BY <1>1 DEF EngineStep
  <2>2. CASE pc' = "closed"
    BY <2>1, <2>2, NoReadType DEF Observe
  <2>3. CASE pc' # "closed" /\ rd.pc \in {"idle", "done"}
    BY <2>1, <2>3 DEF Observe
  <2>4. CASE pc' # "closed" /\ rd.pc \notin {"idle", "done"}
    <3> DEFINE raced == rd.raced \/ (rd.pc = "copying" /\ \E d \in dumps : Apply(d))
               ms == [i \in DOMAIN rd.memfiles |-> Follow(rd.memfiles[i])]
    <3>1. readers'[r] = [rd EXCEPT !.memfiles = ms, !.raced = raced]
      BY <2>1, <2>4 DEF Observe
    <3>2. raced \in BOOLEAN
      BY <2>1 DEF Reads
    <3>3. ms \in Seq(Memfiles)
      <4>1. rd.memfiles \in Seq(Memfiles)
        BY <2>1 DEF Reads
      <4>2. \A i \in DOMAIN rd.memfiles : Follow(rd.memfiles[i]) \in Memfiles
        BY <1>2, <4>1 DEF Follow
      <4>3. DOMAIN rd.memfiles = 1 .. Len(rd.memfiles) /\ Len(rd.memfiles) \in Nat
        BY <4>1
      <4> QED BY <4>2, <4>3
    <3> HIDE DEF raced, ms
    <3> QED BY <2>1, <3>1, <3>2, <3>3 DEF Reads
  <2> QED BY <2>2, <2>3, <2>4
<1>4. seen' \in [Readers -> SUBSET Int]
  <2> SUFFICES ASSUME NEW r \in Readers PROVE seen'[r] \in SUBSET Int
    BY DEF EngineStep
  <2>1. readers[r].key \in Keys /\ seen[r] \in SUBSET Int
    BY <1>1 DEF Reads, RTypeOK
  <2>2. View'[readers[r].key] \in Int
    BY <2>1, ViewTypeNext
  <2> QED BY <2>1, <2>2 DEF EngineStep
<1>5. acked' \in Contents
  <2>1. acked \in Contents
    BY DEF RTypeOK
  <2>2. Put(acked, batch.keys, batch.version) \in Contents
    BY <1>2, <2>1, PutContents
  <2> QED BY <2>1, <2>2 DEF EngineStep, Acknowledge
<1>6. reads' \in [Readers -> 0 .. MaxReads]
  BY DEF EngineStep, RTypeOK
<1> QED BY <1>3, <1>4, <1>5, <1>6 DEF RTypeOK, Reads

(* A step of the engine keeps everything about the reads.                  *)
LEMMA EngineStepKeeps ==
    ASSUME ReadInductive, EngineStep
    PROVE  ReadInductive'
<1> USE DEF ReadInductive
<1>1. DiskInductive' /\ Next /\ TypeOK /\ TypeOK'
  <2>1. DiskInductive'
    BY DiskNext DEF EngineStep
  <2>2. TypeOK' /\ TypeOK
    BY <2>1 DEF DiskInductive, Inductive
  <2> QED BY <2>1, <2>2 DEF EngineStep
<1>2. RTypeOK'
  BY <1>1, EngineStepType
<1>3. \A r \in Readers : readers'[r] = Observe(r)
  BY DEF EngineStep
<1>4. CASE pc' = "closed"
  <2>1. \A r \in Readers : readers'[r].pc = "idle"
    BY <1>3, <1>4, NoReadType DEF Observe
  <2>2. \A r \in Readers : ReadGood(r)'
    BY <2>1, NothingToKeep
  <2>3. ReadsAtomic'
    BY <2>1 DEF ReadsAtomic
  <2> QED BY <1>1, <1>2, <2>2, <2>3
<1>5. CASE pc' # "closed"
  <2>1. ASSUME NEW r \in Readers, UnderWay(r)
        PROVE  ReadGood(r)' /\ readers'[r].pc # "done"
    <3>1. ReadGood(r)'
      BY <1>1, <1>5, <2>1, EngineKeepsRead
    <3>2. readers'[r].pc = readers[r].pc
      BY <1>5, <2>1, ObservedRead
    <3> QED BY <2>1, <3>1, <3>2 DEF UnderWay
  <2>2. ASSUME NEW r \in Readers, ~UnderWay(r)
        PROVE  /\ ReadGood(r)'
               /\ readers'[r] = readers[r] /\ seen'[r] = seen[r]
    <3>1. readers[r].pc \in {"idle", "done"}
      BY <2>2 DEF UnderWay, RTypeOK
    <3>2. readers'[r] = readers[r] /\ seen'[r] = seen[r]
      BY <1>3, <1>5, <3>1 DEF Observe, EngineStep
    <3> QED BY <3>1, <3>2, NothingToKeep
  <2>3. ReadsAtomic'
    BY <2>1, <2>2 DEF ReadsAtomic
  <2> QED BY <1>1, <1>2, <2>1, <2>2, <2>3
<1> QED BY <1>4, <1>5
------------------------------------------------------------------------------
(* A step of a reader                                                      *)

(* The threads that do not move keep what they hold.                       *)
LEMMA OthersKeep ==
    ASSUME NEW r \in Readers, ReadGood(r), UNCHANGED vars,
           readers'[r] = readers[r], seen'[r] = seen[r]
    PROVE  ReadGood(r)'
<1>1. /\ View' = View /\ memfile' = memfile /\ sstables' = sstables
      /\ db_files' = db_files /\ pc' = pc
  BY DEF vars, writer, memory, tables, disk, View, Layers, TableContent
<1> QED BY <1>1 DEF ReadGood, ViewSeen, MemfileShared, MemfilesAnswer,
                    TablesHeld, SnapshotHolds, UnderWay, HasMemfiles,
                    HasTables, IsOpen, FirstWith, InMemfiles, InTables,
                    TableContent

(* One thread moves on: enough for the invariant that what it now holds is *)
(* good, and that its answer, if it has one, was the value of its key.     *)
LEMMA OneReaderMoves ==
    ASSUME ReadInductive, UNCHANGED vars, UNCHANGED <<acked>>,
           NEW r \in Readers, NEW rd \in Reads, NEW s \in SUBSET Int,
           readers' = [readers EXCEPT ![r] = rd],
           seen' = [seen EXCEPT ![r] = s],
           reads' \in [Readers -> 0 .. MaxReads],
           ReadGood(r)',
           rd.pc = "done" /\ ~rd.raced /\ rd.answer # Error => rd.answer \in s
    PROVE  ReadInductive'
<1> USE DEF ReadInductive
<1>1. readers \in [Readers -> Reads] /\ seen \in [Readers -> SUBSET Int]
  BY DEF RTypeOK, Reads
<1>2. RTypeOK'
  <2>1. readers' \in [Readers -> Reads] /\ seen' \in [Readers -> SUBSET Int]
    BY <1>1
  <2>2. acked' \in Contents
    BY DEF RTypeOK
  <2> QED BY <2>1, <2>2 DEF RTypeOK, Reads
<1>3. DiskInductive'
  BY DiskNext
<1>4. /\ readers'[r] = rd /\ seen'[r] = s
      /\ \A o \in Readers : o # r => readers'[o] = readers[o] /\ seen'[o] = seen[o]
  BY <1>1
<1>5. \A o \in Readers : ReadGood(o)'
  BY <1>4, OthersKeep
<1>6. ReadsAtomic'
  BY <1>4 DEF ReadsAtomic
<1> QED BY <1>2, <1>3, <1>5, <1>6

(* What a thread holds is judged by what it was before, the engine being   *)
(* the same.                                                               *)
LEMMA EngineSame ==
    ASSUME UNCHANGED vars
    PROVE  /\ View' = View /\ memfile' = memfile /\ sstables' = sstables
           /\ db_files' = db_files /\ pc' = pc
           /\ \A f : TableContent(f)' = TableContent(f)
BY DEF vars, writer, memory, tables, disk, View, Layers, TableContent

(* Read is called: its key has the value it has.                           *)
LEMMA CallKeeps ==
    ASSUME ReadInductive, UNCHANGED vars, NEW r \in Readers, NEW k \in Keys,
           Call(r, k)
    PROVE  ReadInductive'
<1> USE DEF ReadInductive
<1> DEFINE rd == [NoRead EXCEPT !.pc = "called", !.key = k]
<1>1. rd \in Reads /\ rd.pc = "called" /\ rd.key = k
  BY NoReadType DEF Reads
<1>2. {View[k]} \in SUBSET Int
  BY ViewType DEF DiskInductive, Inductive
<1>3. readers \in [Readers -> Reads] /\ seen \in [Readers -> SUBSET Int]
  BY DEF RTypeOK, Reads
<1> HIDE DEF rd
<1>4. /\ readers' = [readers EXCEPT ![r] = rd]
      /\ seen' = [seen EXCEPT ![r] = {View[k]}]
      /\ UNCHANGED acked /\ IsOpen
  BY DEF Call, rd
<1>5. reads' \in [Readers -> 0 .. MaxReads]
  <2>1. reads \in [Readers -> 0 .. MaxReads] /\ reads[r] < MaxReads /\ MaxReads \in Nat
    BY ReadersAssumption DEF Call, RTypeOK
  <2>2. reads[r] + 1 \in 0 .. MaxReads
    BY <2>1
  <2> QED BY <2>1, <2>2 DEF Call
<1>6. readers'[r] = rd /\ seen'[r] = {View[k]}
  BY <1>3, <1>4
<1>7. ReadGood(r)'
  <2>1. ViewSeen(r)'
    BY <1>1, <1>4, <1>6, EngineSame DEF ViewSeen, IsOpen
  <2>2. ~HasMemfiles(r)' /\ ~HasTables(r)'
    BY <1>1, <1>6 DEF HasMemfiles, HasTables
  <2> QED BY <2>1, <2>2 DEF ReadGood, MemfileShared, MemfilesAnswer,
                            TablesHeld, SnapshotHolds
<1> QED BY <1>1, <1>2, <1>4, <1>5, <1>7, OneReaderMoves

(* snapshot_ takes the memfiles: together with the tables, all there is.   *)
LEMMA TakeMemfilesKeeps ==
    ASSUME ReadInductive, UNCHANGED vars, NEW r \in Readers, TakeMemfiles(r)
    PROVE  ReadInductive'
<1> USE DEF ReadInductive
<1> DEFINE q == immutable_memfiles
           ms == <<memfile>> \o Reverse(q)
           rd == [readers[r] EXCEPT !.pc = "tables", !.memfiles = ms]
           k == readers[r].key
<1>1. /\ readers \in [Readers -> Reads] /\ seen \in [Readers -> SUBSET Int]
      /\ readers[r] \in Reads /\ k \in Keys /\ readers[r].pc = "called"
  BY DEF RTypeOK, Reads, TakeMemfiles
<1>2. q \in Seq(Memfiles) /\ memfile \in Memfiles /\ TypeOK
  BY DEF DiskInductive, Inductive, TypeOK
<1>3. /\ ms \in Seq(Memfiles) /\ DOMAIN ms = 1 .. Len(q) + 1
      /\ ms[1] = memfile
      /\ \A i \in 2 .. Len(q) + 1 : /\ Len(q) + 2 - i \in DOMAIN q
                                    /\ ms[i] = q[Len(q) + 2 - i]
  BY <1>2, NewestFirst
<1>4. /\ \A i \in DOMAIN ms : FirstWith(ms, k, i) => ms[i].content[k] = View[k]
      /\ View[k] # Absent => InMemfiles(ms, k) \/ InTables(sstables, k)
  BY <1>1, <1>2, SnapshotAnswers
<1>5. \A i \in DOMAIN ms : /\ ms[i].redo_id <= memfile.redo_id
                           /\ ms[i].redo_id = memfile.redo_id => ms[i] = memfile
  <2>1. memfile.redo_id \in Nat /\ Len(q) \in Nat
    BY <1>2 DEF Memfiles
  <2>2. \A i \in DOMAIN q : q[i].redo_id \in Nat /\ q[i].redo_id < memfile.redo_id
    BY Shapes DEF DiskInductive, Inductive, RedoOrder
  <2> HIDE DEF q, ms
  <2> TAKE i \in DOMAIN ms
  <2>3. CASE i = 1
    BY <1>3, <2>1, <2>3
  <2>4. CASE i # 1
    <3>1. i \in 2 .. Len(q) + 1
      BY <1>3, <2>1, <2>4
    <3> QED BY <1>3, <2>1, <2>2, <3>1
  <2> QED BY <2>3, <2>4
<1>6. readers' = [readers EXCEPT ![r] = rd] /\ UNCHANGED <<seen, acked, reads>>
  BY <1>1 DEF TakeMemfiles
<1> HIDE DEF q, ms
<1>7. rd \in Reads /\ rd.pc = "tables" /\ rd.memfiles = ms /\ rd.key = k
  BY <1>1, <1>3 DEF Reads
<1> HIDE DEF rd
<1>8. readers'[r] = rd /\ seen'[r] = seen[r]
  BY <1>1, <1>6
<1>9. IsOpen /\ View[k] \in seen[r]
  BY <1>1 DEF ReadGood, ViewSeen, UnderWay
<1>10. ReadGood(r)'
  <2>1. ViewSeen(r)'
    BY <1>7, <1>8, <1>9, EngineSame DEF ViewSeen, IsOpen
  <2>2. MemfileShared(r)'
    BY <1>5, <1>7, <1>8, EngineSame DEF MemfileShared
  <2>3. MemfilesAnswer(r)'
    BY <1>4, <1>7, <1>8, <1>9 DEF MemfilesAnswer
  <2>4. ~HasTables(r)'
    BY <1>7, <1>8 DEF HasTables
  <2>5. SnapshotHolds(r)'
    BY <1>4, <1>7, <1>8, <1>9, <2>4, EngineSame DEF SnapshotHolds, InTables
  <2> QED BY <2>1, <2>2, <2>3, <2>4, <2>5 DEF ReadGood, TablesHeld
<1>11. reads' \in [Readers -> 0 .. MaxReads] /\ seen' = [seen EXCEPT ![r] = seen[r]]
  BY <1>1, <1>6 DEF RTypeOK
<1> QED BY <1>1, <1>6, <1>7, <1>10, <1>11, OneReaderMoves

(* The copy of the tables begins and ends.                                 *)
LEMMA CopyKeeps ==
    ASSUME ReadInductive, UNCHANGED vars, NEW r \in Readers,
           StartCopy(r) \/ EndCopy(r)
    PROVE  ReadInductive'
<1> USE DEF ReadInductive
<1> DEFINE old == readers[r]
           rd == IF old.pc = "tables"
                 THEN [old EXCEPT !.pc = "copying", !.sstables = sstables]
                 ELSE [old EXCEPT !.pc = "reading"]
<1>1. /\ readers \in [Readers -> Reads] /\ seen \in [Readers -> SUBSET Int]
      /\ old \in Reads /\ sstables \in Seq(Nat)
      /\ old.pc \in {"tables", "copying"}
  BY DEF RTypeOK, Reads, StartCopy, EndCopy, DiskInductive, Inductive, TypeOK
<1>2. readers' = [readers EXCEPT ![r] = rd] /\ UNCHANGED <<seen, acked, reads>>
  BY <1>1 DEF StartCopy, EndCopy
<1>3. /\ rd \in Reads /\ rd.pc \in {"copying", "reading"}
      /\ rd.memfiles = old.memfiles /\ rd.key = old.key
      /\ \/ old.pc = "tables" /\ rd.sstables = sstables
         \/ old.pc = "copying" /\ rd.sstables = old.sstables
  BY <1>1 DEF Reads
<1> HIDE DEF rd
<1>4. readers'[r] = rd /\ seen'[r] = seen[r]
  BY <1>1, <1>2
<1>5. HasMemfiles(r) /\ UnderWay(r) /\ (HasTables(r) <=> old.pc = "copying")
  BY <1>1 DEF HasMemfiles, UnderWay, HasTables
<1>6. ViewSeen(r)'
  BY <1>3, <1>4, <1>5, EngineSame DEF ReadGood, ViewSeen, IsOpen
<1>7. MemfileShared(r)'
  BY <1>3, <1>4, <1>5, EngineSame DEF ReadGood, MemfileShared
<1>8. MemfilesAnswer(r)'
  BY <1>3, <1>4, <1>5 DEF ReadGood, MemfilesAnswer
<1>9. TablesHeld(r)'
  BY <1>3, <1>4, <1>5, EngineSame DEF ReadGood, TablesHeld
<1>10. SnapshotHolds(r)'
  <2>1. HasTables(r)'
    BY <1>3, <1>4 DEF HasTables
  <2> QED BY <1>3, <1>4, <1>5, <2>1, EngineSame
          DEF ReadGood, SnapshotHolds, InTables
<1>11. reads' \in [Readers -> 0 .. MaxReads] /\ seen' = [seen EXCEPT ![r] = seen[r]]
  BY <1>1, <1>2 DEF RTypeOK
<1> QED BY <1>1, <1>2, <1>3, <1>6, <1>7, <1>8, <1>9, <1>10, <1>11,
           OneReaderMoves DEF ReadGood

(* Without its first memfile, which does not have the key, a list answers  *)
(* as before.                                                              *)
LEMMA TailAnswers ==
    ASSUME NEW ms \in Seq(Memfiles), ms # <<>>, NEW k \in Keys,
           Head(ms).content[k] = Absent
    PROVE  /\ Tail(ms) \in Seq(Memfiles)
           /\ \A i \in DOMAIN Tail(ms) : /\ i + 1 \in DOMAIN ms
                                         /\ Tail(ms)[i] = ms[i + 1]
           /\ \A i \in DOMAIN Tail(ms) :
                 FirstWith(Tail(ms), k, i) => FirstWith(ms, k, i + 1)
           /\ InMemfiles(ms, k) => InMemfiles(Tail(ms), k)
<1> DEFINE t == Tail(ms)
           n == Len(ms)
<1>1. /\ n \in Nat /\ n >= 1 /\ DOMAIN ms = 1 .. n /\ DOMAIN t = 1 .. n - 1
      /\ t \in Seq(Memfiles) /\ Head(ms) = ms[1]
      /\ \A i \in 1 .. n - 1 : t[i] = ms[i + 1]
  OBVIOUS
<1> HIDE DEF t, n
<1>2. \A j \in DOMAIN ms : j # 1 => /\ j - 1 \in DOMAIN t
                                    /\ t[j - 1] = ms[j]
  <2> TAKE j \in DOMAIN ms
  <2> HAVE j # 1
  <2>1. j - 1 \in 1 .. n - 1 /\ (j - 1) + 1 = j
    BY <1>1
  <2> QED BY <1>1, <2>1
<1>3. ASSUME NEW i \in DOMAIN t, FirstWith(t, k, i)
      PROVE  FirstWith(ms, k, i + 1)
  <2>1. t[i] = ms[i + 1] /\ t[i].content[k] # Absent
    BY <1>1, <1>3 DEF FirstWith
  <2>2. ASSUME NEW j \in DOMAIN ms, j < i + 1
        PROVE  ms[j].content[k] = Absent
    <3>1. CASE j = 1
      BY <1>1, <3>1
    <3>2. CASE j # 1
      <4>1. j - 1 \in DOMAIN t /\ t[j - 1] = ms[j]
        BY <1>2, <3>2
      <4>2. j - 1 < i
        BY <1>1, <2>2
      <4> QED BY <1>3, <4>1, <4>2 DEF FirstWith
    <3> QED BY <3>1, <3>2
  <2> QED BY <2>1, <2>2 DEF FirstWith
<1>4. ASSUME InMemfiles(ms, k)
      PROVE  InMemfiles(t, k)
  <2>1. PICK i \in DOMAIN ms : ms[i].content[k] # Absent
    BY <1>4 DEF InMemfiles
  <2>2. i # 1
    BY <1>1, <2>1
  <2> QED BY <1>2, <2>1, <2>2 DEF InMemfiles
<1>5. \A i \in DOMAIN t : i + 1 \in DOMAIN ms /\ t[i] = ms[i + 1]
  BY <1>1
<1> QED BY <1>1, <1>3, <1>4, <1>5 DEF t

(* A memfile that has the key answers with a value it had meanwhile; one   *)
(* that has not is put aside.                                              *)
LEMMA LookUpMemfileKeeps ==
    ASSUME ReadInductive, UNCHANGED vars, NEW r \in Readers, LookUpMemfile(r)
    PROVE  ReadInductive'
<1> USE DEF ReadInductive
<1> DEFINE old == readers[r]
           ms == old.memfiles
           k == old.key
           v == Head(ms).content[k]
<1>1. /\ readers \in [Readers -> Reads] /\ seen \in [Readers -> SUBSET Int]
      /\ old \in Reads /\ old.pc = "reading" /\ ms # <<>>
      /\ k \in Keys /\ ms \in Seq(Memfiles)
  BY DEF RTypeOK, Reads, LookUpMemfile
<1>2. /\ 1 \in DOMAIN ms /\ Head(ms) = ms[1] /\ v \in Int
      /\ \A j \in DOMAIN ms : ~(j < 1)
  <2>1. 1 \in DOMAIN ms /\ Head(ms) = ms[1] /\ ms[1] \in Memfiles
        /\ \A j \in DOMAIN ms : ~(j < 1)
    BY <1>1
  <2>2. v \in Int
    BY <1>1, <2>1 DEF Memfiles, Contents
  <2> QED BY <2>1, <2>2
<1>3. UNCHANGED <<seen, acked, reads>>
  BY DEF LookUpMemfile
<1>4. HasMemfiles(r) /\ UnderWay(r) /\ HasTables(r)
  BY <1>1 DEF HasMemfiles, UnderWay, HasTables
<1>5. reads' \in [Readers -> 0 .. MaxReads] /\ seen' = [seen EXCEPT ![r] = seen[r]]
      /\ seen[r] \in SUBSET Int
  BY <1>1, <1>3 DEF RTypeOK
<1>6. CASE v = Absent
  <2> DEFINE rd == [old EXCEPT !.memfiles = Tail(ms)]
  <2>1. readers' = [readers EXCEPT ![r] = rd]
    BY <1>6 DEF LookUpMemfile
  <2>2. /\ rd \in Reads /\ rd.pc = "reading" /\ rd.memfiles = Tail(ms)
        /\ rd.key = k /\ rd.sstables = old.sstables
    <3>1. Tail(ms) \in Seq(Memfiles)
      BY <1>1
    <3> QED BY <1>1, <3>1 DEF Reads
  <2> HIDE DEF rd
  <2>3. readers'[r] = rd /\ seen'[r] = seen[r]
    BY <1>1, <1>3, <2>1
  <2>4. /\ \A i \in DOMAIN Tail(ms) : /\ i + 1 \in DOMAIN ms
                                      /\ Tail(ms)[i] = ms[i + 1]
        /\ \A i \in DOMAIN Tail(ms) :
              FirstWith(Tail(ms), k, i) => FirstWith(ms, k, i + 1)
        /\ InMemfiles(ms, k) => InMemfiles(Tail(ms), k)
    BY <1>1, <1>6, TailAnswers
  <2>5. ViewSeen(r)'
    BY <1>4, <2>2, <2>3, EngineSame DEF ReadGood, ViewSeen, IsOpen
  <2>6. MemfileShared(r)'
    BY <1>4, <2>2, <2>3, <2>4, EngineSame DEF ReadGood, MemfileShared
  <2>7. MemfilesAnswer(r)'
    BY <1>4, <2>2, <2>3, <2>4 DEF ReadGood, MemfilesAnswer
  <2>8. TablesHeld(r)'
    BY <1>4, <2>2, <2>3, EngineSame DEF ReadGood, TablesHeld
  <2>9. SnapshotHolds(r)'
    <3>1. HasTables(r)'
      BY <2>2, <2>3 DEF HasTables
    <3> QED BY <1>4, <2>2, <2>3, <2>4, <3>1, EngineSame
            DEF ReadGood, SnapshotHolds, InTables
  <2> QED BY <1>3, <1>5, <2>1, <2>2, <2>5, <2>6, <2>7, <2>8, <2>9,
             OneReaderMoves DEF ReadGood
<1>7. CASE v # Absent
  <2> DEFINE rd == [old EXCEPT !.pc = "done", !.answer = v]
  <2>1. readers' = [readers EXCEPT ![r] = rd]
    BY <1>7 DEF LookUpMemfile
  <2>2. rd \in Reads /\ rd.pc = "done" /\ rd.answer = v
    BY <1>1, <1>2 DEF Reads
  <2> HIDE DEF rd
  <2>3. FirstWith(ms, k, 1)
    BY <1>2, <1>7 DEF FirstWith
  <2>4. v \in seen[r]
    BY <1>2, <1>4, <2>3 DEF ReadGood, MemfilesAnswer
  <2>5. ReadGood(r)'
    BY <1>1, <2>1, <2>2, NothingToKeep
  <2> QED BY <1>3, <1>5, <2>1, <2>2, <2>4, <2>5, OneReaderMoves
<1> QED BY <1>6, <1>7

(* Nothing in the memfiles and no tables: the key had no value.            *)
LEMMA LookUpTablesKeeps ==
    ASSUME ReadInductive, UNCHANGED vars, NEW r \in Readers, LookUpTables(r)
    PROVE  ReadInductive'
<1> USE DEF ReadInductive
<1> DEFINE old == readers[r]
<1>1. /\ readers \in [Readers -> Reads] /\ seen \in [Readers -> SUBSET Int]
      /\ old \in Reads /\ old.pc = "reading" /\ old.memfiles = <<>>
  BY DEF RTypeOK, Reads, LookUpTables
<1>2. PICK a : /\ a \in IF old.raced THEN {Error, Absent}
                        ELSE IF old.sstables = <<>> THEN {Absent} ELSE {Error}
               /\ readers' = [readers EXCEPT ![r].pc = "done", ![r].answer = a]
  BY DEF LookUpTables
<1>3. UNCHANGED <<seen, acked, reads>>
  BY DEF LookUpTables
<1> DEFINE rd == [old EXCEPT !.pc = "done", !.answer = a]
<1>4. readers' = [readers EXCEPT ![r] = rd]
  BY <1>1, <1>2
<1>5. a \in Int
  BY <1>2 DEF Error
<1>6. rd \in Reads /\ rd.pc = "done" /\ rd.answer = a /\ rd.raced = old.raced
  BY <1>1, <1>5 DEF Reads
<1> HIDE DEF rd
<1>7. ASSUME ~old.raced, a # Error
      PROVE  a \in seen[r]
  <2>1. a = Absent /\ old.sstables = <<>>
    BY <1>2, <1>7
  <2>2. ~InMemfiles(old.memfiles, old.key) /\ ~InTables(old.sstables, old.key)
    BY <1>1, <2>1 DEF InMemfiles, InTables
  <2>3. HasMemfiles(r) /\ HasTables(r)
    BY <1>1 DEF HasMemfiles, HasTables
  <2> QED BY <2>1, <2>2, <2>3 DEF ReadGood, SnapshotHolds
<1>8. ReadGood(r)'
  BY <1>1, <1>4, <1>6, NothingToKeep
<1>9. reads' \in [Readers -> 0 .. MaxReads] /\ seen' = [seen EXCEPT ![r] = seen[r]]
      /\ seen[r] \in SUBSET Int
  BY <1>1, <1>3 DEF RTypeOK
<1> QED BY <1>3, <1>4, <1>6, <1>7, <1>8, <1>9, OneReaderMoves
------------------------------------------------------------------------------
(* Whoever moves, every read under way holds a complete snapshot whose     *)
(* first layer with the key answers with a value it has had since the call.*)
THEOREM ReadInvariant == RSpec => []ReadInductive
<1>1. RInit => ReadInductive
  <2> SUFFICES ASSUME RInit PROVE ReadInductive
    OBVIOUS
  <2>1. DiskInductive
    BY DiskInit DEF RInit
  <2>2. \A r \in Readers : readers[r] = NoRead /\ seen[r] = {}
    BY DEF RInit
  <2>3. RTypeOK
    <3>1. readers \in [Readers -> Reads]
      BY NoReadType DEF RInit
    <3>2. acked \in Contents
      BY EmptyContent DEF RInit
    <3>3. reads \in [Readers -> 0 .. MaxReads]
      BY ReadersAssumption DEF RInit
    <3>4. seen \in [Readers -> SUBSET Int]
      BY DEF RInit
    <3> QED BY <3>1, <3>2, <3>3, <3>4 DEF RTypeOK, Reads
  <2>4. \A r \in Readers : ReadGood(r)
    BY <2>2, NoReadType DEF ReadGood, ViewSeen, MemfileShared, MemfilesAnswer,
       TablesHeld, SnapshotHolds, UnderWay, HasMemfiles, HasTables
  <2>5. ReadsAtomic
    BY <2>2, NoReadType DEF ReadsAtomic
  <2> QED BY <2>1, <2>3, <2>4, <2>5 DEF ReadInductive
<1>2. ReadInductive /\ [RNext]_rvars => ReadInductive'
  <2> SUFFICES ASSUME ReadInductive, [RNext]_rvars PROVE ReadInductive'
    OBVIOUS
  <2>1. CASE EngineStep
    BY <2>1, EngineStepKeeps
  <2>2. CASE Reading
    <3>1. PICK r \in Readers : /\ \/ \E k \in Keys : Call(r, k)
                                  \/ ReaderStep(r)
                               /\ UNCHANGED vars
      BY <2>2 DEF Reading
    <3> QED BY <3>1, CallKeeps, TakeMemfilesKeeps, CopyKeeps,
               LookUpMemfileKeeps, LookUpTablesKeeps DEF ReaderStep
  <2>3. CASE UNCHANGED rvars
    <3>1. UNCHANGED vars /\ UNCHANGED <<readers, seen, acked, reads>>
      BY <2>3 DEF rvars
    <3>2. DiskInductive'
      BY <3>1, DiskNext DEF ReadInductive
    <3>3. \A r \in Readers : ReadGood(r)'
      BY <3>1, OthersKeep DEF ReadInductive
    <3> QED BY <3>1, <3>2, <3>3 DEF ReadInductive, RTypeOK, ReadsAtomic
  <2> QED BY <2>1, <2>2, <2>3 DEF RNext
<1> QED BY <1>1, <1>2, PTL DEF RSpec

(* A read that finds its key answers a value the key had between the call  *)
(* and the return, and answers kNotFound only if it had none then.         *)
THEOREM ReadsAreAtomic == RSpec => []ReadsAtomic
BY ReadInvariant, PTL DEF ReadInductive

(* A read that has gone through its memfiles in vain still holds a table   *)
(* with its key, if the key had a value all the time.                      *)
THEOREM SnapshotsAreComplete == RSpec => []SnapshotComplete
<1>1. ReadInductive => SnapshotComplete
  <2> SUFFICES ASSUME ReadInductive, NEW r \in Readers,
                      readers[r].pc = "reading", readers[r].memfiles = <<>>,
                      Absent \notin seen[r]
               PROVE  \E i \in DOMAIN readers[r].sstables :
                         TableContent(readers[r].sstables[i])[readers[r].key]
                            # Absent
    BY DEF SnapshotComplete
  <2>1. HasMemfiles(r) /\ HasTables(r)
    BY DEF HasMemfiles, HasTables
  <2>2. ~InMemfiles(readers[r].memfiles, readers[r].key)
    BY DEF InMemfiles
  <2> QED BY <2>1, <2>2 DEF ReadInductive, ReadGood, SnapshotHolds, InTables
<1> QED BY <1>1, ReadInvariant, PTL
=============================================================================
