--------------------------- MODULE LogFiles_proof ---------------------------
(***************************************************************************)
(* Theorems about LogFiles, for any limits on sizes and numbers of files,  *)
(* any length of the day, time of rotation and delay of the lines, and any *)
(* number of lines, failures and restarts.                                 *)
(***************************************************************************)
EXTENDS LogFiles, SequenceTheorems, WellFoundedInduction, TLAPS

(* The inductive invariant.  First the types; the lines are numbered in    *)
(* the order they are handed over, and the sink works on the last of them. *)
Lines == [n : Nat, size : Nat, time : Nat, at : Nat, run : Nat]

Rotating == pc \in {"rotate", "rename"}

FilesTyped ==
    /\ kind \in {"rotating", "daily"} /\ truncate \in BOOLEAN
    /\ kind = "rotating" => truncate = FALSE
    /\ rotation_time \in 0 .. DayLength - 1
    /\ clock \in Nat /\ rotation_tp \in Nat /\ current_size \in Nat
    /\ pc \in {"idle", "rotate", "rename", "open", "write", "down"}
    /\ Rotating => kind = "rotating"
    /\ pc = "open" => kind = "daily"
    /\ pc \in {"rotate", "rename", "open", "down"} => fd = Closed
    /\ DOMAIN files \subseteq Nat /\ files \in [DOMAIN files -> Seq(Lines)]
    /\ fd = Closed \/ (fd \in DOMAIN files /\ safe \in 0 .. Len(files[fd]))
    /\ i \in 0 .. max_files
    /\ pc = "rename" => i > 0 /\ Exists(i - 1)
    /\ handed \in Seq(Lines) /\ written \in Seq(Lines) /\ flushed \subseteq Lines
    /\ faults \in Nat /\ restarts \in Nat
    /\ Busy => handed # <<>>

Numbered ==
    /\ \A k \in DOMAIN handed : handed[k].n = k
    /\ Busy => line.run = restarts
    /\ \A l \in Range(written) \cup OnDisk \cup flushed :
          /\ l.n <= Len(handed)
          /\ Busy => l.n < Len(handed)

(* What may still be in the buffer was written by this process, after all  *)
(* that was flushed and after all that is elsewhere.                       *)
Buffer ==
    fd # Closed =>
        \A a \in safe + 1 .. Len(files[fd]) :
            /\ files[fd][a].run = restarts
            /\ \A l \in flushed : l.n < files[fd][a].n
            /\ \A g \in DOMAIN files : \A c \in DOMAIN files[g] :
                  files[g][c].n >= files[fd][a].n => g = fd /\ c >= a

(* The rotating sink has its base file open, or has outgrown max_size and  *)
(* rotates at the next line; in the middle of a rotation the index being   *)
(* shifted to is free.                                                     *)
RotationControl ==
    /\ DOMAIN files \subseteq 0 .. max_files
    /\ fd = Closed \/ fd = 0
    /\ pc = "write" => fd = 0
    /\ Rotating /\ i < max_files => ~Exists(i)
    /\ pc \notin {"write", "down"} /\ fd = Closed => current_size > max_size

(* current_size counts the base file and the line the sink works on.       *)
RotationSizes ==
    /\ \A f \in DOMAIN files :
          SizeOf(files[f]) <= max_size \/ Len(files[f]) = 1
    /\ fd = 0 /\ pc # "write" => SizeOf(files[0]) <= current_size
    /\ pc = "write" => /\ SizeOf(files[0]) + line.size <= current_size
                       /\ current_size <= max_size \/ files[0] = <<>>

(* Nothing was lost but from behind, and there only from a full directory, *)
(* and with the buffers of processes that ended.                           *)
InTransit(f) == Rotating /\ f = i

Newest == \A l \in OnDisk, m \in Range(written) :
             l.n < m.n => m \in OnDisk \/ Lost(m)

Whole(l) == \/ l \in Range(written)
            \/ \E m \in Range(written) : Lost(m) /\ l \in Torn(m)

RotationKeeps ==
    /\ faults = 0 => /\ Newest
                     /\ \A l \in OnDisk : Whole(l)
                     /\ pc = "rename" => ~Exists(i)
    /\ faults = 0 /\ restarts = 0 =>
          /\ \A f \in DOMAIN files, g \in 0 .. max_files :
                g < f => Exists(g) \/ InTransit(g)
          /\ \/ OnDisk = Range(written)
             \/ \A f \in 0 .. max_files : Exists(f) \/ InTransit(f)

Rotation == kind = "rotating" => /\ RotationControl /\ RotationSizes
                                 /\ InOrder /\ RotationKeeps

(* A line older than the present is handled in the order of the times, or  *)
(* the sink is closed behind the rotation that failed.                     *)
DailyControl ==
    /\ pc = "down" => restarts > 0
    /\ pc = "open" => line.time >= rotation_tp
    /\ pc = "write" /\ fd = Closed => line.time < rotation_tp
    /\ fd = Closed /\ pc # "down" =>
          \E k \in DOMAIN handed :
              /\ handed[k].time >= rotation_tp
              /\ pc = "write" => k < Len(handed)

DailyTimes ==
    /\ \A k \in DOMAIN handed :
          handed[k].time <= handed[k].at /\ handed[k].at <= clock
    /\ Busy => line.at = clock

OnOwnDay == \A l \in Range(handed) : Day(l.time) = Day(l.at)

EndOf(d) == (d + 1) * DayLength + rotation_time

(* The open file is of the present day or an earlier one, and the rotation *)
(* comes before the next day's.                                            *)
DailyFiles ==
    OnOwnDay =>
        /\ fd # Closed => /\ fd * DayLength <= clock
                          /\ rotation_tp <= EndOf(fd)
                          /\ pc = "write" => line.time < EndOf(fd)
        /\ \A d \in DOMAIN files : \A l \in Range(files[d]) :
              d * DayLength <= l.time /\ l.time < EndOf(d)

(* What is flushed stays, and the rest if nothing fails and no process     *)
(* ends; a sink that truncates has no file of a day that it may still      *)
(* open.                                                                   *)
Kept == \A m \in Range(written) \ OnDisk :
           m \notin flushed /\ (faults = 0 => Lost(m))

DailyKeeps ==
    /\ ~truncate => Kept
    /\ truncate /\ rotation_time = 0 /\ restarts = 0 =>
          /\ Kept
          /\ \A d \in DOMAIN files : (d + 1) * DayLength <= rotation_tp

Daily == kind = "daily" => /\ DailyControl /\ DailyTimes
                           /\ DailyFiles /\ DailyKeeps

FilesInductive == FilesTyped /\ Numbered /\ Buffer /\ Rotation /\ Daily

------------------------------------------------------------------------------
(* Sizes of files                                                          *)

(* Induction over the naturals, for a set instead of a predicate.          *)
LEMMA InductionOnNat ==
    ASSUME NEW S, 0 \in S, \A n \in Nat : n \in S => n + 1 \in S
    PROVE  Nat \subseteq S
<1> DEFINE T == Nat \ S
           R == OpToRel(<, Nat)
<1> SUFFICES ASSUME T # {} PROVE FALSE
  OBVIOUS
<1>1. IsWellFoundedOn(R, Nat) /\ T \subseteq Nat
  BY NatLessThanWellFounded
<1>2. PICK m \in T : \A k \in T : ~(<<k, m>> \in R)
  <2> HIDE DEF R, T
  <2> QED BY <1>1, WFMin
<1>3. \A k \in T : ~(k < m)
  BY <1>2 DEF OpToRel
<1>4. m # 0 /\ m - 1 \in Nat /\ m - 1 < m /\ (m - 1) + 1 = m
  OBVIOUS
<1>5. m - 1 \in S
  BY <1>3, <1>4
<1> QED BY <1>4, <1>5

(* The sums over the beginnings of a file.                                 *)
IsSum(s, file) == s = [k \in 0 .. Len(file) |-> IF k = 0 THEN 0
                                                ELSE s[k - 1] + file[k].size]

(* They exist, and are natural numbers: SizeOf is the last of them.        *)
LEMMA SumsOfFile ==
    ASSUME NEW file \in Seq(Lines)
    PROVE  \E s \in [0 .. Len(file) -> Nat] :
              /\ s[0] = 0
              /\ \A k \in 1 .. Len(file) : s[k] = s[k - 1] + file[k].size
              /\ SizeOf(file) = s[Len(file)]
<1> DEFINE N == Len(file)
           Sums(m, s) == /\ s[0] = 0
                         /\ \A k \in 1 .. m : s[k] = s[k - 1] + file[k].size
           S == {m \in Nat : m <= N => \E s \in [0 .. m -> Nat] : Sums(m, s)}
<1>0. N \in Nat /\ \A k \in 1 .. N : file[k].size \in Nat
  <2>1. N \in Nat /\ \A k \in 1 .. N : file[k] \in Lines
    BY LenProperties, ElementOfSeq
  <2>2. \A l \in Lines : l.size \in Nat
    BY DEF Lines
  <2> QED BY <2>1, <2>2
<1>1. 0 \in S
  <2>1. [k \in 0 .. 0 |-> 0] \in [0 .. 0 -> Nat] /\ Sums(0, [k \in 0 .. 0 |-> 0])
    OBVIOUS
  <2> QED BY <2>1
<1>2. ASSUME NEW m \in Nat, m \in S PROVE m + 1 \in S
  <2> SUFFICES ASSUME m + 1 <= N
               PROVE  \E s \in [0 .. m + 1 -> Nat] : Sums(m + 1, s)
    <3> HIDE DEF Sums
    <3> QED OBVIOUS
  <2>1. PICK s \in [0 .. m -> Nat] : Sums(m, s)
    <3>1. m <= N
      BY <1>0
    <3> HIDE DEF Sums
    <3> QED BY <1>2, <3>1
  <2> DEFINE t == [k \in 0 .. m + 1 |-> IF k <= m THEN s[k]
                                        ELSE s[m] + file[m + 1].size]
  <2>2. file[m + 1].size \in Nat /\ s[m] \in Nat
    BY <1>0
  <2>3. t \in [0 .. m + 1 -> Nat]
    BY <2>2
  <2>4. t[0] = 0
    BY <2>1
  <2>5. ASSUME NEW k \in 1 .. m + 1 PROVE t[k] = t[k - 1] + file[k].size
    <3>1. CASE k <= m
      BY <2>1, <3>1
    <3>2. CASE k = m + 1
      BY <3>2
    <3> QED BY <3>1, <3>2
  <2> HIDE DEF t
  <2> QED BY <2>3, <2>4, <2>5
<1>3. Nat \subseteq S
  <2> HIDE DEF S
  <2> QED BY <1>1, <1>2, InductionOnNat
<1>4. PICK s0 \in [0 .. N -> Nat] : Sums(N, s0)
  <2> HIDE DEF Sums
  <2> QED BY <1>0, <1>3
<1>5. IsSum(s0, file)
  <2>1. \A k \in 0 .. N : s0[k] = IF k = 0 THEN 0 ELSE s0[k - 1] + file[k].size
    BY <1>0, <1>4
  <2> QED BY <2>1 DEF IsSum
<1> DEFINE c == CHOOSE s : IsSum(s, file)
<1>6. IsSum(c, file)
  BY <1>5
<1>7. SizeOf(file) = c[N]
  BY DEF SizeOf, IsSum
<1> HIDE DEF c
<1>8. /\ DOMAIN c = 0 .. N
      /\ \A k \in 0 .. N : c[k] = IF k = 0 THEN 0 ELSE c[k - 1] + file[k].size
  BY <1>6 DEF IsSum
<1> DEFINE E == {k \in Nat : k <= N => c[k] = s0[k]}
<1>9. Nat \subseteq E
  <2>1. 0 \in E
    BY <1>0, <1>4, <1>8
  <2>2. ASSUME NEW k \in Nat, k \in E PROVE k + 1 \in E
    <3> SUFFICES ASSUME k + 1 <= N PROVE c[k + 1] = s0[k + 1]
      OBVIOUS
    <3>1. c[k] = s0[k]
      BY <1>0, <2>2
    <3>2. c[k + 1] = c[k] + file[k + 1].size
      BY <1>0, <1>8
    <3>3. s0[k + 1] = s0[k] + file[k + 1].size
      BY <1>0, <1>4
    <3> QED BY <3>1, <3>2, <3>3
  <2> HIDE DEF E
  <2> QED BY <2>1, <2>2, InductionOnNat
<1>10. c = s0
  BY <1>0, <1>8, <1>9 DEF IsSum
<1> QED BY <1>4, <1>7, <1>10

(* The size of a file is a natural number, that of an empty file is zero,  *)
(* and a line adds its own.                                                *)
LEMMA SizeFacts ==
    /\ SizeOf(<<>>) = 0
    /\ \A file \in Seq(Lines) : SizeOf(file) \in Nat
    /\ \A file \in Seq(Lines), l \in Lines :
          SizeOf(Append(file, l)) = SizeOf(file) + l.size
<1>1. SizeOf(<<>>) = 0
  <2>1. <<>> \in Seq(Lines) /\ Len(<<>>) = 0
    OBVIOUS
  <2> QED BY <2>1, SumsOfFile
<1>2. ASSUME NEW file \in Seq(Lines) PROVE SizeOf(file) \in Nat
  BY SumsOfFile, LenProperties
<1>3. ASSUME NEW file \in Seq(Lines), NEW l \in Lines
      PROVE  SizeOf(Append(file, l)) = SizeOf(file) + l.size
  <2> DEFINE N == Len(file)
             longer == Append(file, l)
  <2>1. /\ longer \in Seq(Lines) /\ N \in Nat /\ Len(longer) = N + 1
        /\ \A k \in 1 .. N : longer[k] = file[k]
        /\ longer[N + 1] = l
    BY AppendProperties, LenProperties
  <2> HIDE DEF longer
  <2>2. PICK s \in [0 .. N -> Nat] :
           /\ s[0] = 0
           /\ \A k \in 1 .. N : s[k] = s[k - 1] + file[k].size
           /\ SizeOf(file) = s[N]
    BY SumsOfFile
  <2>3. PICK t \in [0 .. Len(longer) -> Nat] :
           /\ t[0] = 0
           /\ \A k \in 1 .. Len(longer) : t[k] = t[k - 1] + longer[k].size
           /\ SizeOf(longer) = t[Len(longer)]
    BY <2>1, SumsOfFile
  <2> DEFINE E == {k \in Nat : k <= N => t[k] = s[k]}
  <2>4. Nat \subseteq E
    <3>1. 0 \in E
      BY <2>2, <2>3
    <3>2. ASSUME NEW k \in Nat, k \in E PROVE k + 1 \in E
      <4> SUFFICES ASSUME k + 1 <= N PROVE t[k + 1] = s[k + 1]
        OBVIOUS
      <4>1. t[k] = s[k]
        BY <2>1, <3>2
      <4>2. t[k + 1] = t[k] + file[k + 1].size
        BY <2>1, <2>3
      <4>3. s[k + 1] = s[k] + file[k + 1].size
        BY <2>1, <2>2
      <4> QED BY <4>1, <4>2, <4>3
    <3> HIDE DEF E
    <3> QED BY <3>1, <3>2, InductionOnNat
  <2>5. t[N] = s[N]
    BY <2>1, <2>4
  <2>6. t[N + 1] = t[N] + l.size
    BY <2>1, <2>3
  <2> QED BY <2>1, <2>2, <2>3, <2>5, <2>6 DEF longer
<1> QED BY <1>1, <1>2, <1>3

(* A file with no more lines than another, none longer than the one in its *)
(* place there, is no larger.                                              *)
LEMMA SizeGrows ==
    ASSUME NEW rest \in Seq(Lines), NEW file \in Seq(Lines),
           Len(rest) <= Len(file),
           \A k \in 1 .. Len(rest) : rest[k].size <= file[k].size
    PROVE  SizeOf(rest) <= SizeOf(file)
<1> DEFINE M == Len(rest)
           N == Len(file)
<1>0. /\ M \in Nat /\ N \in Nat /\ M <= N
      /\ \A k \in 1 .. M : rest[k].size \in Nat
      /\ \A k \in 1 .. N : file[k].size \in Nat
      /\ \A k \in 1 .. M : k \in 1 .. N
  <2>1. M \in Nat /\ N \in Nat /\ M <= N
    BY LenProperties
  <2>2. /\ \A k \in 1 .. M : rest[k] \in Lines
        /\ \A k \in 1 .. N : file[k] \in Lines
    BY ElementOfSeq, LenProperties
  <2>3. \A l \in Lines : l.size \in Nat
    BY DEF Lines
  <2> QED BY <2>1, <2>2, <2>3
<1>1. PICK s \in [0 .. M -> Nat] :
         /\ s[0] = 0
         /\ \A k \in 1 .. M : s[k] = s[k - 1] + rest[k].size
         /\ SizeOf(rest) = s[M]
  BY SumsOfFile
<1>2. PICK t \in [0 .. N -> Nat] :
         /\ t[0] = 0
         /\ \A k \in 1 .. N : t[k] = t[k - 1] + file[k].size
         /\ SizeOf(file) = t[N]
  BY SumsOfFile
<1>h. \A k \in 1 .. M : rest[k].size <= file[k].size
  OBVIOUS
<1> HIDE DEF M, N
<1> DEFINE E == {k \in Nat : k <= M => s[k] <= t[k]}
           G == {k \in Nat : M + k <= N => t[M] <= t[M + k]}
<1>3. Nat \subseteq E
  <2>1. 0 \in E
    BY <1>1, <1>2
  <2>2. ASSUME NEW k \in Nat, k \in E PROVE k + 1 \in E
    <3> SUFFICES ASSUME k + 1 <= M PROVE s[k + 1] <= t[k + 1]
      OBVIOUS
    <3>1. /\ s[k] <= t[k] /\ s[k] \in Nat /\ t[k] \in Nat
          /\ k + 1 \in 1 .. M /\ k + 1 \in 1 .. N
      BY <1>0, <2>2
    <3>2. s[k + 1] = s[k] + rest[k + 1].size
      BY <1>1, <3>1
    <3>3. t[k + 1] = t[k] + file[k + 1].size
      BY <1>2, <3>1
    <3>4. /\ rest[k + 1].size <= file[k + 1].size
          /\ rest[k + 1].size \in Nat /\ file[k + 1].size \in Nat
      BY <1>0, <1>h, <3>1
    <3> QED BY <3>1, <3>2, <3>3, <3>4
  <2> HIDE DEF E
  <2> QED BY <2>1, <2>2, InductionOnNat
<1>4. Nat \subseteq G
  <2>1. 0 \in G
    BY <1>0, <1>2
  <2>2. ASSUME NEW k \in Nat, k \in G PROVE k + 1 \in G
    <3> SUFFICES ASSUME M + (k + 1) <= N PROVE t[M] <= t[M + (k + 1)]
      OBVIOUS
    <3>1. /\ t[M] <= t[M + k] /\ t[M] \in Nat /\ t[M + k] \in Nat
          /\ M + (k + 1) \in 1 .. N /\ (M + (k + 1)) - 1 = M + k
      BY <1>0, <2>2
    <3>2. t[M + (k + 1)] = t[M + k] + file[M + (k + 1)].size
      BY <1>2, <3>1
    <3>3. file[M + (k + 1)].size \in Nat
      BY <1>0, <3>1
    <3> QED BY <3>1, <3>2, <3>3
  <2> HIDE DEF G
  <2> QED BY <2>1, <2>2, InductionOnNat
<1>5. s[M] <= t[M]
  BY <1>0, <1>3
<1>6. t[M] <= t[N]
  <2>1. N - M \in Nat /\ M + (N - M) = N
    BY <1>0
  <2>2. N - M \in G
    BY <1>4, <2>1
  <2> QED BY <1>0, <2>1, <2>2
<1>7. s[M] \in Nat /\ t[M] \in Nat /\ t[N] \in Nat
  BY <1>0
<1> QED BY <1>1, <1>2, <1>5, <1>6, <1>7

------------------------------------------------------------------------------
(* What remains of a file                                                  *)

(* A torn line is the line, but shorter.                                   *)
LEMMA TornFacts ==
    ASSUME NEW l \in Lines, NEW t \in Torn(l)
    PROVE  /\ t \in Lines /\ t.n = l.n /\ t.time = l.time /\ t.run = l.run
           /\ t.size < l.size /\ t # l
           /\ \A m \in Lines : l \in Torn(m) => t \in Torn(m)
<1>1. PICK s \in 1 .. l.size - 1 : t = [l EXCEPT !.size = s]
  BY DEF Torn
<1>2. l.size \in Nat /\ s \in Nat /\ s < l.size
  BY DEF Lines
<1>3. /\ t \in Lines /\ t.n = l.n /\ t.time = l.time /\ t.run = l.run
      /\ t.size = s
  BY <1>1, <1>2 DEF Lines
<1>4. ASSUME NEW m \in Lines, l \in Torn(m) PROVE t \in Torn(m)
  <2>1. PICK r \in 1 .. m.size - 1 : l = [m EXCEPT !.size = r]
    BY <1>4 DEF Torn
  <2>2. m.size \in Nat /\ l.size = r
    BY <2>1 DEF Lines
  <2>3. s \in 1 .. m.size - 1
    BY <1>2, <2>2
  <2>4. t = [m EXCEPT !.size = s]
    BY <1>1, <2>1 DEF Lines
  <2> QED BY <2>3, <2>4 DEF Torn
<1> QED BY <1>2, <1>3, <1>4

(* The lines that remain are the first ones, with those that were not in   *)
(* the buffer; only the last may be torn.                                  *)
Begins(rest, file) ==
    /\ rest \in Seq(Lines) /\ Len(rest) \in Nat /\ Len(rest) <= Len(file)
    /\ DOMAIN rest = 1 .. Len(rest)
    /\ \A a \in 1 .. Len(rest) : /\ rest[a].n = file[a].n
                                 /\ rest[a].time = file[a].time
                                 /\ rest[a].run = file[a].run
    /\ SizeOf(rest) <= SizeOf(file)

LEMMA RemainsFacts ==
    ASSUME NEW file \in Seq(Lines), NEW whole \in 0 .. Len(file),
           NEW rest \in Remains(file, whole)
    PROVE  /\ Begins(rest, file)
           /\ whole <= Len(rest)
           /\ \A a \in 1 .. Len(rest) :
                 \/ rest[a] = file[a]
                 \/ a = Len(rest) /\ a > whole /\ rest[a] \in Torn(file[a])
<1>0. /\ Len(file) \in Nat /\ whole \in Nat /\ whole <= Len(file)
      /\ \A k \in 1 .. Len(file) : file[k] \in Lines
      /\ \A l \in Lines : l.size \in Nat
  <2>1. Len(file) \in Nat /\ \A k \in 1 .. Len(file) : file[k] \in Lines
    BY LenProperties, ElementOfSeq
  <2>2. \A l \in Lines : l.size \in Nat
    BY DEF Lines
  <2>3. whole \in Nat /\ whole <= Len(file)
    BY <2>1
  <2> QED BY <2>1, <2>2, <2>3
<1>1. ASSUME NEW k \in whole .. Len(file)
      PROVE  /\ SubSeq(file, 1, k) \in Seq(Lines)
             /\ Len(SubSeq(file, 1, k)) = k
             /\ \A a \in 1 .. k : SubSeq(file, 1, k)[a] = file[a]
  BY <1>0, SubSeqProperties
<1>2. /\ rest \in Seq(Lines) /\ whole <= Len(rest) /\ Len(rest) <= Len(file)
      /\ \A a \in 1 .. Len(rest) :
            \/ rest[a] = file[a]
            \/ a = Len(rest) /\ a > whole /\ rest[a] \in Torn(file[a])
  <2>1. CASE \E k \in whole .. Len(file) : rest = SubSeq(file, 1, k)
    <3>1. PICK k \in whole .. Len(file) : rest = SubSeq(file, 1, k)
      BY <2>1
    <3>2. /\ rest \in Seq(Lines) /\ Len(rest) = k
          /\ \A a \in 1 .. k : rest[a] = file[a]
      BY <1>1, <3>1
    <3> QED BY <1>0, <3>2
  <2>2. CASE \E k \in whole + 1 .. Len(file) : \E t \in Torn(file[k]) :
                rest = Append(SubSeq(file, 1, k - 1), t)
    <3>1. PICK k \in whole + 1 .. Len(file) : \E t \in Torn(file[k]) :
                rest = Append(SubSeq(file, 1, k - 1), t)
      BY <2>2
    <3>2. PICK t \in Torn(file[k]) : rest = Append(SubSeq(file, 1, k - 1), t)
      BY <3>1
    <3> DEFINE j == k - 1
               front == SubSeq(file, 1, k - 1)
    <3>3. /\ j \in whole .. Len(file) /\ j + 1 = k /\ j \in Nat
          /\ k \in 1 .. Len(file) /\ k > whole
      BY <1>0
    <3>4. /\ front \in Seq(Lines) /\ Len(front) = j
          /\ \A a \in 1 .. j : front[a] = file[a]
      BY <1>1, <3>3
    <3>5. t \in Lines
      BY <1>0, <3>3, TornFacts
    <3> HIDE DEF front
    <3>6. /\ rest \in Seq(Lines) /\ Len(rest) = j + 1
          /\ \A a \in 1 .. j : rest[a] = front[a]
          /\ rest[j + 1] = t
      BY <3>2, <3>3, <3>4, <3>5, AppendProperties DEF front
    <3> HIDE DEF j
    <3>7. ASSUME NEW a \in 1 .. Len(rest)
          PROVE  \/ rest[a] = file[a]
                 \/ a = Len(rest) /\ a > whole /\ rest[a] \in Torn(file[a])
      <4>1. a = k \/ a \in 1 .. j
        BY <3>3, <3>6
      <4> QED BY <3>3, <3>4, <3>6, <4>1
    <3> QED BY <1>0, <3>3, <3>6, <3>7
  <2> QED BY <2>1, <2>2 DEF Remains
<1>3. Len(rest) \in Nat /\ DOMAIN rest = 1 .. Len(rest)
  BY <1>2, LenProperties
<1>4. ASSUME NEW a \in 1 .. Len(rest)
      PROVE  /\ rest[a].n = file[a].n /\ rest[a].time = file[a].time
             /\ rest[a].run = file[a].run /\ rest[a].size <= file[a].size
  <2>0. a \in 1 .. Len(file)
    <3>1. Len(rest) <= Len(file)
      BY <1>2
    <3>2. Len(file) \in Nat
      BY <1>0
    <3>3. Len(rest) \in Nat
      BY <1>3
    <3> QED BY <3>1, <3>2, <3>3
  <2>1. a \in 1 .. Len(file) /\ file[a] \in Lines /\ file[a].size \in Nat
    BY <1>0, <2>0
  <2>2. CASE rest[a] = file[a]
    BY <2>1, <2>2
  <2>3. CASE rest[a] \in Torn(file[a])
    <3>1. rest[a].size < file[a].size /\ rest[a] \in Lines
      BY <2>1, <2>3, TornFacts
    <3>2. rest[a].size \in Nat
      BY <1>0, <3>1
    <3>3. rest[a].size <= file[a].size
      BY <2>1, <3>1, <3>2
    <3> QED BY <2>1, <2>3, <3>3, TornFacts
  <2> QED BY <1>2, <2>2, <2>3
<1>5. SizeOf(rest) <= SizeOf(file)
  BY <1>2, <1>4, SizeGrows
<1> QED BY <1>2, <1>3, <1>4, <1>5 DEF Begins

(* A file begins itself.                                                    *)
LEMMA BeginsItself ==
    \A file \in Seq(Lines) : Begins(file, file)
<1> SUFFICES ASSUME NEW file \in Seq(Lines) PROVE Begins(file, file)
  OBVIOUS
<1>1. SizeOf(file) \in Nat /\ Len(file) \in Nat /\ DOMAIN file = 1 .. Len(file)
  BY SizeFacts, LenProperties
<1> QED BY <1>1 DEF Begins

------------------------------------------------------------------------------
(* Types                                                                   *)

(* What the assumptions and the types say of the parts of the state.       *)
LEMMA FileParameters ==
    /\ max_size \in Nat /\ max_size > 0 /\ max_files \in Nat
    /\ DayLength \in Nat /\ DayLength > 0 /\ MaxDelay \in Nat
    /\ \A size \in Sizes : size \in Nat /\ size > 0
    /\ \A t \in RotationTimes : t \in 0 .. DayLength - 1
    /\ \A t \in 0 .. DayLength - 1 : t \in Nat /\ t < DayLength
    /\ 0 \in 0 .. DayLength - 1
BY RotatingAssumption, DailyAssumption

(* The indices and the elements of the sequences, and the line at hand.    *)
LEMMA FileShapes ==
    ASSUME FilesTyped
    PROVE  /\ Len(handed) \in Nat /\ DOMAIN handed = 1 .. Len(handed)
           /\ Len(written) \in Nat /\ DOMAIN written = 1 .. Len(written)
           /\ \A k \in DOMAIN handed : handed[k] \in Lines
           /\ \A k \in DOMAIN written : written[k] \in Lines
           /\ Busy => /\ Len(handed) \in DOMAIN handed
                             /\ line = handed[Len(handed)] /\ line \in Lines
           /\ \A f \in DOMAIN files :
                 /\ f \in Nat /\ files[f] \in Seq(Lines) /\ Len(files[f]) \in Nat
                 /\ DOMAIN files[f] = 1 .. Len(files[f])
                 /\ \A a \in DOMAIN files[f] : files[f][a] \in Lines
           /\ \A l \in Lines : /\ l.n \in Nat /\ l.size \in Nat
                               /\ l.time \in Nat /\ l.at \in Nat
                               /\ l.run \in Nat
           /\ fd # Closed => /\ fd \in DOMAIN files /\ fd \in Nat
                             /\ safe \in Nat /\ safe <= Len(files[fd])
           /\ rotation_time \in Nat /\ rotation_time < DayLength
           /\ i \in Nat /\ i <= max_files
<1>1. /\ Len(handed) \in Nat /\ DOMAIN handed = 1 .. Len(handed)
      /\ \A k \in DOMAIN handed : handed[k] \in Lines
  BY LenProperties, ElementOfSeq DEF FilesTyped
<1>2. /\ Len(written) \in Nat /\ DOMAIN written = 1 .. Len(written)
      /\ \A k \in DOMAIN written : written[k] \in Lines
  BY LenProperties, ElementOfSeq DEF FilesTyped
<1>3. Busy => /\ Len(handed) \in DOMAIN handed
                     /\ line = handed[Len(handed)] /\ line \in Lines
  <2>1. Busy => handed # <<>> /\ handed \in Seq(Lines)
    BY DEF FilesTyped
  <2>2. Busy => Len(handed) # 0
    BY <2>1, EmptySeq
  <2> QED BY <1>1, <2>2 DEF line, Last
<1>4. ASSUME NEW f \in DOMAIN files
      PROVE  /\ f \in Nat /\ files[f] \in Seq(Lines) /\ Len(files[f]) \in Nat
             /\ DOMAIN files[f] = 1 .. Len(files[f])
             /\ \A a \in DOMAIN files[f] : files[f][a] \in Lines
  <2>1. f \in Nat /\ files[f] \in Seq(Lines)
    BY DEF FilesTyped
  <2> QED BY <2>1, LenProperties, ElementOfSeq
<1>5. \A l \in Lines : /\ l.n \in Nat /\ l.size \in Nat
                       /\ l.time \in Nat /\ l.at \in Nat /\ l.run \in Nat
  BY DEF Lines
<1>7. fd # Closed => /\ fd \in DOMAIN files /\ fd \in Nat
                     /\ safe \in Nat /\ safe <= Len(files[fd])
  <2>1. fd # Closed => fd \in DOMAIN files /\ safe \in 0 .. Len(files[fd])
    BY DEF FilesTyped
  <2> QED BY <1>4, <2>1
<1>6. /\ rotation_time \in Nat /\ rotation_time < DayLength
      /\ i \in Nat /\ i <= max_files
  BY FileParameters DEF FilesTyped
<1> QED BY <1>1, <1>2, <1>3, <1>4, <1>5, <1>6, <1>7

(* The same of the next state.                                             *)
LEMMA FileShapesNext ==
    ASSUME FilesTyped'
    PROVE  /\ \A f \in DOMAIN files' :
                 /\ f \in Nat /\ files'[f] \in Seq(Lines)
                 /\ Len(files'[f]) \in Nat
                 /\ DOMAIN files'[f] = 1 .. Len(files'[f])
                 /\ \A a \in DOMAIN files'[f] : files'[f][a] \in Lines
           /\ i' \in Nat /\ i' <= max_files
<1>1. ASSUME NEW f \in DOMAIN files'
      PROVE  /\ f \in Nat /\ files'[f] \in Seq(Lines) /\ Len(files'[f]) \in Nat
             /\ DOMAIN files'[f] = 1 .. Len(files'[f])
             /\ \A a \in DOMAIN files'[f] : files'[f][a] \in Lines
  <2>1. f \in Nat /\ files'[f] \in Seq(Lines)
    BY DEF FilesTyped
  <2> QED BY <2>1, LenProperties, ElementOfSeq
<1>2. i' \in Nat /\ i' <= max_files
  BY FileParameters DEF FilesTyped
<1> QED BY <1>1, <1>2

(* A directory stays one when a file is created, replaced or removed.      *)
LEMMA DirectoryTypes ==
    ASSUME FilesTyped, NEW f \in Nat, NEW lines \in Seq(Lines), NEW g
    PROVE  /\ DOMAIN WithFile(files, f, lines) \subseteq Nat
           /\ WithFile(files, f, lines)
                 \in [DOMAIN WithFile(files, f, lines) -> Seq(Lines)]
           /\ DOMAIN Without(files, g) \subseteq Nat
           /\ Without(files, g) \in [DOMAIN Without(files, g) -> Seq(Lines)]
           /\ DOMAIN WithFile(Without(files, g), f, lines) \subseteq Nat
           /\ WithFile(Without(files, g), f, lines)
                 \in [DOMAIN WithFile(Without(files, g), f, lines) -> Seq(Lines)]
BY DEF WithFile, Without, Restrict, FilesTyped

(* Days and rotations are natural numbers; the day a time is in.           *)
LEMMA DayFacts ==
    \A t \in Nat : /\ Day(t) \in Nat
                   /\ Day(t) * DayLength \in Nat
                   /\ Day(t) * DayLength <= t
                   /\ t < Day(t) * DayLength + DayLength
<1> SUFFICES ASSUME NEW t \in Nat
             PROVE  /\ Day(t) \in Nat
                    /\ Day(t) * DayLength \in Nat
                    /\ Day(t) * DayLength <= t
                    /\ t < Day(t) * DayLength + DayLength
  OBVIOUS
<1> DEFINE D == DayLength
<1>1. D \in Nat /\ D > 0
  BY FileParameters
<1> HIDE DEF D
<1>2. /\ t \div D \in Nat /\ t % D \in 0 .. D - 1
      /\ t = D * (t \div D) + (t % D)
  BY <1>1
<1>3. /\ (t \div D) * D = D * (t \div D)
      /\ D * (t \div D) \in Nat
  BY <1>1, <1>2
<1>4. (t \div D) * D <= t /\ t < (t \div D) * D + D
  BY <1>1, <1>2, <1>3
<1> QED BY <1>2, <1>3, <1>4 DEF Day, D

(* Products with the length of a day grow by that length.                  *)
LEMMA DaysGrow ==
    \A a, b \in Nat : /\ a * DayLength \in Nat
                      /\ (a + 1) * DayLength = a * DayLength + DayLength
                      /\ a <= b => a * DayLength <= b * DayLength
                      /\ a < b => a * DayLength + DayLength <= b * DayLength
<1> SUFFICES ASSUME NEW a \in Nat, NEW b \in Nat
             PROVE  /\ a * DayLength \in Nat
                    /\ (a + 1) * DayLength = a * DayLength + DayLength
                    /\ a <= b => a * DayLength <= b * DayLength
                    /\ a < b => a * DayLength + DayLength <= b * DayLength
  OBVIOUS
<1> DEFINE D == DayLength
<1>1. D \in Nat /\ D > 0
  BY FileParameters
<1> HIDE DEF D
<1>2. /\ a * D \in Nat /\ b * D \in Nat
      /\ (a + 1) * D = a * D + D
  BY <1>1
<1>3. ASSUME a <= b PROVE a * D <= b * D
  <2>1. PICK c \in Nat : b = a + c
    BY <1>3
  <2>2. b * D = a * D + c * D /\ c * D \in Nat
    BY <1>1, <2>1
  <2> QED BY <1>2, <2>2
<1>4. ASSUME a < b PROVE a * D + D <= b * D
  <2>1. PICK c \in Nat : b = a + 1 + c
    <3>1. b - a - 1 \in Nat /\ b = a + 1 + (b - a - 1)
      BY <1>4
    <3> QED BY <3>1
  <2>2. b * D = (a + 1) * D + c * D /\ c * D \in Nat
    BY <1>1, <2>1
  <2> DEFINE x == a * D
             y == b * D
             z == c * D
  <2>3. y = x + D + z /\ x \in Nat /\ y \in Nat /\ z \in Nat
    BY <1>2, <2>2
  <2> HIDE DEF x, y, z
  <2>4. x + D <= y
    BY <1>1, <2>3
  <2> QED BY <2>4 DEF x, y
<1> QED BY <1>2, <1>3, <1>4 DEF D

(* The next rotation is after the present, and at most a day after today's. *)
LEMMA NextRotationFacts ==
    ASSUME NEW t \in Nat, NEW r \in 0 .. DayLength - 1
    PROVE  /\ NextRotation(t, r) \in Nat
           /\ t < NextRotation(t, r)
           /\ NextRotation(t, r) <= (Day(t) + 1) * DayLength + r
           /\ r = 0 => NextRotation(t, r) = (Day(t) + 1) * DayLength
<1> DEFINE D == DayLength
           x == Day(t) * DayLength
           y == (Day(t) + 1) * DayLength
<1>1. /\ D \in Nat /\ D > 0 /\ r \in Nat /\ r < D
      /\ x \in Nat /\ x <= t /\ t < x + D /\ y = x + D
  BY FileParameters, DayFacts, DaysGrow
<1>2. NextRotation(t, r) = IF x + r > t THEN x + r ELSE x + r + D
  BY DEF NextRotation
<1> HIDE DEF D, x, y
<1>3. /\ NextRotation(t, r) \in Nat
      /\ t < NextRotation(t, r)
      /\ NextRotation(t, r) <= y + r
      /\ r = 0 => NextRotation(t, r) = y
  BY <1>1, <1>2
<1> QED BY <1>3 DEF y

(* The time the line was last worked on is all that Tick changes of it.    *)
LEMMA TickHanded ==
    ASSUME FilesTyped, Tick
    PROVE  /\ handed' \in Seq(Lines) /\ Len(handed') = Len(handed)
           /\ DOMAIN handed' = DOMAIN handed
           /\ \A k \in DOMAIN handed :
                 /\ handed'[k].n = handed[k].n
                 /\ handed'[k].size = handed[k].size
                 /\ handed'[k].time = handed[k].time
                 /\ handed'[k].run = handed[k].run
                 /\ handed'[k].at = IF Busy /\ k = Len(handed)
                                    THEN clock' ELSE handed[k].at
           /\ Busy' = Busy
           /\ Busy => line'.run = line.run
<1>1. /\ handed \in Seq(Lines) /\ clock' \in Nat
      /\ handed' = IF ~Busy THEN handed
                   ELSE [handed EXCEPT ![Len(handed)].at = clock']
      /\ Busy' = Busy
  BY DEF Tick, FilesTyped, Busy
<1>2. CASE ~Busy
  BY <1>1, <1>2
<1>3. CASE Busy
  <2> DEFINE n == Len(handed)
             l == [handed[n] EXCEPT !.at = clock']
  <2>1. n \in DOMAIN handed /\ handed[n] \in Lines /\ line = handed[n]
    BY <1>3, FileShapes
  <2>2. l \in Lines
    BY <1>1, <2>1 DEF Lines
  <2>3. /\ l.n = handed[n].n /\ l.size = handed[n].size
        /\ l.time = handed[n].time /\ l.at = clock'
        /\ l.run = handed[n].run
    BY <2>1 DEF Lines
  <2>4. handed' = [handed EXCEPT ![n] = l]
    BY <1>1, <1>3
  <2> HIDE DEF l
  <2>5. /\ handed' \in Seq(Lines) /\ Len(handed') = Len(handed)
        /\ DOMAIN handed' = DOMAIN handed
    BY <1>1, <2>1, <2>2, <2>4, ExceptSeq, SMTT(30)
  <2>6. \A k \in DOMAIN handed : handed'[k] = IF k = n THEN l ELSE handed[k]
    BY <2>4
  <2>7. line' = l
    BY <2>1, <2>5, <2>6 DEF line, Last
  <2> QED BY <1>1, <1>3, <2>1, <2>3, <2>5, <2>6, <2>7
<1> QED BY <1>2, <1>3

(* What Open does to the directory and the open file.                      *)
LEMMA OpenFacts ==
    ASSUME FilesTyped, NEW f \in Nat, NEW trunc \in BOOLEAN, Open(f, trunc)
    PROVE  /\ fd' = f /\ DOMAIN files' = DOMAIN files \cup {f}
           /\ fd' # Closed /\ fd' \in DOMAIN files'
           /\ safe' = Len(files'[f]) /\ safe' \in 0 .. Len(files'[fd'])
           /\ DOMAIN files' \subseteq Nat
           /\ files' \in [DOMAIN files' -> Seq(Lines)]
           /\ \A g \in DOMAIN files : g # f => files'[g] = files[g]
           /\ files'[f] = IF trunc \/ ~Exists(f) THEN <<>> ELSE files[f]
<1>0. fd' = f /\ safe' = Len(files'[f]) /\ f # Closed
  BY DEF Open, Closed
<1>1. CASE trunc \/ ~Exists(f)
  <2>1. files' = WithFile(files, f, <<>>)
    BY <1>1 DEF Open
  <2>2. <<>> \in Seq(Lines)
    OBVIOUS
  <2>3. /\ DOMAIN files' \subseteq Nat
        /\ files' \in [DOMAIN files' -> Seq(Lines)]
    BY <2>1, <2>2, DirectoryTypes
  <2>4. /\ DOMAIN files' = DOMAIN files \cup {f} /\ files'[f] = <<>>
        /\ \A g \in DOMAIN files : g # f => files'[g] = files[g]
    BY <2>1 DEF WithFile
  <2>5. Len(<<>>) = 0
    OBVIOUS
  <2> QED BY <1>0, <1>1, <2>3, <2>4, <2>5
<1>2. CASE ~(trunc \/ ~Exists(f))
  <2>1. files' = files /\ f \in DOMAIN files
    BY <1>2 DEF Open, Exists
  <2>2. Len(files'[f]) \in 0 .. Len(files'[f])
    BY <2>1, FileShapes
  <2> QED BY <1>0, <1>2, <2>1, <2>2 DEF FilesTyped
<1> QED BY <1>1, <1>2

(* What a lost buffer leaves.                                              *)
LEMMA LoseFacts ==
    ASSUME FilesTyped, LoseBuffer
    PROVE  /\ DOMAIN files' = DOMAIN files
           /\ files' \in [DOMAIN files' -> Seq(Lines)]
           /\ fd = Closed => files' = files
           /\ \A g \in DOMAIN files : g # fd => files'[g] = files[g]
           /\ fd # Closed => /\ files'[fd] \in Remains(files[fd], safe)
                             /\ safe \in 0 .. Len(files'[fd])
<1>1. CASE fd = Closed
  BY <1>1 DEF LoseBuffer, FilesTyped
<1>2. CASE fd # Closed
  <2>1. PICK rest \in Remains(files[fd], safe) :
           files' = [files EXCEPT ![fd] = rest]
    BY <1>2 DEF LoseBuffer
  <2>2. fd \in DOMAIN files /\ safe \in 0 .. Len(files[fd])
        /\ files[fd] \in Seq(Lines)
    BY <1>2 DEF FilesTyped
  <2>3. rest \in Seq(Lines) /\ safe <= Len(rest) /\ Len(rest) \in Nat
    BY <2>2, RemainsFacts DEF Begins
  <2>4. /\ DOMAIN files' = DOMAIN files /\ files'[fd] = rest
        /\ \A g \in DOMAIN files : g # fd => files'[g] = files[g]
    BY <2>1, <2>2
  <2>5. files' \in [DOMAIN files' -> Seq(Lines)]
    BY <2>1, <2>3 DEF FilesTyped
  <2>6. safe \in 0 .. Len(files'[fd])
    BY <2>2, <2>3, <2>4
  <2> QED BY <1>2, <2>4, <2>5, <2>6
<1> QED BY <1>1, <1>2

(* What fflush and fclose do, failing or not.                              *)
LEMMA DrainFacts ==
    ASSUME FilesTyped, Drain
    PROVE  /\ DOMAIN files' = DOMAIN files
           /\ files' \in [DOMAIN files' -> Seq(Lines)]
           /\ flushed' \subseteq Lines /\ faults' \in Nat
           /\ fd # Closed /\ faults' # faults => safe \in 0 .. Len(files'[fd])
           /\ \/ files' = files /\ faults' = faults
              \/ Fault /\ fd # Closed /\ LoseBuffer /\ flushed' = flushed
<1>1. CASE /\ flushed' = flushed \cup (IF fd = Closed THEN {}
                                       ELSE Range(files[fd]))
           /\ UNCHANGED <<files, faults>>
  <2>1. fd # Closed => Range(files[fd]) \subseteq Lines
    BY FileShapes DEF Range
  <2> QED BY <1>1, <2>1 DEF FilesTyped
<1>2. CASE Fault /\ LoseBuffer /\ files' # files /\ UNCHANGED flushed
  <2>1. faults' \in Nat /\ flushed' \subseteq Lines
    BY <1>2 DEF Fault, FilesTyped
  <2>2. fd # Closed
    BY <1>2, LoseFacts
  <2> QED BY <1>2, <2>1, <2>2, LoseFacts
<1> QED BY <1>1, <1>2 DEF Drain

(* The initial states are typed.                                           *)
LEMMA FilesInitType == Init => FilesTyped
<1> SUFFICES ASSUME Init PROVE FilesTyped
  OBVIOUS
<1>1. rotation_time \in 0 .. DayLength - 1 /\ rotation_tp \in Nat
  <2>1. rotation_time \in 0 .. DayLength - 1
    BY FileParameters DEF Init
  <2> QED BY <2>1, NextRotationFacts DEF Init
<1>2. <<>> \in Seq(Lines) /\ Len(<<>>) = 0
  OBVIOUS
<1>3. /\ DOMAIN files = {0} /\ DOMAIN files \subseteq Nat
      /\ files \in [DOMAIN files -> Seq(Lines)]
      /\ fd \in DOMAIN files /\ safe \in 0 .. Len(files[fd])
  BY <1>2 DEF Init
<1>4. /\ kind \in {"rotating", "daily"} /\ truncate \in BOOLEAN
      /\ kind = "rotating" => truncate = FALSE
  BY DEF Init
<1>5. 0 \in 0 .. max_files
  BY FileParameters
<1>6. pc = "idle" /\ ~Rotating /\ ~Busy
  BY DEF Init, Rotating, Busy
<1> QED BY <1>1, <1>2, <1>3, <1>4, <1>5, <1>6 DEF Init, FilesTyped

(* A new line: its number, its times, its process.                         *)
LEMMA LoggedLine ==
    ASSUME FilesTyped, NEW size \in Sizes, NEW delay \in 0 .. MaxDelay,
           Log(size, clock - delay)
    PROVE  /\ handed' \in Seq(Lines) /\ handed' # <<>>
           /\ Len(handed') = Len(handed) + 1
           /\ DOMAIN handed' = 1 .. Len(handed) + 1
           /\ \A k \in 1 .. Len(handed) : handed'[k] = handed[k]
           /\ line' = handed'[Len(handed) + 1]
           /\ line'.n = Len(handed) + 1 /\ line'.size = size
           /\ line'.run = restarts
           /\ line'.time = clock - delay /\ line'.at = clock
           /\ line'.time \in Nat /\ line'.time <= clock
<1> DEFINE l == [n |-> Len(handed) + 1, size |-> size,
                 time |-> clock - delay, at |-> clock, run |-> restarts]
<1>1. /\ handed' = Append(handed, l) /\ l.time = clock - delay /\ l.at = clock
      /\ l.n = Len(handed) + 1 /\ l.size = size /\ l.run = restarts
  BY DEF Log
<1>2. clock - delay \in Nat /\ clock - delay <= clock
  <2>1. delay \in Nat /\ clock \in Nat /\ clock - delay >= 0
    BY FileParameters DEF Log, FilesTyped
  <2> QED BY <2>1
<1>3. l \in Lines
  BY <1>2, FileParameters, FileShapes DEF Lines, FilesTyped
<1> HIDE DEF l
<1>4. /\ handed' \in Seq(Lines) /\ handed' # <<>>
      /\ Len(handed') = Len(handed) + 1
      /\ DOMAIN handed' = 1 .. Len(handed) + 1
      /\ \A k \in 1 .. Len(handed) : handed'[k] = handed[k]
      /\ handed'[Len(handed) + 1] = l
  <2>1. handed \in Seq(Lines) /\ Len(handed) \in Nat
    BY FileShapes DEF FilesTyped
  <2>2. /\ handed' \in Seq(Lines) /\ Len(handed') = Len(handed) + 1
        /\ \A k \in 1 .. Len(handed) : handed'[k] = handed[k]
        /\ handed'[Len(handed) + 1] = l
    BY <1>1, <1>3, <2>1, AppendProperties
  <2>3. DOMAIN handed' = 1 .. Len(handed')
    BY <2>2, LenProperties
  <2>4. handed' # <<>>
    BY <2>1, <2>2, EmptySeq
  <2> QED BY <2>2, <2>3, <2>4
<1>5. line' = l
  BY <1>4, FileShapes DEF line, Last
<1> QED BY <1>1, <1>2, <1>4, <1>5

(* What it does besides: it writes, or it closes the file and rotates or   *)
(* opens another.                                                          *)
LEMMA LoggedState ==
    ASSUME FilesTyped, NEW size \in Sizes, NEW delay \in 0 .. MaxDelay,
           Log(size, clock - delay)
    PROVE  /\ pc = "idle"
           /\ UNCHANGED <<config, clock, rotation_tp, written, restarts>>
           /\ \/ /\ pc' = "write" /\ i' = i
                 /\ UNCHANGED <<files, fd, safe, flushed, faults>>
              \/ /\ kind = "rotating" /\ pc' = "rotate" /\ i' = max_files
                 /\ Drain /\ fd' = Closed
              \/ /\ kind = "daily" /\ pc' = "open" /\ i' = i
                 /\ Drain /\ fd' = Closed
           /\ kind = "rotating" => /\ current_size' = current_size + size
                                   /\ pc' = IF current_size' > max_size
                                            THEN "rotate" ELSE "write"
           /\ kind = "daily" => /\ current_size' = current_size
                                /\ pc' = IF clock - delay >= rotation_tp
                                         THEN "open" ELSE "write"
<1>1. kind = "rotating" \/ kind = "daily"
  BY DEF FilesTyped
<1>2. CASE kind = "rotating"
  BY <1>2 DEF Log, CloseFile
<1>3. CASE kind = "daily"
  BY <1>3 DEF Log, CloseFile
<1> QED BY <1>1, <1>2, <1>3

(* What fwrite leaves in the open file: all it had and the line, or, when  *)
(* it fails, what was not in the buffer and some of the rest.              *)
LEMMA WriteFacts ==
    ASSUME FilesTyped, Write
    PROVE  /\ pc = "write" /\ pc' = "idle" /\ fd # Closed
           /\ UNCHANGED <<config, clock, fd, safe, current_size, i, rotation_tp,
                          handed, flushed, restarts>>
           /\ fd \in DOMAIN files /\ line \in Lines
           /\ Append(files[fd], line) \in Seq(Lines)
           /\ Len(Append(files[fd], line)) = Len(files[fd]) + 1
           /\ \A a \in 1 .. Len(files[fd]) :
                 Append(files[fd], line)[a] = files[fd][a]
           /\ Append(files[fd], line)[Len(files[fd]) + 1] = line
           /\ DOMAIN files' = DOMAIN files
           /\ \A g \in DOMAIN files : g # fd => files'[g] = files[g]
           /\ Begins(files'[fd], Append(files[fd], line))
           /\ \/ /\ files'[fd] = Append(files[fd], line)
                 /\ written' = Append(written, line)
                 /\ faults' = faults
              \/ /\ files'[fd] \in Remains(Append(files[fd], line), safe)
                 /\ written' = written
                 /\ Fault
           /\ safe <= Len(files'[fd])
<1> DEFINE longer == Append(files[fd], line)
<1>1. /\ pc = "write" /\ pc' = "idle" /\ fd # Closed
      /\ UNCHANGED <<config, clock, fd, safe, current_size, i, rotation_tp,
                     handed, flushed, restarts>>
      /\ \/ /\ files' = [files EXCEPT ![fd] = longer]
            /\ written' = Append(written, line)
            /\ faults' = faults
         \/ /\ \E rest \in Remains(longer, safe) :
                  files' = [files EXCEPT ![fd] = rest]
            /\ written' = written
            /\ Fault
  BY DEF Write
<1>2. /\ fd \in DOMAIN files /\ line \in Lines /\ files[fd] \in Seq(Lines)
      /\ safe \in Nat /\ safe <= Len(files[fd]) /\ Len(files[fd]) \in Nat
  BY <1>1, FileShapes DEF Busy
<1>3. /\ longer \in Seq(Lines) /\ Len(longer) = Len(files[fd]) + 1
      /\ \A a \in 1 .. Len(files[fd]) : longer[a] = files[fd][a]
      /\ longer[Len(files[fd]) + 1] = line
  BY <1>2, AppendProperties
<1> HIDE DEF longer
<1>4. safe \in 0 .. Len(longer)
  BY <1>2, <1>3
<1>5. /\ DOMAIN files' = DOMAIN files
      /\ \A g \in DOMAIN files : g # fd => files'[g] = files[g]
  BY <1>1
<1>6. \/ files'[fd] = longer /\ written' = Append(written, line) /\ faults' = faults
      \/ files'[fd] \in Remains(longer, safe) /\ written' = written /\ Fault
  BY <1>1, <1>2
<1>7. Begins(files'[fd], longer) /\ safe <= Len(files'[fd])
  BY <1>2, <1>3, <1>4, <1>6, RemainsFacts, BeginsItself
<1> QED BY <1>1, <1>2, <1>3, <1>5, <1>6, <1>7 DEF longer

(* Every step keeps the types.                                             *)
LEMMA FilesTypedNext ==
    ASSUME FilesTyped, [Next]_vars
    PROVE  FilesTyped'
<1>1. CASE Tick
  <2>1. clock' \in Nat /\ handed' \in Seq(Lines) /\ Len(handed') = Len(handed)
    BY <1>1, TickHanded DEF Tick, FilesTyped
  <2>2. Busy' => handed' # <<>>
    BY <1>1, <2>1, TickHanded, FileShapes, EmptySeq DEF FilesTyped
  <2> QED BY <1>1, <2>1, <2>2 DEF Tick, FilesTyped, config, Rotating
<1>2. ASSUME NEW size \in Sizes, NEW delay \in 0 .. MaxDelay,
             Log(size, clock - delay)
      PROVE  FilesTyped'
  <2>3. handed' \in Seq(Lines) /\ handed' # <<>>
    BY <1>2, LoggedLine
  <2>4. current_size' \in Nat /\ i' \in 0 .. max_files
    <3>1. size \in Nat /\ current_size \in Nat /\ current_size + size \in Nat
      BY FileParameters, SMTT(30) DEF FilesTyped
    <3>2. max_files \in 0 .. max_files /\ i \in 0 .. max_files
      BY FileParameters DEF FilesTyped
    <3>3. current_size' \in {current_size, current_size + size}
      BY <1>2, LoggedState DEF FilesTyped
    <3>4. i' \in {i, max_files}
      BY <1>2, LoggedState
    <3> QED BY <3>1, <3>2, <3>3, <3>4
  <2>5. /\ pc' \in {"rotate", "write", "open"}
        /\ pc' = "rotate" => kind = "rotating" /\ fd' = Closed
        /\ pc' = "open" => kind = "daily" /\ fd' = Closed
        /\ UNCHANGED <<config, clock, rotation_tp, written, restarts>>
    BY <1>2, LoggedState
  <2>6. /\ DOMAIN files' = DOMAIN files
        /\ files' \in [DOMAIN files' -> Seq(Lines)]
        /\ flushed' \subseteq Lines /\ faults' \in Nat
        /\ \/ fd' = Closed
           \/ fd' \in DOMAIN files' /\ safe' \in 0 .. Len(files'[fd'])
    <3>1. CASE UNCHANGED <<files, fd, safe, flushed, faults>>
      BY <3>1 DEF FilesTyped
    <3>2. CASE Drain /\ fd' = Closed
      BY <3>2, DrainFacts
    <3> QED BY <1>2, <3>1, <3>2, LoggedState
  <2> QED BY <2>3, <2>4, <2>5, <2>6 DEF FilesTyped, config, Rotating
<1>3. CASE RotateStep
  <2>1. /\ pc = "rotate" /\ i > 0 /\ kind = "rotating" /\ fd = Closed
        /\ UNCHANGED <<config, clock, fd, safe, current_size, rotation_tp,
                       history, restarts>>
    BY <1>3 DEF RotateStep, FilesTyped, Rotating
  <2>2. /\ i' \in 0 .. max_files /\ pc' \in {"rotate", "rename"}
        /\ files' = files \/ files' = Without(files, i)
        /\ faults' \in Nat
    <3>1. i - 1 \in 0 .. max_files /\ i \in 0 .. max_files
      BY <2>1, FileParameters, SMTT(30) DEF FilesTyped
    <3> QED BY <1>3, <2>1, <3>1 DEF RotateStep, Fault, FilesTyped
  <2>3. DOMAIN files' \subseteq Nat /\ files' \in [DOMAIN files' -> Seq(Lines)]
    <3>1. <<>> \in Seq(Lines) /\ 0 \in Nat
      OBVIOUS
    <3>2. /\ DOMAIN Without(files, i) \subseteq Nat
          /\ Without(files, i) \in [DOMAIN Without(files, i) -> Seq(Lines)]
      BY <3>1, DirectoryTypes
    <3> QED BY <2>2, <3>2 DEF FilesTyped
  <2>4. Busy /\ handed' # <<>>
    BY <2>1 DEF Busy, FilesTyped, history
  <2>5. pc' = "rename" => i' > 0 /\ i - 1 \in DOMAIN files' /\ i' = i
    <3>1. i - 1 # i
      BY FileShapes
    <3>2. CASE pc' = "rename"
      <4>1. /\ Exists(i - 1) /\ i' = i
            /\ files' = Without(files, i) \/ files' = files
        BY <1>3, <2>1, <3>2 DEF RotateStep
      <4>2. i - 1 \in DOMAIN files'
        BY <3>1, <4>1 DEF Exists, Without, Restrict
      <4> QED BY <2>1, <4>1, <4>2 DEF Exists
    <3> QED BY <3>2
  <2> QED BY <2>1, <2>2, <2>3, <2>4, <2>5
          DEF FilesTyped, config, history, Rotating, Exists
<1>4. CASE Rename
  <2>1. /\ pc = "rename" /\ kind = "rotating" /\ fd = Closed
        /\ UNCHANGED <<config, clock, current_size, rotation_tp, history,
                       restarts>>
        /\ handed' # <<>>
    BY <1>4 DEF Rename, FilesTyped, Rotating, Busy, history
  <2>a. i > 0 /\ Exists(i - 1)
    BY <2>1 DEF FilesTyped
  <2>2. CASE Shift
    <3>1. files[i - 1] \in Seq(Lines) /\ i \in Nat /\ i - 1 \in 0 .. max_files
      BY <2>a, FileShapes, FileParameters DEF Exists
    <3>2. /\ files' = WithFile(Without(files, i - 1), i, files[i - 1])
          /\ i' = i - 1 /\ pc' = "rotate" /\ UNCHANGED <<fd, safe, faults>>
      BY <2>2 DEF Shift
    <3>3. /\ DOMAIN files' \subseteq Nat
          /\ files' \in [DOMAIN files' -> Seq(Lines)]
      BY <3>1, <3>2, DirectoryTypes
    <3> QED BY <2>1, <3>1, <3>2, <3>3
            DEF FilesTyped, config, history, Rotating, Busy
  <2>3. CASE GiveUp
    <3>1. pc' = "idle" /\ i' = 0 /\ faults' \in Nat
      BY <2>3 DEF GiveUp, Fault, FilesTyped
    <3>2. 0 \in 0 .. max_files
      BY FileParameters
    <3>3. /\ DOMAIN files' \subseteq Nat
          /\ files' \in [DOMAIN files' -> Seq(Lines)]
          /\ \/ fd' = Closed
             \/ fd' \in DOMAIN files' /\ safe' \in 0 .. Len(files'[fd'])
      <4>1. CASE Open(0, TRUE)
        BY <4>1, OpenFacts
      <4>2. CASE UNCHANGED <<files, fd, safe>>
        BY <2>1, <4>2 DEF FilesTyped
      <4> QED BY <2>3, <4>1, <4>2 DEF GiveUp
    <3> QED BY <2>1, <3>1, <3>2, <3>3
            DEF FilesTyped, config, history, Rotating, Busy
  <2> QED BY <1>4, <2>2, <2>3 DEF Rename
<1>5. CASE RotateEnd
  <2>1. /\ pc = "rotate" /\ kind = "rotating" /\ fd = Closed
        /\ OpenOrThrow(0, TRUE)
        /\ UNCHANGED <<config, clock, i, rotation_tp, history, restarts>>
        /\ handed' # <<>>
    BY <1>5 DEF RotateEnd, FilesTyped, Rotating, Busy, history
  <2>2. current_size' \in Nat
    <3>1. line.size \in Nat /\ current_size \in Nat
      BY <2>1, FileShapes DEF FilesTyped, Busy
    <3> QED BY <1>5, <3>1 DEF RotateEnd
  <2>3. CASE Open(0, TRUE) /\ pc' = "write" /\ UNCHANGED faults
    <3>1. /\ DOMAIN files' \subseteq Nat
          /\ files' \in [DOMAIN files' -> Seq(Lines)]
          /\ fd' \in DOMAIN files' /\ safe' \in 0 .. Len(files'[fd'])
      BY <2>3, OpenFacts
    <3> QED BY <2>1, <2>2, <2>3, <3>1
            DEF FilesTyped, config, history, Rotating
  <2>4. CASE Fault /\ pc' = "idle" /\ UNCHANGED <<files, fd, safe>>
    BY <2>1, <2>2, <2>4 DEF Fault, FilesTyped, config, history, Rotating, Busy
  <2> QED BY <2>1, <2>3, <2>4 DEF OpenOrThrow
<1>6. CASE OpenDay
  <2>1. /\ pc = "open" /\ kind = "daily" /\ fd = Closed
        /\ OpenOrThrow(Day(line.time), truncate)
        /\ UNCHANGED <<config, clock, current_size, i, history, restarts>>
        /\ handed' # <<>>
    BY <1>6 DEF OpenDay, FilesTyped, Busy, history
  <2>2. rotation_tp' \in Nat
    <3>1. NextRotation(clock, rotation_time) \in Nat
      BY NextRotationFacts DEF FilesTyped
    <3> QED BY <1>6, <3>1 DEF OpenDay, FilesTyped
  <2>3. Day(line.time) \in Nat /\ truncate \in BOOLEAN
    BY <2>1, FileShapes, DayFacts DEF FilesTyped, Busy
  <2>4. CASE Open(Day(line.time), truncate) /\ pc' = "write" /\ UNCHANGED faults
    <3>1. /\ DOMAIN files' \subseteq Nat
          /\ files' \in [DOMAIN files' -> Seq(Lines)]
          /\ fd' \in DOMAIN files' /\ safe' \in 0 .. Len(files'[fd'])
      BY <2>3, <2>4, OpenFacts
    <3> QED BY <2>1, <2>2, <2>4, <3>1
            DEF FilesTyped, config, history, Rotating
  <2>5. CASE Fault /\ pc' = "idle" /\ UNCHANGED <<files, fd, safe>>
    BY <2>1, <2>2, <2>5 DEF Fault, FilesTyped, config, history, Rotating, Busy
  <2> QED BY <2>1, <2>4, <2>5 DEF OpenOrThrow
<1>7. CASE Write
  <2>1. /\ pc' = "idle" /\ fd' = fd /\ safe' = safe /\ fd \in DOMAIN files'
        /\ UNCHANGED <<config, clock, current_size, i, rotation_tp,
                       handed, flushed, restarts>>
        /\ DOMAIN files' = DOMAIN files
        /\ safe <= Len(files'[fd])
    BY <1>7, WriteFacts
  <2>2. /\ files'[fd] \in Seq(Lines) /\ Len(files'[fd]) \in Nat
        /\ \A g \in DOMAIN files : g # fd => files'[g] = files[g]
    BY <1>7, WriteFacts DEF Begins
  <2>3. files' = [f \in DOMAIN files |-> files'[f]]
    BY <1>7 DEF Write, FilesTyped
  <2>4. files' \in [DOMAIN files' -> Seq(Lines)]
    BY <2>1, <2>2, <2>3 DEF FilesTyped
  <2>5. safe \in 0 .. Len(files'[fd])
    BY <1>7, <2>1, <2>2, WriteFacts, FileShapes
  <2>6. written' \in Seq(Lines)
    <3>1. line \in Lines /\ (written' = written \/ written' = Append(written, line))
      BY <1>7, WriteFacts
    <3>2. written \in Seq(Lines)
      BY DEF FilesTyped
    <3> QED BY <3>1, <3>2, AppendProperties
  <2>7. faults' \in Nat
    <3>1. faults' = faults \/ Fault
      BY <1>7, WriteFacts
    <3> QED BY <3>1 DEF Fault, FilesTyped
  <2> QED BY <2>1, <2>4, <2>5, <2>6, <2>7 DEF FilesTyped, config, Rotating, Busy
<1>8. CASE Flush
  <2>1. /\ pc = "idle" /\ fd # Closed /\ Drain
        /\ safe' = IF faults' = faults THEN Len(files[fd]) ELSE safe
        /\ UNCHANGED <<config, clock, pc, fd, current_size, i, rotation_tp,
                       handed, written, restarts>>
    BY <1>8 DEF Flush
  <2>2. /\ DOMAIN files' = DOMAIN files
        /\ files' \in [DOMAIN files' -> Seq(Lines)]
        /\ flushed' \subseteq Lines /\ faults' \in Nat
    BY <2>1, DrainFacts
  <2>3. safe' \in 0 .. Len(files'[fd])
    <3>1. CASE faults' = faults
      <4>1. files' = files
        <5>1. \/ files' = files
              \/ Fault /\ fd # Closed /\ LoseBuffer /\ flushed' = flushed
          BY <2>1, DrainFacts
        <5>2. ~Fault
          BY <3>1 DEF Fault, FilesTyped
        <5> QED BY <5>1, <5>2
      <4> QED BY <2>1, <3>1, <4>1, FileShapes
    <3>2. CASE faults' # faults
      BY <2>1, <3>2, DrainFacts
    <3> QED BY <3>1, <3>2
  <2> QED BY <2>1, <2>2, <2>3 DEF FilesTyped, config, Rotating, Busy
<1>9. CASE End
  <2>1. /\ pc' = "down" /\ i' = 0 /\ fd' = Closed /\ restarts' = restarts + 1
        /\ UNCHANGED <<config, clock, current_size, rotation_tp, handed, written>>
        /\ Drain \/ (LoseBuffer /\ UNCHANGED <<flushed, faults>>)
    BY <1>9 DEF End, CloseFile
  <2>2. /\ DOMAIN files' = DOMAIN files
        /\ files' \in [DOMAIN files' -> Seq(Lines)]
        /\ flushed' \subseteq Lines /\ faults' \in Nat
    BY <2>1, DrainFacts, LoseFacts DEF FilesTyped
  <2>3. 0 \in 0 .. max_files /\ restarts' \in Nat
    BY <2>1, FileParameters DEF FilesTyped
  <2> QED BY <2>1, <2>2, <2>3 DEF FilesTyped, config, Rotating, Busy
<1>10. CASE Start
  <2>1. /\ pc' = "idle"
        /\ UNCHANGED <<config, clock, i, history, faults, restarts>>
        /\ rotation_tp' = NextRotation(clock, rotation_time)
        /\ current_size' \in {SizeOf(files'[fd']), current_size}
    BY <1>10 DEF Start
  <2>2. rotation_tp' \in Nat
    BY <2>1, NextRotationFacts DEF FilesTyped
  <2>3. PICK f \in Nat : Open(f, truncate)
    <3>1. Day(clock) \in Nat
      BY DayFacts DEF FilesTyped
    <3> QED BY <1>10, <3>1 DEF Start
  <2>4. /\ DOMAIN files' \subseteq Nat
        /\ files' \in [DOMAIN files' -> Seq(Lines)]
        /\ fd' \in DOMAIN files' /\ safe' \in 0 .. Len(files'[fd'])
    BY <2>3, OpenFacts DEF FilesTyped
  <2>5. current_size' \in Nat
    BY <2>1, <2>4, SizeFacts DEF FilesTyped
  <2> QED BY <2>1, <2>2, <2>4, <2>5, SMTT(30)
          DEF FilesTyped, config, history, Rotating, Busy
<1>11. CASE UNCHANGED vars
  <2>1. UNCHANGED <<config, clock, pc, files, fd, safe, current_size, i,
                    rotation_tp, history, faults, restarts>>
    BY <1>11 DEF vars
  <2> QED BY <2>1 DEF FilesTyped, config, history, Rotating, Busy, Exists
<1> QED BY <1>1, <1>2, <1>3, <1>4, <1>5, <1>6, <1>7, <1>8, <1>9, <1>10, <1>11
        DEF Next

------------------------------------------------------------------------------
(* Steps on the directory                                                  *)

(* Most steps leave every file as it is or make it empty, or remove it;    *)
(* then what is in the buffer has been flushed, or stays there.            *)
Emptied == \A f \in DOMAIN files' : \/ files'[f] = <<>>
                                    \/ f \in DOMAIN files /\ files'[f] = files[f]

Emptying ==
    /\ written' = written /\ Emptied
    /\ flushed' \subseteq flushed \cup OnDisk
    /\ restarts' \in {restarts, restarts + 1}
    /\ \/ fd' = Closed
       \/ safe' = Len(files'[fd'])
       \/ /\ UNCHANGED <<fd, safe, flushed, restarts>>
          /\ fd \in DOMAIN files' => files'[fd] = files[fd]

(* Some lose what was in the buffer, or a part of it.                      *)
Losing == /\ fd # Closed /\ LoseBuffer
          /\ written' = written /\ flushed' = flushed
          /\ \/ fd' = Closed
             \/ fd' = fd /\ safe' = safe /\ restarts' = restarts
          /\ \/ Fault /\ restarts' = restarts
             \/ restarts' = restarts + 1

(* One step of a rotation moves a file, and a write appends to one.        *)
Shifting == Rename /\ Shift

(* Opening a file empties it, creates it or leaves it.                     *)
LEMMA OpenEmpties ==
    ASSUME FilesTyped, NEW f \in Nat, NEW trunc \in BOOLEAN,
           Open(f, trunc) \/ (UNCHANGED <<files, fd, safe>> /\ fd = Closed)
    PROVE  Emptied /\ (fd' = Closed \/ safe' = Len(files'[fd']))
BY OpenFacts DEF Exists, Emptied

(* A file that is flushed or closed is left as it is, or loses its buffer. *)
LEMMA DrainSteps ==
    ASSUME FilesTyped, Drain
    PROVE  \/ /\ files' = files /\ faults' = faults
              /\ flushed' \subseteq flushed \cup OnDisk
           \/ Fault /\ fd # Closed /\ LoseBuffer /\ flushed' = flushed
<1>1. fd # Closed => Range(files[fd]) \subseteq OnDisk
  BY FileShapes DEF OnDisk
<1>2. CASE /\ flushed' = flushed \cup (IF fd = Closed THEN {}
                                       ELSE Range(files[fd]))
           /\ UNCHANGED <<files, faults>>
  BY <1>1, <1>2
<1>3. CASE Fault /\ LoseBuffer /\ files' # files /\ UNCHANGED flushed
  BY <1>3, LoseFacts
<1> QED BY <1>2, <1>3 DEF Drain

(* What a step can do to the directory.                                    *)
LEMMA DirectorySteps ==
    ASSUME FilesTyped, [Next]_vars
    PROVE  Emptying \/ Losing \/ Shifting \/ Write
<1>e. files' = files => Emptied
  BY DEF Emptied
<1>1. CASE UNCHANGED vars \/ Tick
  BY <1>1, <1>e DEF vars, Tick, Emptying, history
<1>2. ASSUME NEW size \in Sizes, NEW delay \in 0 .. MaxDelay,
             Log(size, clock - delay)
      PROVE  Emptying \/ Losing
  <2>1. written' = written /\ restarts' = restarts
    BY <1>2, LoggedState
  <2>2. CASE UNCHANGED <<files, fd, safe, flushed, faults>>
    BY <1>e, <2>1, <2>2 DEF Emptying
  <2>3. CASE Drain /\ fd' = Closed
    BY <1>e, <2>1, <2>3, DrainSteps DEF Emptying, Losing
  <2> QED BY <1>2, <2>2, <2>3, LoggedState
<1>3. CASE RotateStep
  <2>1. /\ fd = Closed /\ fd' = fd /\ written' = written /\ flushed' = flushed
        /\ restarts' = restarts
    BY <1>3 DEF RotateStep, FilesTyped, history
  <2>2. files' = files \/ files' = Without(files, i)
    BY <1>3 DEF RotateStep
  <2>3. Emptied
    BY <2>2 DEF Emptied, Without, Restrict
  <2> QED BY <2>1, <2>3 DEF Emptying
<1>4. CASE Rename
  <2>1. /\ fd = Closed /\ written' = written /\ flushed' = flushed
        /\ restarts' = restarts
    BY <1>4 DEF Rename, FilesTyped, history
  <2>2. CASE GiveUp
    <3>1. 0 \in Nat /\ TRUE \in BOOLEAN
      OBVIOUS
    <3>2. Open(0, TRUE) \/ (UNCHANGED <<files, fd, safe>> /\ fd = Closed)
      BY <2>1, <2>2 DEF GiveUp
    <3>3. Emptied /\ (fd' = Closed \/ safe' = Len(files'[fd']))
      BY <3>1, <3>2, OpenEmpties
    <3> QED BY <2>1, <3>3 DEF Emptying
  <2> QED BY <1>4, <2>2 DEF Rename, Shifting
<1>5. CASE RotateEnd
  <2>1. /\ written' = written /\ flushed' = flushed /\ restarts' = restarts
        /\ fd = Closed
    BY <1>5 DEF RotateEnd, history, FilesTyped
  <2>2. Open(0, TRUE) \/ (UNCHANGED <<files, fd, safe>> /\ fd = Closed)
    BY <1>5, <2>1 DEF RotateEnd, OpenOrThrow
  <2>3. 0 \in Nat /\ TRUE \in BOOLEAN
    OBVIOUS
  <2>4. Emptied /\ (fd' = Closed \/ safe' = Len(files'[fd']))
    BY <2>2, <2>3, OpenEmpties
  <2> QED BY <2>1, <2>4 DEF Emptying
<1>6. CASE OpenDay
  <2>1. /\ written' = written /\ flushed' = flushed /\ restarts' = restarts
        /\ fd = Closed /\ Busy
    BY <1>6 DEF OpenDay, history, FilesTyped, Busy
  <2> DEFINE d == Day(line.time)
  <2>2. d \in Nat /\ truncate \in BOOLEAN
    BY <2>1, FileShapes, DayFacts DEF FilesTyped
  <2>3. Open(d, truncate) \/ (UNCHANGED <<files, fd, safe>> /\ fd = Closed)
    BY <1>6, <2>1 DEF OpenDay, OpenOrThrow
  <2> HIDE DEF d
  <2>4. Emptied /\ (fd' = Closed \/ safe' = Len(files'[fd']))
    BY <2>2, <2>3, OpenEmpties
  <2> QED BY <2>1, <2>4 DEF Emptying
<1>7. CASE Flush
  <2>1. /\ Drain /\ fd' = fd /\ written' = written /\ restarts' = restarts
        /\ fd # Closed
        /\ safe' = IF faults' = faults THEN Len(files[fd]) ELSE safe
    BY <1>7 DEF Flush
  <2>2. CASE files' = files /\ faults' = faults /\ flushed' \subseteq flushed \cup OnDisk
    BY <1>e, <2>1, <2>2 DEF Emptying
  <2>3. CASE Fault /\ fd # Closed /\ LoseBuffer /\ flushed' = flushed
    <3>1. faults' # faults
      BY <2>3 DEF Fault, FilesTyped
    <3> QED BY <2>1, <2>3, <3>1 DEF Losing
  <2> QED BY <2>1, <2>2, <2>3, DrainSteps
<1>8. CASE End
  <2>1. /\ fd' = Closed /\ written' = written /\ restarts' = restarts + 1
        /\ Drain \/ (LoseBuffer /\ UNCHANGED <<flushed, faults>>)
    BY <1>8 DEF End, CloseFile
  <2>2. CASE files' = files /\ flushed' \subseteq flushed \cup OnDisk
    BY <1>e, <2>1, <2>2 DEF Emptying
  <2>3. CASE fd # Closed /\ LoseBuffer /\ flushed' = flushed
    BY <2>1, <2>3 DEF Losing
  <2> QED BY <2>1, <2>2, <2>3, DrainSteps, LoseFacts
<1>9. CASE Start
  <2>1. /\ written' = written /\ flushed' = flushed /\ restarts' = restarts
        /\ truncate \in BOOLEAN
    BY <1>9 DEF Start, history, FilesTyped
  <2>2. PICK f \in Nat : Open(f, truncate)
    <3>1. Day(clock) \in Nat
      BY DayFacts DEF FilesTyped
    <3> QED BY <1>9, <3>1 DEF Start
  <2>3. Emptied /\ (fd' = Closed \/ safe' = Len(files'[fd']))
    BY <2>1, <2>2, OpenEmpties
  <2> QED BY <2>1, <2>3 DEF Emptying
<1> QED BY <1>1, <1>2, <1>3, <1>4, <1>5, <1>6, <1>7, <1>8, <1>9 DEF Next

(* What is on disk, line by line.                                          *)
LEMMA OnDiskIs ==
    \A l : l \in OnDisk <=> \E f \in DOMAIN files :
                               \E a \in DOMAIN files[f] : l = files[f][a]
BY DEF OnDisk, Range

(* The same of the next state.                                             *)
LEMMA OnDiskIsNext ==
    \A l : l \in OnDisk' <=> \E f \in DOMAIN files' :
                                \E a \in DOMAIN files'[f] : l = files'[f][a]
BY DEF OnDisk, Range

(* A shift moves one file up, over the one that is there.                  *)
LEMMA ShiftFacts ==
    ASSUME FilesTyped, Shifting
    PROVE  /\ pc = "rename" /\ i > 0 /\ i - 1 \in DOMAIN files
           /\ DOMAIN files' = (DOMAIN files \ {i - 1}) \cup {i}
           /\ files'[i] = files[i - 1]
           /\ \A g \in DOMAIN files : g # i /\ g # i - 1 => files'[g] = files[g]
           /\ pc' = "rotate" /\ i' = i - 1
           /\ fd = Closed
           /\ UNCHANGED <<config, clock, fd, safe, current_size, rotation_tp,
                          history, faults, restarts>>
<1>1. /\ pc = "rename" /\ i > 0 /\ i - 1 \in DOMAIN files /\ fd = Closed
      /\ files' = WithFile(Without(files, i - 1), i, files[i - 1])
      /\ pc' = "rotate" /\ i' = i - 1
      /\ UNCHANGED <<config, clock, fd, safe, current_size, rotation_tp, history,
                     faults, restarts>>
  BY DEF Shifting, Rename, Shift, Exists, FilesTyped
<1>2. i - 1 # i
  BY FileShapes
<1> QED BY <1>1, <1>2 DEF WithFile, Without, Restrict

(* The lines that a file loses were behind the `safe` ones.                *)
LEMMA DroppedLines ==
    ASSUME FilesTyped, FilesTyped', fd # Closed,
           DOMAIN files' = DOMAIN files,
           \A g \in DOMAIN files : g # fd => files'[g] = files[g],
           safe <= Len(files'[fd]),
           \A a \in 1 .. Len(files[fd]) : a <= safe => files'[fd][a] = files[fd][a],
           NEW m \in OnDisk, m \notin OnDisk'
    PROVE  \E a \in safe + 1 .. Len(files[fd]) : m = files[fd][a]
<1>1. PICK f \in DOMAIN files : \E a \in DOMAIN files[f] : m = files[f][a]
  BY OnDiskIs
<1>2. PICK a \in DOMAIN files[f] : m = files[f][a]
  BY <1>1
<1>3. f = fd
  <2>1. f # fd => files'[f] = files[f] /\ f \in DOMAIN files'
    OBVIOUS
  <2> QED BY <1>2, <2>1, OnDiskIsNext
<1>4. /\ a \in 1 .. Len(files[fd]) /\ Len(files[fd]) \in Nat
      /\ safe \in Nat /\ safe <= Len(files[fd]) /\ fd \in DOMAIN files
  BY <1>2, <1>3, FileShapes
<1>5. a > safe
  <2>1. SUFFICES ASSUME a <= safe PROVE FALSE
    BY <1>4
  <2>2. files'[fd][a] = m /\ fd \in DOMAIN files'
    BY <1>2, <1>3, <1>4, <2>1
  <2>3. Len(files'[fd]) \in Nat /\ DOMAIN files'[fd] = 1 .. Len(files'[fd])
    BY <2>2, FileShapesNext
  <2>4. a \in DOMAIN files'[fd]
    BY <1>4, <2>1, <2>3
  <2> QED BY <2>2, <2>4, OnDiskIsNext
<1> QED BY <1>2, <1>3, <1>4, <1>5

(* A buffer that is lost takes lines of this process with it, that were    *)
(* not flushed and behind which nothing is left; of one a part may remain. *)
LEMMA LosingFacts ==
    ASSUME FilesTyped, FilesTyped', Buffer, fd # Closed, LoseBuffer
    PROVE  /\ \A l \in OnDisk' :
                 \/ l \in OnDisk
                 \/ \E m \in OnDisk \ OnDisk' : l \in Torn(m) /\ m.run = restarts
           /\ \A m \in OnDisk \ OnDisk' :
                 /\ m.run = restarts /\ m \notin flushed
                 /\ \A k \in OnDisk' : k.n <= m.n
<1>0. /\ fd \in DOMAIN files /\ files[fd] \in Seq(Lines)
      /\ Len(files[fd]) \in Nat /\ DOMAIN files[fd] = 1 .. Len(files[fd])
      /\ safe \in 0 .. Len(files[fd]) /\ safe \in Nat
      /\ \A f \in DOMAIN files : \A c \in DOMAIN files[f] :
            files[f][c] \in Lines /\ files[f][c].n \in Nat
  BY FileShapes DEF FilesTyped
<1>1. /\ DOMAIN files' = DOMAIN files
      /\ \A g \in DOMAIN files : g # fd => files'[g] = files[g]
      /\ files'[fd] \in Remains(files[fd], safe)
  BY LoseFacts
<1> DEFINE rest == files'[fd]
           M == Len(rest)
           N == Len(files[fd])
<1>2. /\ M \in Nat /\ M <= N /\ safe <= M /\ DOMAIN rest = 1 .. M
      /\ \A a \in 1 .. M : rest[a].n = files[fd][a].n
      /\ \A a \in 1 .. M : \/ rest[a] = files[fd][a]
                           \/ a = M /\ a > safe /\ rest[a] \in Torn(files[fd][a])
  BY <1>0, <1>1, RemainsFacts DEF Begins
<1>3. \A a \in 1 .. N : a <= safe => rest[a] = files[fd][a]
  BY <1>0, <1>2
<1>r. rest = files'[fd] /\ N = Len(files[fd]) /\ M = Len(files'[fd])
  OBVIOUS
<1>n. N \in Nat /\ DOMAIN files[fd] = 1 .. N
  BY <1>0
<1> HIDE DEF rest, M, N
<1>s. \A a \in 1 .. M : a \in 1 .. N
  BY <1>2, <1>n
<1>p. ASSUME NEW g \in DOMAIN files', NEW c \in DOMAIN files'[g]
      PROVE  /\ g \in DOMAIN files /\ c \in DOMAIN files[g]
             /\ files'[g][c].n = files[g][c].n /\ files[g][c].n \in Nat
             /\ g = fd => c \in 1 .. M
  <2>1. CASE g = fd
    <3>1. c \in 1 .. M /\ c \in 1 .. N
      BY <1>2, <1>r, <1>s, <2>1
    <3>2. rest[c].n = files[fd][c].n /\ c \in DOMAIN files[fd]
      BY <1>2, <1>n, <3>1
    <3> QED BY <1>0, <1>r, <2>1, <3>1, <3>2
  <2>2. CASE g # fd
    BY <1>0, <1>1, <2>2
  <2> QED BY <2>1, <2>2
<1>4. ASSUME NEW m \in OnDisk, m \notin OnDisk'
      PROVE  /\ m.run = restarts /\ m \notin flushed
             /\ \A k \in OnDisk' : k.n <= m.n
  <2>1. PICK a \in safe + 1 .. N : m = files[fd][a]
    BY <1>0, <1>1, <1>2, <1>3, <1>4, <1>r, DroppedLines
  <2>a. /\ a \in safe + 1 .. Len(files[fd]) /\ a \in 1 .. N /\ m.n \in Nat
    BY <1>0, <1>r, <2>1
  <2>2. /\ m.run = restarts
        /\ \A l \in flushed : l.n < m.n
        /\ \A g \in DOMAIN files : \A c \in DOMAIN files[g] :
              files[g][c].n >= m.n => g = fd /\ c >= a
    BY <2>1, <2>a DEF Buffer
  <2>3. m \notin flushed
    BY <2>2, <2>a
  <2>4. ASSUME NEW k \in OnDisk' PROVE k.n <= m.n
    <3>1. PICK g \in DOMAIN files' : \E c \in DOMAIN files'[g] : k = files'[g][c]
      BY OnDiskIsNext
    <3>2. PICK c \in DOMAIN files'[g] : k = files'[g][c]
      BY <3>1
    <3>3. /\ g \in DOMAIN files /\ c \in DOMAIN files[g]
          /\ k.n = files[g][c].n /\ files[g][c].n \in Nat
          /\ g = fd => c \in 1 .. M
      BY <1>p, <3>2
    <3>4. SUFFICES ASSUME ~(k.n <= m.n) PROVE FALSE
      OBVIOUS
    <3>5. files[g][c].n >= m.n
      BY <2>a, <3>3, <3>4
    <3>6. g = fd /\ c >= a
      BY <2>2, <3>3, <3>5
    <3>7. c \in safe + 1 .. N /\ c \in safe + 1 .. Len(files[fd])
      <4>1. c \in 1 .. M /\ c \in 1 .. N /\ a \in Nat /\ a >= safe + 1
        BY <1>0, <1>s, <2>1, <3>3, <3>6
      <4>2. c \in safe + 1 .. N
        BY <1>0, <1>n, <3>6, <4>1
      <4> QED BY <1>r, <4>2
    <3>8. \A h \in DOMAIN files : \A b \in DOMAIN files[h] :
             files[h][b].n >= files[fd][c].n => h = fd /\ b >= c
      BY <3>7 DEF Buffer
    <3>9. c # a
      <4>1. CASE c = a
        BY <2>1, <2>a, <3>3, <3>4, <3>6, <4>1
      <4> QED BY <4>1
    <3>10. m = rest[a] \/ a = M
      <4>1. a \in 1 .. M
        BY <1>2, <1>n, <2>a, <3>3, <3>6
      <4>2. CASE rest[a] = files[fd][a]
        BY <2>1, <4>2
      <4> QED BY <1>2, <4>1, <4>2
    <3>11. a # M
      BY <1>2, <2>1, <1>0, <3>3, <3>6, <3>9, <2>a
    <3>12. a \in DOMAIN rest
      BY <1>2, <2>a, <3>3, <3>6
    <3>13. m \in OnDisk'
      BY <1>0, <1>1, <1>r, <3>10, <3>11, <3>12, OnDiskIsNext
    <3> QED BY <1>4, <3>13
  <2> QED BY <2>2, <2>3, <2>4
<1>5. ASSUME NEW l \in OnDisk'
      PROVE  \/ l \in OnDisk
             \/ \E m \in OnDisk \ OnDisk' : l \in Torn(m) /\ m.run = restarts
  <2>1. PICK g \in DOMAIN files' : \E c \in DOMAIN files'[g] : l = files'[g][c]
    BY OnDiskIsNext
  <2>2. PICK c \in DOMAIN files'[g] : l = files'[g][c]
    BY <2>1
  <2>3. CASE g # fd
    BY <1>1, <2>2, <2>3, OnDiskIs
  <2>4. CASE g = fd /\ rest[c] = files[fd][c]
    <3>1. c \in DOMAIN files[fd]
      BY <1>0, <1>2, <1>r, <2>2, <2>4
    <3> QED BY <1>0, <1>r, <2>2, <2>4, <3>1, OnDiskIs
  <2>5. CASE g = fd /\ c = M /\ c > safe /\ rest[c] \in Torn(files[fd][c])
    <3> DEFINE m == files[fd][c]
    <3>1. c \in safe + 1 .. Len(files[fd]) /\ c \in 1 .. N
      <4>1. c \in 1 .. M /\ c \in 1 .. N
        BY <1>2, <1>r, <1>s, <2>2, <2>5
      <4>2. c \in safe + 1 .. N
        BY <1>0, <1>n, <2>5, <4>1
      <4> QED BY <1>r, <4>1, <4>2
    <3>2. m \in Lines /\ m \in OnDisk /\ m.n \in Nat
      BY <1>0, <1>r, <3>1, OnDiskIs
    <3>3. m.run = restarts
          /\ \A h \in DOMAIN files : \A b \in DOMAIN files[h] :
                files[h][b].n >= m.n => h = fd /\ b >= c
      BY <3>1 DEF Buffer
    <3>4. l \in Torn(m)
      BY <1>r, <2>2, <2>5
    <3>d. m = files[fd][c]
      OBVIOUS
    <3> HIDE DEF m
    <3>5. l # m
      BY <3>2, <3>4, TornFacts
    <3>6. m \notin OnDisk'
      <4>1. SUFFICES ASSUME m \in OnDisk' PROVE FALSE
        OBVIOUS
      <4>2. PICK h \in DOMAIN files' : \E b \in DOMAIN files'[h] : m = files'[h][b]
        BY <4>1, OnDiskIsNext
      <4>3. PICK b \in DOMAIN files'[h] : m = files'[h][b]
        BY <4>2
      <4>4. /\ h \in DOMAIN files /\ b \in DOMAIN files[h] /\ files[h][b].n = m.n
            /\ h = fd => b \in 1 .. M
        BY <1>p, <4>3
      <4>5. h = fd /\ b >= c
        BY <3>2, <3>3, <4>4
      <4>6. b = c
        BY <1>2, <2>5, <4>4, <4>5
      <4> QED BY <2>2, <2>5, <3>5, <4>3, <4>5, <4>6
    <3> QED BY <3>2, <3>3, <3>4, <3>6
  <2> QED BY <1>2, <1>r, <2>2, <2>3, <2>4, <2>5
<1> QED BY <1>4, <1>5

(* A write adds the sink's line, or a part of it, to what is there; and it *)
(* may lose what was in the buffer.                                        *)
LEMMA WriteOnDisk ==
    ASSUME FilesTyped, FilesTyped', Buffer, Write
    PROVE  /\ \A l \in OnDisk' : \/ l \in OnDisk
                                 \/ l = line
                                 \/ l \in Torn(line)
                                 \/ \E m \in OnDisk : l \in Torn(m) /\ m.run = restarts
           /\ \A m \in OnDisk \ OnDisk' : m \notin flushed /\ Fault
           /\ \/ written' = Append(written, line) /\ faults' = faults
                 /\ OnDisk' = OnDisk \cup {line}
              \/ written' = written /\ Fault
<1> DEFINE longer == Append(files[fd], line)
           N == Len(files[fd])
           rest == files'[fd]
           M == Len(rest)
<1>1. /\ fd # Closed /\ fd \in DOMAIN files /\ line \in Lines
      /\ longer \in Seq(Lines) /\ Len(longer) = N + 1
      /\ \A a \in 1 .. N : longer[a] = files[fd][a]
      /\ longer[N + 1] = line
      /\ DOMAIN files' = DOMAIN files
      /\ \A g \in DOMAIN files : g # fd => files'[g] = files[g]
      /\ \/ rest = longer /\ written' = Append(written, line) /\ faults' = faults
         \/ rest \in Remains(longer, safe) /\ written' = written /\ Fault
      /\ safe <= M
  BY WriteFacts
<1>2. /\ N \in Nat /\ DOMAIN files[fd] = 1 .. N /\ safe \in Nat /\ safe <= N
      /\ safe \in 0 .. N + 1
      /\ \A c \in DOMAIN files[fd] : files[fd][c].n \in Nat
  BY <1>1, FileShapes
<1>3. /\ M \in Nat /\ M <= N + 1 /\ DOMAIN rest = 1 .. M
      /\ \A a \in 1 .. M : \/ rest[a] = longer[a]
                           \/ a = M /\ a > safe /\ rest[a] \in Torn(longer[a])
  <2>1. M \in Nat /\ DOMAIN rest = 1 .. M
    BY <1>1, FileShapesNext
  <2> HIDE DEF longer, rest, M, N
  <2>2. CASE rest = longer
    BY <1>1, <1>2, <2>1, <2>2 DEF M
  <2>3. CASE rest \in Remains(longer, safe)
    <3>1. safe \in 0 .. Len(longer)
      BY <1>1, <1>2
    <3>2. Begins(rest, longer) /\ \A a \in 1 .. Len(rest) :
                 \/ rest[a] = longer[a]
                 \/ a = Len(rest) /\ a > safe /\ rest[a] \in Torn(longer[a])
      BY <1>1, <2>3, <3>1, RemainsFacts
    <3> QED BY <1>1, <2>1, <3>2 DEF M, Begins
  <2> QED BY <1>1, <2>2, <2>3
<1>r. rest = files'[fd] /\ N = Len(files[fd]) /\ M = Len(files'[fd])
  OBVIOUS
<1> HIDE DEF longer, rest, M, N
<1>4. ASSUME NEW l \in OnDisk'
      PROVE  \/ l \in OnDisk
             \/ l = line
             \/ l \in Torn(line)
             \/ \E m \in OnDisk : l \in Torn(m) /\ m.run = restarts
  <2>1. PICK g \in DOMAIN files' : \E c \in DOMAIN files'[g] : l = files'[g][c]
    BY OnDiskIsNext
  <2>2. PICK c \in DOMAIN files'[g] : l = files'[g][c]
    BY <2>1
  <2>3. CASE g # fd
    BY <1>1, <2>2, <2>3, OnDiskIs
  <2>4. CASE g = fd
    <3>1. c \in 1 .. M /\ l = rest[c]
      BY <1>3, <1>r, <2>2, <2>4
    <3>2. CASE c = N + 1
      BY <1>1, <1>3, <3>1, <3>2
    <3>3. CASE c # N + 1
      <4>1. c \in 1 .. N /\ c \in DOMAIN files[fd] /\ longer[c] = files[fd][c]
        BY <1>1, <1>2, <1>3, <3>1, <3>3
      <4>2. files[fd][c] \in OnDisk
        BY <1>1, <4>1, OnDiskIs
      <4>3. CASE l = longer[c]
        BY <4>1, <4>2, <4>3
      <4>4. CASE c > safe /\ l \in Torn(longer[c])
        <5>1. c \in safe + 1 .. Len(files[fd])
          BY <1>2, <1>r, <4>1, <4>4
        <5>2. files[fd][c].run = restarts
          BY <1>1, <5>1 DEF Buffer
        <5> QED BY <4>1, <4>2, <4>4, <5>2
      <4> QED BY <1>3, <3>1, <4>3, <4>4
    <3> QED BY <3>2, <3>3
  <2> QED BY <2>3, <2>4
<1>5. \A a \in 1 .. N : a <= safe => rest[a] = files[fd][a]
  BY <1>1, <1>2, <1>3
<1>6. ASSUME NEW m \in OnDisk, m \notin OnDisk' PROVE m \notin flushed /\ Fault
  <2>1. PICK a \in safe + 1 .. N : m = files[fd][a]
    BY <1>1, <1>3, <1>5, <1>6, <1>r, DroppedLines
  <2>2. a \in safe + 1 .. Len(files[fd]) /\ a \in 1 .. N /\ m.n \in Nat
    BY <1>2, <1>r, <2>1
  <2>3. \A l \in flushed : l.n < m.n
    BY <1>1, <2>1, <2>2 DEF Buffer
  <2>4. m \notin flushed
    BY <2>2, <2>3
  <2>5. rest # longer
    <3>1. SUFFICES ASSUME rest = longer PROVE FALSE
      OBVIOUS
    <3>2. a \in DOMAIN files'[fd] /\ files'[fd][a] = m /\ fd \in DOMAIN files'
      BY <1>1, <1>2, <1>3, <1>r, <2>1, <2>2, <3>1
    <3> QED BY <1>6, <3>2, OnDiskIsNext
  <2> QED BY <1>1, <2>4, <2>5
<1>7. CASE rest = longer
  <2>1. line \in OnDisk'
    <3>1. N + 1 \in 1 .. M /\ rest[N + 1] = line
      BY <1>1, <1>2, <1>3, <1>7, <1>r
    <3> QED BY <1>1, <1>3, <1>r, <3>1, OnDiskIsNext
  <2>2. OnDisk \subseteq OnDisk'
    <3>1. SUFFICES ASSUME NEW m \in OnDisk, m \notin OnDisk' PROVE FALSE
      OBVIOUS
    <3>2. PICK a \in safe + 1 .. N : m = files[fd][a]
      BY <1>1, <1>3, <1>5, <3>1, <1>r, DroppedLines
    <3>3. a \in DOMAIN files'[fd] /\ files'[fd][a] = m /\ fd \in DOMAIN files'
      BY <1>1, <1>2, <1>3, <1>7, <1>r, <3>2
    <3> QED BY <3>1, <3>3, OnDiskIsNext
  <2>3. ASSUME NEW l \in OnDisk' PROVE l \in OnDisk \cup {line}
    <3>1. PICK g \in DOMAIN files' : \E c \in DOMAIN files'[g] : l = files'[g][c]
      BY <2>3, OnDiskIsNext
    <3>2. PICK c \in DOMAIN files'[g] : l = files'[g][c]
      BY <3>1
    <3>3. CASE g # fd
      BY <1>1, <3>2, <3>3, OnDiskIs
    <3>4. CASE g = fd
      <4>1. c \in 1 .. N + 1 /\ l = longer[c]
        BY <1>1, <1>3, <1>7, <1>r, <3>2, <3>4
      <4>2. CASE c = N + 1
        BY <1>1, <4>1, <4>2
      <4>3. CASE c # N + 1
        <5>1. c \in DOMAIN files[fd] /\ l = files[fd][c]
          BY <1>1, <1>2, <4>1, <4>3
        <5> QED BY <1>1, <5>1, OnDiskIs
      <4> QED BY <4>2, <4>3
    <3> QED BY <3>3, <3>4
  <2>4. OnDisk' = OnDisk \cup {line}
    BY <2>1, <2>2, <2>3
  <2> QED BY <1>4, <1>6, <1>1, <2>4
<1>8. CASE written' = written /\ Fault
  BY <1>4, <1>6, <1>8
<1> QED BY <1>1, <1>7, <1>8

(* Only a write brings a line to the disk, the sink's; what is left of a   *)
(* torn line was in the buffer of this process.                            *)
LEMMA OnDiskNext ==
    ASSUME FilesTyped, FilesTyped', Buffer, [Next]_vars
    PROVE  /\ OnDisk \subseteq Lines
           /\ Emptying \/ Shifting => OnDisk' \subseteq OnDisk
           /\ \A l \in OnDisk' :
                 \/ l \in OnDisk
                 \/ \E m \in OnDisk : l \in Torn(m) /\ m.run = restarts
                 \/ Write /\ (l = line \/ l \in Torn(line))
           /\ flushed' \subseteq flushed \cup OnDisk
           /\ restarts' \in {restarts, restarts + 1}
<1>0. OnDisk \subseteq Lines
  BY OnDiskIs, FileShapes
<1>1. ASSUME Emptying PROVE OnDisk' \subseteq OnDisk
  BY <1>1, OnDiskIs, OnDiskIsNext DEF Emptying, Emptied
<1>2. ASSUME Shifting PROVE OnDisk' \subseteq OnDisk
  BY <1>2, ShiftFacts, OnDiskIs, OnDiskIsNext
<1>3. CASE Emptying
  BY <1>0, <1>1, <1>2, <1>3 DEF Emptying
<1>4. CASE Shifting
  BY <1>0, <1>1, <1>2, <1>4, ShiftFacts DEF history
<1>5. CASE Losing
  <2>1. /\ fd # Closed /\ LoseBuffer /\ flushed' = flushed
        /\ restarts' \in {restarts, restarts + 1}
    BY <1>5 DEF Losing
  <2>2. \A l \in OnDisk' :
           l \in OnDisk \/ \E m \in OnDisk : l \in Torn(m) /\ m.run = restarts
    BY <2>1, LosingFacts
  <2> QED BY <1>0, <1>1, <1>2, <2>1, <2>2
<1>6. CASE Write
  <2>1. flushed' = flushed /\ restarts' = restarts
    BY <1>6 DEF Write
  <2>2. \A l \in OnDisk' : \/ l \in OnDisk
                           \/ l = line
                           \/ l \in Torn(line)
                           \/ \E m \in OnDisk : l \in Torn(m) /\ m.run = restarts
    BY <1>6, WriteOnDisk
  <2> QED BY <1>0, <1>1, <1>2, <1>6, <2>1, <2>2
<1> QED BY <1>3, <1>4, <1>5, <1>6, DirectorySteps

(* A line that is lost stays so.                                           *)
LEMMA LostStays ==
    ASSUME FilesTyped, FilesTyped', Numbered, Buffer, [Next]_vars,
           NEW m \in Lines, Lost(m)
    PROVE  Lost(m)'
<1>1. /\ m \notin OnDisk /\ m \notin flushed /\ m.run < restarts
      /\ \A k \in OnDisk : k.run = m.run => k.n <= m.n
      /\ m.run \in Nat /\ restarts \in Nat
  BY FileShapes DEF Lost, FilesTyped
<1>2. ASSUME NEW k \in OnDisk', k.run = m.run
      PROVE  k \in OnDisk
  <2>1. CASE \E j \in OnDisk : k \in Torn(j) /\ j.run = restarts
    <3>1. PICK j \in OnDisk : k \in Torn(j) /\ j.run = restarts
      BY <2>1
    <3>2. j \in Lines
      BY OnDiskNext
    <3>3. k.run = restarts
      BY <3>1, <3>2, TornFacts
    <3> QED BY <1>1, <1>2, <3>3
  <2>2. CASE Write /\ (k = line \/ k \in Torn(line))
    <3>1. Busy
      BY <2>2 DEF Write, Busy
    <3>2. line \in Lines /\ line.run = restarts
      BY <3>1, FileShapes DEF Numbered
    <3>3. k.run = restarts
      BY <2>2, <3>2, TornFacts
    <3> QED BY <1>1, <1>2, <3>3
  <2> QED BY <2>1, <2>2, OnDiskNext
<1>3. m \notin OnDisk'
  BY <1>1, <1>2
<1>4. m \notin flushed'
  BY <1>1, OnDiskNext
<1>5. m.run < restarts'
  BY <1>1, OnDiskNext
<1> QED BY <1>1, <1>2, <1>3, <1>4, <1>5 DEF Lost

(* What a step can do to the files, line by line: a file becomes empty, or *)
(* the first lines of it remain, with those of its buffer; or a line is    *)
(* written behind them.                                                    *)
Shrinking == \A f \in DOMAIN files' :
                \/ files'[f] = <<>>
                \/ f \in DOMAIN files /\ Begins(files'[f], files[f])

LEMMA ShrinkingSteps ==
    ASSUME FilesTyped, [Next]_vars
    PROVE  /\ Emptying \/ Losing => Shrinking
           /\ Shrinking \/ Shifting \/ Write
<1>1. ASSUME Emptying PROVE Shrinking
  BY <1>1, BeginsItself, FileShapes DEF Emptying, Emptied, Shrinking
<1>2. ASSUME Losing PROVE Shrinking
  <2>1. /\ fd # Closed /\ DOMAIN files' = DOMAIN files
        /\ \A g \in DOMAIN files : g # fd => files'[g] = files[g]
        /\ files'[fd] \in Remains(files[fd], safe)
    BY <1>2, LoseFacts DEF Losing
  <2>2. files[fd] \in Seq(Lines) /\ safe \in 0 .. Len(files[fd])
    BY <2>1 DEF FilesTyped
  <2>3. Begins(files'[fd], files[fd])
    BY <2>1, <2>2, RemainsFacts
  <2>4. \A g \in DOMAIN files : Begins(files[g], files[g])
    BY BeginsItself, FileShapes
  <2> QED BY <2>1, <2>3, <2>4 DEF Shrinking
<1> QED BY <1>1, <1>2, DirectorySteps

(* The buffer keeps to the end.                                            *)
LEMMA BufferNext ==
    ASSUME FilesTyped, FilesTyped', Numbered, Buffer, [Next]_vars
    PROVE  Buffer'
<1>0. /\ fd # Closed => /\ fd \in DOMAIN files /\ Len(files[fd]) \in Nat
                        /\ DOMAIN files[fd] = 1 .. Len(files[fd])
                        /\ safe \in Nat /\ safe <= Len(files[fd])
      /\ fd' # Closed => /\ fd' \in DOMAIN files' /\ Len(files'[fd']) \in Nat
                         /\ DOMAIN files'[fd'] = 1 .. Len(files'[fd'])
  <2>1. fd' # Closed => fd' \in DOMAIN files'
    BY DEF FilesTyped
  <2> QED BY <2>1, FileShapes, FileShapesNext
<1>1. CASE fd' = Closed
  BY <1>1 DEF Buffer
<1>2. CASE fd' # Closed /\ safe' = Len(files'[fd'])
  BY <1>0, <1>2 DEF Buffer
(* Nothing happens to the open file, and other files may be emptied; or    *)
(* the first lines remain.                                                 *)
<1>3. CASE /\ Shrinking /\ fd' # Closed
           /\ UNCHANGED <<fd, safe, flushed, restarts>>
  <2>1. ASSUME NEW g \in DOMAIN files', NEW c \in DOMAIN files'[g]
        PROVE  /\ g \in DOMAIN files /\ c \in DOMAIN files[g]
               /\ files'[g][c].n = files[g][c].n
               /\ files'[g][c].run = files[g][c].run
    <3>1. files'[g] # <<>>
      OBVIOUS
    <3>2. g \in DOMAIN files /\ Begins(files'[g], files[g])
      BY <1>3, <3>1 DEF Shrinking
    <3>3. /\ Len(files'[g]) \in Nat /\ Len(files'[g]) <= Len(files[g])
          /\ Len(files[g]) \in Nat /\ DOMAIN files[g] = 1 .. Len(files[g])
          /\ c \in 1 .. Len(files'[g])
      BY <3>2, FileShapes DEF Begins
    <3>4. c \in DOMAIN files[g]
      BY <3>3
    <3> QED BY <3>2, <3>3, <3>4 DEF Begins
  <2>2. ASSUME NEW a \in safe + 1 .. Len(files'[fd])
        PROVE  /\ files'[fd][a].run = restarts
               /\ \A l \in flushed : l.n < files'[fd][a].n
               /\ \A g \in DOMAIN files' : \A c \in DOMAIN files'[g] :
                     files'[g][c].n >= files'[fd][a].n => g = fd /\ c >= a
    <3>1. a \in DOMAIN files'[fd] /\ fd \in DOMAIN files' /\ fd # Closed
      BY <1>0, <1>3
    <3>2. /\ a \in DOMAIN files[fd] /\ files'[fd][a].n = files[fd][a].n
          /\ files'[fd][a].run = files[fd][a].run
      BY <2>1, <3>1
    <3>3. a \in safe + 1 .. Len(files[fd])
      BY <1>0, <3>1, <3>2
    <3>4. /\ files[fd][a].run = restarts
          /\ \A l \in flushed : l.n < files[fd][a].n
          /\ \A g \in DOMAIN files : \A c \in DOMAIN files[g] :
                files[g][c].n >= files[fd][a].n => g = fd /\ c >= a
      BY <3>1, <3>3 DEF Buffer
    <3> QED BY <2>1, <3>2, <3>4
  <2> QED BY <1>3, <2>2 DEF Buffer
<1>4. CASE Write
  <2> DEFINE longer == Append(files[fd], line)
             N == Len(files[fd])
  <2>1. /\ fd # Closed /\ Busy /\ line \in Lines /\ fd \in DOMAIN files
        /\ UNCHANGED <<fd, safe, flushed, restarts, handed>>
        /\ Len(longer) = N + 1 /\ DOMAIN files' = DOMAIN files
        /\ \A b \in 1 .. N : longer[b] = files[fd][b]
        /\ longer[N + 1] = line
        /\ \A g \in DOMAIN files : g # fd => files'[g] = files[g]
        /\ Begins(files'[fd], longer)
    BY <1>4, WriteFacts DEF Busy
  <2> HIDE DEF longer
  <2>2. /\ N \in Nat /\ safe \in Nat /\ safe <= N
        /\ DOMAIN files[fd] = 1 .. N
        /\ line.n \in Nat /\ line.n = Len(handed) /\ line.run = restarts
        /\ \A l \in OnDisk \cup flushed : l.n \in Nat /\ l.n < line.n
    <3>1. N \in Nat /\ safe \in Nat /\ safe <= N /\ DOMAIN files[fd] = 1 .. N
      BY <1>0, <2>1
    <3>2. line.n \in Nat /\ line.n = Len(handed) /\ line.run = restarts
      BY <2>1, FileShapes DEF Numbered
    <3>3. \A l \in OnDisk \cup flushed : l.n < Len(handed)
      BY <2>1 DEF Numbered
    <3>4. \A l \in OnDisk \cup flushed : l \in Lines
      BY OnDiskNext DEF FilesTyped
    <3>5. \A l \in OnDisk \cup flushed : l.n \in Nat
      BY <3>4, FileShapes
    <3> QED BY <3>1, <3>2, <3>3, <3>5
  <2>3. ASSUME NEW g \in DOMAIN files', NEW c \in DOMAIN files'[g]
        PROVE  /\ g \in DOMAIN files
               /\ \/ /\ c \in DOMAIN files[g]
                     /\ files'[g][c].n = files[g][c].n
                     /\ files'[g][c].run = files[g][c].run
                     /\ files[g][c].n \in Nat /\ files[g][c].n < line.n
                  \/ /\ g = fd /\ c = N + 1
                     /\ files'[g][c].n = line.n
                     /\ files'[g][c].run = line.run
    <3>0. ASSUME NEW b \in DOMAIN files[g], g \in DOMAIN files
          PROVE  files[g][b].n \in Nat /\ files[g][b].n < line.n
      BY <2>2, <3>0, OnDiskIs
    <3>1. CASE g # fd
      BY <2>1, <3>0, <3>1
    <3>2. CASE g = fd
      <4>1. /\ c \in 1 .. Len(files'[fd]) /\ Len(files'[fd]) <= N + 1
            /\ Len(files'[fd]) \in Nat
            /\ files'[g][c].n = longer[c].n /\ files'[g][c].run = longer[c].run
        BY <2>1, <3>2 DEF Begins
      <4>2. CASE c = N + 1
        BY <2>1, <3>2, <4>1, <4>2
      <4>3. CASE c # N + 1
        <5>1. c \in 1 .. N
          BY <2>2, <4>1, <4>3
        <5> QED BY <2>1, <2>2, <3>0, <3>2, <4>1, <5>1
      <4> QED BY <4>2, <4>3
    <3> QED BY <3>1, <3>2
  <2>n. N = Len(files[fd])
    OBVIOUS
  <2> HIDE DEF N
  <2>4. ASSUME NEW a \in safe + 1 .. Len(files'[fd])
        PROVE  /\ files'[fd][a].run = restarts
               /\ \A l \in flushed : l.n < files'[fd][a].n
               /\ \A g \in DOMAIN files' : \A c \in DOMAIN files'[g] :
                     files'[g][c].n >= files'[fd][a].n => g = fd /\ c >= a
    <3>1. a \in DOMAIN files'[fd] /\ fd \in DOMAIN files'
      BY <1>0, <2>1, <2>2
    <3>2. CASE a = N + 1
      <4>1. files'[fd][a].n = line.n /\ files'[fd][a].run = line.run
        BY <2>2, <2>3, <3>1, <3>2
      <4>2. ASSUME NEW g \in DOMAIN files', NEW c \in DOMAIN files'[g],
                   files'[g][c].n >= line.n
            PROVE  g = fd /\ c >= a
        BY <2>2, <2>3, <3>2, <4>2
      <4> QED BY <2>2, <4>1, <4>2
    <3>3. CASE a # N + 1
      <4>1. /\ a \in DOMAIN files[fd] /\ a \in safe + 1 .. Len(files[fd])
            /\ files'[fd][a].n = files[fd][a].n
            /\ files'[fd][a].run = files[fd][a].run
            /\ files[fd][a].n < line.n /\ files[fd][a].n \in Nat /\ a <= N
        BY <2>2, <2>3, <2>n, <3>1, <3>3
      <4>2. /\ files[fd][a].run = restarts
            /\ \A l \in flushed : l.n < files[fd][a].n
            /\ \A g \in DOMAIN files : \A c \in DOMAIN files[g] :
                  files[g][c].n >= files[fd][a].n => g = fd /\ c >= a
        BY <2>1, <4>1 DEF Buffer
      <4>3. ASSUME NEW g \in DOMAIN files', NEW c \in DOMAIN files'[g],
                   files'[g][c].n >= files[fd][a].n
            PROVE  g = fd /\ c >= a
        <5>1. CASE c \in DOMAIN files[g] /\ files'[g][c].n = files[g][c].n
          BY <2>3, <4>2, <4>3, <5>1
        <5>2. CASE g = fd /\ c = N + 1
          BY <2>2, <4>1, <5>2
        <5> QED BY <2>3, <5>1, <5>2
      <4> QED BY <4>1, <4>2, <4>3
    <3> QED BY <3>2, <3>3
  <2> QED BY <2>1, <2>4 DEF Buffer
<1>5. CASE Emptying
  BY <1>1, <1>2, <1>3, <1>5, ShrinkingSteps DEF Emptying
<1>6. CASE Losing
  BY <1>1, <1>3, <1>6, ShrinkingSteps DEF Losing
<1>7. CASE Shifting
  BY <1>1, <1>7, ShiftFacts
<1> QED BY <1>4, <1>5, <1>6, <1>7, DirectorySteps

(* A line is handed over at a time, and numbered, and is this process's;   *)
(* the sink is given a new one when it is idle.                            *)
LEMMA HandedNext ==
    ASSUME FilesTyped, Numbered, [Next]_vars
    PROVE  /\ Len(handed') \in Nat /\ Len(handed') >= Len(handed)
           /\ \A k \in DOMAIN handed' : handed'[k].n = k
           /\ ~Busy /\ Busy' => Len(handed') = Len(handed) + 1
           /\ Busy' => line'.run = restarts'
<1>0. /\ Len(handed) \in Nat /\ DOMAIN handed = 1 .. Len(handed)
      /\ \A k \in DOMAIN handed : handed[k].n = k
      /\ Busy => line.run = restarts
  BY FileShapes DEF Numbered
<1>1. CASE Tick
  <2>1. /\ Len(handed') = Len(handed) /\ DOMAIN handed' = DOMAIN handed
        /\ \A k \in DOMAIN handed : handed'[k].n = handed[k].n
        /\ Busy' = Busy /\ restarts' = restarts
        /\ Busy => line'.run = line.run
    BY <1>1, TickHanded DEF Tick
  <2>2. \A k \in DOMAIN handed' : handed'[k].n = k
    BY <1>0, <2>1
  <2>3. Len(handed') \in Nat /\ Len(handed') >= Len(handed)
    BY <1>0, <2>1
  <2> QED BY <1>0, <2>1, <2>2, <2>3
<1>2. ASSUME NEW size \in Sizes, NEW delay \in 0 .. MaxDelay,
             Log(size, clock - delay)
      PROVE  /\ Len(handed') = Len(handed) + 1
             /\ Len(handed') \in Nat /\ Len(handed') >= Len(handed)
             /\ \A k \in DOMAIN handed' : handed'[k].n = k
             /\ line'.run = restarts'
  <2>1. /\ Len(handed') = Len(handed) + 1
        /\ DOMAIN handed' = 1 .. Len(handed) + 1
        /\ \A k \in 1 .. Len(handed) : handed'[k] = handed[k]
        /\ line' = handed'[Len(handed) + 1]
        /\ line'.n = Len(handed) + 1 /\ line'.run = restarts
    BY <1>2, LoggedLine
  <2>2. restarts' = restarts
    BY <1>2, LoggedState
  <2> QED BY <1>0, <2>1, <2>2
<1>3. CASE \/ RotateStep \/ Rename \/ RotateEnd \/ OpenDay \/ Write
           \/ UNCHANGED vars
  <2>1. handed' = handed /\ restarts' = restarts
    BY <1>3 DEF RotateStep, Rename, RotateEnd, OpenDay, Write, vars, history
  <2>2. Busy' => Busy
    <3>1. CASE UNCHANGED vars
      BY <3>1 DEF vars, Busy
    <3> QED BY <1>3, <3>1 DEF RotateStep, Rename, RotateEnd, OpenDay, Write, Busy
  <2>3. line' = line
    BY <2>1 DEF line
  <2>4. Len(handed') \in Nat /\ Len(handed') >= Len(handed)
    BY <1>0, <2>1
  <2>5. \A k \in DOMAIN handed' : handed'[k].n = k
    BY <1>0, <2>1
  <2> QED BY <1>0, <2>1, <2>2, <2>3, <2>4, <2>5
<1>4. CASE Flush \/ End \/ Start
  <2>1. handed' = handed /\ ~Busy'
    BY <1>4 DEF Flush, End, Start, Busy, history
  <2>4. Len(handed') \in Nat /\ Len(handed') >= Len(handed)
    BY <1>0, <2>1
  <2>5. \A k \in DOMAIN handed' : handed'[k].n = k
    BY <1>0, <2>1
  <2> QED BY <2>1, <2>4, <2>5
<1> QED BY <1>1, <1>2, <1>3, <1>4 DEF Next

(* Every step keeps the numbers.                                           *)
LEMMA NumberedNext ==
    ASSUME FilesTyped, FilesTyped', Numbered, Buffer, [Next]_vars
    PROVE  Numbered'
<1> DEFINE Old == Range(written) \cup OnDisk \cup flushed
<1>0. /\ Len(handed) \in Nat /\ Len(handed') \in Nat
      /\ Len(handed') >= Len(handed)
      /\ ~Busy /\ Busy' => Len(handed') = Len(handed) + 1
      /\ \A l \in Old : l \in Lines /\ l.n \in Nat
  <2>1. Range(written) \subseteq Lines
    BY FileShapes DEF Range
  <2> QED BY <2>1, HandedNext, OnDiskNext, FileShapes DEF FilesTyped
<1>1. \A l \in Old : l.n <= Len(handed) /\ (Busy => l.n < Len(handed))
  BY DEF Numbered
<1>2. \A l \in Old : l.n <= Len(handed') /\ (Busy' => l.n < Len(handed'))
  BY <1>0, <1>1
<1>h. Range(written) \subseteq Old /\ OnDisk \subseteq Old /\ flushed \subseteq Old
  OBVIOUS
<1> HIDE DEF Old
<1>3. CASE ~Write
  <2>1. written' = written
    BY <1>3, DirectorySteps, ShiftFacts DEF Emptying, Losing, history
  <2>2. ASSUME NEW l \in OnDisk'
        PROVE  l.n <= Len(handed') /\ (Busy' => l.n < Len(handed'))
    <3>1. CASE \E m \in OnDisk : l \in Torn(m)
      BY <1>0, <1>2, <1>h, <3>1, TornFacts
    <3> QED BY <1>2, <1>3, <1>h, <3>1, OnDiskNext
  <2>3. \A l \in flushed' : l.n <= Len(handed') /\ (Busy' => l.n < Len(handed'))
    BY <1>2, <1>h, OnDiskNext
  <2> QED BY <1>2, <1>h, <2>1, <2>2, <2>3, HandedNext DEF Numbered
<1>4. CASE Write
  <2>1. handed' = handed /\ ~Busy' /\ Busy /\ flushed' = flushed
    BY <1>4 DEF Write, Busy
  <2>2. line \in Lines /\ line.n = Len(handed)
    BY <2>1, FileShapes DEF Numbered
  <2>3. ASSUME NEW l \in OnDisk' PROVE l.n <= Len(handed')
    <3>1. CASE \E m \in OnDisk : l \in Torn(m)
      BY <1>0, <1>2, <1>h, <3>1, TornFacts
    <3>2. CASE l = line \/ l \in Torn(line)
      BY <1>0, <2>1, <2>2, <3>2, TornFacts
    <3> QED BY <1>2, <1>h, <3>1, <3>2, OnDiskNext
  <2>4. Range(written') \subseteq Range(written) \cup {line}
    <3>1. written' = written \/ written' = Append(written, line)
      BY <1>4, WriteOnDisk
    <3>2. written \in Seq(Lines)
      BY DEF FilesTyped
    <3>3. Range(Append(written, line)) \subseteq Range(written) \cup {line}
      BY <2>2, <3>2 DEF Range
    <3> QED BY <3>1, <3>3
  <2>5. line.n <= Len(handed')
    BY <1>0, <2>1, <2>2
  <2>6. \A l \in Range(written') : l.n <= Len(handed')
    BY <1>2, <1>h, <2>4, <2>5
  <2> QED BY <1>2, <1>h, <2>1, <2>3, <2>6, HandedNext DEF Numbered
<1> QED BY <1>3, <1>4

------------------------------------------------------------------------------
(* The rotating sink                                                       *)

(* The sink stays what it is; the rotating one asks for no time.           *)
LEMMA RotatingSteps ==
    ASSUME FilesTyped, [Next]_vars
    PROVE  /\ kind' = kind
           /\ kind = "rotating" =>
                 \/ \E size \in Sizes, delay \in 0 .. MaxDelay :
                       Log(size, clock - delay)
                 \/ RotateStep \/ Rename \/ RotateEnd \/ Write \/ Flush
                 \/ End \/ Start \/ UNCHANGED vars
<1>1. kind' = kind
  BY DEF Next, vars, config, Tick, Log, RotateStep, Rename, RotateEnd, OpenDay,
         Write, Flush, End, Start
<1>2. kind = "rotating" => ~Tick /\ ~OpenDay
  BY DEF Tick, OpenDay, FilesTyped
<1> QED BY <1>1, <1>2 DEF Next

(* In a rotation the index being shifted to is free, but for the last one, *)
(* and a sink left closed rotates again.                                   *)
LEMMA RotationControlNext ==
    ASSUME FilesTyped, FilesTyped', kind = "rotating", RotationControl,
           [Next]_vars
    PROVE  RotationControl'
<1>0. /\ 0 \in 0 .. max_files /\ i \in 0 .. max_files /\ i \in Nat
      /\ current_size \in Nat /\ max_size \in Nat /\ max_files \in Nat
  BY FileShapes, FileParameters DEF FilesTyped
<1>1. ASSUME NEW size \in Sizes, NEW delay \in 0 .. MaxDelay,
             Log(size, clock - delay)
      PROVE  RotationControl'
  <2>1. size \in Nat
    BY FileParameters
  <2>2. /\ pc = "idle" /\ current_size' = current_size + size
        /\ pc' = IF current_size' > max_size THEN "rotate" ELSE "write"
        /\ \/ /\ pc' = "write" /\ i' = i
              /\ UNCHANGED <<files, fd, safe, flushed, faults>>
           \/ /\ pc' = "rotate" /\ i' = max_files
              /\ Drain /\ fd' = Closed
    BY <1>1, LoggedState
  <2>3. CASE pc' = "rotate"
    <3>1. DOMAIN files' = DOMAIN files
      BY <2>2, <2>3, DrainFacts
    <3>2. current_size' > max_size /\ i' = max_files /\ fd' = Closed
      BY <2>2, <2>3
    <3> QED BY <1>0, <2>3, <3>1, <3>2 DEF RotationControl, Rotating
  <2>4. CASE pc' = "write"
    <3>1. ~(current_size' > max_size) /\ ~(current_size > max_size)
      BY <1>0, <2>1, <2>2, <2>4
    <3>2. fd = 0
      BY <2>2, <3>1 DEF RotationControl
    <3> QED BY <2>2, <2>4, <3>2 DEF RotationControl, Rotating, Closed
  <2> QED BY <2>2, <2>3, <2>4
<1>2. CASE RotateStep
  <2>1. /\ pc = "rotate" /\ i > 0 /\ current_size' = current_size
        /\ fd = Closed /\ fd' = fd /\ current_size > max_size
        /\ i < max_files => ~Exists(i)
    BY <1>2 DEF RotateStep, RotationControl, FilesTyped, Rotating
  <2>2. CASE ~Exists(i - 1) /\ i' = i - 1 /\ UNCHANGED <<pc, files, faults>>
    BY <1>0, <2>1, <2>2 DEF RotationControl, Rotating, Exists
  <2>3. CASE /\ pc' = "rename" /\ i' = i
             /\ files' = Without(files, i) \/ UNCHANGED files
    <3>1. DOMAIN files' \subseteq DOMAIN files
      BY <2>3 DEF Without, Restrict
    <3> QED BY <2>1, <2>3, <3>1 DEF RotationControl, Rotating, Exists
  <2> QED BY <1>2, <2>2, <2>3 DEF RotateStep
<1>3. CASE Rename
  <2>1. /\ pc = "rename" /\ i > 0 /\ current_size' = current_size
        /\ fd = Closed /\ current_size > max_size
    BY <1>3 DEF Rename, RotationControl, FilesTyped, Rotating
  <2>2. CASE Shift
    <3>1. Shifting
      BY <1>3, <2>2 DEF Shifting
    <3>2. i - 1 # i /\ i - 1 \notin DOMAIN files'
      BY <1>0, <3>1, ShiftFacts
    <3>3. DOMAIN files' \subseteq 0 .. max_files
      BY <1>0, <3>1, ShiftFacts DEF RotationControl
    <3> QED BY <2>1, <3>1, <3>2, <3>3, ShiftFacts
            DEF RotationControl, Exists, Rotating
  <2>3. CASE GiveUp
    <3>1. pc' = "idle"
      BY <2>3 DEF GiveUp
    <3>2. DOMAIN files' \subseteq DOMAIN files \cup {0} /\ (fd' = 0 \/ fd' = Closed)
      <4>1. CASE Open(0, TRUE)
        BY <4>1, OpenFacts
      <4>2. CASE UNCHANGED <<files, fd, safe>>
        BY <2>1, <4>2
      <4> QED BY <2>3, <4>1, <4>2 DEF GiveUp
    <3> QED BY <1>0, <2>1, <3>1, <3>2 DEF RotationControl, Rotating
  <2> QED BY <1>3, <2>2, <2>3 DEF Rename
<1>4. CASE RotateEnd
  <2>1. /\ pc = "rotate" /\ i = 0 /\ i' = i
        /\ fd = Closed /\ current_size > max_size
        /\ pc' # "write" => current_size' = current_size
    BY <1>4 DEF RotateEnd, RotationControl, FilesTyped
  <2>2. CASE Open(0, TRUE) /\ pc' = "write"
    <3>1. fd' = 0 /\ DOMAIN files' = DOMAIN files \cup {0}
      BY <2>2, OpenFacts
    <3> QED BY <1>0, <2>2, <3>1 DEF RotationControl, Rotating, Closed
  <2>3. CASE fd' = Closed /\ pc' = "idle" /\ UNCHANGED files
    BY <2>1, <2>3 DEF RotationControl, Rotating
  <2> QED BY <1>4, <2>1, <2>2, <2>3 DEF RotateEnd, OpenOrThrow
<1>5. CASE Write \/ Flush
  <2>1. /\ pc' = "idle" /\ fd # Closed /\ fd' = fd
        /\ DOMAIN files' = DOMAIN files
    BY <1>5, WriteFacts, DrainFacts DEF Flush
  <2> QED BY <2>1 DEF RotationControl, Rotating
<1>6. CASE End
  <2>1. pc' = "down" /\ fd' = Closed /\ (Drain \/ LoseBuffer)
    BY <1>6 DEF End, CloseFile
  <2>2. DOMAIN files' = DOMAIN files
    BY <2>1, DrainFacts, LoseFacts
  <2> QED BY <2>1, <2>2 DEF RotationControl, Rotating
<1>7. CASE Start
  <2>1. Open(0, truncate) /\ pc' = "idle" /\ truncate \in BOOLEAN
    BY <1>7 DEF Start, FilesTyped
  <2>2. fd' = 0 /\ DOMAIN files' = DOMAIN files \cup {0}
    BY <2>1, OpenFacts
  <2> QED BY <1>0, <2>1, <2>2 DEF RotationControl, Rotating, Closed
<1>8. CASE UNCHANGED vars
  <2>1. UNCHANGED <<pc, files, fd, i, current_size>>
    BY <1>8 DEF vars
  <2> QED BY <2>1 DEF RotationControl, Rotating, Exists
<1> QED BY <1>1, <1>2, <1>3, <1>4, <1>5, <1>6, <1>7, <1>8, RotatingSteps

(* No file but one of a single line outgrows max_size, and current_size is *)
(* no less than what the base file and the line at hand need.              *)
LEMMA RotationSizesNext ==
    ASSUME FilesTyped, FilesTyped', kind = "rotating", RotationControl,
           RotationSizes, [Next]_vars
    PROVE  RotationSizes'
<1>0. /\ current_size \in Nat /\ max_size \in Nat
      /\ \A f \in DOMAIN files : SizeOf(files[f]) \in Nat
      /\ \A f \in DOMAIN files' : SizeOf(files'[f]) \in Nat
      /\ \A l \in Lines : l.size \in Nat
      /\ SizeOf(<<>>) = 0
  BY FileShapes, FileShapesNext, FileParameters, SizeFacts DEF FilesTyped
<1>w. ASSUME Write
      PROVE  /\ fd = 0 /\ 0 \in DOMAIN files /\ DOMAIN files' = DOMAIN files
             /\ \A g \in DOMAIN files : g # 0 => files'[g] = files[g]
             /\ SizeOf(files'[0]) <= SizeOf(files[0]) + line.size
             /\ line.size \in Nat
             /\ files[0] = <<>> => Len(files'[0]) <= 1
             /\ SizeOf(files[0]) + line.size <= current_size
             /\ current_size <= max_size \/ files[0] = <<>>
             /\ pc' = "idle" /\ fd' = 0 /\ current_size' = current_size
  <2>1. /\ pc = "write" /\ fd # Closed /\ fd \in DOMAIN files /\ line \in Lines
        /\ Begins(files'[fd], Append(files[fd], line))
        /\ Len(Append(files[fd], line)) = Len(files[fd]) + 1
        /\ DOMAIN files' = DOMAIN files
        /\ \A g \in DOMAIN files : g # fd => files'[g] = files[g]
        /\ pc' = "idle" /\ fd' = fd /\ current_size' = current_size
    BY <1>w, WriteFacts
  <2>2. fd = 0
    BY <2>1 DEF RotationControl
  <2>3. /\ SizeOf(files[0]) + line.size <= current_size
        /\ current_size <= max_size \/ files[0] = <<>>
    BY <2>1 DEF RotationSizes
  <2>4. files[0] \in Seq(Lines)
    BY <2>1, <2>2, FileShapes
  <2>5. SizeOf(Append(files[0], line)) = SizeOf(files[0]) + line.size
    BY <2>1, <2>4, SizeFacts
  <2>6. files[0] = <<>> => Len(files'[0]) <= 1
    <3>1. Len(files'[0]) <= Len(files[0]) + 1
      BY <2>1, <2>2 DEF Begins
    <3>2. files[0] = <<>> => Len(files[0]) = 0
      OBVIOUS
    <3> QED BY <3>1, <3>2
  <2> QED BY <1>0, <2>1, <2>2, <2>3, <2>5, <2>6 DEF Begins
<1>e. \A f \in DOMAIN files' : /\ files'[f] # <<>> => Len(files'[f]) > 0
                               /\ Len(files'[f]) \in Nat
  BY FileShapesNext, EmptySeq
<1>1. \A f \in DOMAIN files' :
         SizeOf(files'[f]) <= max_size \/ Len(files'[f]) = 1
  <2>1. CASE Shrinking
    <3>1. ASSUME NEW f \in DOMAIN files', files'[f] # <<>>
          PROVE  SizeOf(files'[f]) <= max_size \/ Len(files'[f]) = 1
      <4>1. f \in DOMAIN files /\ Begins(files'[f], files[f])
        BY <2>1, <3>1 DEF Shrinking
      <4>2. /\ SizeOf(files'[f]) <= SizeOf(files[f])
            /\ Len(files'[f]) <= Len(files[f])
            /\ Len(files'[f]) \in Nat /\ Len(files[f]) \in Nat
        BY <4>1, FileShapes DEF Begins
      <4>3. CASE SizeOf(files[f]) <= max_size
        BY <1>0, <4>1, <4>2, <4>3
      <4>4. CASE Len(files[f]) = 1
        <5> DEFINE m == Len(files'[f])
                   n == Len(files[f])
        <5>1. m \in Nat /\ n = 1 /\ m <= n /\ m > 0
          BY <1>e, <3>1, <4>2, <4>4
        <5> HIDE DEF m, n
        <5>2. m = 1
          BY <5>1
        <5> QED BY <5>2 DEF m
      <4> QED BY <4>1, <4>3, <4>4 DEF RotationSizes
    <3> QED BY <1>0, <3>1
  <2>2. CASE Shifting
    BY <2>2, ShiftFacts DEF RotationSizes
  <2>3. CASE Write
    <3>1. SizeOf(files'[0]) <= max_size \/ Len(files'[0]) = 1
      <4>0. 0 \in DOMAIN files'
        BY <1>w, <2>3
      <4>1. CASE files[0] = <<>>
        <5>1. CASE files'[0] = <<>>
          BY <1>0, <5>1
        <5>2. CASE files'[0] # <<>>
          BY <1>e, <1>w, <2>3, <4>0, <4>1, <5>2
        <5> QED BY <5>1, <5>2
      <4>2. CASE current_size <= max_size
        BY <1>0, <1>w, <2>3, <4>0, <4>2
      <4> QED BY <1>w, <2>3, <4>1, <4>2
    <3> QED BY <1>w, <2>3, <3>1 DEF RotationSizes
  <2> QED BY <2>1, <2>2, <2>3, ShrinkingSteps
<1>2. ASSUME NEW size \in Sizes, NEW delay \in 0 .. MaxDelay,
             Log(size, clock - delay)
      PROVE  RotationSizes'
  <2>1. /\ pc = "idle" /\ current_size' = current_size + size
        /\ pc' = IF current_size' > max_size THEN "rotate" ELSE "write"
        /\ \/ pc' = "write" /\ UNCHANGED <<files, fd, safe, flushed, faults>>
           \/ pc' = "rotate" /\ Drain /\ fd' = Closed
    BY <1>2, LoggedState
  <2>2. line'.size = size
    BY <1>2, LoggedLine
  <2>3. CASE pc' = "rotate"
    BY <1>1, <2>1, <2>3 DEF RotationSizes, Closed
  <2>4. CASE pc' = "write"
    <3>1. size \in Nat /\ ~(current_size > max_size) /\ current_size' <= max_size
      <4>1. size \in Nat
        BY FileParameters
      <4> QED BY <1>0, <2>1, <2>4, <4>1
    <3>2. fd = 0 /\ fd \in DOMAIN files
      BY <2>1, <3>1 DEF RotationControl, FilesTyped, Closed
    <3>3. SizeOf(files[0]) + size <= current_size + size
      <4>1. SizeOf(files[0]) <= current_size /\ SizeOf(files[0]) \in Nat
        BY <1>0, <2>1, <3>2 DEF RotationSizes
      <4> QED BY <1>0, <3>1, <4>1
    <3> QED BY <1>1, <2>1, <2>2, <2>4, <3>1, <3>3 DEF RotationSizes
  <2> QED BY <2>1, <2>3, <2>4
<1>3. CASE fd' = Closed /\ pc' # "write"
  BY <1>1, <1>3 DEF RotationSizes, Closed
<1>4. CASE RotateStep
  BY <1>3, <1>4 DEF RotateStep, FilesTyped
<1>5. CASE Rename
  <2>1. pc' # "write" /\ fd = Closed /\ current_size' = current_size
    BY <1>5 DEF Rename, Shift, GiveUp, FilesTyped
  <2>2. CASE Open(0, TRUE)
    <3>1. files'[0] = <<>>
      BY <2>2, OpenFacts
    <3>2. SizeOf(files'[0]) <= current_size'
      BY <1>0, <2>1, <3>1
    <3> QED BY <1>1, <2>1, <3>2 DEF RotationSizes
  <2>3. CASE fd' = fd
    BY <1>3, <2>1, <2>3
  <2> QED BY <1>5, <2>2, <2>3 DEF Rename, Shift, GiveUp
<1>6. CASE RotateEnd
  <2>1. CASE Open(0, TRUE) /\ pc' = "write"
    <3>1. files'[0] = <<>>
      BY <2>1, OpenFacts
    <3>2. current_size' = line.size /\ line' = line /\ line \in Lines
      BY <1>6, <2>1, FileShapes DEF RotateEnd, history, line, Busy
    <3>3. SizeOf(files'[0]) + line'.size <= current_size'
      BY <1>0, <3>1, <3>2
    <3> QED BY <1>1, <2>1, <3>1, <3>3 DEF RotationSizes
  <2>2. CASE fd' = fd /\ pc' = "idle"
    <3>1. fd = Closed
      BY <1>6 DEF RotateEnd, FilesTyped
    <3> QED BY <1>3, <2>2, <3>1
  <2> QED BY <1>6, <2>1, <2>2 DEF RotateEnd, OpenOrThrow
<1>7. CASE Write
  <2>1. SizeOf(files'[0]) <= current_size'
    BY <1>0, <1>w, <1>7
  <2> QED BY <1>1, <1>w, <1>7, <2>1 DEF RotationSizes
<1>8. CASE Flush
  <2>1. /\ pc = "idle" /\ pc' = pc /\ fd' = fd /\ fd # Closed /\ Drain
        /\ current_size' = current_size
    BY <1>8 DEF Flush
  <2>2. fd = 0 /\ 0 \in DOMAIN files
    BY <2>1 DEF RotationControl, FilesTyped
  <2>3. SizeOf(files'[0]) <= SizeOf(files[0])
    <3>1. CASE files' = files
      BY <1>0, <2>2, <3>1
    <3>2. CASE LoseBuffer
      <4>1. files'[0] \in Remains(files[0], safe)
        BY <2>1, <2>2, <3>2, LoseFacts
      <4>2. files[0] \in Seq(Lines) /\ safe \in 0 .. Len(files[0])
        BY <2>1, <2>2 DEF FilesTyped
      <4> QED BY <4>1, <4>2, RemainsFacts DEF Begins
    <3> QED BY <2>1, <3>1, <3>2, DrainFacts
  <2>4. SizeOf(files[0]) <= current_size
    BY <2>1, <2>2 DEF RotationSizes
  <2>5. 0 \in DOMAIN files'
    BY <2>1, <2>2, DrainFacts
  <2>6. SizeOf(files'[0]) <= current_size'
    BY <1>0, <2>1, <2>2, <2>3, <2>4, <2>5
  <2> QED BY <1>1, <2>1, <2>6 DEF RotationSizes
<1>9. CASE End
  BY <1>3, <1>9 DEF End, CloseFile
<1>10. CASE Start
  <2>1. pc' = "idle" /\ current_size' = SizeOf(files'[fd'])
    BY <1>10 DEF Start
  <2>2. fd' = 0 => SizeOf(files'[0]) <= current_size'
    <3>1. current_size' \in Nat
      BY DEF FilesTyped
    <3> QED BY <2>1, <3>1
  <2> QED BY <1>1, <2>1, <2>2 DEF RotationSizes
<1>11. CASE UNCHANGED vars
  BY <1>11 DEF vars, history, RotationSizes, line
<1> QED BY <1>2, <1>4, <1>5, <1>6, <1>7, <1>8, <1>9, <1>10, <1>11, RotatingSteps

(* Older lines stay in files of higher indices and before newer ones.      *)
LEMMA InOrderNext ==
    ASSUME FilesTyped, FilesTyped', kind = "rotating", RotationControl,
           Numbered, InOrder, [Next]_vars
    PROVE  InOrder'
<1> SUFFICES ASSUME NEW f \in DOMAIN files', NEW g \in DOMAIN files',
                    NEW a \in DOMAIN files'[f], NEW b \in DOMAIN files'[g],
                    f > g \/ (f = g /\ a < b)
             PROVE  files'[f][a].n < files'[g][b].n
  BY DEF InOrder
<1>1. CASE Shrinking
  <2>1. ASSUME NEW h \in DOMAIN files', NEW c \in DOMAIN files'[h]
        PROVE  /\ h \in DOMAIN files /\ c \in DOMAIN files[h]
               /\ files'[h][c].n = files[h][c].n
    <3>1. files'[h] # <<>>
      OBVIOUS
    <3>2. h \in DOMAIN files /\ Begins(files'[h], files[h])
      BY <1>1, <3>1 DEF Shrinking
    <3>3. /\ Len(files'[h]) \in Nat /\ Len(files'[h]) <= Len(files[h])
          /\ Len(files[h]) \in Nat /\ DOMAIN files[h] = 1 .. Len(files[h])
          /\ c \in 1 .. Len(files'[h])
      BY <3>2, FileShapes DEF Begins
    <3>4. c \in DOMAIN files[h]
      BY <3>3
    <3> QED BY <3>2, <3>3, <3>4 DEF Begins
  <2> QED BY <2>1 DEF InOrder
<1>2. CASE Shifting
  <2> DEFINE From(x) == IF x = i THEN i - 1 ELSE x
  <2>0. i \in Nat /\ f \in Nat /\ g \in Nat
    BY FileShapes, FileShapesNext
  <2>1. ASSUME NEW x \in DOMAIN files'
        PROVE  From(x) \in DOMAIN files /\ files'[x] = files[From(x)]
    BY <1>2, ShiftFacts
  <2>2. f # i - 1 /\ g # i - 1
    BY <1>2, <2>0, ShiftFacts
  <2>3. f > g => From(f) > From(g)
    <3>1. CASE f = i
      <4>1. f > g => i - 1 > g /\ g # i
        BY <2>0, <2>2, <3>1
      <4> QED BY <3>1, <4>1
    <3>2. CASE f # i /\ g = i
      BY <2>0, <2>2, <3>2
    <3>3. CASE f # i /\ g # i
      BY <3>3
    <3> QED BY <3>1, <3>2, <3>3
  <2>4. f = g => From(f) = From(g)
    OBVIOUS
  <2>5. /\ From(f) \in DOMAIN files /\ From(g) \in DOMAIN files
        /\ files'[f] = files[From(f)] /\ files'[g] = files[From(g)]
    BY <2>1
  <2> HIDE DEF From
  <2> QED BY <2>3, <2>4, <2>5 DEF InOrder
<1>3. CASE Write
  <2> DEFINE longer == Append(files[fd], line)
             N == Len(files[fd])
  <2>0. /\ fd # Closed /\ pc = "write" /\ Busy
        /\ Begins(files'[fd], longer) /\ Len(longer) = N + 1
        /\ DOMAIN files' = DOMAIN files /\ fd \in DOMAIN files
        /\ \A c \in 1 .. N : longer[c] = files[fd][c]
        /\ longer[N + 1] = line /\ line \in Lines
        /\ \A h \in DOMAIN files : h # fd => files'[h] = files[h]
    BY <1>3, WriteFacts DEF Busy
  <2>a. fd = 0 /\ N \in Nat /\ DOMAIN files[fd] = 1 .. N
    BY <2>0, FileShapes DEF RotationControl
  <2> HIDE DEF longer, N
  <2>1. ASSUME NEW c \in DOMAIN files'[0]
        PROVE  \/ c \in DOMAIN files[0] /\ files'[0][c].n = files[0][c].n /\ c <= N
               \/ c = N + 1 /\ files'[0][c].n = line.n
    <3>1. /\ c \in 1 .. Len(files'[0]) /\ Len(files'[0]) <= N + 1
          /\ Len(files'[0]) \in Nat
          /\ files'[0][c].n = longer[c].n
      BY <2>0, <2>a DEF Begins
    <3>2. CASE c = N + 1
      BY <2>0, <3>1, <3>2
    <3>3. CASE c # N + 1
      <4>1. c \in 1 .. N
        BY <2>a, <3>1, <3>3
      <4> QED BY <2>0, <2>a, <3>1, <4>1
    <3> QED BY <3>2, <3>3
  <2>2. ASSUME NEW h \in DOMAIN files, NEW c \in DOMAIN files[h]
        PROVE  files[h][c].n < line.n
    <3>1. files[h][c] \in OnDisk
      BY OnDiskIs
    <3>2. files[h][c].n < Len(handed)
      BY <2>0, <3>1 DEF Numbered
    <3>3. line.n = Len(handed)
      BY <2>0, FileShapes DEF Numbered
    <3> QED BY <3>2, <3>3
  <2>3. f \in Nat /\ g \in Nat
    BY FileShapesNext
  <2>4. CASE f = 0
    <3>0. b \in DOMAIN files'[0] /\ a \in DOMAIN files'[0] /\ g = 0
      BY <2>3, <2>4
    <3>1. Len(files'[0]) \in Nat /\ DOMAIN files'[0] = 1 .. Len(files'[0])
      BY <2>4, FileShapesNext
    <3>2. a < b /\ a \in Nat /\ b \in Nat
      BY <2>3, <2>4, <3>0, <3>1
    <3>3. a \in DOMAIN files[0] /\ files'[0][a].n = files[0][a].n
      <4>1. ~(a = N + 1)
        <5>1. b <= N + 1
          BY <2>1, <2>a, <3>0, <3>2
        <5> QED BY <2>a, <3>2, <5>1
      <4> QED BY <2>1, <3>0, <4>1
    <3>4. CASE files'[0][b].n = line.n
      BY <2>0, <2>2, <2>a, <2>4, <3>0, <3>3, <3>4
    <3>5. CASE b \in DOMAIN files[0] /\ files'[0][b].n = files[0][b].n
      BY <2>0, <2>a, <2>4, <3>0, <3>2, <3>3, <3>5 DEF InOrder
    <3> QED BY <2>1, <3>0, <3>4, <3>5
  <2>5. CASE f # 0
    <3>1. f \in DOMAIN files /\ files'[f] = files[f] /\ a \in DOMAIN files[f]
      BY <2>0, <2>a, <2>5
    <3>2. CASE g # 0
      <4>1. g \in DOMAIN files /\ files'[g] = files[g]
        BY <2>0, <2>a, <3>2
      <4> QED BY <3>1, <4>1 DEF InOrder
    <3>3. CASE g = 0 /\ files'[0][b].n = line.n
      BY <2>2, <3>1, <3>3
    <3>4. CASE g = 0 /\ b \in DOMAIN files[0] /\ files'[0][b].n = files[0][b].n
      BY <2>0, <2>a, <2>5, <3>1, <3>4 DEF InOrder
    <3> QED BY <2>1, <3>2, <3>3, <3>4
  <2> QED BY <2>4, <2>5
<1> QED BY <1>1, <1>2, <1>3, ShrinkingSteps

(* A file opened without truncation, or that did not exist, leaves what is *)
(* on disk.                                                                *)
LEMMA OpenKeeps ==
    ASSUME FilesTyped, NEW f \in Nat, NEW trunc \in BOOLEAN, Open(f, trunc),
           ~trunc \/ ~Exists(f)
    PROVE  OnDisk' = OnDisk
<1>1. /\ DOMAIN files' = DOMAIN files \cup {f}
      /\ \A g \in DOMAIN files : files'[g] = files[g]
      /\ f \notin DOMAIN files => files'[f] = <<>>
  BY OpenFacts DEF Exists
<1>2. f \notin DOMAIN files => DOMAIN files'[f] = {}
  BY <1>1
<1>3. OnDisk' \subseteq OnDisk
  BY <1>1, <1>2, OnDiskIs, OnDiskIsNext
<1>4. OnDisk \subseteq OnDisk'
  BY <1>1, OnDiskIs, OnDiskIsNext
<1> QED BY <1>3, <1>4

(* A shift to a free index loses nothing.                                  *)
LEMMA ShiftKeeps ==
    ASSUME FilesTyped, Shifting, ~Exists(i)
    PROVE  OnDisk' = OnDisk
<1>0. i \in Nat /\ i - 1 # i /\ i \notin DOMAIN files
  BY FileShapes DEF Exists
<1>1. OnDisk' \subseteq OnDisk
  BY ShiftFacts, OnDiskIs, OnDiskIsNext
<1>2. ASSUME NEW l \in OnDisk PROVE l \in OnDisk'
  <2>1. PICK g \in DOMAIN files : \E a \in DOMAIN files[g] : l = files[g][a]
    BY OnDiskIs
  <2>2. CASE g = i - 1
    <3>1. i \in DOMAIN files' /\ files'[i] = files[g]
      BY <2>2, ShiftFacts
    <3> QED BY <2>1, <3>1, OnDiskIsNext
  <2>3. CASE g # i - 1
    <3>1. g \in DOMAIN files' /\ files'[g] = files[g]
      BY <1>0, <2>3, ShiftFacts
    <3> QED BY <2>1, <3>1, OnDiskIsNext
  <2> QED BY <2>2, <2>3
<1> QED BY <1>1, <1>2

(* What a step without a failure can be, and one without an ended process. *)
LEMMA CountsGrow ==
    ASSUME FilesTyped, [Next]_vars
    PROVE  /\ faults' = 0 => faults = 0 /\ ~Fault
           /\ restarts' = 0 => restarts = 0 /\ ~End
<1>1. faults \in Nat /\ restarts \in Nat
  BY DEF FilesTyped
<1>2. ASSUME Fault PROVE faults' # 0
  BY <1>1, <1>2 DEF Fault
<1>3. ASSUME End PROVE restarts' # 0
  BY <1>1, <1>3 DEF End
<1>4. faults' = faults \/ Fault
  <2>1. CASE Flush \/ End
    BY <2>1 DEF Flush, End, CloseFile, Drain
  <2>2. CASE \E size \in Sizes, delay \in 0 .. MaxDelay :
                Log(size, clock - delay)
    BY <2>2 DEF Log, CloseFile, Drain
  <2>3. CASE Start \/ Tick \/ UNCHANGED vars
    BY <2>3 DEF Start, Tick, vars
  <2>4. CASE RotateStep \/ Rename \/ RotateEnd \/ OpenDay \/ Write
    BY <2>4 DEF RotateStep, Rename, Shift, GiveUp, RotateEnd, OpenDay,
                OpenOrThrow, Write
  <2> QED BY <2>1, <2>2, <2>3, <2>4 DEF Next
<1>5. restarts' = restarts \/ End
  BY DEF Next, vars, Tick, Log, RotateStep, Rename, RotateEnd, OpenDay, Write,
         Flush, Start
<1> QED BY <1>2, <1>3, <1>4, <1>5

(* While nothing but the oldest lines is dropped, the newest are there.    *)
LEMMA NewestStays ==
    ASSUME FilesTyped, FilesTyped', Numbered, Buffer, [Next]_vars,
           Newest, \A l \in OnDisk : Whole(l),
           written' = written, OnDisk' \subseteq OnDisk,
           \A m \in OnDisk \ OnDisk', l \in OnDisk' : ~(l.n < m.n)
    PROVE  Newest' /\ \A l \in OnDisk' : Whole(l)'
<1>0. \A m \in Range(written) : m \in Lines /\ (Lost(m) => Lost(m)')
  <2>1. Range(written) \subseteq Lines
    BY FileShapes DEF Range
  <2> QED BY <2>1, LostStays
<1>1. ASSUME NEW l \in OnDisk', NEW m \in Range(written'), l.n < m.n
      PROVE  m \in OnDisk' \/ Lost(m)'
  <2>1. l \in OnDisk /\ m \in Range(written)
    BY <1>1
  <2>2. m \in OnDisk \/ Lost(m)
    BY <1>1, <2>1 DEF Newest
  <2> QED BY <1>0, <1>1, <2>1, <2>2
<1>2. ASSUME NEW l \in OnDisk' PROVE Whole(l)'
  <2>1. Whole(l)
    OBVIOUS
  <2>2. CASE l \in Range(written)
    BY <2>2 DEF Whole
  <2>3. CASE \E m \in Range(written) : Lost(m) /\ l \in Torn(m)
    <3>1. PICK m \in Range(written) : Lost(m) /\ l \in Torn(m)
      BY <2>3
    <3>2. m \in Range(written') /\ Lost(m)'
      BY <1>0, <3>1
    <3>3. Torn(m)' = Torn(m)
      BY DEF Torn
    <3> QED BY <3>1, <3>2, <3>3 DEF Whole
  <2> QED BY <2>1, <2>2, <2>3 DEF Whole
<1> QED BY <1>1, <1>2 DEF Newest

(* What a step of the rotating sink that does not fail can do to the files *)
(* and to what was written.                                                *)
LEMMA KeepingSteps ==
    ASSUME FilesTyped, kind = "rotating", [Next]_vars, ~Fault
    PROVE  \/ UNCHANGED <<files, written>>
           \/ /\ RotateStep /\ files' = Without(files, i) /\ written' = written
              /\ Exists(i - 1) /\ pc' = "rename" /\ i' = i
           \/ Shifting
           \/ RotateEnd /\ Open(0, TRUE) /\ written' = written
           \/ Write
           \/ Start
           \/ End /\ fd # Closed /\ LoseBuffer
<1>1. ASSUME NEW size \in Sizes, NEW delay \in 0 .. MaxDelay,
             Log(size, clock - delay)
      PROVE  UNCHANGED <<files, written>>
  BY <1>1, LoggedState, DrainFacts
<1>2. CASE RotateStep
  BY <1>2 DEF RotateStep, history
<1>3. CASE Rename
  BY <1>3 DEF Rename, GiveUp, Shifting
<1>4. CASE RotateEnd
  BY <1>4 DEF RotateEnd, OpenOrThrow, history
<1>5. CASE Flush
  BY <1>5, DrainFacts DEF Flush
<1>6. CASE End
  <2>1. written' = written /\ (Drain \/ LoseBuffer)
    BY <1>6 DEF End, CloseFile
  <2> QED BY <1>6, <2>1, DrainFacts, LoseFacts
<1>7. CASE UNCHANGED vars
  BY <1>7 DEF vars, history
<1> QED BY <1>1, <1>2, <1>3, <1>4, <1>5, <1>6, <1>7, RotatingSteps

(* Without failures the newest lines are there, whole.                     *)
LEMMA NewestNext ==
    ASSUME FilesTyped, FilesTyped', kind = "rotating", RotationControl,
           Numbered, Buffer, InOrder, RotationKeeps, [Next]_vars, faults' = 0
    PROVE  Newest' /\ \A l \in OnDisk' : Whole(l)'
<1>0. /\ i \in Nat /\ i <= max_files /\ max_files \in Nat
      /\ \A f \in DOMAIN files : f \in Nat /\ f <= max_files
      /\ \A l \in OnDisk \cup Range(written) : l \in Lines /\ l.n \in Nat
      /\ OnDisk \subseteq Lines /\ Range(written) \subseteq Lines
  <2>1. Range(written) \subseteq Lines
    BY FileShapes DEF Range
  <2>2. \A f \in DOMAIN files : f \in Nat /\ f <= max_files
    BY FileShapes, FileParameters DEF RotationControl
  <2> QED BY <2>1, <2>2, FileShapes, FileParameters, OnDiskNext
<1>1. /\ faults = 0 /\ ~Fault /\ Newest /\ \A l \in OnDisk : Whole(l)
      /\ pc = "rename" => ~Exists(i)
  BY CountsGrow DEF RotationKeeps
<1>2. ASSUME OnDisk' = OnDisk, written' = written
      PROVE  Newest' /\ \A l \in OnDisk' : Whole(l)'
  BY <1>1, <1>2, NewestStays
<1>3. CASE UNCHANGED <<files, written>>
  BY <1>2, <1>3 DEF OnDisk
<1>4. CASE RotateStep /\ files' = Without(files, i) /\ written' = written
  <2>1. /\ pc = "rotate" /\ DOMAIN files' = DOMAIN files \ {i}
        /\ \A g \in DOMAIN files' : files'[g] = files[g]
    BY <1>4 DEF RotateStep, Without, Restrict
  <2>2. OnDisk' \subseteq OnDisk
    BY <2>1, OnDiskIs, OnDiskIsNext
  <2>3. ASSUME NEW m \in OnDisk, m \notin OnDisk', NEW l \in OnDisk', l.n < m.n
        PROVE  FALSE
    <3>1. PICK f \in DOMAIN files : \E b \in DOMAIN files[f] : m = files[f][b]
      BY OnDiskIs
    <3>2. PICK b \in DOMAIN files[f] : m = files[f][b]
      BY <3>1
    <3>3. f = i
      BY <2>1, <2>3, <3>2, OnDiskIsNext
    <3>4. i = max_files
      <4>1. ~(i < max_files)
        BY <2>1, <3>3 DEF RotationControl, Rotating, Exists
      <4> QED BY <1>0, <4>1
    <3>5. PICK g \in DOMAIN files' : \E a \in DOMAIN files'[g] : l = files'[g][a]
      BY OnDiskIsNext
    <3>6. PICK a \in DOMAIN files'[g] : l = files'[g][a]
      BY <3>5
    <3>7. /\ g \in DOMAIN files /\ a \in DOMAIN files[g] /\ l = files[g][a]
          /\ g # i
      BY <2>1, <3>6
    <3>8. f > g
      BY <1>0, <3>3, <3>4, <3>7
    <3>9. m.n < l.n
      BY <3>2, <3>7, <3>8 DEF InOrder
    <3>10. m.n \in Nat /\ l.n \in Nat
      BY <1>0, <2>2
    <3> QED BY <2>3, <3>9, <3>10
  <2> QED BY <1>1, <1>4, <2>2, <2>3, NewestStays
<1>5. CASE Shifting
  <2>1. written' = written /\ ~Exists(i)
    BY <1>1, <1>5, ShiftFacts DEF history
  <2> QED BY <1>2, <1>5, <2>1, ShiftKeeps
<1>6. CASE RotateEnd /\ Open(0, TRUE) /\ written' = written
  <2>1. pc = "rotate" /\ i = 0
    BY <1>6 DEF RotateEnd
  <2>2. CASE 0 < max_files
    <3>1. ~Exists(0)
      BY <2>1, <2>2 DEF RotationControl, Rotating
    <3> QED BY <1>2, <1>6, <3>1, OpenKeeps
  <2>3. CASE ~(0 < max_files)
    <3>1. DOMAIN files' = {0} /\ files'[0] = <<>>
      <4>1. DOMAIN files \subseteq {0}
        BY <1>0, <2>3
      <4> QED BY <1>6, <4>1, OpenFacts
    <3>2. OnDisk' = {}
      BY <3>1, OnDiskIsNext
    <3> QED BY <3>2 DEF Newest
  <2> QED BY <2>2, <2>3
<1>7. CASE Write
  <2>1. /\ written' = Append(written, line) /\ OnDisk' = OnDisk \cup {line}
    BY <1>1, <1>7, WriteOnDisk
  <2>2. Busy
    BY <1>7 DEF Write, Busy
  <2>3. line \in Lines /\ line.n = Len(handed) /\ line.n \in Nat
    BY <2>2, FileShapes DEF Numbered
  <2>4. Range(written') = Range(written) \cup {line}
    <3>1. written \in Seq(Lines)
      BY DEF FilesTyped
    <3> QED BY <2>1, <2>3, <3>1 DEF Range
  <2>5. \A m \in Range(written) : ~(line.n < m.n)
    BY <1>0, <2>2, <2>3 DEF Numbered
  <2>6. \A m \in Range(written) : Lost(m) => Lost(m)'
    BY <1>0, LostStays
  <2>7. ASSUME NEW l \in OnDisk', NEW m \in Range(written'), l.n < m.n
        PROVE  m \in OnDisk' \/ Lost(m)'
    <3>1. CASE m = line
      BY <2>1, <3>1
    <3>2. CASE m \in Range(written) /\ l \in OnDisk
      BY <1>1, <2>1, <2>6, <2>7, <3>2 DEF Newest
    <3>3. CASE m \in Range(written) /\ l = line
      BY <2>5, <2>7, <3>3
    <3> QED BY <2>1, <2>4, <3>1, <3>2, <3>3
  <2>8. ASSUME NEW l \in OnDisk' PROVE Whole(l)'
    <3>1. CASE l = line
      BY <2>4, <3>1 DEF Whole
    <3>2. CASE l \in OnDisk
      <4>1. CASE l \in Range(written)
        BY <2>4, <4>1 DEF Whole
      <4>2. CASE \E m \in Range(written) : Lost(m) /\ l \in Torn(m)
        <5>1. PICK m \in Range(written) : Lost(m) /\ l \in Torn(m)
          BY <4>2
        <5>2. m \in Range(written') /\ Lost(m)' /\ Torn(m)' = Torn(m)
          BY <2>4, <2>6, <5>1 DEF Torn
        <5> QED BY <5>1, <5>2 DEF Whole
      <4> QED BY <1>1, <3>2, <4>1, <4>2 DEF Whole
    <3> QED BY <2>1, <3>1, <3>2
  <2> QED BY <2>7, <2>8 DEF Newest
<1>8. CASE Start
  <2>1. Open(0, truncate) /\ truncate = FALSE /\ written' = written
    BY <1>8 DEF Start, FilesTyped, history
  <2>2. 0 \in Nat /\ FALSE \in BOOLEAN
    OBVIOUS
  <2>3. OnDisk' = OnDisk
    BY <2>1, <2>2, OpenKeeps
  <2> QED BY <1>2, <2>1, <2>3
<1>9. CASE End /\ fd # Closed /\ LoseBuffer
  <2>1. written' = written /\ restarts' = restarts + 1 /\ restarts \in Nat
        /\ flushed' \subseteq flushed \cup OnDisk
    BY <1>9, OnDiskNext DEF End, FilesTyped
  <2>f. flushed' = flushed \/ Drain
    BY <1>9 DEF End, CloseFile
  <2>2. /\ \A l \in OnDisk' :
              \/ l \in OnDisk
              \/ \E m \in OnDisk \ OnDisk' : l \in Torn(m) /\ m.run = restarts
        /\ \A m \in OnDisk \ OnDisk' :
              /\ m.run = restarts /\ m \notin flushed
              /\ \A k \in OnDisk' : k.n <= m.n
    BY <1>9, LosingFacts
  <2>3. ASSUME NEW m \in OnDisk, m \notin OnDisk' PROVE Lost(m)'
    <3>1. m.run = restarts /\ m \notin flushed /\ \A k \in OnDisk' : k.n <= m.n
      BY <2>2, <2>3
    <3>2. m \notin flushed'
      <4>1. CASE flushed' = flushed
        BY <3>1, <4>1
      <4>2. CASE files' = files
        BY <2>3, <4>2 DEF OnDisk
      <4> QED BY <1>1, <2>f, <4>1, <4>2, DrainFacts
    <3>3. m.run < restarts'
      BY <2>1, <3>1
    <3> QED BY <2>3, <3>1, <3>2, <3>3 DEF Lost
  <2>4. \A m \in Range(written) : Lost(m) => Lost(m)'
    BY <1>0, LostStays
  <2>5. ASSUME NEW l \in OnDisk', NEW m \in Range(written'), l.n < m.n
        PROVE  m \in OnDisk' \/ Lost(m)'
    <3>1. PICK j \in OnDisk : j.n = l.n
      <4>1. CASE \E k \in OnDisk : l \in Torn(k)
        BY <1>0, <4>1, TornFacts
      <4> QED BY <2>2, <4>1
    <3>2. m \in Range(written) /\ j.n < m.n
      BY <2>1, <2>5, <3>1
    <3>3. m \in OnDisk \/ Lost(m)
      BY <1>1, <3>2 DEF Newest
    <3> QED BY <2>3, <2>4, <3>2, <3>3
  <2>6. ASSUME NEW l \in OnDisk, Whole(l) PROVE Whole(l)'
    <3>1. CASE l \in Range(written)
      BY <2>1, <3>1 DEF Whole
    <3>2. CASE \E m \in Range(written) : Lost(m) /\ l \in Torn(m)
      <4>1. PICK m \in Range(written) : Lost(m) /\ l \in Torn(m)
        BY <3>2
      <4>2. m \in Range(written') /\ Lost(m)' /\ Torn(m)' = Torn(m)
        BY <2>1, <2>4, <4>1 DEF Torn
      <4> QED BY <4>1, <4>2 DEF Whole
    <3> QED BY <2>6, <3>1, <3>2 DEF Whole
  <2>7. ASSUME NEW l \in OnDisk' PROVE Whole(l)'
    <3>1. CASE l \in OnDisk
      BY <1>1, <2>6, <3>1
    <3>2. CASE \E m \in OnDisk \ OnDisk' : l \in Torn(m) /\ m.run = restarts
      <4>1. PICK m \in OnDisk \ OnDisk' : l \in Torn(m)
        BY <3>2
      <4>2. CASE m \in Range(written)
        <5>1. m \in Range(written') /\ Lost(m)' /\ Torn(m)' = Torn(m)
          BY <2>1, <2>3, <4>1, <4>2 DEF Torn
        <5> QED BY <4>1, <5>1 DEF Whole
      <4>3. CASE \E k \in Range(written) : Lost(k) /\ m \in Torn(k)
        <5>1. PICK k \in Range(written) : Lost(k) /\ m \in Torn(k)
          BY <4>3
        <5>2. k \in Lines /\ m \in Lines
          BY <1>0, <4>1
        <5>3. l \in Torn(k)
          BY <4>1, <5>1, <5>2, TornFacts
        <5>4. k \in Range(written') /\ Lost(k)' /\ Torn(k)' = Torn(k)
          BY <2>1, <2>4, <5>1 DEF Torn
        <5> QED BY <5>3, <5>4 DEF Whole
      <4> QED BY <1>1, <4>1, <4>2, <4>3 DEF Whole
    <3> QED BY <2>2, <3>1, <3>2
  <2> QED BY <2>5, <2>7 DEF Newest
<1> QED BY <1>1, <1>3, <1>4, <1>5, <1>6, <1>7, <1>8, <1>9, KeepingSteps

(* And without restarts no line is dropped while an index is free.         *)
LEMMA RotationKeepsNext ==
    ASSUME FilesTyped, FilesTyped', kind = "rotating", RotationControl,
           Numbered, Buffer, InOrder, RotationKeeps, [Next]_vars
    PROVE  RotationKeeps'
<1>0. /\ i \in 0 .. max_files /\ i \in Nat /\ i' \in Nat
      /\ max_files \in Nat /\ 0 \in 0 .. max_files
      /\ \A f \in DOMAIN files : f \in Nat /\ f \in 0 .. max_files
  BY FileShapes, FileShapesNext, FileParameters DEF FilesTyped, RotationControl
<1> DEFINE Free == \A f \in DOMAIN files, g \in 0 .. max_files :
                      g < f => Exists(g) \/ InTransit(g)
           Full == \A f \in 0 .. max_files : Exists(f) \/ InTransit(f)
<1>1. ASSUME faults' = 0, pc' = "rename" PROVE ~Exists(i)'
  <2>1. ~Fault /\ (pc = "rename" => ~Exists(i))
    BY <1>1, CountsGrow DEF RotationKeeps
  <2>2. CASE RotateStep
    <3>1. files' = Without(files, i) /\ i' = i
      BY <1>1, <2>1, <2>2 DEF RotateStep
    <3> QED BY <3>1 DEF Exists, Without, Restrict
  <2>3. CASE UNCHANGED vars
    <3>1. UNCHANGED <<pc, files, i>>
      BY <2>3 DEF vars
    <3> QED BY <1>1, <2>1, <3>1 DEF Exists
  <2>4. CASE Rename \/ RotateEnd \/ Write \/ Flush \/ End \/ Start
    BY <1>1, <2>4 DEF Rename, Shift, GiveUp, RotateEnd, OpenOrThrow, Write,
                      Flush, End, Start
  <2>5. CASE \E size \in Sizes, delay \in 0 .. MaxDelay :
                Log(size, clock - delay)
    BY <1>1, <2>5, LoggedState
  <2> QED BY <2>2, <2>3, <2>4, <2>5, RotatingSteps
<1>2. ASSUME faults' = 0 PROVE Newest' /\ \A l \in OnDisk' : Whole(l)'
  BY <1>2, NewestNext
<1>3. ASSUME faults' = 0, restarts' = 0
      PROVE  Free' /\ (OnDisk' = Range(written') \/ Full')
  <2>0. /\ faults = 0 /\ ~Fault /\ ~End /\ Free
        /\ OnDisk = Range(written) \/ Full
        /\ pc = "rename" => ~Exists(i)
    BY <1>3, CountsGrow DEF RotationKeeps
  <2>1. ASSUME NEW size \in Sizes, NEW delay \in 0 .. MaxDelay,
               Log(size, clock - delay)
        PROVE  Free' /\ (OnDisk' = Range(written') \/ Full')
    <3>1. pc = "idle" /\ UNCHANGED <<files, written>>
      BY <2>0, <2>1, LoggedState, DrainFacts
    <3>2. Full => Full'
      BY <3>1 DEF InTransit, Exists, Rotating
    <3>3. Free'
      BY <2>0, <3>1 DEF InTransit, Exists, Rotating
    <3> QED BY <2>0, <3>1, <3>2, <3>3 DEF OnDisk
  <2>2. CASE RotateStep /\ ~Exists(i - 1)
    <3>1. /\ Rotating /\ Rotating' /\ i > 0 /\ i' = i - 1
          /\ UNCHANGED <<files, written>> /\ i - 1 \in 0 .. max_files
      BY <1>0, <2>2 DEF RotateStep, history, Rotating
    <3>2. \A f \in DOMAIN files : ~(i - 1 < f)
      <4> SUFFICES ASSUME NEW f \in DOMAIN files, i - 1 < f PROVE FALSE
        OBVIOUS
      <4>1. Exists(i - 1) \/ InTransit(i - 1)
        BY <2>0, <3>1
      <4> QED BY <1>0, <2>2, <4>1 DEF InTransit
    <3>3. Free'
      <4> SUFFICES ASSUME NEW f \in DOMAIN files, NEW g \in 0 .. max_files, g < f
                   PROVE  Exists(g)
        BY <3>1 DEF Exists
      <4>1. Exists(g) \/ InTransit(g)
        BY <2>0
      <4>2. f \in Nat /\ g \in Nat /\ ~(i - 1 < f)
        BY <1>0, <3>2
      <4>3. g # i
        BY <1>0, <4>2
      <4> QED BY <4>1, <4>3 DEF InTransit
    <3>4. ~Full
      <4>1. ~Exists(i - 1) /\ ~InTransit(i - 1)
        BY <1>0, <2>2 DEF InTransit
      <4> QED BY <3>1, <4>1
    <3> QED BY <2>0, <3>1, <3>3, <3>4 DEF OnDisk
  <2>3. CASE RotateStep /\ Exists(i - 1)
    <3>1. /\ Rotating /\ Rotating' /\ i' = i /\ written' = written
          /\ DOMAIN files' = DOMAIN files \ {i}
          /\ \A g \in DOMAIN files' : files'[g] = files[g]
      BY <2>0, <2>3 DEF RotateStep, Rotating, Without, Restrict, history
    <3>2. Free'
      <4> SUFFICES ASSUME NEW f \in DOMAIN files', NEW g \in 0 .. max_files,
                          g < f, g # i
                   PROVE  g \in DOMAIN files'
        BY <3>1 DEF Exists, InTransit
      <4>1. f \in DOMAIN files
        BY <3>1
      <4>2. Exists(g)
        BY <2>0, <4>1 DEF InTransit
      <4> QED BY <3>1, <4>2 DEF Exists
    <3>3. Full => Full'
      BY <3>1 DEF Exists, InTransit
    <3>4. CASE ~Exists(i)
      <4>1. OnDisk' = OnDisk
        BY <3>1, <3>4, OnDiskIs, OnDiskIsNext DEF Exists
      <4> QED BY <2>0, <3>1, <3>2, <3>3, <4>1
    <3>5. CASE Exists(i)
      <4>1. i = max_files
        <5>1. ~(i < max_files)
          BY <3>1, <3>5 DEF RotationControl
        <5> QED BY <1>0, <5>1
      <4>2. Full
        <5> SUFFICES ASSUME NEW f \in 0 .. max_files, f # i PROVE Exists(f)
          BY <3>5 DEF Exists
        <5>1. f < i
          BY <1>0, <4>1
        <5> QED BY <2>0, <3>5, <5>1 DEF InTransit, Exists
      <4> QED BY <3>2, <3>3, <4>2
    <3> QED BY <3>4, <3>5
  <2>4. CASE Shifting
    <3>1. /\ Rotating /\ Rotating' /\ i > 0 /\ i' = i - 1 /\ written' = written
          /\ i - 1 \in DOMAIN files
          /\ DOMAIN files' = (DOMAIN files \ {i - 1}) \cup {i}
          /\ i - 1 \in 0 .. max_files /\ ~Exists(i)
      BY <1>0, <2>0, <2>4, ShiftFacts DEF history, Rotating
    <3>2. Free'
      <4> SUFFICES ASSUME NEW f \in DOMAIN files', NEW g \in 0 .. max_files,
                          g < f, g # i - 1
                   PROVE  g \in DOMAIN files'
        BY <3>1 DEF Exists, InTransit
      <4>1. CASE g = i
        BY <3>1, <4>1
      <4>2. CASE g # i /\ f # i
        <5>1. f \in DOMAIN files
          BY <3>1, <4>2
        <5>2. Exists(g)
          BY <2>0, <4>2, <5>1 DEF InTransit
        <5> QED BY <3>1, <4>2, <5>2 DEF Exists
      <4>3. CASE g # i /\ f = i
        <5>1. g < i - 1
          BY <1>0, <4>3
        <5>2. Exists(g)
          BY <2>0, <3>1, <4>3, <5>1 DEF InTransit
        <5> QED BY <3>1, <4>3, <5>2 DEF Exists
      <4> QED BY <4>1, <4>2, <4>3
    <3>3. Full => Full'
      BY <3>1 DEF Exists, InTransit
    <3>4. OnDisk' = OnDisk
      BY <2>4, <3>1, ShiftKeeps
    <3> QED BY <2>0, <3>1, <3>2, <3>3, <3>4
  <2>5. CASE RotateEnd
    <3>1. /\ pc = "rotate" /\ i = 0 /\ Open(0, TRUE) /\ pc' = "write"
          /\ written' = written
      BY <2>0, <2>5 DEF RotateEnd, OpenOrThrow, history
    <3>2. DOMAIN files' = DOMAIN files \cup {0}
      BY <3>1, OpenFacts
    <3>3. Free'
      <4> SUFFICES ASSUME NEW f \in DOMAIN files', NEW g \in 0 .. max_files,
                          g < f, g # 0
                   PROVE  g \in DOMAIN files'
        BY <3>1, <3>2 DEF Exists, InTransit
      <4>1. f \in DOMAIN files
        BY <1>0, <3>2
      <4>2. Exists(g) \/ InTransit(g)
        BY <2>0, <4>1
      <4> QED BY <3>1, <3>2, <4>2 DEF Exists, InTransit
    <3>4. Full => Full'
      BY <3>1, <3>2 DEF Exists, InTransit
    <3>5. CASE 0 < max_files
      <4>1. ~Exists(0)
        BY <3>1, <3>5 DEF RotationControl, Rotating
      <4>2. OnDisk' = OnDisk
        BY <3>1, <4>1, OpenKeeps
      <4> QED BY <2>0, <3>1, <3>3, <3>4, <4>2
    <3>6. CASE ~(0 < max_files)
      <4>1. Full'
        BY <1>0, <3>2, <3>6 DEF Exists
      <4> QED BY <3>3, <4>1
    <3> QED BY <3>5, <3>6
  <2>6. CASE Write
    <3>1. /\ OnDisk' = OnDisk \cup {line} /\ written' = Append(written, line)
      BY <2>0, <2>6, WriteOnDisk
    <3>2. DOMAIN files' = DOMAIN files /\ ~Rotating /\ ~Rotating' /\ Busy
      BY <2>6, WriteFacts DEF Rotating, Busy
    <3>3. Range(written') = Range(written) \cup {line}
      <4>1. written \in Seq(Lines) /\ line \in Lines
        BY <3>2, FileShapes DEF FilesTyped
      <4> QED BY <3>1, <4>1 DEF Range
    <3>4. Free' /\ (Full => Full')
      BY <2>0, <3>2 DEF Exists, InTransit
    <3> QED BY <2>0, <3>1, <3>3, <3>4
  <2>7. CASE UNCHANGED vars
    <3>1. UNCHANGED <<files, written, pc, i>>
      BY <2>7 DEF vars, history
    <3>2. Free' /\ (Full => Full')
      BY <2>0, <3>1 DEF Exists, InTransit, Rotating
    <3> QED BY <2>0, <3>1, <3>2 DEF OnDisk
  <2>8. CASE Flush
    <3>1. files' = files /\ written' = written /\ ~Rotating /\ ~Rotating'
      BY <2>0, <2>8, DrainFacts DEF Flush, Rotating
    <3>2. Free' /\ (Full => Full')
      BY <2>0, <3>1 DEF Exists, InTransit
    <3> QED BY <2>0, <3>1, <3>2 DEF OnDisk
  <2>9. CASE Start
    <3>1. /\ Open(0, truncate) /\ truncate = FALSE /\ written' = written
          /\ ~Rotating
      BY <2>9 DEF Start, FilesTyped, history, Rotating
    <3>2. 0 \in Nat /\ FALSE \in BOOLEAN
      OBVIOUS
    <3>3. OnDisk' = OnDisk /\ DOMAIN files' = DOMAIN files \cup {0}
      BY <3>1, <3>2, OpenKeeps, OpenFacts
    <3>4. Full => Full'
      BY <3>1, <3>3 DEF Exists, InTransit
    <3>5. Free'
      <4> SUFFICES ASSUME NEW f \in DOMAIN files', NEW g \in 0 .. max_files, g < f
                   PROVE  g \in DOMAIN files'
        BY DEF Exists
      <4>1. f \in DOMAIN files
        BY <1>0, <3>3
      <4> QED BY <2>0, <3>1, <3>3, <4>1 DEF Exists, InTransit
    <3> QED BY <2>0, <3>1, <3>3, <3>4, <3>5
  <2>10. ASSUME Rename PROVE Shifting
    BY <2>0, <2>10 DEF Rename, Shifting, GiveUp
  <2> QED BY <2>0, <2>1, <2>2, <2>3, <2>4, <2>5, <2>6, <2>7, <2>8, <2>9, <2>10,
             RotatingSteps
<1>4. RotationKeeps' = /\ faults' = 0 => /\ Newest'
                                         /\ \A l \in OnDisk' : Whole(l)'
                                         /\ pc' = "rename" => ~Exists(i)'
                       /\ faults' = 0 /\ restarts' = 0 =>
                             Free' /\ (OnDisk' = Range(written') \/ Full')
  BY DEF RotationKeeps
<1> HIDE DEF Free, Full
<1> QED BY <1>1, <1>2, <1>3, <1>4

(* The numbers, the buffer and the rotating sink's invariant hold at       *)
(* first.                                                                  *)
LEMMA RotationInit == Init => Numbered /\ Buffer /\ Rotation
<1> SUFFICES ASSUME Init PROVE Numbered /\ Buffer /\ Rotation
  OBVIOUS
<1>1. /\ pc = "idle" /\ fd = 0 /\ DOMAIN files = {0} /\ files[0] = <<>>
      /\ DOMAIN files[0] = {} /\ Len(files[0]) = 0 /\ safe = 0
      /\ handed = <<>> /\ written = <<>> /\ flushed = {} /\ current_size = 0
      /\ DOMAIN handed = {} /\ DOMAIN written = {}
      /\ ~Busy /\ ~Rotating
  BY DEF Init, Busy, Rotating
<1>2. OnDisk = {} /\ Range(written) = {}
  BY <1>1, OnDiskIs DEF Range
<1>3. Numbered
  BY <1>1, <1>2 DEF Numbered
<1>b. Buffer
  BY <1>1 DEF Buffer
<1>4. RotationControl
  BY <1>1, FileParameters DEF RotationControl, Closed
<1>5. RotationSizes
  BY <1>1, SizeFacts, FileParameters DEF RotationSizes
<1>6. InOrder
  BY <1>1 DEF InOrder
<1>7. RotationKeeps
  <2>1. \A f \in DOMAIN files, g \in 0 .. max_files : ~(g < f)
    BY <1>1
  <2>2. Newest /\ \A l \in OnDisk : Whole(l)
    BY <1>2 DEF Newest
  <2> QED BY <1>1, <1>2, <2>1, <2>2 DEF RotationKeeps
<1> QED BY <1>3, <1>b, <1>4, <1>5, <1>6, <1>7 DEF Rotation

(* Every step keeps it.                                                    *)
LEMMA RotationNext ==
    ASSUME FilesTyped, FilesTyped', Numbered, Buffer, Rotation, [Next]_vars
    PROVE  Rotation'
<1> SUFFICES ASSUME kind = "rotating"
             PROVE  (RotationControl /\ RotationSizes /\ InOrder /\ RotationKeeps)'
  BY RotatingSteps DEF Rotation
<1>0. RotationControl /\ RotationSizes /\ InOrder /\ RotationKeeps
  BY DEF Rotation
<1>1. RotationControl'
  BY <1>0, RotationControlNext
<1>2. RotationSizes'
  BY <1>0, RotationSizesNext
<1>3. InOrder'
  BY <1>0, InOrderNext
<1>4. RotationKeeps'
  BY <1>0, RotationKeepsNext
<1> QED BY <1>1, <1>2, <1>3, <1>4

------------------------------------------------------------------------------
(* The daily sink                                                          *)

(* What it does: nothing that has to do with indices and sizes.            *)
LEMMA DailySteps ==
    ASSUME FilesTyped, kind = "daily", [Next]_vars
    PROVE  \/ Tick
           \/ \E size \in Sizes, delay \in 0 .. MaxDelay :
                 Log(size, clock - delay)
           \/ OpenDay \/ Write \/ Flush \/ End \/ Start \/ UNCHANGED vars
<1>1. ~Rotating
  BY DEF FilesTyped
<1>2. ~RotateStep /\ ~Rename /\ ~RotateEnd
  BY <1>1 DEF RotateStep, Rename, RotateEnd, Rotating
<1> QED BY <1>2 DEF Next

(* A later time is not of an earlier day; a day begins before a time if    *)
(* it is not after the time's own day.                                     *)
LEMMA DaysInOrder ==
    ASSUME NEW a \in Nat, NEW b \in Nat
    PROVE  /\ a <= b => Day(a) <= Day(b)
           /\ a * DayLength <= b => a <= Day(b)
<1> DEFINE D == DayLength
           x == Day(a)
           y == Day(b)
<1>1. /\ D \in Nat /\ D > 0
      /\ x \in Nat /\ y \in Nat /\ x * D \in Nat /\ y * D \in Nat
      /\ x * D <= a /\ b < y * D + D
      /\ a * D \in Nat
      /\ y < x => y * D + D <= x * D
      /\ y < a => y * D + D <= a * D
  BY FileParameters, DayFacts, DaysGrow
<1> HIDE DEF D, x, y
<1>2. a <= b => ~(y < x)
  <2> DEFINE p == x * D
             q == y * D
  <2>1. p \in Nat /\ q \in Nat /\ p <= a /\ b < q + D /\ (y < x => q + D <= p)
    BY <1>1
  <2> HIDE DEF p, q
  <2> QED BY <1>1, <2>1
<1>3. a * D <= b => ~(y < a)
  <2> DEFINE p == a * D
             q == y * D
  <2>1. p \in Nat /\ q \in Nat /\ b < q + D /\ (y < a => q + D <= p)
    BY <1>1
  <2> HIDE DEF p, q
  <2>2. p <= b => ~(y < a)
    BY <1>1, <2>1
  <2> QED BY <2>2 DEF p
<1>4. /\ a <= b => x <= y
      /\ a * D <= b => a <= y
  BY <1>1, <1>2, <1>3
<1> QED BY <1>4 DEF D, x, y

(* The lines keep the times they bear, and are worked on later and later.  *)
LEMMA HandedKept ==
    ASSUME FilesTyped, DailyTimes, kind = "daily", [Next]_vars
    PROVE  /\ \A k \in DOMAIN handed :
                 /\ k \in DOMAIN handed' /\ handed'[k].time = handed[k].time
                 /\ handed[k].at <= handed'[k].at
           /\ clock <= clock' /\ clock' \in Nat
           /\ Busy => /\ Len(handed') = Len(handed)
                      /\ line' = handed'[Len(handed)]
                      /\ line'.time = line.time
<1>0. /\ Len(handed) \in Nat /\ DOMAIN handed = 1 .. Len(handed)
      /\ handed \in Seq(Lines) /\ clock \in Nat
      /\ \A k \in DOMAIN handed :
            handed[k].at \in Nat /\ handed[k].at <= clock
      /\ Busy => line = handed[Len(handed)] /\ Len(handed) \in DOMAIN handed
  BY FileShapes DEF DailyTimes, FilesTyped
<1>1. CASE Tick
  <2>1. clock' = clock + 1
    BY <1>1 DEF Tick
  <2>2. clock <= clock' /\ clock' \in Nat
    BY <1>0, <2>1
  <2>3. ASSUME NEW k \in DOMAIN handed
        PROVE  /\ k \in DOMAIN handed' /\ handed'[k].time = handed[k].time
               /\ handed[k].at <= handed'[k].at
    <3>1. /\ k \in DOMAIN handed' /\ handed'[k].time = handed[k].time
          /\ handed'[k].at = clock' \/ handed'[k].at = handed[k].at
      BY <1>1, TickHanded
    <3>2. handed[k].at <= clock' /\ handed[k].at <= handed[k].at
      BY <1>0, <2>2
    <3> QED BY <3>1, <3>2
  <2>4. Len(handed') = Len(handed)
    BY <1>1, TickHanded
  <2>5. line' = handed'[Len(handed)]
    BY <2>4 DEF line, Last
  <2> QED BY <1>0, <2>2, <2>3, <2>4, <2>5
<1>2. ASSUME NEW size \in Sizes, NEW delay \in 0 .. MaxDelay,
             Log(size, clock - delay)
      PROVE  /\ ~Busy /\ clock' = clock
             /\ \A k \in DOMAIN handed : /\ k \in DOMAIN handed'
                                         /\ handed'[k] = handed[k]
  <2>1. ~Busy /\ clock' = clock
    BY <1>2, LoggedState DEF Busy
  <2> QED BY <1>0, <1>2, <2>1, LoggedLine
<1>3. CASE OpenDay \/ Write \/ Flush \/ End \/ Start \/ UNCHANGED vars
  <2>1. handed' = handed /\ clock' = clock
    BY <1>3 DEF OpenDay, Write, Flush, End, Start, vars, history
  <2>2. line' = line
    BY <2>1 DEF line
  <2> QED BY <1>0, <2>1, <2>2
<1>4. CASE \E size \in Sizes, delay \in 0 .. MaxDelay : Log(size, clock - delay)
  BY <1>0, <1>2, <1>4
<1> QED BY <1>1, <1>3, <1>4, DailySteps

(* No line is worked on before the time it bears, or after the present.    *)
LEMMA DailyTimesNext ==
    ASSUME FilesTyped, kind = "daily", DailyTimes, [Next]_vars
    PROVE  DailyTimes'
<1>0. /\ clock \in Nat /\ Len(handed) \in Nat
      /\ DOMAIN handed = 1 .. Len(handed)
      /\ \A k \in DOMAIN handed :
            /\ handed[k].time \in Nat /\ handed[k].at \in Nat
            /\ handed[k].time <= handed[k].at /\ handed[k].at <= clock
      /\ Busy => /\ line = handed[Len(handed)] /\ line.at = clock
                 /\ Len(handed) \in DOMAIN handed
  BY FileShapes DEF DailyTimes, FilesTyped
<1>1. CASE Tick
  <2>1. clock' \in Nat /\ clock <= clock' /\ Busy' = Busy
    BY <1>1, HandedKept, TickHanded
  <2>2. ASSUME NEW k \in DOMAIN handed'
        PROVE  handed'[k].time <= handed'[k].at /\ handed'[k].at <= clock'
    <3>1. /\ k \in DOMAIN handed /\ handed'[k].time = handed[k].time
          /\ handed'[k].at = clock' \/ handed'[k].at = handed[k].at
      BY <1>1, TickHanded
    <3> QED BY <1>0, <2>1, <3>1
  <2>3. Busy => line'.at = clock'
    BY <1>0, <1>1, HandedKept, TickHanded
  <2> QED BY <2>1, <2>2, <2>3 DEF DailyTimes
<1>2. ASSUME NEW size \in Sizes, NEW delay \in 0 .. MaxDelay,
             Log(size, clock - delay)
      PROVE  DailyTimes'
  <2>1. clock' = clock
    BY <1>2, LoggedState
  <2>2. ASSUME NEW k \in DOMAIN handed'
        PROVE  handed'[k].time <= handed'[k].at /\ handed'[k].at <= clock
    <3>1. CASE k = Len(handed) + 1
      <4>1. /\ line'.time <= clock /\ line'.at = clock
            /\ handed'[k] = line'
        BY <1>2, <3>1, LoggedLine
      <4> QED BY <1>0, <4>1
    <3>2. CASE k # Len(handed) + 1
      <4>1. k \in DOMAIN handed /\ handed'[k] = handed[k]
        BY <1>0, <1>2, <3>2, LoggedLine
      <4> QED BY <1>0, <4>1
    <3> QED BY <3>1, <3>2
  <2> QED BY <1>2, <2>1, <2>2, LoggedLine DEF DailyTimes
<1>3. CASE OpenDay \/ Write \/ Flush \/ End \/ Start \/ UNCHANGED vars
  <2>1. handed' = handed /\ clock' = clock
    BY <1>3 DEF OpenDay, Write, Flush, End, Start, vars, history
  <2>2. Busy' => Busy
    <3>1. CASE OpenDay
      BY <3>1 DEF OpenDay, Busy
    <3>2. CASE Write \/ Flush \/ End \/ Start
      BY <3>2 DEF Write, Flush, End, Start, Busy
    <3>3. CASE UNCHANGED vars
      BY <3>3 DEF vars, Busy
    <3> QED BY <1>3, <3>1, <3>2, <3>3
  <2> QED BY <2>1, <2>2 DEF DailyTimes, line
<1> QED BY <1>1, <1>2, <1>3, DailySteps

(* The sink is closed only behind a line that failed to open a file, and   *)
(* opens one with the next line that is not older.                         *)
LEMMA DailyControlNext ==
    ASSUME FilesTyped, kind = "daily", DailyTimes, DailyControl, [Next]_vars
    PROVE  DailyControl'
<1>0. /\ clock \in Nat /\ Len(handed) \in Nat
      /\ DOMAIN handed = 1 .. Len(handed)
      /\ \A k \in DOMAIN handed : handed[k].time \in Nat
      /\ rotation_tp \in Nat
      /\ Busy => /\ line = handed[Len(handed)] /\ line \in Lines
                 /\ line.time \in Nat
                 /\ Len(handed) \in DOMAIN handed
  BY FileShapes DEF FilesTyped
<1>1. CASE Tick \/ UNCHANGED vars
  <2>1. /\ pc' = pc /\ fd' = fd /\ rotation_tp' = rotation_tp
        /\ restarts' = restarts
        /\ handed' = handed \/ Tick
    BY <1>1 DEF Tick, vars, history
  <2>2. Len(handed') = Len(handed)
    BY <2>1, TickHanded
  <2>3. pc \in {"open", "write"} => line'.time = line.time
    BY HandedKept DEF Busy
  <2> QED BY <1>0, <2>1, <2>2, <2>3, HandedKept DEF DailyControl
<1>2. ASSUME NEW size \in Sizes, NEW delay \in 0 .. MaxDelay,
             Log(size, clock - delay)
      PROVE  DailyControl'
  <2>1. /\ rotation_tp' = rotation_tp /\ pc = "idle"
        /\ pc' = IF clock - delay >= rotation_tp THEN "open" ELSE "write"
        /\ pc' = "write" => fd' = fd
    BY <1>2, LoggedState
  <2>2. /\ pc' = "open" => line'.time >= rotation_tp'
        /\ pc' = "write" => line'.time < rotation_tp'
    BY <1>0, <1>2, <2>1, LoggedLine
  <2>3. ASSUME pc' = "write", fd = Closed
        PROVE  \E k \in DOMAIN handed' : /\ handed'[k].time >= rotation_tp'
                                         /\ k < Len(handed')
    <3>1. PICK k \in DOMAIN handed : handed[k].time >= rotation_tp
      BY <2>1, <2>3 DEF DailyControl
    <3>2. /\ k \in DOMAIN handed' /\ handed'[k] = handed[k]
          /\ k < Len(handed')
      BY <1>0, <1>2, <3>1, LoggedLine
    <3> QED BY <2>1, <3>1, <3>2
  <2>4. ASSUME pc' = "open"
        PROVE  \E k \in DOMAIN handed' : handed'[k].time >= rotation_tp'
    <3>1. Len(handed) + 1 \in DOMAIN handed' /\ line' = handed'[Len(handed) + 1]
      BY <1>0, <1>2, LoggedLine
    <3> QED BY <2>2, <2>4, <3>1
  <2> QED BY <2>1, <2>2, <2>3, <2>4 DEF DailyControl
<1>3. CASE OpenDay
  <2>1. /\ pc = "open" /\ handed' = handed /\ line.time >= rotation_tp
        /\ Day(line.time) \in Nat /\ truncate \in BOOLEAN
        /\ Len(handed) \in DOMAIN handed /\ line = handed[Len(handed)]
    <3>1. pc = "open" /\ handed' = handed
      BY <1>3 DEF OpenDay, history
    <3>2. line.time \in Nat /\ Len(handed) \in DOMAIN handed
          /\ line = handed[Len(handed)]
      BY <1>0, <3>1 DEF Busy
    <3> QED BY <3>1, <3>2, DayFacts DEF DailyControl, FilesTyped
  <2>2. CASE Open(Day(line.time), truncate) /\ pc' = "write"
    <3>1. fd' # Closed
      BY <2>1, <2>2, OpenFacts
    <3> QED BY <2>2, <3>1 DEF DailyControl
  <2>3. CASE pc' = "idle"
    <3>1. rotation_tp' = rotation_tp
      BY <1>3, <2>3 DEF OpenDay
    <3> QED BY <1>0, <2>1, <2>3, <3>1 DEF DailyControl
  <2> QED BY <1>3, <2>2, <2>3 DEF OpenDay, OpenOrThrow
<1>4. CASE Write \/ Flush
  <2>1. pc' = "idle" /\ fd' # Closed
    BY <1>4 DEF Write, Flush
  <2> QED BY <2>1 DEF DailyControl
<1>5. CASE End
  <2>1. pc' = "down" /\ restarts' = restarts + 1 /\ restarts \in Nat
    BY <1>5 DEF End, FilesTyped
  <2>2. restarts' > 0
    BY <2>1
  <2> QED BY <2>1, <2>2 DEF DailyControl
<1>6. CASE Start
  <2>1. pc' = "idle" /\ Open(Day(clock), truncate) /\ Day(clock) \in Nat
        /\ truncate \in BOOLEAN
    BY <1>0, <1>6, DayFacts DEF Start, FilesTyped
  <2>2. fd' # Closed
    BY <2>1, OpenFacts
  <2> QED BY <2>1, <2>2 DEF DailyControl
<1> QED BY <1>1, <1>2, <1>3, <1>4, <1>5, <1>6, DailySteps

(* While every line is handled on its own day, the open file is not one of *)
(* a day to come, and the line at hand belongs to it.                      *)
LEMMA DailyFilesNext ==
    ASSUME FilesTyped, FilesTyped', kind = "daily", DailyTimes, DailyTimes',
           DailyControl, DailyFiles, [Next]_vars
    PROVE  DailyFiles'
<1> SUFFICES ASSUME OnOwnDay' PROVE DailyFiles'
  BY DEF DailyFiles
<1>0. /\ clock \in Nat /\ rotation_tp \in Nat /\ rotation_time \in Nat
      /\ rotation_time \in 0 .. DayLength - 1
      /\ DayLength \in Nat /\ DayLength > 0
      /\ clock <= clock' /\ clock' \in Nat
      /\ DOMAIN files \subseteq Nat /\ truncate \in BOOLEAN
      /\ rotation_time' = rotation_time
  <2>1. rotation_time' = rotation_time
    BY DEF Next, vars, config, Tick, Log, RotateStep, Rename, RotateEnd,
           OpenDay, Write, Flush, End, Start
  <2> QED BY <2>1, FileShapes, FileParameters, HandedKept DEF FilesTyped
<1>1. OnOwnDay
  <2> SUFFICES ASSUME NEW k \in DOMAIN handed
               PROVE  Day(handed[k].time) = Day(handed[k].at)
    BY DEF OnOwnDay, Range
  <2>1. /\ handed[k].time \in Nat /\ handed[k].at \in Nat
        /\ handed[k].time <= handed[k].at
    BY FileShapes DEF DailyTimes
  <2>2. /\ k \in DOMAIN handed' /\ handed'[k].time = handed[k].time
        /\ handed[k].at <= handed'[k].at
    BY HandedKept
  <2>3. handed'[k].at \in Nat
    <3>1. handed'[k] \in Lines
      BY <2>2, ElementOfSeq, LenProperties DEF FilesTyped
    <3> QED BY <3>1 DEF Lines
  <2>4. Day(handed'[k].time) = Day(handed'[k].at)
    BY <2>2 DEF OnOwnDay, Range
  <2>5. /\ Day(handed[k].time) <= Day(handed[k].at)
        /\ Day(handed[k].at) <= Day(handed[k].time)
    BY <2>1, <2>2, <2>3, <2>4, DaysInOrder
  <2>6. Day(handed[k].time) \in Nat /\ Day(handed[k].at) \in Nat
    BY <2>1, DayFacts
  <2> QED BY <2>5, <2>6
<1>2. /\ fd # Closed => /\ fd * DayLength <= clock
                        /\ rotation_tp <= EndOf(fd)
                        /\ pc = "write" => line.time < EndOf(fd)
      /\ \A d \in DOMAIN files : \A l \in Range(files[d]) :
            d * DayLength <= l.time /\ l.time < EndOf(d)
  BY <1>1 DEF DailyFiles
<1>3. ASSUME Busy
      PROVE  /\ line \in Lines /\ line.time \in Nat /\ line.time <= clock
             /\ Day(line.time) = Day(clock)
             /\ Day(line.time) \in Nat
             /\ Day(line.time) * DayLength <= line.time
             /\ line.time < EndOf(Day(line.time))
             /\ Day(line.time) * DayLength <= clock
  <2>1. /\ line \in Lines /\ line.time \in Nat /\ line.time <= clock
        /\ line.at = clock /\ line \in Range(handed)
    <3>1. line = handed[Len(handed)] /\ Len(handed) \in DOMAIN handed
      BY <1>3, FileShapes
    <3> QED BY <1>3, <3>1, FileShapes DEF DailyTimes, Range
  <2>2. Day(line.time) = Day(clock)
    BY <1>1, <2>1 DEF OnOwnDay
  <2> DEFINE d == Day(line.time)
             x == d * DayLength
             y == (d + 1) * DayLength
  <2>3. /\ d \in Nat /\ x \in Nat /\ x <= line.time /\ y = x + DayLength
        /\ line.time < x + DayLength
    BY <2>1, DayFacts, DaysGrow
  <2> HIDE DEF x, y, d
  <2>4. line.time < y + rotation_time /\ x <= clock
    BY <1>0, <2>1, <2>3
  <2> QED BY <2>1, <2>2, <2>3, <2>4 DEF x, y, d, EndOf
<1>4. \A d \in DOMAIN files' : \A l \in Range(files'[d]) :
         d * DayLength <= l.time /\ l.time < EndOf(d)'
  <2> SUFFICES ASSUME NEW d \in DOMAIN files', NEW a \in DOMAIN files'[d]
               PROVE  /\ d * DayLength <= files'[d][a].time
                      /\ files'[d][a].time < EndOf(d)
    BY <1>0 DEF Range, EndOf
  <2>0. ASSUME d \in DOMAIN files, NEW b \in DOMAIN files[d],
               files'[d][a].time = files[d][b].time
        PROVE  /\ d * DayLength <= files'[d][a].time
               /\ files'[d][a].time < EndOf(d)
    BY <1>2, <2>0 DEF Range
  <2>1. CASE Shrinking
    <3>1. files'[d] # <<>>
      OBVIOUS
    <3>2. d \in DOMAIN files /\ Begins(files'[d], files[d])
      BY <2>1, <3>1 DEF Shrinking
    <3>3. a \in DOMAIN files[d] /\ files'[d][a].time = files[d][a].time
      <4>1. /\ DOMAIN files[d] = 1 .. Len(files[d]) /\ Len(files[d]) \in Nat
            /\ Len(files'[d]) \in Nat /\ Len(files'[d]) <= Len(files[d])
            /\ a \in 1 .. Len(files'[d])
            /\ files'[d][a].time = files[d][a].time
        BY <3>2, FileShapes DEF Begins
      <4> DEFINE m == Len(files'[d])
                 n == Len(files[d])
      <4>2. m \in Nat /\ n \in Nat /\ m <= n /\ a \in 1 .. m
        BY <4>1
      <4> HIDE DEF m, n
      <4>3. a \in 1 .. n
        BY <4>2
      <4> QED BY <4>1, <4>3 DEF n
    <3> QED BY <2>0, <3>2, <3>3
  <2>2. CASE Write
    <3>1. /\ d \in DOMAIN files /\ pc = "write" /\ fd # Closed
          /\ d # fd => files'[d] = files[d]
          /\ Begins(files'[fd], Append(files[fd], line))
          /\ Len(Append(files[fd], line)) = Len(files[fd]) + 1
          /\ \A b \in 1 .. Len(files[fd]) :
                Append(files[fd], line)[b] = files[fd][b]
          /\ Append(files[fd], line)[Len(files[fd]) + 1] = line
      BY <2>2, WriteFacts
    <3>2. CASE d # fd
      BY <2>0, <3>1, <3>2
    <3>3. CASE d = fd /\ files'[d][a].time = line.time
      <4>1. /\ fd \in Nat /\ fd * DayLength <= clock /\ line.time < EndOf(fd)
            /\ Busy
        BY <1>0, <1>2, <3>1, <3>3 DEF Busy
      <4>2. fd <= Day(clock)
        BY <1>0, <4>1, DaysInOrder
      <4>3. fd * DayLength <= Day(line.time) * DayLength
        BY <1>3, <4>1, <4>2, DaysGrow
      <4> DEFINE x == fd * DayLength
                 y == Day(line.time) * DayLength
      <4>4. x \in Nat /\ y \in Nat /\ x <= y /\ y <= line.time
        BY <1>3, <4>1, <4>3, DaysGrow
      <4> HIDE DEF x, y
      <4>5. x <= line.time
        BY <1>3, <4>1, <4>4
      <4> QED BY <3>3, <4>1, <4>5 DEF x
    <3>4. CASE d = fd
      <4> DEFINE longer == Append(files[fd], line)
                 n == Len(files[fd])
                 m == Len(files'[fd])
      <4>1. /\ DOMAIN files[fd] = 1 .. n /\ n \in Nat
            /\ m \in Nat /\ m <= n + 1 /\ a \in 1 .. m
            /\ files'[fd][a].time = longer[a].time
        BY <3>1, <3>4, FileShapes DEF Begins
      <4>2. /\ \A b \in 1 .. n : longer[b] = files[fd][b]
            /\ longer[n + 1] = line
        BY <3>1
      <4> HIDE DEF longer, n, m
      <4>3. a \in 1 .. n \/ a = n + 1
        BY <4>1
      <4>4. CASE a \in 1 .. n
        BY <2>0, <3>1, <3>4, <4>1, <4>2, <4>4
      <4>5. CASE a = n + 1
        BY <3>3, <3>4, <4>1, <4>2, <4>5
      <4> QED BY <4>3, <4>4, <4>5
    <3> QED BY <3>2, <3>4
  <2>3. ~Shifting
    BY DEF Shifting, Rename, FilesTyped, Rotating
  <2> QED BY <2>1, <2>2, <2>3, ShrinkingSteps
<1>5. ASSUME fd' # Closed
      PROVE  /\ fd' * DayLength <= clock'
             /\ rotation_tp' <= EndOf(fd')
             /\ pc' = "write" => line'.time < EndOf(fd')
  <2> DEFINE Good == /\ fd' * DayLength <= clock'
                     /\ rotation_tp' <= EndOf(fd')
                     /\ pc' = "write" => line'.time < EndOf(fd')
  <2>1. CASE Tick \/ Write \/ Flush \/ UNCHANGED vars
    <3>1. /\ fd' = fd /\ rotation_tp' = rotation_tp
          /\ pc' = "write" => pc = "write"
      BY <2>1 DEF Tick, Write, Flush, vars
    <3>2. fd \in Nat /\ fd * DayLength \in Nat
      BY <1>0, <1>5, <3>1, DaysGrow DEF FilesTyped
    <3>3. fd * DayLength <= clock'
      <4> DEFINE x == fd * DayLength
      <4>1. x \in Nat /\ x <= clock
        BY <1>2, <1>5, <3>1, <3>2
      <4> HIDE DEF x
      <4>2. x <= clock'
        BY <1>0, <4>1
      <4> QED BY <4>2 DEF x
    <3>4. rotation_tp' <= EndOf(fd')
      BY <1>2, <1>5, <3>1
    <3>5. pc' = "write" => line'.time < EndOf(fd')
      <4> SUFFICES ASSUME pc' = "write" PROVE line'.time < EndOf(fd')
        OBVIOUS
      <4>1. pc = "write" /\ Busy
        BY <3>1 DEF Busy
      <4>2. line'.time = line.time
        BY <4>1, HandedKept
      <4> QED BY <1>2, <1>5, <3>1, <4>1, <4>2
    <3> QED BY <3>1, <3>3, <3>4, <3>5
  <2>2. ASSUME NEW size \in Sizes, NEW delay \in 0 .. MaxDelay,
               Log(size, clock - delay)
        PROVE  Good
    <3>1. /\ rotation_tp' = rotation_tp /\ clock' = clock
          /\ fd' = fd /\ pc' = "write" /\ ~(clock - delay >= rotation_tp)
      <4>1. /\ rotation_tp' = rotation_tp /\ clock' = clock
            /\ pc' = IF clock - delay >= rotation_tp THEN "open" ELSE "write"
            /\ (fd' = fd /\ pc' = "write") \/ fd' = Closed
        BY <2>2, LoggedState
      <4> QED BY <1>5, <4>1
    <3>2. fd' * DayLength <= clock' /\ rotation_tp' <= EndOf(fd')
      BY <1>2, <1>5, <3>1
    <3>3. line'.time < EndOf(fd')
      <4>1. line'.time \in Nat /\ line'.time < rotation_tp
        BY <1>0, <2>2, <3>1, LoggedLine
      <4>2. EndOf(fd) \in Nat
        <5>0. fd \in Nat
          BY <1>0, <1>5, <3>1 DEF FilesTyped
        <5>1. fd \in Nat /\ fd + 1 \in Nat
          BY <5>0
        <5>2. (fd + 1) * DayLength \in Nat
          BY <5>1, DaysGrow
        <5> QED BY <1>0, <5>2 DEF EndOf
      <4>3. rotation_tp <= EndOf(fd)
        BY <3>1, <3>2
      <4> QED BY <1>0, <3>1, <4>1, <4>2, <4>3
    <3> QED BY <3>2, <3>3
  <2>3. CASE OpenDay
    <3>1. /\ pc = "open" /\ clock' = clock /\ line' = line /\ Busy
      BY <2>3 DEF OpenDay, history, line, Busy
    <3>2. /\ fd' = Day(line.time)
          /\ rotation_tp' = NextRotation(clock, rotation_time)
      <4>1. Day(line.time) \in Nat
        BY <1>3, <3>1
      <4>2. CASE Open(Day(line.time), truncate) /\ pc' = "write"
        BY <1>0, <2>3, <4>1, <4>2, OpenFacts DEF OpenDay
      <4>3. CASE UNCHANGED fd
        BY <1>5, <3>1, <4>3 DEF FilesTyped
      <4> QED BY <2>3, <4>2, <4>3 DEF OpenDay, OpenOrThrow
    <3>3. rotation_tp' <= EndOf(fd')
      BY <1>0, <1>3, <3>1, <3>2, NextRotationFacts DEF EndOf
    <3> QED BY <1>3, <3>1, <3>2, <3>3
  <2>4. CASE Start
    <3>1. /\ pc' = "idle" /\ clock' = clock
          /\ fd' = Day(clock)
          /\ rotation_tp' = NextRotation(clock, rotation_time)
      <4>1. Day(clock) \in Nat
        BY <1>0, DayFacts
      <4> QED BY <1>0, <2>4, <4>1, OpenFacts DEF Start
    <3>2. rotation_tp' <= EndOf(fd')
      BY <1>0, <3>1, NextRotationFacts DEF EndOf
    <3> QED BY <1>0, <3>1, <3>2, DayFacts
  <2>5. ~End
    BY <1>5 DEF End, CloseFile
  <2>6. (\E size \in Sizes, delay \in 0 .. MaxDelay : Log(size, clock - delay))
          => Good
    BY <2>2
  <2>7. (Tick \/ OpenDay \/ Write \/ Flush \/ Start \/ UNCHANGED vars) => Good
    BY <2>1, <2>3, <2>4
  <2>8. Good
    <3> HIDE DEF Good
    <3> QED BY <2>5, <2>6, <2>7, DailySteps
  <2> QED BY <2>8
<1> QED BY <1>0, <1>4, <1>5 DEF DailyFiles, EndOf

(* What a step can do to the daily sink's files and to its rotation.       *)
LEMMA DailyDirectorySteps ==
    ASSUME FilesTyped, kind = "daily", [Next]_vars
    PROVE  \/ UNCHANGED <<files, written, rotation_tp>>
           \/ Losing /\ rotation_tp' = rotation_tp
           \/ Write
           \/ OpenDay /\ Open(Day(line.time), truncate) /\ pc' = "write"
           \/ Start
<1>1. CASE Tick \/ UNCHANGED vars
  BY <1>1 DEF Tick, vars, history
<1>2. ASSUME NEW size \in Sizes, NEW delay \in 0 .. MaxDelay,
             Log(size, clock - delay)
      PROVE  \/ UNCHANGED <<files, written, rotation_tp>>
             \/ Losing /\ rotation_tp' = rotation_tp
  <2>1. /\ UNCHANGED <<rotation_tp, written, restarts>>
        /\ files' = files \/ (Drain /\ fd' = Closed)
    BY <1>2, LoggedState
  <2> QED BY <2>1, DrainFacts DEF Losing
<1>3. CASE OpenDay
  BY <1>3 DEF OpenDay, OpenOrThrow, history
<1>4. CASE Flush
  <2>1. /\ UNCHANGED <<fd, rotation_tp, written, restarts>> /\ Drain
        /\ faults' # faults => safe' = safe
    BY <1>4 DEF Flush
  <2>2. Fault => faults' # faults
    BY DEF Fault, FilesTyped
  <2> QED BY <2>1, <2>2, DrainFacts DEF Losing
<1>5. CASE End
  <2>1. /\ UNCHANGED <<rotation_tp, written>> /\ restarts' = restarts + 1
        /\ fd' = Closed
        /\ Drain \/ (LoseBuffer /\ flushed' = flushed)
    BY <1>5 DEF End, CloseFile
  <2> QED BY <2>1, DrainFacts, LoseFacts DEF Losing
<1> QED BY <1>1, <1>2, <1>3, <1>4, <1>5, DailySteps

(* What was kept is kept, if that is so of what the step drops.            *)
LEMMA KeptStays ==
    ASSUME FilesTyped, FilesTyped', Numbered, Buffer, [Next]_vars, Kept,
           Range(written') \subseteq Range(written) \cup OnDisk',
           \A m \in OnDisk \ OnDisk' :
              m \notin flushed' /\ (faults' = 0 => Lost(m)')
    PROVE  Kept'
<1> SUFFICES ASSUME NEW m \in Range(written'), m \notin OnDisk'
             PROVE  m \notin flushed' /\ (faults' = 0 => Lost(m)')
  BY DEF Kept
<1>1. m \in Range(written)
  OBVIOUS
<1>2. CASE m \in OnDisk
  BY <1>2
<1>3. CASE m \notin OnDisk
  <2>1. m \notin flushed /\ (faults = 0 => Lost(m))
    BY <1>1, <1>3 DEF Kept
  <2>2. m \notin flushed'
    BY <1>3, <2>1, OnDiskNext
  <2>3. faults' = 0 => faults = 0
    BY CountsGrow
  <2>4. m \in Lines
    BY <1>1, FileShapes DEF Range
  <2> QED BY <2>1, <2>2, <2>3, <2>4, LostStays
<1> QED BY <1>2, <1>3

(* A sink that does not truncate loses nothing but what was in a buffer;   *)
(* nor does one that does, if it changes its file at midnight and only     *)
(* then: the file of a new day is not there yet.                           *)
LEMMA DailyKeepsNext ==
    ASSUME FilesTyped, FilesTyped', kind = "daily", Numbered, Buffer,
           DailyTimes, DailyControl, DailyKeeps, [Next]_vars
    PROVE  DailyKeeps'
<1>0. /\ clock \in Nat /\ rotation_tp \in Nat /\ DayLength \in Nat
      /\ DOMAIN files \subseteq Nat /\ truncate \in BOOLEAN
      /\ rotation_time \in 0 .. DayLength - 1
      /\ truncate' = truncate /\ rotation_time' = rotation_time
      /\ written \in Seq(Lines) /\ OnDisk \subseteq Lines
      /\ restarts' = 0 => restarts = 0
  <2>1. truncate' = truncate /\ rotation_time' = rotation_time
    BY DEF Next, vars, config, Tick, Log, RotateStep, Rename, RotateEnd,
           OpenDay, Write, Flush, End, Start
  <2> QED BY <2>1, FileParameters, OnDiskNext, CountsGrow DEF FilesTyped
<1> DEFINE Past == \A d \in DOMAIN files : (d + 1) * DayLength <= rotation_tp
<1>1. CASE OpenDay /\ Open(Day(line.time), truncate) /\ pc' = "write"
  <2> DEFINE d == Day(line.time)
  <2>1. /\ line.time \in Nat /\ line.time <= clock /\ line.time >= rotation_tp
        /\ d \in Nat /\ written' = written
        /\ rotation_tp' = NextRotation(clock, rotation_time)
    <3>1. pc = "open" /\ Busy
      BY <1>1 DEF OpenDay, Busy
    <3>2. line \in Lines /\ line.time \in Nat /\ line.at = clock
      BY <3>1, FileShapes DEF DailyTimes
    <3>3. line.time <= clock /\ line.time >= rotation_tp
      <4>1. line = handed[Len(handed)] /\ Len(handed) \in DOMAIN handed
        BY <3>1, FileShapes
      <4> QED BY <3>1, <3>2, <4>1 DEF DailyTimes, DailyControl
    <3> QED BY <1>1, <3>2, <3>3, DayFacts DEF OpenDay, history
  <2> HIDE DEF d
  <2>2. ASSUME Past PROVE ~Exists(d)
    <3> SUFFICES ASSUME d \in DOMAIN files PROVE FALSE
      BY DEF Exists
    <3> DEFINE x == d * DayLength
               y == (d + 1) * DayLength
    <3>1. y <= rotation_tp
      BY <2>2
    <3>2. x \in Nat /\ y = x + DayLength /\ line.time < x + DayLength
      BY <2>1, DayFacts, DaysGrow DEF d
    <3> HIDE DEF x, y
    <3> QED BY <1>0, <2>1, <3>1, <3>2
  <2>3. ASSUME Kept, ~truncate \/ Past PROVE Kept'
    <3>1. OnDisk' = OnDisk
      BY <1>0, <1>1, <2>1, <2>2, <2>3, OpenKeeps DEF d
    <3> QED BY <2>1, <2>3, <3>1, KeptStays
  <2>4. ASSUME Past, rotation_time = 0 PROVE Past'
    <3> SUFFICES ASSUME NEW e \in DOMAIN files'
                 PROVE  (e + 1) * DayLength <= rotation_tp'
      OBVIOUS
    <3>1. /\ rotation_tp' = (Day(clock) + 1) * DayLength
          /\ rotation_tp' \in Nat /\ clock < rotation_tp'
      BY <1>0, <2>1, <2>4, NextRotationFacts
    <3>2. CASE e = d
      <4>1. d <= Day(clock) /\ Day(clock) \in Nat
        BY <1>0, <2>1, DaysInOrder, DayFacts DEF d
      <4>2. d + 1 \in Nat /\ Day(clock) + 1 \in Nat /\ d + 1 <= Day(clock) + 1
        BY <2>1, <4>1
      <4> QED BY <3>1, <3>2, <4>2, DaysGrow
    <3>3. CASE e \in DOMAIN files
      <4> DEFINE y == (e + 1) * DayLength
      <4>1. y <= rotation_tp
        BY <2>4, <3>3
      <4>2. y \in Nat
        <5>1. e + 1 \in Nat
          BY <1>0, <3>3
        <5> QED BY <5>1, DaysGrow
      <4> HIDE DEF y
      <4>3. y <= rotation_tp'
        BY <1>0, <2>1, <3>1, <4>1, <4>2
      <4> QED BY <4>3 DEF y
    <3>4. DOMAIN files' = DOMAIN files \cup {d}
      BY <1>0, <1>1, <2>1, OpenFacts DEF d
    <3> QED BY <3>2, <3>3, <3>4
  <2> HIDE DEF Past
  <2>5. /\ ~truncate => Kept'
        /\ truncate /\ rotation_time = 0 /\ restarts = 0 => Kept' /\ Past'
    BY <2>3, <2>4 DEF DailyKeeps, Past
  <2> QED BY <1>0, <2>5 DEF DailyKeeps, Past
<1>2. CASE Start
  <2>1. /\ Open(Day(clock), truncate) /\ Day(clock) \in Nat
        /\ written' = written /\ restarts' = restarts
    BY <1>0, <1>2, DayFacts DEF Start, history
  <2>2. ASSUME ~truncate PROVE Kept'
    <3>1. OnDisk' = OnDisk /\ Kept
      BY <1>0, <2>1, <2>2, OpenKeeps DEF DailyKeeps
    <3> QED BY <2>1, <3>1, KeptStays
  <2>3. restarts' # 0
    BY <1>2, <2>1 DEF Start, DailyControl
  <2> QED BY <1>0, <2>2, <2>3 DEF DailyKeeps
<1>3. CASE Write
  <2>1. /\ DOMAIN files' = DOMAIN files /\ rotation_tp' = rotation_tp
        /\ flushed' = flushed /\ line \in Lines
    BY <1>3, WriteFacts
  <2>2. Range(written') \subseteq Range(written) \cup OnDisk'
    <3>1. CASE written' = written
      BY <3>1
    <3>2. CASE written' = Append(written, line) /\ OnDisk' = OnDisk \cup {line}
      BY <1>0, <2>1, <3>2 DEF Range
    <3> QED BY <1>3, <3>1, <3>2, WriteOnDisk
  <2>3. \A m \in OnDisk \ OnDisk' : m \notin flushed' /\ faults' # 0
    BY <1>3, <2>1, WriteOnDisk, CountsGrow
  <2>4. Kept => Kept'
    BY <2>2, <2>3, KeptStays
  <2> QED BY <1>0, <2>1, <2>4 DEF DailyKeeps
<1>4. CASE Losing /\ rotation_tp' = rotation_tp
  <2>1. /\ fd # Closed /\ LoseBuffer /\ written' = written /\ flushed' = flushed
        /\ DOMAIN files' = DOMAIN files
        /\ Fault \/ restarts' = restarts + 1
    BY <1>4, LoseFacts DEF Losing
  <2>2. ASSUME NEW m \in OnDisk, m \notin OnDisk'
        PROVE  m \notin flushed' /\ (faults' = 0 => Lost(m)')
    <3>1. /\ m.run = restarts /\ m \notin flushed
          /\ \A k \in OnDisk' : k.n <= m.n
      BY <2>1, <2>2, LosingFacts
    <3>2. ASSUME faults' = 0 PROVE m.run < restarts'
      <4>1. restarts' = restarts + 1 /\ restarts \in Nat
        BY <2>1, <3>2, CountsGrow DEF FilesTyped
      <4> QED BY <3>1, <4>1
    <3> QED BY <2>1, <2>2, <3>1, <3>2 DEF Lost
  <2>3. Kept => Kept'
    BY <2>1, <2>2, KeptStays
  <2> QED BY <1>0, <1>4, <2>1, <2>3 DEF DailyKeeps
<1>5. CASE UNCHANGED <<files, written, rotation_tp>>
  <2>1. OnDisk' = OnDisk
    BY <1>5 DEF OnDisk
  <2>2. Kept => Kept'
    BY <1>5, <2>1, KeptStays
  <2> QED BY <1>0, <1>5, <2>2 DEF DailyKeeps
<1> QED BY <1>1, <1>2, <1>3, <1>4, <1>5, DailyDirectorySteps

(* The daily sink's invariant holds at first.                              *)
LEMMA DailyInit == Init => Daily
<1> SUFFICES ASSUME Init, kind = "daily"
             PROVE  DailyControl /\ DailyTimes /\ DailyFiles /\ DailyKeeps
  BY DEF Daily
<1>1. /\ pc = "idle" /\ fd = 0 /\ DOMAIN files = {0} /\ files[0] = <<>>
      /\ DOMAIN files[0] = {} /\ clock = 0 /\ clock \in Nat
      /\ DOMAIN handed = {} /\ DOMAIN written = {}
      /\ rotation_time \in 0 .. DayLength - 1
      /\ rotation_tp = NextRotation(0, rotation_time)
  BY FileParameters DEF Init
<1>2. Range(written) = {}
  BY <1>1 DEF Range
<1>3. Day(0) = 0
  <2> DEFINE D == DayLength
  <2>1. D \in Nat /\ D > 0 /\ Day(0) = 0 \div D
    BY FileParameters DEF Day
  <2> HIDE DEF D
  <2>2. 0 \div D = 0
    BY <2>1
  <2> QED BY <2>1, <2>2
<1>4. /\ rotation_tp <= EndOf(0)
      /\ rotation_time = 0 => (0 + 1) * DayLength <= rotation_tp
  <2> DEFINE y == (0 + 1) * DayLength
  <2>1. /\ rotation_tp <= y + rotation_time
        /\ rotation_time = 0 => rotation_tp = y
    BY <1>1, <1>3, NextRotationFacts
  <2>2. y \in Nat
    <3>1. 0 + 1 \in Nat
      OBVIOUS
    <3> QED BY <3>1, DaysGrow
  <2>3. rotation_time = 0 => y <= rotation_tp
    <3> HIDE DEF y
    <3> QED BY <2>1, <2>2
  <2> QED BY <2>1, <2>3 DEF EndOf
<1>5. DailyControl /\ DailyTimes
  BY <1>1 DEF DailyControl, DailyTimes, Closed, Busy
<1>6. DailyFiles
  <2>1. 0 * DayLength <= 0
    BY FileParameters
  <2>2. \A d \in DOMAIN files : Range(files[d]) = {}
    BY <1>1 DEF Range
  <2> QED BY <1>1, <1>4, <2>1, <2>2 DEF DailyFiles
<1>7. DailyKeeps
  BY <1>1, <1>2, <1>4 DEF DailyKeeps, Kept
<1> QED BY <1>5, <1>6, <1>7

(* Every step keeps it.                                                    *)
LEMMA DailyNext ==
    ASSUME FilesTyped, FilesTyped', Numbered, Buffer, Daily, [Next]_vars
    PROVE  Daily'
<1>1. kind' = kind
  BY RotatingSteps
<1> SUFFICES ASSUME kind = "daily"
             PROVE  (DailyControl /\ DailyTimes /\ DailyFiles /\ DailyKeeps)'
  BY <1>1 DEF Daily
<1>2. DailyControl /\ DailyTimes /\ DailyFiles /\ DailyKeeps
  BY DEF Daily
<1>3. DailyTimes'
  BY <1>2, DailyTimesNext
<1>4. DailyControl'
  BY <1>2, DailyControlNext
<1>5. DailyFiles'
  BY <1>2, <1>3, DailyFilesNext
<1>6. DailyKeeps'
  BY <1>2, DailyKeepsNext
<1> QED BY <1>3, <1>4, <1>5, <1>6

------------------------------------------------------------------------------
(* The theorems                                                            *)

(* The inductive invariant of the sinks: types, the numbers of the lines,  *)
(* what may be in the buffer, and what each of the sinks keeps true        *)
(* between any two of its steps, whatever fails and wherever the process   *)
(* ends.                                                                   *)
THEOREM SinksKeepTheirInvariant == Spec => []FilesInductive
<1>1. Init => FilesInductive
  BY FilesInitType, RotationInit, DailyInit DEF FilesInductive
<1>2. FilesInductive /\ [Next]_vars => FilesInductive'
  <2> SUFFICES ASSUME FilesTyped, Numbered, Buffer, Rotation, Daily,
                      [Next]_vars
               PROVE  FilesInductive'
    BY DEF FilesInductive
  <2>1. FilesTyped'
    BY FilesTypedNext
  <2> QED BY <2>1, NumberedNext, BufferNext, RotationNext, DailyNext
          DEF FilesInductive
<1> QED BY <1>1, <1>2, PTL DEF Spec

(* A rotated log is, from the highest index to the base file, an end of    *)
(* what was written: in order, no file too large, and without failures     *)
(* with no line left out, but the last ones of a process that ended before *)
(* they were flushed, and none dropped but from behind, when every index   *)
(* is in use.                                                              *)
THEOREM RotationIsSound == Spec => []RotationKeepsTheNewest
<1>1. FilesInductive => RotationKeepsTheNewest
  <2> SUFFICES ASSUME FilesInductive, kind = "rotating"
               PROVE  RotationKeepsTheNewest
    BY DEF RotationKeepsTheNewest
  <2>1. RotationControl /\ RotationSizes /\ InOrder /\ RotationKeeps
    BY DEF FilesInductive, Rotation
  <2>2. pc \notin {"rotate", "rename"} => \A f : ~InTransit(f)
    BY DEF InTransit, Rotating
  <2>3. faults = 0 /\ restarts = 0 /\ pc \notin {"rotate", "rename"} =>
           OnDisk = Range(written) \/ \A f \in 0 .. max_files : Exists(f)
    BY <2>1, <2>2 DEF RotationKeeps
  <2>4. faults = 0 =>
           \A l \in OnDisk :
               /\ \A m \in Range(written) :
                     l.n < m.n => m \in OnDisk \/ Lost(m)
               /\ \/ l \in Range(written)
                  \/ \E m \in Range(written) : Lost(m) /\ l \in Torn(m)
    BY <2>1 DEF RotationKeeps, Newest, Whole
  <2>5. /\ DOMAIN files \subseteq 0 .. max_files
        /\ \A f \in DOMAIN files :
              SizeOf(files[f]) <= max_size \/ Len(files[f]) = 1
    BY <2>1 DEF RotationControl, RotationSizes
  <2> QED BY <2>1, <2>3, <2>4, <2>5 DEF RotationKeepsTheNewest
<1> QED BY <1>1, SinksKeepTheirInvariant, PTL

(* Lines handled on their own day are in the file of that day, or, before  *)
(* that day's rotation, in the one of the day before; and nothing that was *)
(* flushed is lost but by truncation after a restart or at another time of *)
(* day, and of the rest, without failures, only the last lines of a        *)
(* process.                                                                *)
THEOREM DailySinkIsFaithful == Spec => []DailyFilesFaithful
<1>1. FilesInductive => DailyFilesFaithful
  <2> SUFFICES ASSUME FilesInductive, kind = "daily"
               PROVE  DailyFilesFaithful
    BY DEF DailyFilesFaithful
  <2>1. DailyFiles /\ DailyKeeps /\ truncate \in BOOLEAN
    BY DEF FilesInductive, FilesTyped, Daily
  <2>2. OnOwnDay =>
           \A d \in DOMAIN files : \A l \in Range(files[d]) :
              /\ d * DayLength <= l.time
              /\ l.time < (d + 1) * DayLength + rotation_time
    BY <2>1 DEF DailyFiles, EndOf
  <2>3. ~truncate \/ (rotation_time = 0 /\ restarts = 0) => Kept
    BY <2>1 DEF DailyKeeps
  <2> QED BY <2>2, <2>3 DEF DailyFilesFaithful, OnOwnDay, Kept
<1> QED BY <1>1, SinksKeepTheirInvariant, PTL

(* The sink writes with no file open only when it is the daily one, closed *)
(* behind a line that failed to open a file, and given a line older than   *)
(* that.                                                                   *)
THEOREM NoWriteToAClosedFile == Spec => []WritesHaveAFile
<1>1. FilesInductive => WritesHaveAFile
  <2> SUFFICES ASSUME FilesInductive, pc = "write", fd = Closed
               PROVE  WritesHaveAFile
    BY DEF WritesHaveAFile
  <2>1. kind = "daily" /\ DailyControl /\ rotation_tp \in Nat
    BY DEF FilesInductive, FilesTyped, Rotation, RotationControl, Daily, Closed
  <2>2. /\ Len(handed) \in Nat /\ Len(handed) \in DOMAIN handed
        /\ DOMAIN handed = 1 .. Len(handed)
        /\ line = handed[Len(handed)] /\ line.time \in Nat
        /\ \A k \in DOMAIN handed : handed[k].time \in Nat
    BY FileShapes DEF FilesInductive, Busy
  <2>3. line.time < rotation_tp
    BY <2>1 DEF DailyControl
  <2>4. PICK k \in DOMAIN handed :
           handed[k].time >= rotation_tp /\ k < Len(handed)
    BY <2>1 DEF DailyControl
  <2>5. handed[Len(handed)].time < handed[k].time
    BY <2>1, <2>2, <2>3, <2>4
  <2> QED BY <2>1, <2>2, <2>4, <2>5 DEF WritesHaveAFile
<1> QED BY <1>1, SinksKeepTheirInvariant, PTL

==============================================================================
