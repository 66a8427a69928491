-------------------------- MODULE LogPattern_proof --------------------------
(***************************************************************************)
(* Theorems about LogPattern, for any number of sinks, any patterns, any   *)
(* times and any length of a text.                                         *)
(***************************************************************************)
EXTENDS LogPattern, SequenceTheorems, WellFoundedInduction, TLAPS

(* What is in a line, in a compiled pattern, and in the formatter's states. *)
Names == {"char", "text", "wday", "mon", "mday", "year", "hour", "min", "sec", "gmtoff",
          "logger_name", "level", "thread_id", "pid", "msg_id", "fraction", "seconds"}
Items == Names \X (Characters \cup Nat)
Texts == Seq(Items)
Tokens == [flag : Flags] \cup [char : Characters]
CompilerStates == [flag : BOOLEAN, to : Seq(Tokens)]

Formatters == [formatters : Seq(Tokens), last_log_secs : Nat, cached_tm : Nat,
               cache_timestamp : Nat, cached_datetime : Texts]
Msgs == [id : Nat, secs : Nat, length : Nat, start : Nat, end : Nat, sinks : Nat]

(* The printed date that %+ keeps is of the second it is kept for.         *)
DatetimeIsCached(f) ==
    f.cached_datetime # <<>> =>
        f.cached_datetime = FromTm(f.cache_timestamp, Datetime)

(* While a record is printed the broken-down time is of its second.        *)
FormatStates(tokens, secs) ==
    {st \in [f : Formatters, dest : Texts, start : Nat, end : Nat] :
        /\ st.f.formatters = tokens
        /\ st.f.last_log_secs = secs /\ st.f.cached_tm = secs
        /\ DatetimeIsCached(st.f)}

------------------------------------------------------------------------------
(* The recursive functions of the model satisfy their equations            *)

(* Induction over the naturals, for a set instead of a predicate.          *)
LEMMA InductionOnNat ==
    ASSUME NEW S, 0 \in S, \A n \in Nat : n \in S => n + 1 \in S
    PROVE  Nat \subseteq S
<1> DEFINE T == Nat \ S
           R == OpToRel(<, Nat)
<1> SUFFICES ASSUME T # {} PROVE FALSE
  OBVIOUS
<1>1. IsWellFoundedOn(R, Nat) /\ T \subseteq Nat
  BY NatLessThanWellFounded
<1>2. PICK m \in T : \A k \in T : ~(<<k, m>> \in R)
  <2> HIDE DEF R, T
  <2> QED BY <1>1, WFMin
<1>3. \A k \in T : ~(k < m)
  BY <1>2 DEF OpToRel
<1>4. m # 0 /\ m - 1 \in Nat /\ m - 1 < m /\ (m - 1) + 1 = m
  OBVIOUS
<1>5. m - 1 \in S
  BY <1>3, <1>4
<1> QED BY <1>4, <1>5

(* The functions that a first value and a step define on the first N      *)
(* numbers.                                                                *)
StepsOn(N, X) == [(1 .. N) \X X -> X]
Runs(t, N, X, base, step) ==
    /\ t \in [0 .. N -> X] /\ t[0] = base
    /\ \A k \in 1 .. N : t[k] = step[<<k, t[k - 1]>>]

(* There is one for any first value and any step.                          *)
LEMMA RecursionExists ==
    ASSUME NEW N \in Nat, NEW X, NEW base \in X, NEW step \in StepsOn(N, X)
    PROVE  \E t : Runs(t, N, X, base, step)
<1> DEFINE S == {m \in Nat : m <= N => \E t : Runs(t, m, X, base, step)}
<1>1. 0 \in S
  <2> DEFINE t == [k \in 0 .. 0 |-> base]
  <2>1. Runs(t, 0, X, base, step)
    BY DEF Runs
  <2> QED BY <2>1
<1>2. ASSUME NEW m \in Nat, m \in S PROVE m + 1 \in S
  <2> SUFFICES ASSUME m + 1 <= N PROVE \E u : Runs(u, m + 1, X, base, step)
    OBVIOUS
  <2>1. PICK t : Runs(t, m, X, base, step)
    BY <1>2
  <2>2. /\ t \in [0 .. m -> X] /\ t[0] = base
        /\ \A k \in 1 .. m : t[k] = step[<<k, t[k - 1]>>]
    BY <2>1 DEF Runs
  <2> DEFINE u == [k \in 0 .. m + 1 |-> IF k = m + 1 THEN step[<<m + 1, t[m]>>] ELSE t[k]]
  <2>3. step[<<m + 1, t[m]>>] \in X
    BY <2>2 DEF StepsOn
  <2>4. u \in [0 .. m + 1 -> X]
    BY <2>2, <2>3
  <2>5. (\A k \in 0 .. m : u[k] = t[k]) /\ u[m + 1] = step[<<m + 1, t[m]>>]
    OBVIOUS
  <2> HIDE DEF u
  <2>6. u[0] = base
    BY <2>2, <2>5
  <2>7. ASSUME NEW k \in 1 .. m + 1 PROVE u[k] = step[<<k, u[k - 1]>>]
    <3>1. CASE k = m + 1
      BY <2>5, <3>1
    <3>2. CASE k # m + 1
      <4>1. k \in 1 .. m /\ k \in 0 .. m /\ k - 1 \in 0 .. m
        BY <3>2
      <4> QED BY <2>2, <2>5, <4>1
    <3> QED BY <3>1, <3>2
  <2>8. Runs(u, m + 1, X, base, step)
    BY <2>4, <2>6, <2>7 DEF Runs
  <2> QED BY <2>8
<1>3. N \in S
  <2> HIDE DEF S
  <2> QED BY <1>1, <1>2, InductionOnNat
<1> QED BY <1>3

(* Any function that satisfies the equations is of that type.              *)
LEMMA RecursionType ==
    ASSUME NEW N \in Nat, NEW X, NEW c,
           c[0] \in X, \A k \in 1 .. N : c[k - 1] \in X => c[k] \in X
    PROVE  \A k \in 0 .. N : c[k] \in X
<1> DEFINE E == {k \in Nat : k <= N => c[k] \in X}
<1>1. 0 \in E
  OBVIOUS
<1>2. ASSUME NEW k \in Nat, k \in E PROVE k + 1 \in E
  <2> SUFFICES ASSUME k + 1 <= N PROVE c[k + 1] \in X
    OBVIOUS
  <2>1. c[k] \in X /\ k + 1 \in 1 .. N /\ (k + 1) - 1 = k
    BY <1>2
  <2> QED BY <2>1
<1>3. Nat \subseteq E
  <2> HIDE DEF E
  <2> QED BY <1>1, <1>2, InductionOnNat
<1> QED BY <1>3

------------------------------------------------------------------------------
(* Compiling a pattern                                                     *)

(* The tokens of a character after a percent sign.                         *)
LEMMA HandleFlagIs ==
    ASSUME NEW c \in Characters
    PROVE  /\ [char |-> c] \in Tokens /\ [char |-> "%"] \in Tokens
           /\ c \in Flags => [flag |-> c] \in Tokens
           /\ HandleFlag(c) = IF c \in Flags THEN <<[flag |-> c]>>
                               ELSE <<[char |-> "%"], [char |-> c]>>
           /\ HandleFlag(c) \in Seq(Tokens)
<1>1. [char |-> c] \in Tokens /\ [char |-> "%"] \in Tokens
  <2>1. [char |-> c] \in [char : Characters] /\ [char |-> "%"] \in [char : Characters]
    BY PatternAssumption
  <2> QED BY <2>1 DEF Tokens
<1>2. c \in Flags => [flag |-> c] \in Tokens
  BY DEF Tokens
<1>3. HandleFlag(c) \in Seq(Tokens)
  BY <1>1, <1>2 DEF HandleFlag
<1> QED BY <1>1, <1>2, <1>3 DEF HandleFlag

LEMMA TakeType ==
    ASSUME NEW st \in CompilerStates, NEW c \in Characters
    PROVE  /\ Take(st, c) \in CompilerStates
           /\ Take(st, c).flag <=> (~st.flag /\ c = "%")
           /\ Take(st, c).to =
                 IF st.flag THEN st.to \o HandleFlag(c)
                 ELSE IF c = "%" THEN st.to ELSE Append(st.to, [char |-> c])
<1>1. st.flag \in BOOLEAN /\ st.to \in Seq(Tokens)
  BY DEF CompilerStates
<1>2. [char |-> c] \in Tokens
  BY HandleFlagIs
<1>4. HandleFlag(c) \in Seq(Tokens)
  BY HandleFlagIs
<1>5. st.to \o HandleFlag(c) \in Seq(Tokens) /\ Append(st.to, [char |-> c]) \in Seq(Tokens)
  BY <1>1, <1>2, <1>4, ConcatProperties, AppendProperties
<1>6. CASE st.flag
  BY <1>1, <1>5, <1>6 DEF Take, CompilerStates
<1>7. CASE ~st.flag /\ c = "%"
  BY <1>1, <1>7 DEF Take, CompilerStates
<1>8. CASE ~st.flag /\ c # "%"
  BY <1>1, <1>5, <1>8 DEF Take, CompilerStates
<1> QED BY <1>6, <1>7, <1>8

(* The states of the compiler before and after each character.             *)
LEMMA CompilingSteps ==
    ASSUME NEW p \in Seq(Characters)
    PROVE  /\ Len(p) \in Nat
           /\ \A k \in 0 .. Len(p) : Compiling(p)[k] \in CompilerStates
           /\ Compiling(p)[0] = [flag |-> FALSE, to |-> <<>>]
           /\ \A k \in 1 .. Len(p) :
                 Compiling(p)[k] = Take(Compiling(p)[k - 1], p[k])
<1> DEFINE N == Len(p)
           base == [flag |-> FALSE, to |-> <<>>]
           step == [ks \in (1 .. N) \X CompilerStates |-> Take(ks[2], p[ks[1]])]
           Is(t) == t = [k \in 0 .. N |-> IF k = 0 THEN base ELSE Take(t[k - 1], p[k])]
           c == CHOOSE t : Is(t)
<1>0. N \in Nat
  BY LenProperties
<1>1. \A k \in 1 .. N : p[k] \in Characters
  BY ElementOfSeq
<1>2. Compiling(p) = c
  BY DEF Compiling
<1>3. base \in CompilerStates
  BY DEF CompilerStates
<1>4. step \in StepsOn(N, CompilerStates)
  BY <1>1, TakeType DEF StepsOn
<1>5. \A k \in 1 .. N, st \in CompilerStates : step[<<k, st>>] = Take(st, p[k])
  OBVIOUS
<1> HIDE DEF step, base, N
<1>6. PICK t : Runs(t, N, CompilerStates, base, step)
  BY <1>0, <1>3, <1>4, RecursionExists
<1>7. /\ t \in [0 .. N -> CompilerStates] /\ t[0] = base
      /\ \A k \in 1 .. N : t[k] = Take(t[k - 1], p[k])
  BY <1>0, <1>5, <1>6 DEF Runs
<1>8. Is(t)
  BY <1>0, <1>7
<1>9. Is(c)
  BY <1>8
<1> HIDE DEF c
<1>10. c[0] = base /\ \A k \in 1 .. N : c[k] = Take(c[k - 1], p[k])
  BY <1>0, <1>9
<1>11. ASSUME NEW k \in 1 .. N, c[k - 1] \in CompilerStates
       PROVE  c[k] \in CompilerStates
  <2>1. Take(c[k - 1], p[k]) \in CompilerStates
    BY <1>1, <1>11, TakeType
  <2> QED BY <1>10, <2>1
<1>12. \A k \in 0 .. N : c[k] \in CompilerStates
  BY <1>0, <1>3, <1>10, <1>11, RecursionType
<1> QED BY <1>0, <1>2, <1>10, <1>12 DEF base, N

(* A character is a flag if the compiler has just seen the percent sign.   *)
LEMMA FlagsAreSeen ==
    ASSUME NEW p \in Seq(Characters)
    PROVE  \A k \in 1 .. Len(p) : (IsFlag(p)[k] <=> Compiling(p)[k - 1].flag)
<1> DEFINE N == Len(p)
           Of(is, k) == k > 1 /\ p[k - 1] = "%" /\ ~is[k - 1]
           Is(is) == is = [k \in 1 .. N |-> Of(is, k)]
           seen == [k \in 1 .. N |-> Compiling(p)[k - 1].flag]
           c == CHOOSE is : Is(is)
<1>1. /\ N \in Nat
      /\ \A k \in 0 .. N : Compiling(p)[k] \in CompilerStates
      /\ Compiling(p)[0] = [flag |-> FALSE, to |-> <<>>]
      /\ \A k \in 1 .. N : Compiling(p)[k] = Take(Compiling(p)[k - 1], p[k])
  BY CompilingSteps
<1>2. ASSUME NEW k \in 1 .. N
      PROVE  Compiling(p)[k].flag <=> ~Compiling(p)[k - 1].flag /\ p[k] = "%"
  <2>1. Compiling(p)[k - 1] \in CompilerStates /\ p[k] \in Characters
    BY <1>1, ElementOfSeq
  <2>2. Compiling(p)[k] = Take(Compiling(p)[k - 1], p[k])
    BY <1>1
  <2> HIDE DEF N
  <2>3. Take(Compiling(p)[k - 1], p[k]).flag <=> (~Compiling(p)[k - 1].flag /\ p[k] = "%")
    BY <2>1, TakeType
  <2> QED BY <2>2, <2>3
<1>3. IsFlag(p) = c
  BY DEF IsFlag
<1>4. ASSUME NEW k \in 1 .. N PROVE seen[k] = Of(seen, k)
  <2>1. seen[k] \in BOOLEAN /\ Of(seen, k) \in BOOLEAN
    BY <1>1 DEF CompilerStates
  <2>2. seen[k] <=> Of(seen, k)
    <3>1. CASE k = 1
      <4>1. ~seen[k]
        BY <1>1, <3>1
      <4> QED BY <3>1, <4>1
    <3>2. CASE k # 1
      <4>1. k - 1 \in 1 .. N /\ k > 1
        BY <1>1, <3>2
      <4>2. seen[k - 1] = Compiling(p)[(k - 1) - 1].flag /\ seen[k] = Compiling(p)[k - 1].flag
        BY <4>1
      <4>3. Compiling(p)[k - 1].flag <=> ~Compiling(p)[(k - 1) - 1].flag /\ p[k - 1] = "%"
        BY <1>2, <4>1
      <4> HIDE DEF seen
      <4> QED BY <4>1, <4>2, <4>3
    <3> QED BY <3>1, <3>2
  <2> HIDE DEF seen, Of
  <2> QED BY <2>1, <2>2
<1>5. Is(seen)
  <2>1. [k \in 1 .. N |-> Of(seen, k)] = [k \in 1 .. N |-> seen[k]]
    BY <1>4
  <2>2. seen = [k \in 1 .. N |-> seen[k]]
    OBVIOUS
  <2> HIDE DEF seen, Of
  <2> QED BY <2>1, <2>2
<1>6. Is(c)
  BY <1>5
<1> HIDE DEF c
<1>7. \A k \in 1 .. N : c[k] <=> Of(c, k)
  <2>1. \A k \in 1 .. N : c[k] = Of(c, k)
    <3> HIDE DEF Of
    <3> QED BY <1>6
  <2> QED BY <2>1
<1>8. \A k \in 1 .. N : seen[k] <=> Of(seen, k)
  BY <1>4
<1> HIDE DEF seen
<1> DEFINE E == {n \in Nat : n + 1 <= N => (c[n + 1] <=> seen[n + 1])}
<1>9. 0 \in E
  <2> SUFFICES ASSUME 1 <= N PROVE c[1] <=> seen[1]
    OBVIOUS
  <2>1. 1 \in 1 .. N /\ ~(1 > 1)
    BY <1>1
  <2> QED BY <1>8, <1>7, <2>1
<1>10. ASSUME NEW n \in Nat, n \in E PROVE n + 1 \in E
  <2> SUFFICES ASSUME n + 2 <= N PROVE c[n + 2] <=> seen[n + 2]
    OBVIOUS
  <2>1. n + 2 \in 1 .. N /\ n + 1 \in 1 .. N /\ (n + 2) - 1 = n + 1 /\ n + 2 > 1
    BY <1>1
  <2>2. c[n + 1] <=> seen[n + 1]
    BY <1>10, <2>1
  <2>3. c[n + 2] <=> (p[n + 1] = "%" /\ ~c[n + 1])
    BY <1>7, <2>1
  <2>4. seen[n + 2] <=> (p[n + 1] = "%" /\ ~seen[n + 1])
    BY <1>8, <2>1
  <2> QED BY <2>2, <2>3, <2>4
<1>11. Nat \subseteq E
  <2> HIDE DEF E
  <2> QED BY <1>9, <1>10, InductionOnNat
<1>12. ASSUME NEW k \in 1 .. N PROVE c[k] <=> seen[k]
  <2>1. k - 1 \in Nat /\ (k - 1) + 1 = k /\ k <= N
    BY <1>1
  <2>2. k - 1 \in E
    BY <1>11, <2>1
  <2> QED BY <2>1, <2>2
<1> QED BY <1>3, <1>12 DEF seen
------------------------------------------------------------------------------
(* What the flags print                                                    *)

(* The fields a flag takes from the broken-down time are named.            *)
LEMMA FieldTypes ==
    /\ \A c \in DOMAIN DateFlags : DateFlags[c] \in Seq(Names)
    /\ \A c \in DOMAIN TimeFlags : TimeFlags[c] \in Seq(Names)
    /\ \A c \in DOMAIN RecordFlags : RecordFlags[c] \in Seq(Names)
    /\ Datetime \in Seq(Names) /\ Len(Datetime) = 6
<1> DEFINE S == Seq(Names)
<1>1. /\ <<"wday">> \in S /\ <<"mon">> \in S
      /\ <<"mday">> \in S /\ <<"year">> \in S
      /\ <<"mon", "mday", "year">> \in S
      /\ <<"wday", "mon", "mday", "hour", "min", "sec", "year">> \in S
  BY DEF Names
<1>2. /\ <<"hour">> \in S /\ <<"min">> \in S
      /\ <<"sec">> \in S /\ <<"gmtoff">> \in S
      /\ <<"hour", "min", "sec", "hour">> \in S
      /\ <<"hour", "min">> \in S
      /\ <<"hour", "min", "sec">> \in S
  BY DEF Names
<1>3. /\ <<"logger_name">> \in S /\ <<"level">> \in S
      /\ <<"thread_id">> \in S /\ <<"pid">> \in S
      /\ <<"msg_id">> \in S /\ <<"fraction">> \in S
      /\ <<"seconds">> \in S
  BY DEF Names
<1>4. \A c \in DOMAIN DateFlags : DateFlags[c] \in S
  <2> HIDE DEF S
  <2> QED BY <1>1 DEF DateFlags
<1>5. \A c \in DOMAIN TimeFlags : TimeFlags[c] \in S
  <2> HIDE DEF S
  <2> QED BY <1>2 DEF TimeFlags
<1>6. \A c \in DOMAIN RecordFlags : RecordFlags[c] \in S
  <2> HIDE DEF S
  <2> QED BY <1>3 DEF RecordFlags
<1>7. Datetime \in Seq(Names) /\ Len(Datetime) = 6
  BY DEF Datetime, Names
<1> QED BY <1>4, <1>5, <1>6, <1>7

(* Texts put together are texts: the concatenation under a name of its own *)
(* keeps the provers from taking sequences apart.                          *)
Joined(s, t) == s \o t

LEMMA TextsConcat ==
    ASSUME NEW s \in Texts, NEW t \in Texts
    PROVE  /\ Joined(s, t) \in Texts /\ Len(Joined(s, t)) = Len(s) + Len(t)
           /\ Len(s) \in Nat /\ Len(t) \in Nat
BY ConcatProperties, LenProperties DEF Texts, Joined

LEMMA TextsAssociate ==
    ASSUME NEW s \in Texts, NEW t \in Texts, NEW u \in Texts
    PROVE  Joined(Joined(s, t), u) = Joined(s, Joined(t, u))
BY ConcatAssociative DEF Texts, Joined

LEMMA TextsJoin ==
    ASSUME NEW s \in Texts, NEW t \in Texts
    PROVE  Joined(s, t) \in Texts
BY TextsConcat

LEMMA FiveTextsAssociate ==
    ASSUME NEW a \in Texts, NEW b \in Texts, NEW c \in Texts, NEW d \in Texts,
           NEW e \in Texts
    PROVE  Joined(Joined(Joined(Joined(a, b), c), d), e)
               = Joined(a, Joined(Joined(b, Joined(c, d)), e))
BY TextsJoin, TextsAssociate

(* Fields and texts are items of a line.                                   *)
LEMMA PieceTypes ==
    /\ \A fields \in Seq(Names), secs \in Nat :
          /\ FromTm(secs, fields) \in Texts
          /\ Len(FromTm(secs, fields)) = Len(fields)
    /\ \A fields \in Seq(Names), m \in Msgs :
          /\ FromRecord(m, fields) \in Texts
          /\ Len(FromRecord(m, fields)) = Len(fields)
    /\ \A m \in Msgs : Text(m) \in Texts
    /\ \A c \in Characters : Literal(c) \in Texts
<1>1. ASSUME NEW fields \in Seq(Names), NEW n \in Nat
      PROVE  /\ [k \in DOMAIN fields |-> <<fields[k], n>>] \in Texts
             /\ Len([k \in DOMAIN fields |-> <<fields[k], n>>]) = Len(fields)
  <2> DEFINE s == [k \in DOMAIN fields |-> <<fields[k], n>>]
  <2>1. /\ Len(fields) \in Nat /\ DOMAIN fields = 1 .. Len(fields)
        /\ \A k \in 1 .. Len(fields) : fields[k] \in Names
    BY LenProperties, ElementOfSeq
  <2>2. \A k \in 1 .. Len(fields) : <<fields[k], n>> \in Items
    BY <2>1 DEF Items
  <2>3. s \in [1 .. Len(fields) -> Items]
    BY <2>1, <2>2
  <2>4. s \in Texts
    BY <2>1, <2>3 DEF Seq, Texts
  <2>5. DOMAIN s = 1 .. Len(fields)
    BY <2>1
  <2> HIDE DEF s
  <2>6. Len(s) = Len(fields)
    BY <2>1, <2>4, <2>5, LenProperties DEF Texts
  <2> QED BY <2>4, <2>6 DEF s
<1>2. ASSUME NEW fields \in Seq(Names), NEW secs \in Nat
      PROVE  /\ FromTm(secs, fields) \in Texts
             /\ Len(FromTm(secs, fields)) = Len(fields)
  BY <1>1 DEF FromTm, Tm
<1>3. ASSUME NEW fields \in Seq(Names), NEW m \in Msgs
      PROVE  /\ FromRecord(m, fields) \in Texts
             /\ Len(FromRecord(m, fields)) = Len(fields)
  <2>1. m.id \in Nat
    BY DEF Msgs
  <2> QED BY <1>1, <2>1 DEF FromRecord
<1>4. ASSUME NEW m \in Msgs PROVE Text(m) \in Texts
  <2>1. m.id \in Nat /\ m.length \in Nat
    BY DEF Msgs
  <2>2. <<"text", m.id>> \in Items
    BY <2>1 DEF Items, Names
  <2>3. [k \in 1 .. m.length |-> <<"text", m.id>>] \in [1 .. m.length -> Items]
    BY <2>2
  <2> QED BY <2>1, <2>3 DEF Text, Seq, Texts
<1>5. ASSUME NEW c \in Characters PROVE Literal(c) \in Texts
  <2>1. <<"char", c>> \in Items
    BY DEF Items, Names
  <2> QED BY <2>1 DEF Literal, Texts
<1> QED BY <1>2, <1>3, <1>4, <1>5

(* What a compiled token prints, as the meaning of the pattern has it.     *)
TokenMeaning(token, m) == IF "char" \in DOMAIN token THEN Literal(token.char)
                          ELSE MeaningOf(token.flag, m)

LEMMA FlagMeanings ==
    ASSUME NEW m \in Msgs, NEW c
    PROVE  /\ c \in Flags \cup Characters => MeaningOf(c, m) \in Texts
           /\ c \in {"^", "$"} => MeaningOf(c, m) = <<>>
           /\ c = "v" => MeaningOf(c, m) = Text(m)
           /\ c = "+" => MeaningOf(c, m) =
                 FromTm(m.secs, Datetime) \o
                     FromRecord(m, <<"fraction", "logger_name", "level">>) \o Text(m)
           /\ c \in DOMAIN DateFlags => MeaningOf(c, m) = FromTm(m.secs, DateFlags[c])
           /\ c \in DOMAIN TimeFlags => MeaningOf(c, m) = FromTm(m.secs, TimeFlags[c])
           /\ c \in DOMAIN RecordFlags => MeaningOf(c, m) = FromRecord(m, RecordFlags[c])
           /\ c \notin Flags => MeaningOf(c, m) = Literal("%") \o Literal(c)
<1>0. m.secs \in Nat
  BY DEF Msgs
<1>1. <<"fraction", "logger_name", "level">> \in Seq(Names)
  BY DEF Names
<1> DEFINE D == DOMAIN DateFlags
           T == DOMAIN TimeFlags
           R == DOMAIN RecordFlags
<1>2. /\ D = {"a", "A", "b", "h", "B", "m", "d", "C", "Y", "D", "x", "c"}
      /\ T = {"H", "I", "p", "M", "S", "r", "R", "T", "X", "z"}
      /\ R = {"n", "l", "L", "t", "P", "i", "e", "f", "F", "E"}
  BY DEF DateFlags, TimeFlags, RecordFlags
<1>3. Flags = D \cup T \cup R \cup {"v", "^", "$", "+"}
  BY DEF Flags
<1> HIDE DEF D, T, R
<1>4. c \in D => /\ c \notin {"^", "$"} /\ c # "v" /\ c # "+"
                 /\ c \notin T /\ c \notin R /\ c \in Flags
  BY <1>2, <1>3
<1>5. c \in T => /\ c \notin {"^", "$"} /\ c # "v" /\ c # "+"
                 /\ c \notin D /\ c \notin R /\ c \in Flags
  BY <1>2, <1>3
<1>6. c \in R => /\ c \notin {"^", "$"} /\ c # "v" /\ c # "+"
                 /\ c \notin T /\ c \notin D /\ c \in Flags
  BY <1>2, <1>3
<1>7. c \in {"^", "$", "v", "+"} => c \notin D /\ c \notin T /\ c \notin R /\ c \in Flags
  BY <1>2, <1>3
<1>8. c \in {"^", "$"} => MeaningOf(c, m) = <<>>
  BY <1>7 DEF MeaningOf, D, T, R
<1>9. c = "v" => MeaningOf(c, m) = Text(m)
  BY <1>7 DEF MeaningOf, D, T, R
<1>10. c = "+" => MeaningOf(c, m) =
          FromTm(m.secs, Datetime) \o
              FromRecord(m, <<"fraction", "logger_name", "level">>) \o Text(m)
  BY <1>7 DEF MeaningOf, D, T, R
<1>11. c \in D => MeaningOf(c, m) = FromTm(m.secs, DateFlags[c])
  BY <1>4 DEF MeaningOf, D, T, R
<1>12. c \in T => MeaningOf(c, m) = FromTm(m.secs, TimeFlags[c])
  BY <1>5 DEF MeaningOf, D, T, R
<1>13. c \in R => MeaningOf(c, m) = FromRecord(m, RecordFlags[c])
  BY <1>6 DEF MeaningOf, D, T, R
<1>14. c \notin Flags => MeaningOf(c, m) = Literal("%") \o Literal(c)
  BY <1>3 DEF MeaningOf, D, T, R
<1>15. ASSUME c \in Flags \cup Characters PROVE MeaningOf(c, m) \in Texts
  <2>1. CASE c \in {"^", "$"}
    <3>1. <<>> \in Texts
      BY DEF Texts
    <3> QED BY <1>8, <2>1, <3>1
  <2>2. CASE c = "v"
    BY <1>9, <2>2, PieceTypes
  <2>3. CASE c = "+"
    <3>1. /\ FromTm(m.secs, Datetime) \in Texts /\ Text(m) \in Texts
          /\ FromRecord(m, <<"fraction", "logger_name", "level">>) \in Texts
      BY <1>0, <1>1, PieceTypes, FieldTypes
    <3>2. MeaningOf(c, m) =
             Joined(Joined(FromTm(m.secs, Datetime),
                           FromRecord(m, <<"fraction", "logger_name", "level">>)), Text(m))
      BY <1>10, <2>3 DEF Joined
    <3> QED BY <3>1, <3>2, TextsConcat
  <2>4. CASE c \in D
    <3>1. DateFlags[c] \in Seq(Names)
      BY <2>4, FieldTypes DEF D
    <3> QED BY <1>0, <1>11, <2>4, <3>1, PieceTypes
  <2>5. CASE c \in T
    <3>1. TimeFlags[c] \in Seq(Names)
      BY <2>5, FieldTypes DEF T
    <3> QED BY <1>0, <1>12, <2>5, <3>1, PieceTypes
  <2>6. CASE c \in R
    <3>1. RecordFlags[c] \in Seq(Names)
      BY <2>6, FieldTypes DEF R
    <3> QED BY <1>13, <2>6, <3>1, PieceTypes
  <2>7. CASE c \notin Flags
    <3>1. c \in Characters /\ "%" \in Characters
      BY <1>15, <2>7, PatternAssumption
    <3>2. Literal(c) \in Texts /\ Literal("%") \in Texts
      BY <3>1, PieceTypes
    <3>3. MeaningOf(c, m) = Joined(Literal("%"), Literal(c))
      BY <1>14, <2>7 DEF Joined
    <3> QED BY <3>2, <3>3, TextsConcat
  <2> QED BY <1>3, <2>1, <2>2, <2>3, <2>4, <2>5, <2>6, <2>7
<1> QED BY <1>8, <1>9, <1>10, <1>11, <1>12, <1>13, <1>14, <1>15 DEF D, T, R

LEMMA TokenMeanings ==
    ASSUME NEW token \in Tokens, NEW m \in Msgs
    PROVE  TokenMeaning(token, m) \in Texts
<1>1. CASE token \in [flag : Flags]
  <2>1. token.flag \in Flags /\ "char" \notin DOMAIN token
    BY <1>1
  <2> QED BY <2>1, FlagMeanings DEF TokenMeaning
<1>2. CASE token \in [char : Characters]
  <2>1. token.char \in Characters /\ "char" \in DOMAIN token
    BY <1>2
  <2> QED BY <2>1, PieceTypes DEF TokenMeaning
<1> QED BY <1>1, <1>2 DEF Tokens

------------------------------------------------------------------------------
(* Formatting a record                                                     *)

(* A token that marks an end of the range to colour.                       *)
StartsRange(token) == "flag" \in DOMAIN token /\ token.flag \in {"^", "+"}
EndsRange(token) == "flag" \in DOMAIN token /\ token.flag \in {"$", "+"}

(* %+ prints the date of the record's second, from its cache or anew.      *)
LEMMA FullFacts ==
    ASSUME NEW tokens, NEW m \in Msgs, NEW st \in FormatStates(tokens, m.secs)
    PROVE  LET r == Full(st, m)
           IN /\ r \in FormatStates(tokens, m.secs)
              /\ r.dest = Joined(st.dest, MeaningOf("+", m))
              /\ r.start <= Len(r.dest) /\ r.end <= Len(r.dest)
<1> DEFINE r == Full(st, m)
           hit == st.f.cache_timestamp = m.secs /\ st.f.cached_datetime # <<>>
           f == IF hit THEN st.f
                ELSE [st.f EXCEPT !.cached_datetime = FromTm(st.f.cached_tm, Datetime),
                                  !.cache_timestamp = m.secs]
           date == FromTm(m.secs, Datetime)
           head == FromRecord(m, <<"fraction", "logger_name">>)
           level == FromRecord(m, <<"level">>)
           names == FromRecord(m, <<"fraction", "logger_name", "level">>)
           text == Text(m)
           upto == Joined(Joined(st.dest, f.cached_datetime), head)
<1>1. /\ st.f \in Formatters /\ st.dest \in Texts
      /\ st.f.formatters = tokens /\ st.f.last_log_secs = m.secs
      /\ st.f.cached_tm = m.secs /\ DatetimeIsCached(st.f)
  BY DEF FormatStates
<1>2. m.secs \in Nat
  BY DEF Msgs
<1>3. /\ <<"fraction", "logger_name">> \in Seq(Names) /\ <<"level">> \in Seq(Names)
      /\ <<"fraction", "logger_name", "level">> \in Seq(Names)
      /\ Len(<<"fraction", "logger_name">>) = 2 /\ Len(<<"level">>) = 1
      /\ Len(<<"fraction", "logger_name", "level">>) = 3
  BY DEF Names
<1>4. /\ date \in Texts /\ Len(date) = 6
      /\ head \in Texts /\ Len(head) = 2
      /\ level \in Texts /\ Len(level) = 1
      /\ names \in Texts /\ Len(names) = 3
      /\ text \in Texts
  <2>1. date \in Texts /\ Len(date) = 6
    BY <1>2, FieldTypes, PieceTypes
  <2>2. head \in Texts /\ Len(head) = 2
    BY <1>3, PieceTypes
  <2>3. level \in Texts /\ Len(level) = 1
    BY <1>3, PieceTypes
  <2>4. names \in Texts /\ Len(names) = 3
    BY <1>3, PieceTypes
  <2> QED BY <2>1, <2>2, <2>3, <2>4, PieceTypes
<1>5. names = Joined(head, level)
  <2>1. names = <<<<"fraction", m.id>>, <<"logger_name", m.id>>, <<"level", m.id>>>>
    BY DEF FromRecord
  <2>2. head = <<<<"fraction", m.id>>, <<"logger_name", m.id>>>>
    BY DEF FromRecord
  <2>3. level = <<<<"level", m.id>>>>
    BY DEF FromRecord
  <2> HIDE DEF names, head, level
  <2> QED BY <2>1, <2>2, <2>3 DEF Joined
<1>6. /\ f \in Formatters /\ f.formatters = tokens /\ f.last_log_secs = m.secs
      /\ f.cached_tm = m.secs /\ f.cache_timestamp = m.secs
      /\ f.cached_datetime = date
  <2> HIDE DEF date
  <2>1. CASE hit
    BY <1>1, <2>1 DEF DatetimeIsCached, date
  <2>2. CASE ~hit
    BY <1>1, <1>2, <1>4, <2>2 DEF Formatters, date
  <2> QED BY <2>1, <2>2
<1>7. DatetimeIsCached(f)
  BY <1>6 DEF DatetimeIsCached
<1>8. r = [f |-> f, start |-> Len(upto), end |-> Len(upto) + 1,
           dest |-> Joined(Joined(upto, level), text)]
  BY DEF Full, Joined
<1>9. upto = Joined(Joined(st.dest, date), head)
  BY <1>6
<1> HIDE DEF f, date, head, level, names, text, upto, r
<1>10. upto \in Texts /\ Len(upto) \in Nat
  BY <1>1, <1>4, <1>9, TextsConcat
<1>11. Joined(upto, level) \in Texts /\ Len(Joined(upto, level)) = Len(upto) + 1
  <2>1. level \in Texts /\ Len(level) = 1 /\ upto \in Texts
    BY <1>4, <1>10
  <2> QED BY <2>1, TextsConcat
<1>12. /\ Joined(Joined(upto, level), text) \in Texts
       /\ Len(Joined(Joined(upto, level), text)) = Len(upto) + 1 + Len(text)
       /\ Len(text) \in Nat
  BY <1>4, <1>10, <1>11, TextsConcat
<1>13. Joined(Joined(upto, level), text) = Joined(st.dest, Joined(Joined(date, names), text))
  <2>1. /\ st.dest \in Texts /\ date \in Texts /\ head \in Texts
        /\ level \in Texts /\ text \in Texts
    BY <1>1, <1>4
  <2>2. Joined(Joined(Joined(Joined(st.dest, date), head), level), text)
            = Joined(st.dest, Joined(Joined(date, Joined(head, level)), text))
    BY <2>1, FiveTextsAssociate, SMTT(30)
  <2> QED BY <1>5, <1>9, <2>2
<1>14. MeaningOf("+", m) = Joined(Joined(date, names), text)
  BY FlagMeanings DEF date, names, text, Joined
<1>15. /\ r.f = f /\ r.start = Len(upto) /\ r.end = Len(upto) + 1
       /\ r.dest = Joined(Joined(upto, level), text)
       /\ r \in [f : Formatters, dest : Texts, start : Nat, end : Nat]
  BY <1>6, <1>8, <1>10, <1>12
<1>16. r \in FormatStates(tokens, m.secs)
  BY <1>6, <1>7, <1>15 DEF FormatStates
<1>17. r.start <= Len(r.dest) /\ r.end <= Len(r.dest)
  BY <1>10, <1>12, <1>15
<1> QED BY <1>13, <1>14, <1>15, <1>16, <1>17 DEF r

(* A token appends what it means, or marks an end of the range where the   *)
(* line ends so far.                                                       *)
LEMMA ApplyFacts ==
    ASSUME NEW tokens, NEW m \in Msgs, NEW st \in FormatStates(tokens, m.secs),
           NEW token \in Tokens
    PROVE  LET r == Apply(st, token, m)
           IN /\ r \in FormatStates(tokens, m.secs)
              /\ r.dest = Joined(st.dest, TokenMeaning(token, m))
              /\ IF StartsRange(token) THEN r.start <= Len(r.dest) ELSE r.start = st.start
              /\ IF EndsRange(token) THEN r.end <= Len(r.dest) ELSE r.end = st.end
<1> DEFINE r == Apply(st, token, m)
           meant == TokenMeaning(token, m)
           States == [f : Formatters, dest : Texts, start : Nat, end : Nat]
           Appended == [st EXCEPT !.dest = Joined(st.dest, meant)]
           Same(x) == x.f = st.f /\ x \in States
<1>1. st \in States /\ st.dest \in Texts
  BY DEF FormatStates
<1>2. meant \in Texts
  BY TokenMeanings
<1>3. Joined(st.dest, meant) \in Texts /\ Len(st.dest) \in Nat
  BY <1>1, <1>2, TextsConcat
<1>4. ASSUME NEW x, Same(x) PROVE x \in FormatStates(tokens, m.secs)
  BY <1>4 DEF FormatStates
<1>5. /\ Same(Appended) /\ Appended.dest = Joined(st.dest, meant)
      /\ Appended.start = st.start /\ Appended.end = st.end
  <2> HIDE DEF meant
  <2> QED BY <1>1, <1>3
<1>6. ASSUME r = Appended, ~StartsRange(token), ~EndsRange(token)
      PROVE  /\ r \in FormatStates(tokens, m.secs)
             /\ r.dest = Joined(st.dest, meant)
             /\ r.start = st.start /\ r.end = st.end
  <2> HIDE DEF r, Appended, meant, Same
  <2> QED BY <1>4, <1>5, <1>6
<1>7. CASE token \in [char : Characters]
  <2>1. "char" \in DOMAIN token /\ "flag" \notin DOMAIN token
    BY <1>7
  <2>2. meant = Literal(token.char)
    BY <2>1 DEF TokenMeaning
  <2>3. r = Appended
    BY <2>1, <2>2 DEF Apply, Joined
  <2>4. ~StartsRange(token) /\ ~EndsRange(token)
    BY <2>1 DEF StartsRange, EndsRange
  <2> HIDE DEF r, meant, Appended
  <2> QED BY <1>6, <2>3, <2>4 DEF r, meant
<1>8. CASE token \in [flag : Flags]
  <2> DEFINE c == token.flag
             D == DOMAIN DateFlags
             T == DOMAIN TimeFlags
             R == DOMAIN RecordFlags
  <2>1. c \in Flags /\ "char" \notin DOMAIN token /\ "flag" \in DOMAIN token
    BY <1>8
  <2>2. meant = MeaningOf(c, m)
    BY <2>1 DEF TokenMeaning
  <2>3. /\ StartsRange(token) <=> c \in {"^", "+"}
        /\ EndsRange(token) <=> c \in {"$", "+"}
    BY <2>1 DEF StartsRange, EndsRange
  <2>4. /\ D = {"a", "A", "b", "h", "B", "m", "d", "C", "Y", "D", "x", "c"}
        /\ T = {"H", "I", "p", "M", "S", "r", "R", "T", "X", "z"}
        /\ R = {"n", "l", "L", "t", "P", "i", "e", "f", "F", "E"}
    BY DEF DateFlags, TimeFlags, RecordFlags
  <2>5. c \in D \cup T \cup R \cup {"v", "^", "$", "+"}
    BY <2>1 DEF Flags
  <2>6. st.f.cached_tm = m.secs
    BY DEF FormatStates
  <2> HIDE DEF D, T, R, c
  <2>7. c \in {"^", "$", "+", "v"} => c \notin D /\ c \notin T /\ c \notin R
    BY <2>4
  <2>8. CASE c \in {"^", "$"}
    <3>1. Joined(st.dest, meant) = st.dest
      <4>1. meant = <<>>
        BY <2>2, <2>8, FlagMeanings
      <4>2. st.dest \in Seq(Items)
        BY <1>1 DEF Texts
      <4> QED BY <4>1, <4>2, ConcatEmptySeq DEF Joined
    <3>2. r = IF c = "^" THEN [st EXCEPT !.start = Len(st.dest)]
              ELSE [st EXCEPT !.end = Len(st.dest)]
      BY <2>1, <2>8, <2>7 DEF Apply, c, D, T, R
    <3> HIDE DEF r, meant
    <3>3. /\ Same(r) /\ r.dest = st.dest
          /\ r.start = IF c = "^" THEN Len(st.dest) ELSE st.start
          /\ r.end = IF c = "^" THEN st.end ELSE Len(st.dest)
      BY <1>1, <1>3, <2>8, <3>2
    <3>4. r \in FormatStates(tokens, m.secs)
      BY <1>4, <3>3
    <3> QED BY <1>3, <2>3, <2>8, <3>1, <3>3, <3>4 DEF r, meant
  <2>9. CASE c = "+"
    <3>1. r = Full(st, m)
      BY <2>1, <2>9, <2>7 DEF Apply, c, D, T, R
    <3>2. /\ r \in FormatStates(tokens, m.secs) /\ r.dest = Joined(st.dest, meant)
          /\ r.start <= Len(r.dest) /\ r.end <= Len(r.dest)
      BY <2>2, <2>9, <3>1, FullFacts
    <3> HIDE DEF r, meant
    <3> QED BY <2>3, <2>9, <3>2 DEF r, meant
  <2>10. CASE c \notin {"^", "$", "+"}
    <3>1. r = Appended
      <4>1. CASE c = "v"
        <5>1. meant = Text(m)
          BY <2>2, <4>1, FlagMeanings
        <5> QED BY <2>1, <2>7, <4>1, <5>1 DEF Apply, c, D, T, R, Joined
      <4>2. CASE c \in D
        <5>1. meant = FromTm(m.secs, DateFlags[c])
          BY <2>2, <4>2, FlagMeanings DEF D
        <5>2. c # "v" /\ c \notin T /\ c \notin R
          BY <2>4, <4>2
        <5> QED BY <2>1, <2>6, <2>10, <4>2, <5>1, <5>2 DEF Apply, c, D, T, R, Joined
      <4>3. CASE c \in T
        <5>1. meant = FromTm(m.secs, TimeFlags[c])
          BY <2>2, <4>3, FlagMeanings DEF T
        <5>2. c # "v" /\ c \notin D /\ c \notin R
          BY <2>4, <4>3
        <5> QED BY <2>1, <2>6, <2>10, <4>3, <5>1, <5>2 DEF Apply, c, D, T, R, Joined
      <4>4. CASE c \in R
        <5>1. meant = FromRecord(m, RecordFlags[c])
          BY <2>2, <4>4, FlagMeanings DEF R
        <5>2. c # "v" /\ c \notin D /\ c \notin T
          BY <2>4, <4>4
        <5> QED BY <2>1, <2>6, <2>10, <4>4, <5>1, <5>2 DEF Apply, c, D, T, R, Joined
      <4> QED BY <2>5, <2>10, <4>1, <4>2, <4>3, <4>4
    <3>2. ~StartsRange(token) /\ ~EndsRange(token)
      BY <2>3, <2>10
    <3> HIDE DEF r, meant, Appended
    <3> QED BY <1>6, <3>1, <3>2 DEF r, meant
  <2> QED BY <2>8, <2>9, <2>10
<1> QED BY <1>7, <1>8 DEF Tokens

(* A formatter between two records: the broken-down time is of the second  *)
(* it is kept for.                                                         *)
CachesAreTrue(f) == f.cached_tm = f.last_log_secs /\ DatetimeIsCached(f)

(* The states of a formatter before and after each of its tokens.          *)
LEMMA FormattingSteps ==
    ASSUME NEW f \in Formatters, CachesAreTrue(f), NEW m \in Msgs
    PROVE  /\ Len(f.formatters) \in Nat
           /\ \A k \in 0 .. Len(f.formatters) :
                 Formatting(f, m)[k] \in FormatStates(f.formatters, m.secs)
           /\ Formatting(f, m)[0].dest = <<>>
           /\ Formatting(f, m)[0].start = m.start
           /\ Formatting(f, m)[0].end = m.end
           /\ \A k \in 1 .. Len(f.formatters) :
                 /\ f.formatters[k] \in Tokens
                 /\ Formatting(f, m)[k] = Apply(Formatting(f, m)[k - 1], f.formatters[k], m)
<1> DEFINE tokens == f.formatters
           N == Len(tokens)
           States == FormatStates(tokens, m.secs)
           base == [f |-> Refresh(f, m.secs), dest |-> <<>>, start |-> m.start, end |-> m.end]
           step == [ks \in (1 .. N) \X States |-> Apply(ks[2], tokens[ks[1]], m)]
           Is(t) == t = [k \in 0 .. N |-> IF k = 0 THEN base ELSE Apply(t[k - 1], tokens[k], m)]
           c == CHOOSE t : Is(t)
<1>1. tokens \in Seq(Tokens)
  BY DEF Formatters
<1>2. N \in Nat
  BY <1>1, LenProperties
<1>3. \A k \in 1 .. N : tokens[k] \in Tokens
  BY <1>1, ElementOfSeq
<1>4. Formatting(f, m) = c
  BY DEF Formatting
<1>5. base \in States
  <2> DEFINE g == Refresh(f, m.secs)
  <2>1. m.secs \in Nat /\ m.start \in Nat /\ m.end \in Nat
    BY DEF Msgs
  <2>2. g = IF m.secs # f.last_log_secs
            THEN [f EXCEPT !.cached_tm = m.secs, !.last_log_secs = m.secs] ELSE f
    BY DEF Refresh
  <2>3. /\ g \in Formatters /\ g.formatters = tokens
        /\ g.last_log_secs = m.secs /\ g.cached_tm = m.secs
        /\ g.cached_datetime = f.cached_datetime
        /\ g.cache_timestamp = f.cache_timestamp
    <3>1. CASE m.secs # f.last_log_secs
      BY <2>1, <2>2, <3>1 DEF Formatters
    <3>2. CASE m.secs = f.last_log_secs
      BY <2>2, <3>2 DEF CachesAreTrue
    <3> QED BY <3>1, <3>2
  <2>4. DatetimeIsCached(g)
    BY <2>3 DEF CachesAreTrue, DatetimeIsCached
  <2>5. <<>> \in Texts
    BY DEF Texts
  <2> HIDE DEF g, tokens
  <2> QED BY <2>1, <2>3, <2>4, <2>5 DEF FormatStates, g
<1> HIDE DEF tokens, N, base
<1>6. ASSUME NEW k \in 1 .. N, NEW st \in States
      PROVE  Apply(st, tokens[k], m) \in States
  BY <1>3, ApplyFacts
<1>7. \A k \in 1 .. N, st \in States : step[<<k, st>>] = Apply(st, tokens[k], m)
  <2> HIDE DEF States
  <2> QED OBVIOUS
<1>8. step \in StepsOn(N, States)
  <2> HIDE DEF States
  <2> QED BY <1>6 DEF StepsOn
<1> HIDE DEF step, States
<1>9. PICK t : Runs(t, N, States, base, step)
  BY <1>2, <1>5, <1>8, RecursionExists
<1>10. /\ t \in [0 .. N -> States] /\ t[0] = base
       /\ \A k \in 1 .. N : t[k] = Apply(t[k - 1], tokens[k], m)
  <2>1. /\ t \in [0 .. N -> States] /\ t[0] = base
        /\ \A k \in 1 .. N : t[k] = step[<<k, t[k - 1]>>]
    BY <1>9 DEF Runs
  <2>2. ASSUME NEW k \in 1 .. N PROVE t[k] = Apply(t[k - 1], tokens[k], m)
    <3>1. t[k - 1] \in States
      BY <1>2, <2>1
    <3> QED BY <1>7, <2>1, <3>1
  <2> QED BY <2>1, <2>2
<1>11. Is(t)
  BY <1>2, <1>10
<1>12. Is(c)
  BY <1>11
<1> HIDE DEF c
<1>13. c[0] = base /\ \A k \in 1 .. N : c[k] = Apply(c[k - 1], tokens[k], m)
  BY <1>2, <1>12
<1>14. \A k \in 1 .. N : c[k - 1] \in States => c[k] \in States
  BY <1>6, <1>13
<1>15. \A k \in 0 .. N : c[k] \in States
  BY <1>2, <1>5, <1>13, <1>14, RecursionType
<1>16. base.dest = <<>> /\ base.start = m.start /\ base.end = m.end
  BY DEF base
<1> QED BY <1>2, <1>3, <1>4, <1>13, <1>15, <1>16 DEF tokens, N, States

(* What the beginnings of a pattern mean.                                  *)
LEMMA MeaningsSteps ==
    ASSUME NEW p \in Seq(Characters), NEW m \in Msgs
    PROVE  /\ \A k \in 1 .. Len(p) : MeaningAt(p, k, m) \in Texts
           /\ \A k \in 0 .. Len(p) : Meanings(p, m)[k] \in Texts
           /\ Meanings(p, m)[0] = <<>>
           /\ \A k \in 1 .. Len(p) :
                 Meanings(p, m)[k] = Joined(Meanings(p, m)[k - 1], MeaningAt(p, k, m))
<1> DEFINE N == Len(p)
           step == [ks \in (1 .. N) \X Texts |-> Joined(ks[2], MeaningAt(p, ks[1], m))]
           Is(t) == t = [k \in 0 .. N |-> IF k = 0 THEN <<>> ELSE t[k - 1] \o MeaningAt(p, k, m)]
           c == CHOOSE t : Is(t)
<1>1. N \in Nat
  BY LenProperties
<1>2. \A k \in 1 .. N : p[k] \in Characters
  BY ElementOfSeq
<1>3. <<>> \in Texts
  BY DEF Texts
<1>4. ASSUME NEW k \in 1 .. N PROVE MeaningAt(p, k, m) \in Texts
  <2>1. p[k] \in Characters
    BY <1>2
  <2>2. MeaningOf(p[k], m) \in Texts
    BY <2>1, FlagMeanings
  <2>3. Literal(p[k]) \in Texts
    BY <2>1, PieceTypes
  <2> QED BY <1>3, <2>2, <2>3 DEF MeaningAt
<1>5. Meanings(p, m) = c
  BY DEF Meanings
<1>6. ASSUME NEW k \in 1 .. N, NEW t \in Texts
      PROVE  Joined(t, MeaningAt(p, k, m)) \in Texts
  BY <1>4, TextsJoin
<1>7. \A k \in 1 .. N, t \in Texts : step[<<k, t>>] = Joined(t, MeaningAt(p, k, m))
  OBVIOUS
<1>8. step \in StepsOn(N, Texts)
  BY <1>6 DEF StepsOn
<1> HIDE DEF step, N
<1>9. PICK t : Runs(t, N, Texts, <<>>, step)
  BY <1>1, <1>3, <1>8, RecursionExists
<1>10. /\ t \in [0 .. N -> Texts] /\ t[0] = <<>>
       /\ \A k \in 1 .. N : t[k] = Joined(t[k - 1], MeaningAt(p, k, m))
  BY <1>1, <1>7, <1>9 DEF Runs
<1>11. Is(t)
  BY <1>1, <1>10 DEF Joined
<1>12. Is(c)
  BY <1>11
<1> HIDE DEF c
<1>13. c[0] = <<>> /\ \A k \in 1 .. N : c[k] = Joined(c[k - 1], MeaningAt(p, k, m))
  BY <1>1, <1>12 DEF Joined
<1>14. \A k \in 1 .. N : c[k - 1] \in Texts => c[k] \in Texts
  BY <1>6, <1>13
<1>15. \A k \in 0 .. N : c[k] \in Texts
  BY <1>1, <1>3, <1>13, <1>14, RecursionType
<1> QED BY <1>4, <1>5, <1>13, <1>15 DEF N

(* What the compiler has written stays at the front of its result.         *)
LEMMA CompiledIsKept ==
    ASSUME NEW p \in Seq(Characters), NEW k \in 0 .. Len(p)
    PROVE  LET part == Compiling(p)[k].to
           IN /\ Len(part) \in Nat /\ Len(part) <= Len(CompilePattern(p))
              /\ \A j \in 1 .. Len(part) : CompilePattern(p)[j] = part[j]
<1> DEFINE N == Len(p)
           to(n) == Compiling(p)[n].to
           T == CompilePattern(p)
           Kept(n) == /\ Len(to(n)) <= Len(T)
                      /\ \A j \in 1 .. Len(to(n)) : T[j] = to(n)[j]
           E == {d \in Nat : d <= N => Kept(N - d)}
<1>1. /\ N \in Nat
      /\ \A n \in 0 .. N : Compiling(p)[n] \in CompilerStates
      /\ \A n \in 1 .. N : Compiling(p)[n] = Take(Compiling(p)[n - 1], p[n])
  BY CompilingSteps
<1>2. \A n \in 0 .. N : to(n) \in Seq(Tokens) /\ Len(to(n)) \in Nat
  BY <1>1, LenProperties DEF CompilerStates
<1>3. T = to(N)
  BY DEF CompilePattern
<1>4. ASSUME NEW n \in 1 .. N
      PROVE  /\ Len(to(n - 1)) <= Len(to(n))
             /\ \A j \in 1 .. Len(to(n - 1)) : to(n)[j] = to(n - 1)[j]
  <2> DEFINE st == Compiling(p)[n - 1]
             c == p[n]
  <2>1. st \in CompilerStates /\ c \in Characters /\ Compiling(p)[n] = Take(st, c)
    BY <1>1, ElementOfSeq
  <2> HIDE DEF st, c
  <2>2. Compiling(p)[n].to =
           IF st.flag THEN st.to \o HandleFlag(c)
           ELSE IF c = "%" THEN st.to ELSE Append(st.to, [char |-> c])
    BY <2>1, TakeType
  <2>3. HandleFlag(c) \in Seq(Tokens) /\ [char |-> c] \in Tokens
    BY <2>1, HandleFlagIs
  <2>4. st.to \in Seq(Tokens)
    BY <2>1 DEF CompilerStates
  <2>5. /\ Len(st.to) <= Len(Compiling(p)[n].to)
        /\ \A j \in 1 .. Len(st.to) : Compiling(p)[n].to[j] = st.to[j]
    <3>1. CASE st.flag
      BY <2>2, <2>3, <2>4, <3>1, ConcatProperties, LenProperties
    <3>2. CASE ~st.flag /\ c = "%"
      BY <2>2, <2>4, <3>2, LenProperties
    <3>3. CASE ~st.flag /\ c # "%"
      BY <2>2, <2>3, <2>4, <3>3, AppendProperties, LenProperties
    <3> QED BY <3>1, <3>2, <3>3
  <2> QED BY <2>5 DEF st
<1> HIDE DEF to, T
<1>5. 0 \in E
  <2>1. N - 0 = N
    BY <1>1
  <2>2. Kept(N)
    BY <1>1, <1>2, <1>3
  <2> QED BY <2>1, <2>2
<1>6. ASSUME NEW d \in Nat, d \in E PROVE d + 1 \in E
  <2> SUFFICES ASSUME d + 1 <= N PROVE Kept(N - (d + 1))
    OBVIOUS
  <2> DEFINE n == N - d
  <2>1. n \in 1 .. N /\ N - (d + 1) = n - 1 /\ d <= N
    BY <1>1
  <2>2. Kept(n)
    BY <1>6, <2>1
  <2>3. n \in 0 .. N /\ n - 1 \in 0 .. N
    BY <1>1, <2>1
  <2> HIDE DEF n
  <2>4. Len(to(n)) \in Nat /\ Len(to(n - 1)) \in Nat /\ Len(T) \in Nat
    <3>1. N \in 0 .. N
      BY <1>1
    <3> QED BY <1>2, <1>3, <2>3, <3>1
  <2>5. Kept(n - 1)
    BY <1>4, <2>1, <2>2, <2>4
  <2> QED BY <2>1, <2>5
<1>7. Nat \subseteq E
  <2> HIDE DEF E
  <2> QED BY <1>5, <1>6, InductionOnNat
<1>8. N - k \in Nat /\ N - k <= N /\ N - (N - k) = k
  BY <1>1
<1>9. Kept(k)
  <2>1. N - k \in E
    BY <1>7, <1>8
  <2> QED BY <1>8, <2>1
<1> QED BY <1>2, <1>9 DEF to, T

(* One character more: the tokens it is compiled to print what it means.   *)
LEMMA CharacterIsPrinted ==
    ASSUME NEW p \in Seq(Characters), NEW m \in Msgs, NEW k \in 1 .. Len(p)
    PROVE  LET before == Compiling(p)[k - 1].to
               after == Compiling(p)[k].to
               n == Len(before)
               T == CompilePattern(p)
               meant == MeaningAt(p, k, m)
               marks(c) == IsFlag(p)[k] /\ p[k] = c
           IN /\ n \in Nat /\ Len(after) <= Len(T)
              /\ \/ /\ Len(after) = n /\ meant = <<>>
                    /\ \A c \in Flags : ~marks(c)
                 \/ /\ Len(after) = n + 1 /\ T[n + 1] \in Tokens
                    /\ meant = TokenMeaning(T[n + 1], m)
                    /\ StartsRange(T[n + 1]) <=> (marks("^") \/ marks("+"))
                    /\ EndsRange(T[n + 1]) <=> (marks("$") \/ marks("+"))
                 \/ /\ Len(after) = n + 2
                    /\ T[n + 1] \in Tokens /\ T[n + 2] \in Tokens
                    /\ meant = Joined(TokenMeaning(T[n + 1], m), TokenMeaning(T[n + 2], m))
                    /\ \A c \in Flags : ~marks(c)
<1> DEFINE st == Compiling(p)[k - 1]
           before == st.to
           after == Compiling(p)[k].to
           n == Len(before)
           T == CompilePattern(p)
           c == p[k]
           meant == MeaningAt(p, k, m)
           isflag == IsFlag(p)[k]
<1>1. /\ st \in CompilerStates /\ c \in Characters /\ k \in 0 .. Len(p)
      /\ Compiling(p)[k] = Take(st, c) /\ (isflag <=> st.flag)
  <2>1. Len(p) \in Nat /\ k - 1 \in 0 .. Len(p) /\ k \in 0 .. Len(p)
    BY LenProperties
  <2>2. isflag <=> st.flag
    BY FlagsAreSeen
  <2> QED BY <2>1, <2>2, CompilingSteps, ElementOfSeq
<1>2. before \in Seq(Tokens) /\ n \in Nat
  BY <1>1, LenProperties DEF CompilerStates
<1>3. /\ Len(after) \in Nat /\ Len(after) <= Len(T)
      /\ \A j \in 1 .. Len(after) : T[j] = after[j]
  BY <1>1, CompiledIsKept
<1>4. after = IF st.flag THEN before \o HandleFlag(c)
              ELSE IF c = "%" THEN before ELSE Append(before, [char |-> c])
  BY <1>1, TakeType
<1>5. meant = IF isflag THEN MeaningOf(c, m) ELSE IF c = "%" THEN <<>> ELSE Literal(c)
  BY DEF MeaningAt
<1>6. \A x : TokenMeaning([char |-> x], m) = Literal(x)
  BY DEF TokenMeaning
<1>7. /\ \A x : TokenMeaning([flag |-> x], m) = MeaningOf(x, m)
      /\ \A x : StartsRange([flag |-> x]) <=> x \in {"^", "+"}
      /\ \A x : EndsRange([flag |-> x]) <=> x \in {"$", "+"}
      /\ \A x : ~StartsRange([char |-> x]) /\ ~EndsRange([char |-> x])
  BY DEF TokenMeaning, StartsRange, EndsRange
<1>8. "^" \in Flags /\ "$" \in Flags /\ "+" \in Flags
  BY DEF Flags
<1> HIDE DEF st, before, after, n, T, c, meant, isflag
<1>9. CASE ~st.flag /\ c = "%"
  BY <1>1, <1>2, <1>3, <1>4, <1>5, <1>9 DEF before, after, n, T, c, meant, isflag, st
<1>10. CASE ~st.flag /\ c # "%"
  <2>1. [char |-> c] \in Tokens
    BY <1>1, HandleFlagIs
  <2>2. after = Append(before, [char |-> c])
    BY <1>4, <1>10
  <2>3. Len(after) = n + 1 /\ after[n + 1] = [char |-> c]
    BY <1>2, <2>1, <2>2, AppendProperties DEF n
  <2>4. T[n + 1] = [char |-> c]
    BY <1>2, <1>3, <2>3
  <2>5. meant = TokenMeaning(T[n + 1], m)
    BY <1>1, <1>5, <1>6, <1>10, <2>4
  <2>6. ~StartsRange(T[n + 1]) /\ ~EndsRange(T[n + 1])
    BY <1>7, <2>4
  <2>7. T[n + 1] \in Tokens /\ ~isflag
    BY <1>1, <1>10, <2>1, <2>4
  <2> QED BY <1>2, <1>3, <2>3, <2>5, <2>6, <2>7 DEF before, after, n, T, c, meant, isflag, st
<1>11. CASE st.flag /\ c \in Flags
  <2>1. [flag |-> c] \in Tokens /\ HandleFlag(c) = <<[flag |-> c]>>
    BY <1>1, <1>11, HandleFlagIs
  <2>2. after = before \o <<[flag |-> c]>>
    BY <1>4, <1>11, <2>1
  <2>3. Len(after) = n + 1 /\ after[n + 1] = [flag |-> c]
    BY <1>2, <2>1, <2>2 DEF n
  <2>4. T[n + 1] = [flag |-> c]
    BY <1>2, <1>3, <2>3
  <2>5. meant = TokenMeaning(T[n + 1], m)
    BY <1>1, <1>5, <1>7, <1>11, <2>4
  <2>6. /\ StartsRange(T[n + 1]) <=> c \in {"^", "+"}
        /\ EndsRange(T[n + 1]) <=> c \in {"$", "+"}
    BY <1>7, <2>4
  <2>7. T[n + 1] \in Tokens /\ isflag
    BY <1>1, <1>11, <2>1, <2>4
  <2> QED BY <1>2, <1>3, <2>3, <2>5, <2>6, <2>7 DEF before, after, n, T, c, meant, isflag, st
<1>12. CASE st.flag /\ c \notin Flags
  <2>1. /\ [char |-> c] \in Tokens /\ [char |-> "%"] \in Tokens
        /\ HandleFlag(c) = <<[char |-> "%"], [char |-> c]>>
    BY <1>1, <1>12, HandleFlagIs
  <2>2. after = before \o <<[char |-> "%"], [char |-> c]>>
    BY <1>4, <1>12, <2>1
  <2>3. /\ Len(after) = n + 2 /\ after[n + 1] = [char |-> "%"]
        /\ after[n + 2] = [char |-> c]
    BY <1>2, <2>1, <2>2 DEF n
  <2>4. T[n + 1] = [char |-> "%"] /\ T[n + 2] = [char |-> c]
    BY <1>2, <1>3, <2>3
  <2>5. meant = Literal("%") \o Literal(c)
    BY <1>1, <1>5, <1>12, FlagMeanings
  <2>6. meant = Joined(TokenMeaning(T[n + 1], m), TokenMeaning(T[n + 2], m))
    BY <1>6, <2>4, <2>5 DEF Joined
  <2>7. T[n + 1] \in Tokens /\ T[n + 2] \in Tokens
    BY <2>1, <2>4
  <2>8. \A x \in Flags : c # x
    BY <1>12
  <2> QED BY <1>2, <1>3, <2>3, <2>6, <2>7, <2>8 DEF before, after, n, T, c, meant, isflag, st
<1>13. st.flag \in BOOLEAN
  BY <1>1 DEF CompilerStates
<1> QED BY <1>9, <1>10, <1>11, <1>12, <1>13

(* The ends of the range lie within the line.                              *)
StartIn(st) == st.start <= Len(st.dest)
EndIn(st) == st.end <= Len(st.dest)
RangeKept(st, m) == /\ st.start = m.start \/ StartIn(st)
                    /\ st.end = m.end \/ EndIn(st)

LEMMA TokenKeepsRange ==
    ASSUME NEW tokens, NEW m \in Msgs, NEW st \in FormatStates(tokens, m.secs),
           NEW token \in Tokens
    PROVE  LET r == Apply(st, token, m)
           IN /\ StartsRange(token) \/ StartIn(st) => StartIn(r)
              /\ EndsRange(token) \/ EndIn(st) => EndIn(r)
              /\ RangeKept(st, m) => RangeKept(r, m)
<1> DEFINE r == Apply(st, token, m)
           meant == TokenMeaning(token, m)
<1>1. /\ r \in FormatStates(tokens, m.secs)
      /\ r.dest = Joined(st.dest, meant)
      /\ IF StartsRange(token) THEN r.start <= Len(r.dest) ELSE r.start = st.start
      /\ IF EndsRange(token) THEN r.end <= Len(r.dest) ELSE r.end = st.end
  BY ApplyFacts
<1>2. st.dest \in Texts /\ st.start \in Nat /\ st.end \in Nat
  BY DEF FormatStates
<1>3. r.start \in Nat /\ r.end \in Nat
  BY <1>1 DEF FormatStates
<1>4. meant \in Texts
  BY TokenMeanings
<1> HIDE DEF r, meant
<1>5. /\ Len(r.dest) = Len(st.dest) + Len(meant)
      /\ Len(st.dest) \in Nat /\ Len(meant) \in Nat
  BY <1>1, <1>2, <1>4, TextsConcat
<1>6. StartsRange(token) \/ StartIn(st) => StartIn(r)
  BY <1>1, <1>2, <1>3, <1>5 DEF StartIn
<1>7. EndsRange(token) \/ EndIn(st) => EndIn(r)
  BY <1>1, <1>2, <1>3, <1>5 DEF EndIn
<1>8. RangeKept(st, m) => RangeKept(r, m)
  BY <1>1, <1>6, <1>7 DEF RangeKept
<1> QED BY <1>6, <1>7, <1>8 DEF r

(* A formatter prints what its pattern means, keeps its caches true and    *)
(* moves an end of the range only to a place in the line.                  *)
LEMMA FormatFollowsPattern ==
    ASSUME NEW p \in Seq(Characters), NEW f \in Formatters, NEW m \in Msgs,
           f.formatters = CompilePattern(p), CachesAreTrue(f)
    PROVE  LET r == Format(f, m)
           IN /\ r \in FormatStates(CompilePattern(p), m.secs)
              /\ r.dest = Meaning(p, m)
              /\ RangeKept(r, m)
              /\ Marks(p) => StartIn(r) /\ EndIn(r)
<1> DEFINE N == Len(p)
           T == CompilePattern(p)
           F == Formatting(f, m)
           n(k) == Len(Compiling(p)[k].to)
           Marked(k, c) == \E l \in 1 .. k : IsFlag(p)[l] /\ p[l] = c
           At(k) == /\ F[n(k)].dest = Meanings(p, m)[k]
                    /\ RangeKept(F[n(k)], m)
                    /\ Marked(k, "^") \/ Marked(k, "+") => StartIn(F[n(k)])
                    /\ Marked(k, "$") \/ Marked(k, "+") => EndIn(F[n(k)])
           E == {k \in Nat : k <= N => At(k)}
<1>1. /\ N \in Nat
      /\ Compiling(p)[0] = [flag |-> FALSE, to |-> <<>>]
  BY CompilingSteps
<1>2. /\ Len(T) \in Nat
      /\ \A k \in 0 .. Len(T) : F[k] \in FormatStates(T, m.secs)
      /\ F[0].dest = <<>> /\ F[0].start = m.start /\ F[0].end = m.end
      /\ \A k \in 1 .. Len(T) : T[k] \in Tokens /\ F[k] = Apply(F[k - 1], T[k], m)
  BY FormattingSteps
<1>3. /\ \A k \in 1 .. N : MeaningAt(p, k, m) \in Texts
      /\ \A k \in 0 .. N : Meanings(p, m)[k] \in Texts
      /\ Meanings(p, m)[0] = <<>>
      /\ \A k \in 1 .. N :
            Meanings(p, m)[k] = Joined(Meanings(p, m)[k - 1], MeaningAt(p, k, m))
  BY MeaningsSteps
<1>4. n(0) = 0
  BY <1>1
<1>5. ASSUME NEW i \in Nat, i + 1 <= Len(T)
      PROVE  /\ F[i + 1].dest = Joined(F[i].dest, TokenMeaning(T[i + 1], m))
             /\ StartsRange(T[i + 1]) \/ StartIn(F[i]) => StartIn(F[i + 1])
             /\ EndsRange(T[i + 1]) \/ EndIn(F[i]) => EndIn(F[i + 1])
             /\ RangeKept(F[i], m) => RangeKept(F[i + 1], m)
             /\ F[i].dest \in Texts
             /\ TokenMeaning(T[i + 1], m) \in Texts
  <2>1. /\ F[i] \in FormatStates(T, m.secs) /\ T[i + 1] \in Tokens
        /\ F[i + 1] = Apply(F[i], T[i + 1], m)
    <3>1. i \in 0 .. Len(T) /\ i + 1 \in 1 .. Len(T) /\ (i + 1) - 1 = i
      BY <1>2, <1>5
    <3> QED BY <1>2, <3>1
  <2>2. F[i].dest \in Texts
    BY <2>1 DEF FormatStates
  <2> DEFINE st == F[i]
             token == T[i + 1]
             r == F[i + 1]
  <2>3. st \in FormatStates(T, m.secs) /\ token \in Tokens /\ r = Apply(st, token, m)
    BY <2>1
  <2> HIDE DEF F, T, st, token, r
  <2>4. r.dest = Joined(st.dest, TokenMeaning(token, m))
    BY <2>3, ApplyFacts
  <2>5. /\ StartsRange(token) \/ StartIn(st) => StartIn(r)
        /\ EndsRange(token) \/ EndIn(st) => EndIn(r)
        /\ RangeKept(st, m) => RangeKept(r, m)
    BY <2>3, TokenKeepsRange
  <2>6. TokenMeaning(token, m) \in Texts
    BY <2>3, TokenMeanings
  <2> QED BY <2>2, <2>4, <2>5, <2>6 DEF st, token, r
<1> HIDE DEF n, F, T
<1>6. 0 \in E
  <2>1. RangeKept(F[0], m)
    BY <1>2 DEF RangeKept
  <2>2. \A c : ~Marked(0, c)
    OBVIOUS
  <2> HIDE DEF Marked
  <2> QED BY <1>2, <1>3, <1>4, <2>1, <2>2
<1>7. ASSUME NEW h \in Nat, h \in E PROVE h + 1 \in E
  <2> SUFFICES ASSUME h + 1 <= N PROVE At(h + 1)
    OBVIOUS
  <2> DEFINE k == h + 1
             meant == MeaningAt(p, k, m)
             i == n(h)
             marks(c) == IsFlag(p)[k] /\ p[k] = c
  <2>1. k \in 1 .. N /\ k - 1 = h /\ h \in 0 .. N
    BY <1>1
  <2>2. /\ F[i].dest = Meanings(p, m)[h]
        /\ RangeKept(F[i], m)
        /\ Marked(h, "^") \/ Marked(h, "+") => StartIn(F[i])
        /\ Marked(h, "$") \/ Marked(h, "+") => EndIn(F[i])
    BY <1>7, <2>1
  <2>3. \A c : Marked(k, c) <=> Marked(h, c) \/ marks(c)
    BY <2>1
  <2>4. Meanings(p, m)[k] = Joined(F[i].dest, meant)
    BY <1>3, <2>1, <2>2
  <2>5. /\ i \in Nat /\ n(k) <= Len(T)
        /\ \/ /\ n(k) = i /\ meant = <<>>
              /\ \A c \in Flags : ~marks(c)
           \/ /\ n(k) = i + 1 /\ T[i + 1] \in Tokens
              /\ meant = TokenMeaning(T[i + 1], m)
              /\ StartsRange(T[i + 1]) <=> (marks("^") \/ marks("+"))
              /\ EndsRange(T[i + 1]) <=> (marks("$") \/ marks("+"))
           \/ /\ n(k) = i + 2
              /\ T[i + 1] \in Tokens /\ T[i + 2] \in Tokens
              /\ meant = Joined(TokenMeaning(T[i + 1], m), TokenMeaning(T[i + 2], m))
              /\ \A c \in Flags : ~marks(c)
    <3> HIDE DEF k
    <3> QED BY <2>1, CharacterIsPrinted DEF n, T
  <2>6. "^" \in Flags /\ "$" \in Flags /\ "+" \in Flags
    BY DEF Flags
  <2>7. Meanings(p, m)[h] \in Texts
    BY <1>3, <2>1
  <2> HIDE DEF k, meant, i, marks, Marked
  <2>8. CASE n(k) = i /\ meant = <<>> /\ \A c \in Flags : ~marks(c)
    <3>1. Joined(F[i].dest, meant) = F[i].dest
      BY <2>2, <2>7, <2>8, ConcatEmptySeq DEF Joined, Texts
    <3> QED BY <2>2, <2>3, <2>4, <2>6, <2>8, <3>1 DEF k
  <2>9. CASE /\ n(k) = i + 1
             /\ meant = TokenMeaning(T[i + 1], m)
             /\ StartsRange(T[i + 1]) <=> (marks("^") \/ marks("+"))
             /\ EndsRange(T[i + 1]) <=> (marks("$") \/ marks("+"))
    <3>1. /\ F[i + 1].dest = Joined(F[i].dest, meant)
          /\ StartsRange(T[i + 1]) \/ StartIn(F[i]) => StartIn(F[i + 1])
          /\ EndsRange(T[i + 1]) \/ EndIn(F[i]) => EndIn(F[i + 1])
          /\ RangeKept(F[i + 1], m)
      BY <1>5, <2>2, <2>5, <2>9
    <3> QED BY <2>2, <2>3, <2>4, <2>9, <3>1 DEF k
  <2>10. CASE /\ n(k) = i + 2
              /\ meant = Joined(TokenMeaning(T[i + 1], m), TokenMeaning(T[i + 2], m))
              /\ \A c \in Flags : ~marks(c)
    <3>0. i + 1 \in Nat /\ i + 1 <= Len(T) /\ (i + 1) + 1 <= Len(T) /\ (i + 1) + 1 = i + 2
      BY <1>2, <2>5, <2>10
    <3>1. /\ F[i + 1].dest = Joined(F[i].dest, TokenMeaning(T[i + 1], m))
          /\ StartIn(F[i]) => StartIn(F[i + 1])
          /\ EndIn(F[i]) => EndIn(F[i + 1])
          /\ RangeKept(F[i + 1], m)
          /\ F[i].dest \in Texts /\ TokenMeaning(T[i + 1], m) \in Texts
      BY <1>5, <2>2, <2>5, <3>0
    <3>2. /\ F[i + 2].dest = Joined(F[i + 1].dest, TokenMeaning(T[i + 2], m))
          /\ StartIn(F[i + 1]) => StartIn(F[i + 2])
          /\ EndIn(F[i + 1]) => EndIn(F[i + 2])
          /\ RangeKept(F[i + 2], m)
          /\ TokenMeaning(T[i + 2], m) \in Texts
      BY <1>5, <3>0, <3>1
    <3>3. F[i + 2].dest = Joined(F[i].dest, meant)
      BY <2>10, <3>1, <3>2, TextsAssociate
    <3> QED BY <2>2, <2>3, <2>4, <2>6, <2>10, <3>1, <3>2, <3>3 DEF k
  <2> QED BY <2>5, <2>8, <2>9, <2>10
<1>8. Nat \subseteq E
  <2> HIDE DEF E
  <2> QED BY <1>6, <1>7, InductionOnNat
<1>9. At(N)
  BY <1>1, <1>8
<1>10. n(N) = Len(T) /\ Format(f, m) = F[n(N)] /\ Meaning(p, m) = Meanings(p, m)[N]
  BY DEF n, T, F, Format, CompilePattern, Meaning
<1>11. F[n(N)] \in FormatStates(T, m.secs)
  BY <1>2, <1>10
<1>12. Marks(p) => /\ Marked(N, "^") \/ Marked(N, "+")
                   /\ Marked(N, "$") \/ Marked(N, "+")
  <2>1. DOMAIN p = 1 .. N
    BY LenProperties
  <2> QED BY <2>1 DEF Marks
<1> HIDE DEF Marked
<1> QED BY <1>9, <1>10, <1>11, <1>12 DEF T

(* What a pattern means of a record depends on neither its colour range    *)
(* nor the sinks it has still to reach.                                    *)
LEMMA MeaningIsOfTheRecord ==
    ASSUME NEW p \in Seq(Characters), NEW m \in Msgs, NEW m2 \in Msgs,
           m2.id = m.id, m2.secs = m.secs, m2.length = m.length
    PROVE  Meaning(p, m2) = Meaning(p, m)
<1> DEFINE N == Len(p)
           E == {k \in Nat : k <= N => Meanings(p, m2)[k] = Meanings(p, m)[k]}
<1>1. Text(m2) = Text(m)
  BY DEF Text
<1>2. ASSUME NEW fields PROVE FromRecord(m2, fields) = FromRecord(m, fields)
  BY DEF FromRecord
<1>3. ASSUME NEW c PROVE MeaningOf(c, m2) = MeaningOf(c, m)
  BY <1>1, <1>2 DEF MeaningOf
<1>4. ASSUME NEW k PROVE MeaningAt(p, k, m2) = MeaningAt(p, k, m)
  BY <1>3 DEF MeaningAt
<1>5. /\ N \in Nat
      /\ Meanings(p, m)[0] = <<>>
      /\ \A k \in 1 .. N :
            Meanings(p, m)[k] = Joined(Meanings(p, m)[k - 1], MeaningAt(p, k, m))
  BY MeaningsSteps
<1>6. /\ Meanings(p, m2)[0] = <<>>
      /\ \A k \in 1 .. N :
            Meanings(p, m2)[k] = Joined(Meanings(p, m2)[k - 1], MeaningAt(p, k, m2))
  BY MeaningsSteps
<1>7. 0 \in E
  BY <1>5, <1>6
<1>8. ASSUME NEW h \in Nat, h \in E PROVE h + 1 \in E
  <2> SUFFICES ASSUME h + 1 <= N
               PROVE  Meanings(p, m2)[h + 1] = Meanings(p, m)[h + 1]
    OBVIOUS
  <2>1. h + 1 \in 1 .. N /\ (h + 1) - 1 = h
    BY <1>5
  <2>2. Meanings(p, m2)[h] = Meanings(p, m)[h]
    BY <1>5, <1>8, <2>1
  <2> QED BY <1>4, <1>5, <1>6, <2>1, <2>2
<1>9. Nat \subseteq E
  <2> HIDE DEF E
  <2> QED BY <1>7, <1>8, InductionOnNat
<1> QED BY <1>5, <1>9 DEF Meaning

------------------------------------------------------------------------------
(* The inductive invariant                                                 *)

PatternTypes ==
    /\ pattern \in [1 .. Sinks -> Patterns]
    /\ formatter \in [1 .. Sinks -> Formatters]
    /\ msg \in Msgs /\ msg.id \in {0, 1} /\ msg.sinks <= Sinks
    /\ printed \in [1 .. Sinks -> [dest : Texts, start : Nat, end : Nat,
                                   under : Patterns]]

(* Every formatter is what its sink's pattern was compiled to, and what it *)
(* caches is of the second it is cached for.                               *)
FormattersAreTrue ==
    \A s \in 1 .. Sinks : /\ formatter[s].formatters = CompilePattern(pattern[s])
                          /\ CachesAreTrue(formatter[s])

(* A record on its way carries the range that its last sink has left in it. *)
RecordIsHandedOn ==
    msg.sinks < Sinks =>
        /\ msg.secs # 0
        /\ msg.sinks = 0 => msg.start = 0 /\ msg.end = 0
        /\ msg.sinks # 0 => /\ msg.start = printed[msg.sinks].start
                            /\ msg.end = printed[msg.sinks].end

PatternInductive == /\ PatternTypes /\ FormattersAreTrue /\ RecordIsHandedOn
                    /\ LinesBearTheirTime /\ ColoursWithinTheLine

LEMMA NewFormattersAreTrue ==
    ASSUME NEW p \in Patterns
    PROVE  /\ p \in Seq(Characters)
           /\ NewFormatter(p) \in Formatters /\ CachesAreTrue(NewFormatter(p))
           /\ NewFormatter(p).formatters = CompilePattern(p)
<1>1. p \in Seq(Characters)
  BY PatternAssumption
<1>2. CompilePattern(p) \in Seq(Tokens)
  BY <1>1, CompilingSteps DEF CompilePattern, CompilerStates
<1>3. <<>> \in Texts
  BY DEF Texts
<1> QED BY <1>1, <1>2, <1>3 DEF NewFormatter, Formatters, CachesAreTrue, DatetimeIsCached

LEMMA PatternStarts == PatternInit => PatternInductive
<1> SUFFICES ASSUME PatternInit PROVE PatternInductive
  OBVIOUS
<1> USE DEF PatternInit
<1>1. Sinks \in Nat
  BY PatternAssumption
<1>2. <<>> \in Texts /\ Len(<<>>) = 0
  BY DEF Texts
<1>3. PatternTypes
  <2>1. formatter \in [1 .. Sinks -> Formatters]
    BY NewFormattersAreTrue
  <2>2. msg \in Msgs /\ msg.id \in {0, 1} /\ msg.sinks <= Sinks
    BY <1>1 DEF Msgs
  <2> QED BY <1>2, <2>1, <2>2 DEF PatternTypes
<1>4. FormattersAreTrue
  BY NewFormattersAreTrue DEF FormattersAreTrue
<1>5. RecordIsHandedOn
  BY <1>1 DEF RecordIsHandedOn
<1>6. LinesBearTheirTime
  BY DEF LinesBearTheirTime
<1>7. ColoursWithinTheLine
  <2>1. \A s \in 1 .. Sinks : /\ printed[s].dest = <<>>
                             /\ printed[s].start = 0 /\ printed[s].end = 0
    OBVIOUS
  <2>2. msg.sinks = Sinks
    OBVIOUS
  <2>3. \A s \in 1 .. msg.sinks : /\ printed[s].start <= Len(printed[s].dest)
                                 /\ printed[s].end <= Len(printed[s].dest)
    BY ONLY <1>2, <2>1, <2>2
  <2> QED BY ONLY <2>3 DEF ColoursWithinTheLine
<1> QED BY <1>3, <1>4, <1>5, <1>6, <1>7 DEF PatternInductive

LEMMA NewMsgKeeps ==
    ASSUME PatternInductive, NEW secs \in Seconds, NEW length \in Lengths,
           NewMsg(secs, length)
    PROVE  PatternInductive'
<1> USE DEF NewMsg, PatternInductive
<1>1. /\ Sinks \in Nat /\ secs \in Nat \ {0} /\ length \in Nat
  BY PatternAssumption
<1>2. PatternTypes'
  <2>1. msg.id \in {0, 1}
    BY DEF PatternTypes
  <2>2. msg' \in Msgs /\ msg'.id \in {0, 1} /\ msg'.sinks <= Sinks
    BY <1>1, <2>1 DEF Msgs
  <2>3. pattern' = pattern /\ formatter' = formatter /\ printed' = printed
    OBVIOUS
  <2> QED BY <2>2, <2>3 DEF PatternTypes
<1>3. FormattersAreTrue'
  BY DEF FormattersAreTrue
<1>4. msg'.sinks = 0 /\ msg'.secs = secs /\ msg'.start = 0 /\ msg'.end = 0
  OBVIOUS
<1>5. RecordIsHandedOn'
  BY <1>1, <1>4 DEF RecordIsHandedOn
<1>6. 1 .. msg'.sinks = {}
  BY <1>4
<1>7. LinesBearTheirTime' /\ ColoursWithinTheLine'
  BY <1>6 DEF LinesBearTheirTime, ColoursWithinTheLine
<1> QED BY <1>2, <1>3, <1>5, <1>7

LEMMA SetPatternKeeps ==
    ASSUME PatternInductive, NEW s \in 1 .. Sinks, NEW p \in Patterns,
           SetPattern(s, p)
    PROVE  PatternInductive'
<1> USE DEF SetPattern, PatternInductive
<1>1. Sinks \in Nat
  BY PatternAssumption
<1>2. PatternTypes'
  BY NewFormattersAreTrue DEF PatternTypes
<1>3. FormattersAreTrue'
  BY NewFormattersAreTrue DEF FormattersAreTrue, PatternTypes
<1>4. RecordIsHandedOn'
  BY <1>1 DEF RecordIsHandedOn, PatternTypes
<1>5. LinesBearTheirTime' /\ ColoursWithinTheLine'
  BY DEF LinesBearTheirTime, ColoursWithinTheLine
<1> QED BY <1>2, <1>3, <1>4, <1>5

LEMMA SinkLogKeeps ==
    ASSUME PatternInductive, SinkLog
    PROVE  PatternInductive'
<1> DEFINE s == msg.sinks + 1
           st == Format(formatter[s], msg)
<1>1. /\ PatternTypes /\ FormattersAreTrue /\ RecordIsHandedOn
      /\ LinesBearTheirTime /\ ColoursWithinTheLine
  BY DEF PatternInductive
<1>2. /\ Sinks \in Nat /\ msg.sinks \in Nat /\ msg.sinks < Sinks
      /\ s \in 1 .. Sinks /\ msg \in Msgs
  BY <1>1, PatternAssumption DEF PatternTypes, Msgs, SinkLog
<1>3. /\ formatter' = [formatter EXCEPT ![s] = st.f]
      /\ printed' = [printed EXCEPT ![s] =
                        [dest |-> st.dest, start |-> st.start,
                         end |-> st.end, under |-> pattern[s]]]
      /\ msg' = [msg EXCEPT !.start = st.start, !.end = st.end, !.sinks = s]
      /\ pattern' = pattern
  BY DEF SinkLog
<1>4. /\ pattern[s] \in Seq(Characters)
      /\ formatter[s] \in Formatters /\ CachesAreTrue(formatter[s])
      /\ formatter[s].formatters = CompilePattern(pattern[s])
  BY <1>1, <1>2, PatternAssumption DEF PatternTypes, FormattersAreTrue
<1>5. /\ st \in FormatStates(CompilePattern(pattern[s]), msg.secs)
      /\ st.dest = Meaning(pattern[s], msg)
      /\ RangeKept(st, msg)
      /\ Marks(pattern[s]) => StartIn(st) /\ EndIn(st)
  BY <1>2, <1>4, FormatFollowsPattern
<1>6. /\ st.f \in Formatters /\ st.dest \in Texts /\ st.start \in Nat /\ st.end \in Nat
      /\ st.f.formatters = CompilePattern(pattern[s]) /\ CachesAreTrue(st.f)
  BY <1>5 DEF FormatStates, CachesAreTrue
<1> HIDE DEF s, st
<1>7. /\ msg' \in Msgs /\ msg'.id = msg.id /\ msg'.secs = msg.secs
      /\ msg'.length = msg.length /\ msg'.start = st.start /\ msg'.end = st.end
      /\ msg'.sinks = s
  <2>1. s \in Nat
    BY <1>2
  <2> QED BY <1>2, <1>3, <1>6, <2>1 DEF Msgs
<1>8. PatternTypes'
  <2>1. formatter' \in [1 .. Sinks -> Formatters]
    BY <1>1, <1>2, <1>3, <1>6 DEF PatternTypes
  <2>2. printed' \in [1 .. Sinks -> [dest : Texts, start : Nat, end : Nat,
                                     under : Patterns]]
    BY <1>1, <1>2, <1>3, <1>6 DEF PatternTypes
  <2>3. pattern' \in [1 .. Sinks -> Patterns]
    BY <1>1, <1>3 DEF PatternTypes
  <2>4. msg'.id \in {0, 1} /\ msg'.sinks <= Sinks
    BY <1>1, <1>2, <1>7 DEF PatternTypes
  <2> QED BY <1>7, <2>1, <2>2, <2>3, <2>4 DEF PatternTypes
<1>9. FormattersAreTrue'
  <2> SUFFICES ASSUME NEW t \in 1 .. Sinks
               PROVE  /\ formatter'[t].formatters = CompilePattern(pattern'[t])
                      /\ CachesAreTrue(formatter'[t])
    BY DEF FormattersAreTrue
  <2>1. CASE t = s
    BY <1>1, <1>2, <1>3, <1>6, <2>1 DEF PatternTypes
  <2>2. CASE t # s
    <3>1. formatter'[t] = formatter[t]
      BY <1>1, <1>3, <2>2 DEF PatternTypes
    <3> QED BY <1>1, <1>3, <3>1 DEF FormattersAreTrue
  <2> QED BY <2>1, <2>2
(* The lines of the record: those printed before, and the new one.         *)
<1>10. /\ printed'[s].dest = st.dest /\ printed'[s].under = pattern[s]
       /\ printed'[s].start = st.start /\ printed'[s].end = st.end
       /\ \A t \in 1 .. msg.sinks : printed'[t] = printed[t]
       /\ \A t \in 1 .. s : t = s \/ t \in 1 .. msg.sinks
  <2>1. \A t \in 1 .. s : t = s \/ t \in 1 .. msg.sinks
    BY <1>2 DEF s
  <2>2. \A t \in 1 .. msg.sinks : t # s /\ t \in 1 .. Sinks
    BY <1>2 DEF s
  <2> QED BY <1>1, <1>2, <1>3, <2>1, <2>2 DEF PatternTypes
<1>12. msg.secs # 0
  BY <1>1, <1>2 DEF RecordIsHandedOn
<1>13. RecordIsHandedOn'
  <2>1. s # 0
    BY <1>2 DEF s
  <2> QED BY <1>3, <1>7, <1>10, <1>12, <2>1 DEF RecordIsHandedOn
<1>14. LinesBearTheirTime'
  <2> SUFFICES ASSUME NEW t \in 1 .. s
               PROVE  printed'[t].dest = Meaning(printed'[t].under, msg')
    BY <1>7 DEF LinesBearTheirTime
  <2>1. t \in 1 .. Sinks
    BY <1>2
  <2>2. printed'[t].under \in Seq(Characters)
    BY <1>8, <2>1, PatternAssumption DEF PatternTypes
  <2>3. printed'[t].dest = Meaning(printed'[t].under, msg)
    BY <1>1, <1>5, <1>10, <1>12 DEF LinesBearTheirTime
  <2> QED BY <1>2, <1>7, <2>2, <2>3, MeaningIsOfTheRecord
<1>15. ColoursWithinTheLine'
  <2> SUFFICES ASSUME NEW t \in 1 .. s,
                      \/ Marks(printed'[t].under)
                      \/ \A u \in 1 .. t : printed'[u].under = printed'[t].under
               PROVE  /\ printed'[t].start <= Len(printed'[t].dest)
                      /\ printed'[t].end <= Len(printed'[t].dest)
    BY <1>7 DEF ColoursWithinTheLine
  <2>1. CASE t \in 1 .. msg.sinks
    <3>1. \A u \in 1 .. t : u \in 1 .. msg.sinks
      BY <1>2, <2>1
    <3> QED BY <1>1, <1>10, <2>1, <3>1 DEF ColoursWithinTheLine
  <2>2. CASE t = s
    <3>1. SUFFICES StartIn(st) /\ EndIn(st)
      BY <1>10, <2>2 DEF StartIn, EndIn
    <3>2. CASE Marks(pattern[s])
      BY <1>5, <3>2
    <3>3. CASE \A u \in 1 .. s : printed'[u].under = pattern[s]
      <4>1. SUFFICES msg.start <= Len(st.dest) /\ msg.end <= Len(st.dest)
        BY <1>5 DEF RangeKept, StartIn, EndIn
      <4>2. CASE msg.sinks = 0
        <5>1. Len(st.dest) \in Nat
          BY <1>6, LenProperties DEF Texts
        <5>2. msg.start = 0 /\ msg.end = 0
          BY <1>1, <1>2, <4>2 DEF RecordIsHandedOn
        <5> QED BY <5>1, <5>2
      (* The sink before has printed by the same pattern: its line means   *)
      (* the same.                                                         *)
      <4>3. CASE msg.sinks # 0
        <5> DEFINE u == msg.sinks
        <5>1. /\ u \in 1 .. msg.sinks /\ u \in 1 .. s
              /\ \A v \in 1 .. u : v \in 1 .. s /\ v \in 1 .. msg.sinks
          BY <1>2, <4>3 DEF s
        <5>2. msg.start = printed[u].start /\ msg.end = printed[u].end
          BY <1>1, <1>2, <4>3, <5>1 DEF RecordIsHandedOn
        <5>3. \A v \in 1 .. u : printed[v].under = pattern[s]
          BY <1>10, <3>3, <5>1
        <5>4. printed[u].dest = st.dest
          BY <1>1, <1>5, <1>12, <5>1, <5>3 DEF LinesBearTheirTime
        <5>5. /\ printed[u].start <= Len(printed[u].dest)
              /\ printed[u].end <= Len(printed[u].dest)
          BY <1>1, <5>1, <5>3 DEF ColoursWithinTheLine
        <5> QED BY <5>2, <5>4, <5>5
      <4> QED BY <4>2, <4>3
    <3> QED BY <1>10, <2>2, <3>2, <3>3
  <2> QED BY <1>10, <2>1, <2>2
<1> QED BY <1>8, <1>9, <1>13, <1>14, <1>15 DEF PatternInductive

(* What every state of the sinks and their patterns satisfies: formatters  *)
(* are their compiled patterns with true caches, a record is handed on     *)
(* with its range, and the two properties below.                           *)
THEOREM PatternInvariant == PatternSpec => []PatternInductive
<1>1. PatternInductive /\ [PatternNext]_pattern_vars => PatternInductive'
  <2> SUFFICES ASSUME PatternInductive, [PatternNext]_pattern_vars
               PROVE  PatternInductive'
    OBVIOUS
  <2>1. CASE \E secs \in Seconds, length \in Lengths : NewMsg(secs, length)
    BY <2>1, NewMsgKeeps
  <2>2. CASE SinkLog
    BY <2>2, SinkLogKeeps
  <2>3. CASE \E s \in 1 .. Sinks, p \in Patterns : SetPattern(s, p)
    BY <2>3, SetPatternKeeps
  <2>4. CASE UNCHANGED pattern_vars
    BY <2>4 DEF pattern_vars, PatternInductive, PatternTypes, FormattersAreTrue,
                RecordIsHandedOn, LinesBearTheirTime, ColoursWithinTheLine
  <2> QED BY <2>1, <2>2, <2>3, <2>4 DEF PatternNext
<1> QED BY PatternStarts, <1>1, PTL DEF PatternSpec

(* Every line a sink prints shows its own record's time and fields in the  *)
(* places its pattern gives them, whatever the caches of the formatter     *)
(* hold, for all patterns, numbers of sinks and orders of times.           *)
THEOREM LinesAreTimely == PatternSpec => []LinesBearTheirTime
<1>1. PatternInductive => LinesBearTheirTime
  BY DEF PatternInductive
<1> QED BY PatternInvariant, <1>1, PTL

(* The colour range lies within the line when the sinks so far have        *)
(* printed the record by one pattern or the sink's own pattern marks both  *)
(* ends, wherever patterns are replaced.                                   *)
THEOREM ColoursStayInTheLine == PatternSpec => []ColoursWithinTheLine
<1>1. PatternInductive => ColoursWithinTheLine
  BY DEF PatternInductive
<1> QED BY PatternInvariant, <1>1, PTL
============================================================================
