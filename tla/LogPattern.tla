---------------------------- MODULE LogPattern -----------------------------
(* pattern_formatter: a pattern is compiled into flag formatters, which    *)
(* print a record; the broken-down time is cached for the second it was    *)
(* computed for, and %+ caches its printed form once more.  The sinks of a *)
(* logger format one record after the other, and leave in it the range     *)
(* that ansicolor_sink colours.  A printed field is named by the field and *)
(* by what it was taken from; a character and a field have length 1.       *)
EXTENDS Integers, Sequences

CONSTANTS Sinks,        \* number of sinks of the logger
          Characters,   \* of the patterns
          Patterns,     \* sequences of characters
          Seconds,      \* seconds of the records, the epoch's not among them
          Lengths       \* lengths of a record's text

ASSUME PatternAssumption == /\ Sinks \in Nat
                            /\ "%" \in Characters /\ Patterns \subseteq Seq(Characters)
                            /\ Seconds \subseteq Nat \ {0}
                            /\ Lengths \subseteq Nat

VARIABLES pattern,      \* of each sink
          formatter,    \* of each sink: what its pattern was compiled to
          msg,          \* the record being logged
          printed       \* history: the last line of each sink, and the
                        \* pattern the sink had then

pattern_vars == <<pattern, formatter, msg, printed>>

(* Which fields a flag prints, in their order: of tm_time, of the time's   *)
(* fraction, of the record.                                                *)
DateFlags ==
    [a |-> <<"wday">>, A |-> <<"wday">>, b |-> <<"mon">>, h |-> <<"mon">>,
     B |-> <<"mon">>, m |-> <<"mon">>, d |-> <<"mday">>,
     C |-> <<"year">>, Y |-> <<"year">>,
     D |-> <<"mon", "mday", "year">>, x |-> <<"mon", "mday", "year">>,
     c |-> <<"wday", "mon", "mday", "hour", "min", "sec", "year">>]

TimeFlags ==
    [H |-> <<"hour">>, I |-> <<"hour">>, p |-> <<"hour">>, M |-> <<"min">>,
     S |-> <<"sec">>, r |-> <<"hour", "min", "sec", "hour">>,
     R |-> <<"hour", "min">>, T |-> <<"hour", "min", "sec">>,
     X |-> <<"hour", "min", "sec">>, z |-> <<"gmtoff">>]

RecordFlags ==
    [n |-> <<"logger_name">>, l |-> <<"level">>, L |-> <<"level">>,
     t |-> <<"thread_id">>, P |-> <<"pid">>, i |-> <<"msg_id">>,
     e |-> <<"fraction">>, f |-> <<"fraction">>, F |-> <<"fraction">>,
     E |-> <<"seconds">>]

Datetime == <<"year", "mon", "mday", "hour", "min", "sec">>  \* of %+

(* localtime, and the zeroed tm of a new formatter.                        *)
Tm(secs, field) == <<field, secs>>
FromTm(secs, fields) == [k \in DOMAIN fields |-> Tm(secs, fields[k])]
FromRecord(m, fields) == [k \in DOMAIN fields |-> <<fields[k], m.id>>]
Text(m) == [k \in 1 .. m.length |-> <<"text", m.id>>]
Literal(c) == <<<<"char", c>>>>

Flags == DOMAIN DateFlags \cup DOMAIN TimeFlags \cup DOMAIN RecordFlags
             \cup {"v", "^", "$", "+"}

(* compile_pattern_ with handle_flag_: an unknown flag stands for itself,  *)
(* its % included, and a % at the end is dropped.                          *)
HandleFlag(c) == IF c \in Flags THEN <<[flag |-> c]>>
                 ELSE <<[char |-> "%"], [char |-> c]>>

Take(st, c) ==
    CASE st.flag -> [flag |-> FALSE, to |-> st.to \o HandleFlag(c)]
      [] ~st.flag /\ c = "%" -> [st EXCEPT !.flag = TRUE]
      [] ~st.flag /\ c # "%" -> [st EXCEPT !.to = Append(@, [char |-> c])]

Compiling(p) ==
    LET taken[k \in 0 .. Len(p)] ==
            IF k = 0 THEN [flag |-> FALSE, to |-> <<>>] ELSE Take(taken[k - 1], p[k])
    IN taken

CompilePattern(p) == Compiling(p)[Len(p)].to

NewFormatter(p) ==
    [formatters |-> CompilePattern(p), last_log_secs |-> 0, cached_tm |-> 0,
     cache_timestamp |-> 0, cached_datetime |-> <<>>]

(* full_formatter: %+.                                                     *)
Full(st, m) ==
    LET hit == st.f.cache_timestamp = m.secs /\ st.f.cached_datetime # <<>>
        f == IF hit THEN st.f
             ELSE [st.f EXCEPT
                      !.cached_datetime = FromTm(st.f.cached_tm, Datetime),
                      !.cache_timestamp = m.secs]
        upto == st.dest \o f.cached_datetime
                    \o FromRecord(m, <<"fraction", "logger_name">>)
    IN [f |-> f, start |-> Len(upto), end |-> Len(upto) + 1,
        dest |-> upto \o FromRecord(m, <<"level">>) \o Text(m)]

(* One flag formatter appends to dest, or marks the range to colour.       *)
Apply(st, token, m) ==
    IF "char" \in DOMAIN token
    THEN [st EXCEPT !.dest = @ \o Literal(token.char)]
    ELSE LET c == token.flag
             More(s) == [st EXCEPT !.dest = @ \o s]
         IN CASE c = "^" -> [st EXCEPT !.start = Len(st.dest)]
              [] c = "$" -> [st EXCEPT !.end = Len(st.dest)]
              [] c = "+" -> Full(st, m)
              [] c = "v" -> More(Text(m))
              [] c \in DOMAIN DateFlags ->
                     More(FromTm(st.f.cached_tm, DateFlags[c]))
              [] c \in DOMAIN TimeFlags ->
                     More(FromTm(st.f.cached_tm, TimeFlags[c]))
              [] c \in DOMAIN RecordFlags ->
                     More(FromRecord(m, RecordFlags[c]))

(* The time is broken down again when the second is not the cached one.    *)
RefreshForwards(f, secs) ==
    IF secs > f.last_log_secs
    THEN [f EXCEPT !.cached_tm = secs, !.last_log_secs = secs] ELSE f

Refresh(f, secs) ==
    IF secs # f.last_log_secs
    THEN [f EXCEPT !.cached_tm = secs, !.last_log_secs = secs] ELSE f

(* pattern_formatter::format on the record and the range left in it.       *)
Formatting(f, m) ==
    LET st[k \in 0 .. Len(f.formatters)] ==
            IF k = 0 THEN [f |-> Refresh(f, m.secs), dest |-> <<>>,
                           start |-> m.start, end |-> m.end]
            ELSE Apply(st[k - 1], f.formatters[k], m)
    IN st

Format(f, m) == Formatting(f, m)[Len(f.formatters)]

PatternInit ==
    /\ pattern \in [1 .. Sinks -> Patterns]
    /\ formatter = [s \in 1 .. Sinks |-> NewFormatter(pattern[s])]
    /\ msg = [id |-> 0, secs |-> 0, length |-> 0, start |-> 0, end |-> 0,
              sinks |-> Sinks]
    /\ printed = [s \in 1 .. Sinks |-> [dest |-> <<>>, start |-> 0,
                                        end |-> 0, under |-> pattern[s]]]

NewMsgInTheOldRecord(secs, length) ==
    /\ msg.sinks = Sinks
    /\ msg' = [msg EXCEPT !.id = 1 - @, !.secs = secs, !.length = length,
                          !.sinks = 0]
    /\ UNCHANGED <<pattern, formatter, printed>>

(* A thread logs: a record with its own time, which may be older than the  *)
(* last one's, and an empty range.                                         *)
NewMsg(secs, length) ==
    /\ msg.sinks = Sinks
    /\ msg' = [id |-> 1 - msg.id, secs |-> secs, length |-> length,
               start |-> 0, end |-> 0, sinks |-> 0]
    /\ UNCHANGED <<pattern, formatter, printed>>

(* The logger hands the record to its next sink, under that sink's lock.   *)
SinkLog ==
    /\ msg.sinks < Sinks
    /\ LET s == msg.sinks + 1
           st == Format(formatter[s], msg)
       IN /\ formatter' = [formatter EXCEPT ![s] = st.f]
          /\ printed' = [printed EXCEPT ![s] =
                            [dest |-> st.dest, start |-> st.start,
                             end |-> st.end, under |-> pattern[s]]]
          /\ msg' = [msg EXCEPT !.start = st.start, !.end = st.end,
                                !.sinks = s]
    /\ UNCHANGED pattern

(* set_pattern on one sink, under that sink's lock alone: a new formatter  *)
(* with empty caches.  Another thread may call it between two sinks of a   *)
(* record.                                                                 *)
SetPattern(s, p) ==
    /\ pattern' = [pattern EXCEPT ![s] = p]
    /\ formatter' = [formatter EXCEPT ![s] = NewFormatter(p)]
    /\ UNCHANGED <<msg, printed>>

PatternNext ==
    \/ \E secs \in Seconds, length \in Lengths : NewMsg(secs, length)
    \/ SinkLog
    \/ \E s \in 1 .. Sinks, p \in Patterns : SetPattern(s, p)

PatternSpec == PatternInit /\ [][PatternNext]_pattern_vars
----------------------------------------------------------------------------
(* What a pattern means, said by position: a character after a % that is   *)
(* not itself a flag is a flag.                                            *)
IsFlag(p) == LET is[k \in 1 .. Len(p)] == k > 1 /\ p[k - 1] = "%" /\ ~is[k - 1]
             IN is

MeaningOf(c, m) ==
    CASE c \in {"^", "$"} -> <<>>
      [] c = "v" -> Text(m)
      [] c = "+" -> FromTm(m.secs, Datetime) \o
             FromRecord(m, <<"fraction", "logger_name", "level">>) \o Text(m)
      [] c \in DOMAIN DateFlags -> FromTm(m.secs, DateFlags[c])
      [] c \in DOMAIN TimeFlags -> FromTm(m.secs, TimeFlags[c])
      [] c \in DOMAIN RecordFlags -> FromRecord(m, RecordFlags[c])
      [] c \notin Flags -> Literal("%") \o Literal(c)

MeaningAt(p, k, m) == IF IsFlag(p)[k] THEN MeaningOf(p[k], m)
                      ELSE IF p[k] = "%" THEN <<>> ELSE Literal(p[k])

Meanings(p, m) ==
    LET line[k \in 0 .. Len(p)] ==
            IF k = 0 THEN <<>> ELSE line[k - 1] \o MeaningAt(p, k, m)
    IN line

Meaning(p, m) == Meanings(p, m)[Len(p)]

(* Every line shows the fields of its own record, in the places its        *)
(* pattern gives them: neither the cached broken-down time nor the cached  *)
(* date of %+ shows another second, in whatever order the times come and   *)
(* whenever the pattern is replaced.                                       *)
LinesBearTheirTime ==
    \A s \in 1 .. msg.sinks :
        msg.secs # 0 =>
            printed[s].dest = Meaning(printed[s].under, msg)

Marks(p) == \E k, l \in DOMAIN p : /\ IsFlag(p)[k] /\ IsFlag(p)[l]
                                   /\ \/ p[k] = "^" /\ p[l] = "$"
                                      \/ p[k] = "+"

(* ansicolor_sink prints the range by its positions in the line: if the    *)
(* sinks have so far printed the record by one pattern, or a sink's own    *)
(* pattern marks both ends, the range that the sinks before have left in   *)
(* the record never exceeds the line.  (A set_pattern that falls between   *)
(* two sinks of a record makes them print it by two patterns.)             *)
ColoursWithinTheLine ==
    \A s \in 1 .. msg.sinks :
        LET under == printed[s].under
        IN Marks(under) \/ (\A t \in 1 .. s : printed[t].under = under) =>
               /\ printed[s].start <= Len(printed[s].dest)
               /\ printed[s].end <= Len(printed[s].dest)
============================================================================
