----------------------------- MODULE LogFiles ------------------------------
(* The sinks of spdlog that write files: rotating_file_sink, whose base    *)
(* file is shifted to .1, .2, ... before it outgrows max_size, and         *)
(* daily_file_sink, which changes its file when the day does.  A file_     *)
(* helper writes into the buffer of a stdio FILE, which reaches the file   *)
(* when it is flushed or closed, or earlier.  Opening, removing, renaming, *)
(* writing, flushing and closing may fail, the process may end, also in    *)
(* the middle of a rotation, and a line reaches the sink after the time it *)
(* bears, by way of the queue of the asynchronous logger, which does not   *)
(* sort lines.                                                             *)
EXTENDS Integers, Sequences, FiniteSets, SequencesExt

CONSTANTS
    max_size, max_files,    \* of the rotating sink
    DayLength,              \* the ticks of a day
    RotationTimes,          \* choices of the daily sink's hour and minute
    Sizes,                  \* sizes of a formatted line
    MaxDelay,               \* bound: ticks a line waits in the log's queue
    MaxLines, MaxClock, MaxFaults, MaxRestarts  \* bounds

ASSUME RotatingAssumption == /\ max_size \in Nat \ {0}
                             /\ max_files \in Nat
                             /\ Sizes \subseteq Nat \ {0}
ASSUME DailyAssumption == /\ DayLength \in Nat \ {0}
                          /\ RotationTimes \subseteq 0 .. DayLength - 1
                          /\ MaxDelay \in Nat

VARIABLES
    kind,           \* which of the two sinks the process has
    truncate,       \* the daily sink's flag
    rotation_time,  \* rotation_h_ and rotation_m_ of the daily sink
    clock,          \* system time, in ticks
    pc,             \* of the sink
    files,          \* the directory: names to lines, with those that are
                    \* still in the buffer of the open file
    fd,             \* the name of the open file, or Closed
    safe,           \* how many lines of it are surely not in the buffer
    current_size,   \* of the rotating sink
    i,              \* of rotate_: the index being shifted to
    rotation_tp,    \* of the daily sink
    handed,         \* history: the lines given to the sink, with the time
                    \* each bears, the time the sink was last busy with it
                    \* and the number of the process
    written,        \* history: those whose fwrite succeeded
    flushed,        \* history: what was in a file when it was flushed
    faults,
    restarts        \* processes that have ended

config == <<kind, truncate, rotation_time>>
history == <<handed, written, flushed>>
vars == <<config, clock, pc, files, fd, safe, current_size, i, rotation_tp,
          history, faults, restarts>>

(* calc_filename: the rotating sink's files are named by their index, the  *)
(* daily sink's by the day.                                                *)
Closed == -1
Exists(f) == f \in DOMAIN files
WithFile(dir, f, lines) == [g \in DOMAIN dir \cup {f} |->
                              IF g = f THEN lines ELSE dir[g]]
Without(dir, f) == Restrict(dir, DOMAIN dir \ {f})
Day(t) == t \div DayLength

Busy == pc \in {"rotate", "rename", "open", "write"}
line == Last(handed)    \* the one a busy sink is working on

SizeOf(file) ==
    LET sum[k \in 0 .. Len(file)] == IF k = 0 THEN 0
                                     ELSE sum[k - 1] + file[k].size
    IN sum[Len(file)]

Fault == faults < MaxFaults /\ faults' = faults + 1

(* A file of which all lines after the first `whole` were in the buffer,   *)
(* when the buffer is lost: a part of it may have reached the file before, *)
(* also a part of a line.                                                  *)
Torn(l) == {[l EXCEPT !.size = s] : s \in 1 .. l.size - 1}
Remains(file, whole) ==
    {SubSeq(file, 1, k) : k \in whole .. Len(file)} \cup
    UNION {{Append(SubSeq(file, 1, k - 1), t) : t \in Torn(file[k])} :
              k \in whole + 1 .. Len(file)}

LoseBuffer ==
    IF fd = Closed THEN UNCHANGED files
    ELSE \E rest \in Remains(files[fd], safe) :
            files' = [files EXCEPT ![fd] = rest]

(* fflush and fclose; nobody looks at what they return.  A failure that    *)
(* loses nothing is not counted.                                           *)
Drain == \/ /\ flushed' = flushed \cup (IF fd = Closed THEN {}
                                        ELSE Range(files[fd]))
            /\ UNCHANGED <<files, faults>>
         \/ Fault /\ LoseBuffer /\ files' # files /\ UNCHANGED flushed

CloseFile == Drain /\ fd' = Closed /\ safe' = 0

NextRotationOfToday(now, time_of_day) == Day(now) * DayLength + time_of_day

(* next_rotation_tp_: the next time of day, counted from the present.      *)
NextRotation(now, time_of_day) ==
    LET today == Day(now) * DayLength + time_of_day
    IN IF today > now THEN today ELSE today + DayLength

(* file_helper::open, of one that is closed, tries five times: it leaves   *)
(* the new file open, or itself closed and the caller throws.              *)
Open(f, trunc) == /\ files' = IF trunc \/ ~Exists(f)
                                THEN WithFile(files, f, <<>>) ELSE files
                  /\ fd' = f
                  /\ safe' = Len(files'[f])

OpenOrThrow(f, trunc) ==
    \/ Open(f, trunc) /\ pc' = "write" /\ UNCHANGED faults
    \/ Fault /\ pc' = "idle" /\ UNCHANGED <<files, fd, safe>>

(* The constructors: the rotating sink appends to the file it finds and    *)
(* counts from its size; the daily sink opens the file of the present day. *)
Init ==
    /\ kind \in {"rotating", "daily"}
    /\ truncate \in (IF kind = "daily" THEN BOOLEAN ELSE {FALSE})
    /\ rotation_time \in (IF kind = "daily" THEN RotationTimes ELSE {0})
    /\ clock = 0
    /\ pc = "idle"
    /\ files = [f \in {0} |-> <<>>]
    /\ fd = 0
    /\ safe = 0
    /\ current_size = 0
    /\ i = 0
    /\ rotation_tp = NextRotation(0, rotation_time)
    /\ handed = <<>>
    /\ written = <<>>
    /\ flushed = {}
    /\ faults = 0
    /\ restarts = 0

(* Time passes, also while the sink works on a line.                       *)
Tick == /\ kind = "daily"
        /\ clock < MaxClock
        /\ clock' = clock + 1
        /\ handed' = IF ~Busy THEN handed
                     ELSE [handed EXCEPT ![Len(handed)].at = clock']
        /\ UNCHANGED <<config, pc, files, fd, safe, current_size, i,
                       rotation_tp, written, flushed, faults, restarts>>

(* sink_it_ begins.  The rotating sink counts the line, and closes its     *)
(* file to rotate before it writes one that would make the file too large; *)
(* the daily sink asks the time the line bears, and closes its file to     *)
(* open another.                                                           *)
Log(size, time) ==
    /\ pc = "idle"
    /\ Len(handed) < MaxLines
    /\ time >= 0
    /\ handed' = Append(handed, [n |-> Len(handed) + 1, size |-> size,
                                 time |-> time, at |-> clock,
                                 run |-> restarts])
    /\ IF kind = "rotating"
       THEN /\ current_size' = current_size + size
            /\ pc' = IF current_size' > max_size THEN "rotate" ELSE "write"
       ELSE /\ pc' = IF time >= rotation_tp THEN "open" ELSE "write"
            /\ UNCHANGED current_size
    /\ i' = IF pc' = "rotate" THEN max_files ELSE i
    /\ IF pc' = "write" THEN UNCHANGED <<files, fd, safe, flushed, faults>>
       ELSE CloseFile
    /\ UNCHANGED <<config, clock, rotation_tp, written, restarts>>

(* The loop of rotate_ from the last index to 1.  rename_file first        *)
(* removes its target, whether that fails or not.                          *)
RotateStep ==
    /\ pc = "rotate"
    /\ i > 0
    /\ \/ /\ ~Exists(i - 1)
          /\ i' = i - 1
          /\ UNCHANGED <<pc, files, faults>>
       \/ /\ Exists(i - 1)
          /\ pc' = "rename"
          /\ \/ files' = Without(files, i) /\ UNCHANGED faults
             \/ Fault /\ Exists(i) /\ UNCHANGED files
          /\ UNCHANGED i
    /\ UNCHANGED <<config, clock, fd, safe, current_size, rotation_tp,
                   history, restarts>>

ShiftByCopying == /\ files' = WithFile(files, i, files[i - 1])
                  /\ pc' = "rotate"
                  /\ i' = i - 1
                  /\ UNCHANGED <<fd, safe, faults>>

Shift == /\ files' = WithFile(Without(files, i - 1), i, files[i - 1])
         /\ pc' = "rotate"
         /\ i' = i - 1
         /\ UNCHANGED <<fd, safe, faults>>

(* rename_file failed twice.  The base file is emptied, so that it does    *)
(* not grow, unless it cannot be opened either, and the line is given up.  *)
GiveUp == /\ Fault
          /\ Open(0, TRUE) \/ UNCHANGED <<files, fd, safe>>
          /\ pc' = "idle"
          /\ i' = 0

Rename ==
    /\ pc = "rename"
    /\ Shift \/ GiveUp
    /\ UNCHANGED <<config, clock, current_size, rotation_tp, history,
                   restarts>>

(* rotate_ ends: the base file begins anew.  When that fails, current_size *)
(* is left above max_size, and the next line rotates again.                *)
RotateEnd ==
    /\ pc = "rotate"
    /\ i = 0
    /\ OpenOrThrow(0, TRUE)
    /\ current_size' = IF pc' = "write" THEN line.size ELSE current_size
    /\ UNCHANGED <<config, clock, i, rotation_tp, history, restarts>>

OpenDayAtMostOnce ==
    /\ pc = "open"
    /\ OpenOrThrow(Day(line.time), truncate)
    /\ rotation_tp' = NextRotation(clock, rotation_time)
    /\ UNCHANGED <<config, clock, current_size, i, history, restarts>>

(* The daily sink opens the file of the line's day and sets its next       *)
(* rotation, unless opening throws.                                        *)
OpenDay ==
    /\ pc = "open"
    /\ OpenOrThrow(Day(line.time), truncate)
    /\ rotation_tp' = IF pc' = "write" THEN NextRotation(clock, rotation_time)
                      ELSE rotation_tp
    /\ UNCHANGED <<config, clock, current_size, i, history, restarts>>

(* fwrite puts the line behind what the buffer holds.  When it fails, what *)
(* it could not write is lost, some of the line at least.                  *)
Write ==
    /\ pc = "write"
    /\ fd # Closed
    /\ pc' = "idle"
    /\ LET longer == Append(files[fd], line) IN
       \/ /\ files' = [files EXCEPT ![fd] = longer]
          /\ written' = Append(written, line)
          /\ UNCHANGED faults
       \/ /\ Fault
          /\ \E rest \in Remains(longer, safe) \ {longer} :
                files' = [files EXCEPT ![fd] = rest]
          /\ UNCHANGED written
    /\ UNCHANGED <<config, clock, fd, safe, current_size, i, rotation_tp,
                   handed, flushed, restarts>>

(* flush_, called by the logger between lines.                             *)
Flush ==
    /\ pc = "idle"
    /\ fd # Closed
    /\ Drain
    /\ safe' = IF faults' = faults THEN Len(files[fd]) ELSE safe
    /\ UNCHANGED <<config, clock, pc, fd, current_size, i, rotation_tp,
                   handed, written, restarts>>

(* The process ends: between lines, and the destructor closes the file, or *)
(* it is killed, at any point.                                             *)
End ==
    /\ pc # "down"
    /\ restarts < MaxRestarts
    /\ restarts' = restarts + 1
    /\ pc' = "down"
    /\ \/ pc = "idle" /\ CloseFile
       \/ /\ LoseBuffer
          /\ fd' = Closed /\ safe' = 0
          /\ UNCHANGED <<flushed, faults>>
    /\ i' = 0
    /\ UNCHANGED <<config, clock, current_size, rotation_tp, handed, written>>

(* The next process makes its sink.                                        *)
Start ==
    /\ pc = "down"
    /\ Open(IF kind = "daily" THEN Day(clock) ELSE 0, truncate)
    /\ pc' = "idle"
    /\ current_size' = IF kind = "rotating" THEN SizeOf(files'[fd'])
                       ELSE current_size
    /\ rotation_tp' = NextRotation(clock, rotation_time)
    /\ UNCHANGED <<config, clock, i, history, faults, restarts>>

Next ==
    \/ Tick
    \/ \E size \in Sizes, delay \in 0 .. MaxDelay :
          /\ kind = "daily" => size = 1     \* it does not ask for sizes
          /\ Log(size, clock - delay)
    \/ RotateStep
    \/ Rename
    \/ RotateEnd
    \/ OpenDay
    \/ Write
    \/ Flush
    \/ End
    \/ Start

Spec == Init /\ [][Next]_vars
----------------------------------------------------------------------------
OnDisk == UNION {Range(files[f]) : f \in DOMAIN files}

(* Older lines are in files of higher indices, and before newer ones.      *)
InOrder ==
    \A f, g \in DOMAIN files : \A a \in DOMAIN files[f], b \in DOMAIN files[g] :
        f > g \/ (f = g /\ a < b) => files[f][a].n < files[g][b].n

(* A line that a process left in the buffer when it ended: it was not      *)
(* flushed, and nothing that the process wrote later is there either.      *)
Lost(l) == /\ l \notin OnDisk /\ l \notin flushed
           /\ l.run < restarts
           /\ \A k \in OnDisk : k.run = l.run => k.n <= l.n

(* A rotated log is the end of what was written: whatever fails, and       *)
(* wherever a process is killed, the lines from the highest index to the   *)
(* base file are in order and no file holds more than max_size, unless it  *)
(* is a single line; without failures they are the newest lines, none      *)
(* being left out, or cut, but the last ones of a process that ended       *)
(* before they were flushed, and none is dropped while an index is free.   *)
RotationKeepsTheNewest ==
    kind = "rotating" =>
        /\ DOMAIN files \subseteq 0 .. max_files
        /\ \A f \in DOMAIN files :
              SizeOf(files[f]) <= max_size \/ Len(files[f]) = 1
        /\ InOrder
        /\ faults = 0 =>
              \A l \in OnDisk :
                  /\ \A m \in Range(written) :
                        l.n < m.n => m \in OnDisk \/ Lost(m)
                  /\ \/ l \in Range(written)
                     \/ \E m \in Range(written) : Lost(m) /\ l \in Torn(m)
        /\ faults = 0 /\ restarts = 0 /\ pc \notin {"rotate", "rename"} =>
              OnDisk = Range(written) \/ \A f \in 0 .. max_files : Exists(f)

(* When every line is handled on its own day, to the end, a line is in the *)
(* file of its day, or, before that day's rotation, in the one of the day  *)
(* before; and nothing that was flushed is ever lost, and of the rest only *)
(* the last lines of a process, unless writing fails, when the sink does   *)
(* not truncate, or is not restarted and rotates at midnight, so that it   *)
(* opens the file of a day only once.                                      *)
DailyFilesFaithful ==
    kind = "daily" =>
        /\ (\A l \in Range(handed) : Day(l.time) = Day(l.at)) =>
              \A d \in DOMAIN files :
                  \A l \in Range(files[d]) :
                      /\ d * DayLength <= l.time
                      /\ l.time < (d + 1) * DayLength + rotation_time
        /\ ~truncate \/ (rotation_time = 0 /\ restarts = 0) =>
              \A m \in Range(written) \ OnDisk :
                  m \notin flushed /\ (faults = 0 => Lost(m))

(* After a failed opening the sink is closed and stays so until it opens a *)
(* file: the next line does, so fwrite never has a null file; the daily    *)
(* sink needs for this that lines come in the order of their times.        *)
WritesHaveAFile ==
    pc = "write" /\ fd = Closed =>
        /\ kind = "daily"
        /\ \E a, b \in 1 .. Len(handed) :
              a < b /\ handed[b].time < handed[a].time
============================================================================
