---------------------------- MODULE MCLogFiles -----------------------------
(* Three rotated files of at most 3, lines of 1, 2 and 4; days of 2 ticks; *)
(* two sinks with patterns, one of them the engine's (without its blanks). *)
(* The files and the patterns do not touch each other: a behaviour is of   *)
(* the one or of the other.                                                *)
EXTENDS LogFiles, LogPattern

MCCharacters == {"[", "]", "%", ":", "H", "z", "^", "L", "$", "v", "q", "T", "+"}

MCPatterns ==
    {<<"[", "%", "H", ":", "%", "z", "%", "^", "%", "L", "%", "$", "]", "%", "v">>,
     <<"%", "v">>,
     <<"%", "$", "%", "%", "q", "%", "T", "%", "^", "%", "+", "%", "q", "%">>}

FilesNext == /\ PatternInit /\ \A s \in 1 .. Sinks : pattern[s] = <<"%", "v">>
             /\ Next /\ UNCHANGED pattern_vars

PatternsNext == /\ kind = "rotating" /\ handed = <<>>
                /\ restarts = 0 /\ faults = 0
                /\ PatternNext /\ UNCHANGED vars

(* The bounds are reached in turn, and the daily sink has three lines.     *)
FewTroubles == faults + restarts <= 2
FewDailyLines == kind = "daily" => Len(handed) <= 3

SinksInit == Init /\ PatternInit

SinksSpec == SinksInit /\ [][FilesNext \/ PatternsNext]_<<vars, pattern_vars>>
============================================================================
