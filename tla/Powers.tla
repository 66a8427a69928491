------------------------------- MODULE Powers -------------------------------
(* base ^ n for the n up to a bound, as a function.                        *)
EXTENDS Naturals

PowersOf(base, bound) ==
    LET power[n \in 0 .. bound] == IF n = 0 THEN 1 ELSE base * power[n - 1]
    IN power
============================================================================
