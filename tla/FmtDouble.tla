----------------------------- MODULE FmtDouble -----------------------------
(* How fmt writes a floating-point number: its sign and padding, around    *)
(* the characters the C library's snprintf makes of its magnitude.         *)
EXTENDS FmtWrite

CONSTANT inline_buffer_size   \* of the buffer snprintf writes to

ASSUME InlineBufferAssumption == inline_buffer_size \in Nat \ {0}

Special == {<<"i", "n", "f">>, <<"n", "a", "n">>}
UpperCase(word) == IF word = <<"i", "n", "f">> THEN <<"I", "N", "F">> ELSE <<"N", "A", "N">>

(* snprintf keeps what fits in front of its terminator, and tells how much *)
(* there would be.                                                         *)
Snprintf(text, capacity) ==
    IF Len(text) < capacity THEN Append(text, "NUL")
    ELSE Append(SubSeq(text, 1, capacity - 1), "NUL")

(* write_double_sprintf tries again until the terminator fits, too.        *)
RECURSIVE WriteDoubleSprintf(_, _)
WriteDoubleSprintf(text, capacity) ==
    IF Len(text) < capacity
    THEN SubSeq(Snprintf(text, capacity), 1, Len(text))
    ELSE WriteDoubleSprintf(text, AtLeast(Len(text) + 1, capacity + capacity \div 2))

(* write_double.  The sign of a number with its zeros in front stands      *)
(* before them; infinity and nan are padded like text.                     *)
WriteDouble(value, specs) ==
    LET sign == SignPrefix(IF value.negative THEN -1 ELSE 0, specs)
        digits == WriteDoubleSprintf(value.text, inline_buffer_size)
        upper == specs.type \in {"G", "E", "F", "A"}
    IN CASE value.text \in Special ->
                WritePadded(sign \o (IF upper THEN UpperCase(value.text) ELSE value.text),
                            specs)
         [] value.text \notin Special /\ specs.align = "numeric" ->
                sign \o WritePadded(digits, [specs EXCEPT
                            !.align = "right",
                            !.width = IF @ > 0 THEN @ - Len(sign) ELSE @])
         [] OTHER ->
                WritePadded(sign \o digits,
                            [specs EXCEPT !.align = IF @ = "default" THEN "right" ELSE @])
------------------------------------------------------------------------------
(* A number has its sign, then every digit of its magnitude however long   *)
(* it is, on the side of the padding its alignment says, and with an       *)
(* alignment of numbers the padding falls between the two; the words for   *)
(* infinity and nan are in the case the type asks for, and nothing is      *)
(* shorter than its width.                                                 *)
DoublesAreWritten ==
    call.kind = "write" /\ call.arg.type = "double" =>
        LET value == call.arg.value
            specs == call.specs
            text == WriteDouble(value, specs)
            sign == SignPrefix(IF value.negative THEN -1 ELSE 0, specs)
            special == value.text \in Special
            body == IF special /\ specs.type = "E" THEN UpperCase(value.text) ELSE value.text
            total == AtLeast(specs.width, Len(sign \o body))
            spaces == Repeat(total - Len(sign \o body), specs.fill)
            rules == [specs EXCEPT !.align = IF @ = "default" /\ ~special THEN "right" ELSE @]
        IN IF specs.align = "numeric" /\ ~special
           THEN text = sign \o spaces \o body
           ELSE \E left, right \in 0 .. Len(text) :
                   /\ Aligned(rules, left, right, sign \o body)
                   /\ text = Repeat(left, specs.fill) \o sign \o body \o
                             Repeat(right, specs.fill)
============================================================================
