----------------------------- MODULE FmtPrintf -----------------------------
(* fmt's printf: basic_printf_context::format with its headers, precisions *)
(* and lengths, and the conversion of an integer to the type that length   *)
(* and letter ask for.                                                     *)
EXTENDS FmtSpec

CONSTANTS MaxChar, MaxShort, MaxLong    \* of the signed types

ASSUME WidthAssumption == /\ {MaxChar, MaxShort, MaxLong} \subseteq Nat
                          /\ MaxChar < MaxShort
                          /\ MaxShort < MaxInt
                          /\ MaxInt < MaxLong

(* static_cast to an unsigned or a signed type of the width of max.        *)
AsUnsigned(v, max) == v % (2 * max + 2)
AsSigned(v, max) == ((v + max + 1) % (2 * max + 2)) - max - 1

(* get_arg: the next argument, or the one with the index given.            *)
NextArg == -1
PrintfArg(p) == GetArg(IF p.arg = NextArg THEN NextArgId(p) ELSE CheckArgId(p))

RECURSIVE ParseFlags(_)
ParseFlags(p) ==
    LET q == Skip(p, 1)
    IN CASE Char(p) = "-" -> ParseFlags([q EXCEPT !.specs.align = "left"])
         [] Char(p) = "+" -> ParseFlags([q EXCEPT !.specs.sign = "+"])
         [] Char(p) = "0" -> ParseFlags([q EXCEPT !.specs.fill = "0"])
         [] Char(p) = " " -> ParseFlags([q EXCEPT !.specs.sign =
                                             IF @ = "+" THEN @ ELSE " "])
         [] Char(p) = "#" -> ParseFlags([q EXCEPT !.specs.hash = TRUE])
         [] OTHER -> p

(* The argument of a *, which is the next one, whatever the field's own is.*)
Star(p) == LET q == PrintfArg([p EXCEPT !.arg = NextArg])
           IN [p |-> [ThrowIf(Arg(q).type \notin Integral, q) EXCEPT !.arg = p.arg],
               value |-> Arg(q).value]

Abs(n) == IF n < 0 THEN -n ELSE n

(* printf_width_handler: a negative width aligns to the left.              *)
PrintfWidth(p) ==
    CASE Char(p) \in Digits ->
             LET n == ParseInt(p) IN [n.p EXCEPT !.specs.width = n.value]
      [] Char(p) = "*" ->
             LET n == Star(Skip(p, 1))
             IN [ThrowIf(~n.p.err /\ Abs(n.value) > MaxInt, n.p) EXCEPT
                    !.specs.width = Abs(n.value),
                    !.specs.align = IF n.value < 0 THEN "left" ELSE @]
      [] OTHER -> p

(* parse_header: a number first is an index if a $ follows, and otherwise  *)
(* a width, or flags 0 if it is zero.                                      *)
NumberFirst(p, n) ==
    LET q == IF Char(p) = "0" THEN [n.p EXCEPT !.specs.fill = "0"] ELSE n.p
    IN CASE Char(q) = "$" ->
                PrintfWidth(ParseFlags([Skip(n.p, 1) EXCEPT !.arg = n.value]))
         [] Char(q) # "$" /\ n.value # 0 -> [q EXCEPT !.specs.width = n.value]
         [] OTHER -> PrintfWidth(ParseFlags(q))

ParseHeader(p) == IF Char(p) \in Digits THEN NumberFirst(p, ParseInt(p))
                  ELSE PrintfWidth(ParseFlags(p))

PrintfPrecision(p) ==
    LET q == Skip(p, 1)
    IN CASE Char(p) # "." -> p
         [] Char(p) = "." /\ Char(q) \in Digits ->
                LET n == ParseInt(q) IN [n.p EXCEPT !.specs.precision = n.value]
         [] Char(p) = "." /\ Char(q) = "*" ->
                LET n == Star(Skip(q, 1))
                IN [ThrowIf(~n.p.err /\ n.value \notin -MaxInt - 1 .. MaxInt, n.p)
                       EXCEPT !.specs.precision = n.value]
         [] OTHER -> [q EXCEPT !.specs.precision = 0]

(* is_zero_int takes # away, and 0 is a matter of alignment for numbers.   *)
AdjustFlags(p) ==
    LET a == Arg(p)
    IN [p EXCEPT !.specs.hash = @ /\ ~(a.type \in Integral /\ a.value = 0),
                 !.specs.align = IF p.specs.fill = "0" /\ a.type \in Arithmetic
                                 THEN "numeric" ELSE @,
                 !.specs.fill = IF a.type \in Arithmetic THEN @ ELSE " "]

(* The length modifier: how many characters it has, and its type.          *)
Length(p) ==
    LET c == Char(p)
        twice == CharAt(p, p.pos + 1) = c
    IN CASE c = "h" -> IF twice THEN <<2, "char">> ELSE <<1, "short">>
         [] c = "l" -> <<IF twice THEN 2 ELSE 1, "long">>
         [] c \in {"j", "z", "t"} -> <<1, "long">>
         [] c = "L" -> <<1, "L">>
         [] OTHER -> <<0, "void">>

MaxOf == [int |-> MaxInt, uint |-> MaxInt, long_long |-> MaxLong,
          ulong_long |-> MaxLong, char |-> MaxChar, bool |-> 1]

(* arg_converter: to the type of the length, or of the argument if it has  *)
(* none, signed for d and i; but never from a narrower type to an unsigned *)
(* wider one.                                                              *)
Convert(a, length, letter) ==
    LET signed == letter \in {"d", "i"}
        own == MaxOf[a.type]
        target == CASE length = "char" -> MaxChar
                    [] length = "short" -> MaxShort
                    [] length = "long" -> MaxLong
                    [] length = "void" -> own
        To(t, v) == [a EXCEPT !.type = t, !.value = v]
    IN CASE \/ a.type \notin Integral
            \/ length = "L"
            \/ a.type = "bool" /\ letter = "s" -> a
         [] target <= MaxInt /\ signed -> To("int", AsSigned(a.value, target))
         [] target <= MaxInt /\ ~signed -> To("uint", AsUnsigned(a.value, target))
         [] target > MaxInt /\ signed -> To("long_long", AsSigned(a.value, MaxLong))
         [] OTHER -> To(CASE a.type = "bool" -> "bool"
                          [] a.type \in {"long_long", "ulong_long"} -> "ulong_long"
                          [] a.type \in {"int", "uint", "char"} -> "uint",
                        AsUnsigned(a.value, own))

Normalize(letter) == IF letter \in {"i", "u"} THEN "d" ELSE letter

(* printf_arg_formatter on the converted argument: a bool is a word for s  *)
(* and else an int, so is a char for other letters than c; a null pointer  *)
(* is printed for every letter.                                            *)
PrintfField(p, a, letter) ==
    LET b == IF a.type \in Integral /\ letter = "c"
             THEN [a EXCEPT !.type = "char", !.value = AsSigned(@, MaxChar)] ELSE a
        type == IF b.type \in Integral THEN Normalize(letter) ELSE letter
        specs == IF b.type = "char" /\ type = "c"
                 THEN [p.specs EXCEPT !.sign = "", !.hash = FALSE, !.align = "right"]
                 ELSE p.specs
        legal == CASE b.type = "bool" -> type \in {"s"} \cup IntTypes
                   [] b.type = "char" -> type \in {"c"} \cup IntTypes
                   [] b.type \in Integral \ {"bool", "char"} -> type \in IntTypes
                   [] b.type \in {"double", "long_double"} -> type \in FloatTypes
                   [] b.type = "string" -> type = "s"
                   [] b.type = "cstring" -> b.value = 0 \/ type \in {"s", "p"}
                   [] b.type = "pointer" -> b.value = 0 \/ type = "p"
                   [] b.type = "none" -> FALSE
    IN ThrowIf(~legal, [p EXCEPT !.out = Append(@, <<p.arg, [specs EXCEPT !.type = type],
                                                     b.value>>)])

(* From the length modifier on.                                            *)
Conversion(p) ==
    LET length == Length(p)
        r == Skip(p, length[1])
    IN IF Char(r) = Null THEN Throw(r)
       ELSE Skip(PrintfField(r, Convert(Arg(r), length[2], Char(r)), Char(r)), 1)

Directive(p) ==
    LET start == [p EXCEPT !.arg = NextArg, !.specs = [NoSpecs EXCEPT !.align = "right"]]
    IN Conversion(AdjustFlags(PrintfArg(PrintfPrecision(ParseHeader(start)))))

RECURSIVE ParsePrintf(_)
ParsePrintf(p) ==
    LET q == Skip(p, 1)
        Text == [p EXCEPT !.out = Append(@, <<0, Char(p)>>)]
    IN CASE p.err \/ Char(p) = Null -> p
         [] ~p.err /\ Char(p) \notin {"%", Null} -> ParsePrintf(Skip(Text, 1))
         [] ~p.err /\ Char(p) = "%" /\ Char(q) = "%" -> ParsePrintf(Skip(Text, 2))
         [] OTHER -> ParsePrintf(Directive(q))

Printf(str, args) == Outcome(ParsePrintf(Parser(str, args)))
============================================================================
