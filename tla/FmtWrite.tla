------------------------------ MODULE FmtWrite ------------------------------
(* How fmt writes an argument under its specifiers: the digits of an       *)
(* integer, its sign, base and padding, strings and characters; format_int *)
(* and the pads spdlog writes times with.  Text is a sequence of           *)
(* characters; "?" is a character of a buffer nobody wrote.                *)
EXTENDS FmtSpec

CONSTANT WordBits   \* of int_traits::main_type

ASSUME WordAssumption == WordBits \in Nat \ {0}

DigitChars == <<"0", "1", "2", "3", "4", "5", "6", "7", "8", "9",
                "a", "b", "c", "d", "e", "f">>
UpperChars == SubSeq(DigitChars, 1, 10) \o <<"A", "B", "C", "D", "E", "F">>
Digit(n) == DigitChars[n + 1]
Repeat(n, c) == [k \in 1 .. n |-> c]

(* abs_value: the negation of an unsigned word, also for the least integer.*)
ToWord(n) == n % 2 ^ WordBits
AbsValue(v) == IF v < 0 THEN ToWord(0 - ToWord(v)) ELSE ToWord(v)

(* count_digits: log10 from log2 by 1233 / 4096, corrected by a table.     *)
BitLength(n) == Cardinality({k \in 0 .. WordBits - 1 : n >= 2 ^ k})
ZeroOrPowerOf10(t) == IF t = 0 THEN 0 ELSE 10 ^ t
Log10(n) == (BitLength(IF n = 0 THEN 1 ELSE n) * 1233) \div 4096
CountDigitsByTable(n) ==
    Log10(n) - (IF n <= ZeroOrPowerOf10(Log10(n)) THEN 1 ELSE 0) + 1
CountDigits(n) ==
    Log10(n) - (IF n < ZeroOrPowerOf10(Log10(n)) THEN 1 ELSE 0) + 1

RECURSIVE CountBits(_, _)
CountBits(n, bits) == IF n < 2 ^ bits THEN 1 ELSE 1 + CountBits(n \div 2 ^ bits, bits)

(* format_decimal writes pairs of digits from the right, and asks for a    *)
(* separator after every digit but the first of all.                       *)
Sep(index, sep) == IF index % 3 = 0 THEN sep ELSE <<>>

RECURSIVE Decimal(_, _, _)
Decimal(n, index, sep) ==
    LET pair == <<Digit((n \div 10) % 10)>> \o Sep(index + 1, sep) \o <<Digit(n % 10)>>
    IN CASE n < 10 -> <<Digit(n)>>
         [] n \in 10 .. 99 -> pair
         [] OTHER -> Decimal(n \div 100, index + 2, sep) \o Sep(index + 2, sep) \o pair

RECURSIVE Uint(_, _, _)
Uint(n, bits, chars) ==
    (IF n < 2 ^ bits THEN <<>> ELSE Uint(n \div 2 ^ bits, bits, chars))
        \o <<chars[(n % 2 ^ bits) + 1]>>

(* What is copied out of the buffer that text was written to the end of.   *)
Placed(text, size) ==
    [k \in 1 .. size |-> LET from == k - size + Len(text)
                         IN IF from > 0 THEN text[from] ELSE "?"]

(* write_padded and the writers of strings and integers.                   *)
WritePadded(text, specs) ==
    LET padding == IF specs.width > Len(text) THEN specs.width - Len(text) ELSE 0
        left == CASE specs.align = "right" -> padding
                  [] specs.align = "center" -> padding \div 2
                  [] OTHER -> 0
    IN Repeat(left, specs.fill) \o text \o Repeat(padding - left, specs.fill)

WriteStr(s, specs) ==
    WritePadded(IF specs.precision >= 0 /\ specs.precision < Len(s)
                THEN SubSeq(s, 1, specs.precision) ELSE s, specs)

WriteInt(num, prefix, specs, digits) ==
    LET numeric == specs.align = "numeric"
        target == IF numeric THEN specs.width - Len(prefix) ELSE specs.precision
        padding == IF target > num THEN target - num ELSE 0
    IN WritePadded(prefix \o Repeat(padding, IF numeric THEN specs.fill ELSE "0")
                       \o Placed(digits, num),
                   [specs EXCEPT !.align = IF @ = "default" THEN "right" ELSE @])

(* int_writer: the sign, and the prefix and the digits of each type.       *)
SignPrefix(v, specs) ==
    CASE v < 0 -> <<"-">>
      [] v >= 0 /\ specs.sign \in {"+", " "} -> <<specs.sign>>
      [] OTHER -> <<>>

IntWriter(v, specs) ==
    LET n == AbsValue(v)
        sign == SignPrefix(v, specs)
        base == IF specs.hash THEN <<"0", specs.type>> ELSE <<>>
        octal == IF specs.hash /\ specs.precision <= CountBits(n, 3)
                 THEN <<"0">> ELSE <<>>
        num == CountDigits(n)
        chars == IF specs.type = "X" THEN UpperChars ELSE DigitChars
    IN CASE specs.type \in {"", "d"} ->
                WriteInt(num, sign, specs, Decimal(n, 0, <<>>))
         [] specs.type \in {"x", "X"} ->
                WriteInt(CountBits(n, 4), sign \o base, specs, Uint(n, 4, chars))
         [] specs.type \in {"b", "B"} ->
                WriteInt(CountBits(n, 1), sign \o base, specs, Uint(n, 1, chars))
         [] specs.type = "o" ->
                WriteInt(CountBits(n, 3), sign \o octal, specs, Uint(n, 3, chars))
         [] specs.type = "n" ->
                WriteInt(num + (num - 1) \div 3, sign, specs, Decimal(n, 0, <<",">>))

(* arg_formatter_base, for specifiers that the argument's type allows.     *)
WriteArg(a, specs) ==
    LET words == IF a.value = 1 THEN <<"t", "r", "u", "e">>
                                ELSE <<"f", "a", "l", "s", "e">>
    IN CASE a.type = "bool" /\ specs.type = "" -> WriteStr(words, specs)
         [] a.type = "char" /\ specs.type \in {"", "c"} -> WritePadded(<<a.value>>, specs)
         [] a.type \in {"string", "cstring"} -> WriteStr(a.value, specs)
         [] OTHER -> IntWriter(a.value,
                               IF a.type = "pointer"
                               THEN [specs EXCEPT !.sign = "", !.hash = TRUE, !.type = "x"]
                               ELSE specs)

(* format_int, and fmt_helper's pads.                                      *)
FormatInt(v) == (IF v < 0 THEN <<"-">> ELSE <<>>) \o Decimal(AbsValue(v), 0, <<>>)

ZeroPadded(n, width) == IntWriter(n, [NoSpecs EXCEPT !.align = "numeric",
                                                     !.fill = "0", !.width = width])
Pad2(n) == CASE n > 99 -> FormatInt(n)
             [] n \in 0 .. 99 -> <<Digit(n \div 10), Digit(n % 10)>>
             [] n < 0 -> ZeroPadded(n, 2)
Pad3(n) == CASE n > 999 -> FormatInt(n)
             [] n \in 100 .. 999 -> <<Digit(n \div 100)>> \o Pad2(n % 100)
             [] n \in 0 .. 99 -> <<"0", Digit(n \div 10), Digit(n % 10)>>
             [] n < 0 -> ZeroPadded(n, 3)
Pad6(n) == IF n > 99999 THEN FormatInt(n) ELSE Pad3(n \div 1000) \o Pad3(n % 1000)
------------------------------------------------------------------------------
(* What a numeral is worth; separators count for nothing.                  *)
Worth(text, radix) ==
    LET chars == DigitChars \o UpperChars
        Add(n, c) == n * radix + ((SelectInSeq(chars, LAMBDA d : d = c) - 1) % 16)
    IN FoldLeft(Add, 0, SelectSeq(text, LAMBDA c : c # ","))

Magnitude(v) == IF v < 0 THEN -v ELSE v
IsNumeral(text, v, radix) ==
    /\ text # <<>>
    /\ Worth(text, radix) = Magnitude(v)
    /\ Len(text) > 1 => Head(text) \notin {"0", ","}
    /\ "?" \notin Range(text)
AtLeast(n, m) == IF n < m THEN m ELSE n

(* Padding by the rules of alignment: left and right of the text.          *)
Aligned(specs, left, right, text) ==
    /\ left + right = AtLeast(specs.width, Len(text)) - Len(text)
    /\ specs.align = "right" => right = 0
    /\ specs.align = "center" => left = (left + right) \div 2
    /\ specs.align \notin {"right", "center"} => left = 0

(* The text of an integer consists of the fill, the sign, the base, zeros  *)
(* and the numeral of its magnitude, and is as long as asked for.          *)
IsIntegerText(text, v, specs) ==
    LET radix == CASE specs.type \in {"x", "X"} -> 16 [] specs.type \in {"b", "B"} -> 2
                   [] specs.type = "o" -> 8 [] OTHER -> 10
        numeric == specs.align = "numeric"
    IN \E numeral \in {SubSeq(text, i, j) : i, j \in DOMAIN text} :
          LET base == CASE ~specs.hash \/ radix = 10 -> <<>>
                        [] specs.hash /\ radix \in {2, 16} -> <<"0", specs.type>>
                        [] OTHER -> IF specs.precision > Len(numeral) THEN <<>> ELSE <<"0">>
              prefix == SignPrefix(v, specs) \o base
              wanted == IF numeric THEN specs.width - Len(prefix) ELSE specs.precision
              core == prefix \o Repeat(AtLeast(wanted, Len(numeral)) - Len(numeral),
                                       IF numeric THEN specs.fill ELSE "0") \o numeral
              rules == [specs EXCEPT !.align = IF @ = "default" THEN "right" ELSE @]
          IN /\ IsNumeral(numeral, v, radix)
             /\ \E left, right \in 0 .. Len(text) :
                   /\ Aligned(rules, left, right, core)
                   /\ text = Repeat(left, specs.fill) \o core \o Repeat(right, specs.fill)

(* Every integer, the least one included, is written so that it can be     *)
(* read back, with the sign, the base and the padding its specifiers ask   *)
(* for; a string keeps its first characters; a time's field is padded to   *)
(* its width.                                                              *)
ValuesAreWritten ==
    call.kind = "write" /\ call.arg.type # "double" =>
        LET a == call.arg
            specs == call.specs
            text == WriteArg(a, specs)
            Pad(width) == CASE width = 2 -> Pad2(a.value)
                            [] width = 3 -> Pad3(a.value)
                            [] width = 6 -> Pad6(a.value)
        IN CASE a.type \in {"int", "uint", "long_long", "ulong_long"} ->
                    /\ IsIntegerText(text, a.value, specs)
                    /\ IsIntegerText(FormatInt(a.value), a.value, NoSpecs)
                    /\ \A width \in {2, 3, 6} :
                          width < 6 \/ a.value >= 0 =>
                              IsIntegerText(Pad(width), a.value,
                                            [NoSpecs EXCEPT !.align = "numeric",
                                                            !.fill = "0",
                                                            !.width = width])
             [] a.type \in {"string", "cstring"} ->
                    \E kept \in 0 .. Len(a.value), left, right \in 0 .. Len(text) :
                       LET s == SubSeq(a.value, 1, kept)
                       IN /\ kept = Len(a.value) \/ kept = specs.precision
                          /\ specs.precision >= 0 => kept <= specs.precision
                          /\ Aligned(specs, left, right, s)
                          /\ text = Repeat(left, specs.fill) \o s \o
                                    Repeat(right, specs.fill)
             [] OTHER -> Len(text) >= specs.width
============================================================================
