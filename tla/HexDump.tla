------------------------------ MODULE HexDump ------------------------------
(* spdlog's to_hex: bytes as lines of hexadecimal digits (bin_to_hex.h).   *)
EXTENDS FmtWrite

CONSTANT line_size

ASSUME LineAssumption == line_size \in Nat

(* parse: any flag may come at any place, and others are ignored.          *)
DumpFlags(str) == [put_newlines   |-> "n" \notin Range(str),
                   put_delimiters |-> "s" \notin Range(str),
                   put_positions  |-> "p" \notin Range(str),
                   use_uppercase  |-> "X" \in Range(str)]

HexOf(item, flags) ==
    LET ch == item % 256
        chars == IF flags.use_uppercase THEN UpperChars ELSE DigitChars
    IN <<chars[(ch \div 16) + 1], chars[(ch % 16) + 1]>>

(* put_newline's "{:<04X}: ", where the 0 replaces the alignment.          *)
PutNewline(pos, flags) ==
    <<"newline">> \o
    (IF flags.put_positions
     THEN IntWriter(pos - 1, [NoSpecs EXCEPT !.align = "numeric", !.fill = "0",
                                             !.width = 4, !.type = "X"]) \o <<":", " ">>
     ELSE <<>>)

DumpByte(dump, item, flags) ==
    LET pos == dump.pos + 1
        begins == flags.put_newlines /\ dump.column >= line_size
        delimiter == IF flags.put_delimiters THEN <<" ">> ELSE <<>>
    IN [pos |-> pos,
        column |-> 2 + IF begins THEN (IF flags.put_positions THEN 7 ELSE 1)
                                 ELSE dump.column + Len(delimiter),
        text |-> dump.text \o (IF begins THEN PutNewline(pos, flags) ELSE delimiter)
                           \o HexOf(item, flags)]

FormatDump(bytes, flags) ==
    FoldLeft(LAMBDA dump, item : DumpByte(dump, item, flags),
             [pos |-> 0, column |-> line_size, text |-> <<>>], bytes).text
------------------------------------------------------------------------------
(* A dump in lines of n bytes, each behind the number of the bytes before. *)
PositionOf(k) == [d \in 1 .. 4 |-> UpperChars[((k \div 16 ^ (4 - d)) % 16) + 1]]
LineOf(bytes, k, n, flags) ==
    LET header == IF flags.put_positions THEN PositionOf(k) \o <<":", " ">> ELSE <<>>
        hex(i) == IF i > 1 /\ flags.put_delimiters THEN <<" ">> \o HexOf(bytes[k + i], flags)
                  ELSE HexOf(bytes[k + i], flags)
        last == IF k + n > Len(bytes) THEN Len(bytes) - k ELSE n
    IN <<"newline">> \o header \o FlattenSeq([i \in 1 .. last |-> hex(i)])

(* A dump reads back as the bytes: their digits in order, without a        *)
(* newline if none is wanted, and otherwise in lines that tell how many    *)
(* bytes are before them, each of the fewest bytes that fill line_size.    *)
BytesAreDumped ==
    call.kind = "hex" /\ call.bytes # <<>> =>
        LET flags == DumpFlags(call.flags)
            text == FormatDump(call.bytes, flags)
            unbroken == FlattenSeq([i \in DOMAIN call.bytes |->
                            (IF flags.put_delimiters THEN <<" ">> ELSE <<>>) \o
                            HexOf(call.bytes[i], flags)])
            full(n) == Len(LineOf([i \in 1 .. n |-> 0], 0, n, flags)) >= line_size
        IN /\ \A i \in DOMAIN call.bytes :
                 Worth(HexOf(call.bytes[i], flags), 16) = call.bytes[i] % 256
           /\ IF ~flags.put_newlines THEN text = unbroken
              ELSE \E n \in 1 .. line_size :
                      /\ full(n) /\ (n > 1 => ~full(n - 1))
                      /\ text = FlattenSeq([l \in 1 .. (Len(call.bytes) + n - 1) \div n |->
                                               LineOf(call.bytes, (l - 1) * n, n, flags)])
============================================================================
