--------------------------- MODULE BenchmarkData ---------------------------
(* The data the benchmark drives the store with: the numbers of Random,    *)
(* the values RandomGenerator cuts out of one piece of text, the keys made *)
(* of numbers and the order PolarString::compare gives them.               *)
EXTENDS Integers, Sequences, Powers

CONSTANTS M,           \* 2147483647, the modulus of Random
          A,           \* 16807
          PieceSize,   \* 100, the characters of a fragment
          LeastData,   \* 1048576, the least there are of data_
          Printable,   \* 95, from ' '
          Radix,       \* 256, the values of a byte
          IntBytes,    \* 8, the bytes of an integer
          Seeds,       \* what a Random is made of
          Ratios,      \* FLAGS_compression_ratio, in percent
          ValueSizes,  \* FLAGS_value_size
          KeyPairs,    \* the numbers of two keys
          KeySizes     \* FLAGS_key_size

ASSUME DataAssumption ==
    /\ {PieceSize, Printable, IntBytes} \subseteq Nat \ {0}
    /\ LeastData \in Nat /\ Radix \in Nat \ {0, 1}
    /\ Ratios \cup ValueSizes \cup KeySizes \subseteq Nat
    /\ KeyPairs \subseteq Nat \X Nat
(* A multiplies without losing a number: M is prime and A is less.  301,   *)
(* the only number the program makes a Random of, has not all bits of M.   *)
ASSUME RandomAssumption ==
    /\ M \in Nat \ {0, 1} /\ A \in 1 .. M
    /\ \A s \in 1 .. M - 1 : (s * A) % M # 0
    /\ Seeds \subseteq Nat /\ 301 % (M + 1) # M

VARIABLE data   \* what is generated: numbers, values or keys

GoodSeed(s) == IF s % (M + 1) # 0 THEN s % (M + 1) ELSE 1

(* Random::Next: product % M without a division.                           *)
NextOnce(seed) ==
    LET product == seed * A
    IN (product \div (M + 1)) + (product % (M + 1))
NextSeed(seed) ==
    IF NextOnce(seed) > M THEN NextOnce(seed) - M ELSE NextOnce(seed)

(* testutil.cc, and the text of RandomGenerator.                           *)
SeedsFrom(seed, n) ==
    LET next[k \in 0 .. n] == IF k = 0 THEN seed ELSE NextSeed(next[k - 1])
    IN next

RandomString(seed, len) ==
    LET next == SeedsFrom(seed, len)
    IN [seed |-> next[len], text |-> [k \in 1 .. len |-> next[k] % Printable]]

CompressibleString(seed, percent, len) ==
    LET wanted == (len * percent) \div 100
        raw == RandomString(seed, IF wanted < 1 THEN 1 ELSE wanted)
    IN [seed |-> raw.seed,
        text |-> [k \in 1 .. len |-> raw.text[((k - 1) % Len(raw.text)) + 1]]]

(* What there is after so many pieces.                                     *)
WithPiece(filled, percent) ==
    LET piece == CompressibleString(filled.seed, percent, PieceSize)
    IN [seed |-> piece.seed, text |-> filled.text \o piece.text]
FillData(percent, pieces) ==
    LET filled[n \in 0 .. pieces] ==
            IF n = 0 THEN [seed |-> GoodSeed(301), text |-> <<>>]
            ELSE WithPiece(filled[n - 1], percent)
    IN filled

RandomData(percent, value_size) ==
    LET size == IF value_size > LeastData THEN value_size ELSE LeastData
        pieces == size \div PieceSize + 1
        filled == FillData(percent, pieces)
        enough == {n \in 0 .. pieces : Len(filled[n].text) >= size}
    IN filled[CHOOSE n \in enough : \A k \in enough : n <= k].text

(* RandomGenerator::Generate.                                              *)
StartAtEnd(pos, len, text) == IF pos >= Len(text) THEN 0 ELSE pos
StartOf(pos, len, text) == IF pos + len > Len(text) THEN 0 ELSE pos

Generate ==
    /\ data.kind = "values"
    /\ LET start == StartOf(data.pos, data.value_size, data.text)
       IN data' = [data EXCEPT !.pos = start + data.value_size, !.start = start,
                               !.last = IF data.pos = 0 THEN -1 ELSE data.start]

RadixTo == PowersOf(Radix, IntBytes)

(* GenerateKeyFromInt, big-endian whatever the machine.                    *)
KeyFromInt(v, key_size) ==
    LET filled == IF key_size < IntBytes THEN key_size ELSE IntBytes
    IN [k \in 1 .. key_size |->
           IF k <= filled THEN (v \div RadixTo[filled - k]) % Radix ELSE 48]

(* PolarString::compare.                                                   *)
ComparePolar(x, y) ==
    LET least == IF Len(x) < Len(y) THEN Len(x) ELSE Len(y)
        differ == {k \in 1 .. least : x[k] # y[k]}
        first == CHOOSE k \in differ : \A j \in differ : k <= j
    IN IF differ # {} THEN (IF x[first] < y[first] THEN -1 ELSE 1)
       ELSE IF Len(x) < Len(y) THEN -1 ELSE IF Len(x) > Len(y) THEN 1 ELSE 0

NextNumber == /\ data.kind = "random"
              /\ data' = [data EXCEPT !.seed = NextSeed(@), !.last = data.seed]

DataInit ==
    \/ \E s \in Seeds : data = [kind |-> "random", of |-> s, seed |-> GoodSeed(s),
                               last |-> 0]
    \/ \E percent \in Ratios, size \in ValueSizes :
          data = [kind |-> "values", pos |-> 0, start |-> 0, last |-> 0,
                  value_size |-> size, text |-> RandomData(percent, size)]
    \/ \E pair \in KeyPairs, size \in KeySizes :
          data = [kind |-> "keys", v |-> pair[1], w |-> pair[2], size |-> size]

DataNext == Generate \/ NextNumber

DataSpec == DataInit /\ [][DataNext]_data
------------------------------------------------------------------------------
(* The generator multiplies by A modulo M and never reaches the numbers it *)
(* cannot leave, unless it was made of a number with all bits of M: that   *)
(* one GoodSeed lets through, and every number is then M, which Next's     *)
(* comment rules out.  A value is taken from inside the text, and from     *)
(* where the value before it ended unless the text is used up; and keys    *)
(* are in the order of their numbers, two numbers having one key only if   *)
(* the key has no room for the bytes in which they differ.                 *)
TestDataIsSound ==
    /\ data.kind = "random" =>
            IF data.of % (M + 1) = M THEN data.seed = M
            ELSE /\ data.seed \in 1 .. M - 1
                 /\ data.last # 0 => data.seed = (data.last * A) % M
    /\ data.kind = "values" =>
            LET end == data.start + data.value_size
            IN data.pos # 0 =>
               /\ data.pos = end /\ end <= Len(data.text)
               /\ \/ data.last = -1
                  \/ data.start = data.last + data.value_size
                  \/ /\ data.start = 0
                     /\ data.last + 2 * data.value_size > Len(data.text)
    /\ data.kind = "keys" =>
            LET filled == IF data.size < IntBytes THEN data.size ELSE IntBytes
                kept(v) == v % RadixTo[filled]
                order == ComparePolar(KeyFromInt(data.v, data.size),
                                      KeyFromInt(data.w, data.size))
            IN /\ order = 0 <=> kept(data.v) = kept(data.w)
               /\ order < 0 <=> kept(data.v) < kept(data.w)
============================================================================
