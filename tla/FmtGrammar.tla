---------------------------- MODULE FmtGrammar -----------------------------
(* What fmt's two kinds of format strings mean, said by grammars: a string *)
(* is read in every way its parts can be cut, and not by a parser.         *)
EXTENDS FmtFormat, FmtPrintf

(* The ways to cut s into the parts, in their order, so that each Fits.    *)
Cuts(s, parts, Fits(_, _)) ==
    LET n == Len(parts)
        from[k \in 1 .. n + 1, i \in 1 .. Len(s) + 1] ==
            IF k > n THEN IF i > Len(s) THEN {<<>>} ELSE {}
            ELSE UNION {{<<SubSeq(s, i, j - 1)>> \o rest : rest \in from[k + 1, j]} :
                        j \in {j \in i .. Len(s) + 1 :
                                   Fits(parts[k], SubSeq(s, i, j - 1))}}
    IN {[part \in Range(parts) |-> cut[CHOOSE k \in 1 .. n : parts[k] = part]] :
            cut \in from[1, 1]}

(* The ways to read s as tokens: characters, and fields with the arguments *)
(* they refer to.                                                          *)
CharToken(c) == [char |-> c, refs |-> <<>>]

Readings(s, Tokens(_)) ==
    LET from[i \in 1 .. Len(s) + 1] ==
            IF i > Len(s) THEN {<<>>}
            ELSE UNION {{<<t>> \o rest : t \in Tokens(SubSeq(s, i, j)),
                                         rest \in from[j + 1]} : j \in i .. Len(s)}
    IN from[1]

Word(w, chars) == w # <<>> /\ \A k \in DOMAIN w : w[k] \in chars
Number(w) == FoldLeft(LAMBDA n, c : 10 * n + DigitValue[c], 0, w)
IsNumber(w) == Word(w, Digits) /\ Number(w) <= MaxInt
Rest(w) == SubSeq(w, 2, Len(w))

(* References: to the next argument, to the n-th one, to the one of a name.*)
NextRef == <<>>
IndexRef(n) == <<"index", n>>
NameRef(w) == <<"name", w>>
IsIndex(ref) == ref # NextRef /\ ref[1] = "index"

(* The position of the argument that refs[n] finds; 0 if there is none.    *)
AllRefs(r) == FlattenSeq([k \in DOMAIN r |-> r[k].refs])
Position(refs, n, args) ==
    CASE refs[n] = NextRef -> Cardinality({k \in 1 .. n : refs[k] = NextRef})
      [] IsIndex(refs[n]) -> refs[n][2]
      [] OTHER -> SelectInSeq(args, LAMBDA a : a.name = refs[n][2])

(* Counting and numbering exclude each other.                              *)
Found(r, args) ==
    LET refs == AllRefs(r)
    IN /\ \A m, n \in DOMAIN refs : ~(refs[m] = NextRef /\ IsIndex(refs[n]))
       /\ \A n \in DOMAIN refs : Position(refs, n, args) \in DOMAIN args

(* What the readings print, if each field Allows its arguments; at[m] is   *)
(* where the field's m-th reference points.                                *)
Meanings(s, args, Tokens(_), Allows(_, _), Shown(_, _)) ==
    LET At(r, k) == [m \in DOMAIN r[k].refs |->
                        Position(AllRefs(r), Len(AllRefs(SubSeq(r, 1, k - 1))) + m, args)]
        IsChar(r, k) == "char" \in DOMAIN r[k]
    IN {[k \in DOMAIN r |-> IF IsChar(r, k) THEN <<0, r[k].char>>
                            ELSE Shown(r[k], At(r, k))] :
           r \in {r \in Readings(s, Tokens) :
                     /\ Found(r, args)
                     /\ \A k \in DOMAIN r : IsChar(r, k) \/ Allows(r[k], At(r, k))}}

IntLetters == {"d", "x", "X", "b", "B", "o", "n"}
FloatLetters == {"g", "G", "e", "E", "f", "F", "a", "A"}
Letters == IntLetters \cup FloatLetters \cup {"c", "s", "p"}
------------------------------------------------------------------------------
(* "{" id [":" [[fill]align][sign]["#"]["0"][width]["." precision][type]] "}" *)
IsName(w) == Word(w, NameStarts \cup Digits) /\ w[1] \in NameStarts
IsId(w) == (w = <<>>) \/ IsNumber(w) \/ IsName(w)
IdRef(w) == CASE w = <<>> -> NextRef
              [] IsNumber(w) -> IndexRef(Number(w) + 1)
              [] OTHER -> NameRef(w)
Inner(w) == SubSeq(w, 2, Len(w) - 1)
InBraces(w) == Len(w) > 1 /\ Head(w) = "{" /\ Last(w) = "}"
IsAmount(w) == IsNumber(w) \/ (InBraces(w) /\ IsId(Inner(w)))

SpecParts == <<"align", "sign", "hash", "zero", "width", "precision", "type">>
SpecFits(part, w) ==
    \/ w = <<>>
    \/ /\ part = "align"
       /\ Len(w) <= 2
       /\ Last(w) \in DOMAIN Aligns
       /\ Len(w) = 2 => Head(w) \notin {"{", "}"}
    \/ part = "sign" /\ w \in {<<"+">>, <<"-">>, <<" ">>}
    \/ part = "hash" /\ w = <<"#">>
    \/ part = "zero" /\ w = <<"0">>
    \/ part = "width" /\ IsAmount(w)
    \/ part = "precision" /\ Head(w) = "." /\ IsAmount(Rest(w))
    \/ part = "type" /\ Len(w) = 1 /\ w[1] \in Letters

(* A first 0 is the flag, not the width.                                   *)
Specs(s) == {f \in Cuts(s, SpecParts, SpecFits) :
                 f.zero = <<>> /\ f.width # <<>> => Head(f.width) # "0"}

(* A field refers to its argument, then to its width, then its precision.  *)
Fields(s) ==
    LET colon == SelectInSeq(Append(s, ":"), LAMBDA c : c = ":")
        id == SubSeq(s, 1, colon - 1)
        Nested(w) == IF InBraces(w) THEN <<IdRef(Inner(w))>> ELSE <<>>
    IN {[field |-> f,
         refs |-> <<IdRef(id)>> \o Nested(f.width) \o Nested(Rest(f.precision))] :
            f \in IF IsId(id) THEN Specs(SubSeq(s, colon + 1, Len(s))) ELSE {}}

Tokens(w) ==
    CASE Len(w) = 1 -> {CharToken(c) : c \in Range(w) \ {"{", "}"}}
      [] Len(w) = 2 /\ w[1] \in {"{", "}"} /\ w[2] = w[1] -> {CharToken(w[1])}
      [] InBraces(w) -> Fields(Inner(w))
      [] OTHER -> {}

(* Which specifiers an argument of a type allows.                          *)
Numeric(f) == (f.align # <<>> /\ Last(f.align) = "=") \/ f.zero # <<>>
SpecAllowed(t, f) ==
    LET letter == IF f.type = <<>> THEN "" ELSE f.type[1]
    IN /\ Numeric(f) \/ f.hash # <<>> => t \in Arithmetic
       /\ f.sign # <<>> => t \in {"int", "long_long", "char", "double", "long_double"}
       /\ f.precision # <<>> => t \notin Integral \cup {"pointer"}
       /\ letter \in {""} \cup
             CASE t \in Integral \ {"char"} -> IntLetters
               [] t = "char" -> IntLetters \cup {"c"}
               [] t \in Arithmetic \ Integral -> FloatLetters
               [] t = "string" -> {"s"}
               [] t = "cstring" -> {"s", "p"}
               [] t = "pointer" -> {"p"}
       /\ t = "char" /\ letter \in {"", "c"} =>
             ~Numeric(f) /\ f.sign = <<>> /\ f.hash = <<>>

SpecMeant(f, Amount(_, _)) ==
    [fill |-> CASE f.zero # <<>> -> "0"
                [] f.zero = <<>> /\ Len(f.align) = 2 -> f.align[1]
                [] OTHER -> " ",
     align |-> CASE f.zero # <<>> -> "numeric"
                 [] f.zero = <<>> /\ f.align # <<>> -> Aligns[Last(f.align)]
                 [] OTHER -> "default",
     sign |-> IF f.sign = <<>> THEN "" ELSE f.sign[1],
     hash |-> f.hash # <<>>,
     width |-> Amount(f.width, 0),
     precision |-> Amount(Rest(f.precision), -1),
     type |-> IF f.type = <<>> THEN "" ELSE f.type[1]]

(* A string with no reading is an error, and none has two.                 *)
Agree(meanings, result) == meanings = IF result.err THEN {} ELSE {result.out}

(* What the grammar reads is what is formatted, with the right arguments   *)
(* for the fields, widths and precisions.                                  *)
FormatIsMeant ==
    call.kind = "format" =>
        LET args == call.args
            Allows(t, at) ==
                /\ SpecAllowed(args[at[1]].type, t.field)
                /\ \A m \in 2 .. Len(at) :
                      /\ args[at[m]].type \in Integral \ {"bool", "char"}
                      /\ args[at[m]].value \in 0 .. MaxInt
            Shown(t, at) ==
                LET Amount(w, default) ==
                        CASE w = <<>> -> default
                          [] IsNumber(w) -> Number(w)
                          [] OTHER -> args[at[IF w = t.field.width THEN 2
                                              ELSE Len(at)]].value
                IN <<at[1], SpecMeant(t.field, Amount)>>
        IN Agree(Meanings(call.str, args, Tokens, Allows, Shown),
                 Format(call.str, args))

SameLater(checked, formatted) ==
    \/ \E k \in DOMAIN checked.out : Len(checked.out[k]) = 1
    \/ FormatLater(checked) = formatted

(* The check before the arguments are known accepts what formatting does,  *)
(* and formatting later is formatting, unless a field names its argument.  *)
CheckedIsFormatted ==
    call.kind = "format" =>
        SameLater(CheckFormat(call.str, call.args), Format(call.str, call.args))
------------------------------------------------------------------------------
(* "%" [index "$"] flags [width] ["." precision] [length] letter           *)
PrintfParts == <<"index", "flags", "width", "precision", "length", "letter">>
PrintfFits(part, w) ==
    \/ part # "letter" /\ w = <<>>
    \/ part = "index" /\ w # <<>> /\ Last(w) = "$" /\ IsNumber(Front(w))
    \/ part = "flags" /\ Word(w, {"-", "+", "0", " ", "#"})
    \/ part = "width" /\ (w = <<"*">> \/ (IsNumber(w) /\ Head(w) # "0"))
    \/ /\ part = "precision"
       /\ w # <<>> /\ Head(w) = "."
       /\ Rest(w) \in {<<>>, <<"*">>} \/ IsNumber(Rest(w))
    \/ part = "length" /\ w \in {<<"h", "h">>, <<"h">>, <<"l", "l">>, <<"l">>,
                                 <<"j">>, <<"z">>, <<"t">>, <<"L">>}
    \/ part = "letter" /\ Len(w) = 1 /\ w[1] \in Letters \cup {"i", "u"}

(* A directive's stars refer to the next arguments, then it does to its    *)
(* own, which an index counts from 1.                                      *)
Stars(w) == IF w = <<"*">> THEN <<NextRef>> ELSE <<>>
Directives(s) ==
    {[field |-> f,
      refs |-> Stars(f.width) \o Stars(Rest(f.precision)) \o
               <<IF f.index = <<>> THEN NextRef ELSE IndexRef(Number(Front(f.index)))>>] :
         f \in Cuts(s, PrintfParts, PrintfFits)}

PrintfTokens(w) ==
    CASE Len(w) = 1 -> {CharToken(c) : c \in Range(w) \ {"%"}}
      [] w = <<"%", "%">> -> {CharToken("%")}
      [] Head(w) = "%" /\ w[2] # "%" -> Directives(Rest(w))
      [] OTHER -> {}

(* The value of a type with this maximum that is congruent to v.           *)
Congruent(v, max, signed) ==
    CHOOSE n \in IF signed THEN -max - 1 .. max ELSE 0 .. 2 * max + 1 :
        (n - v) % (2 * max + 2) = 0

LettersOf(a) ==
    CASE a.type = "bool" -> IntLetters \cup {"c", "i", "u", "s"}
      [] a.type \in Integral \ {"bool"} -> IntLetters \cup {"c", "i", "u"}
      [] a.type \in Arithmetic \ Integral -> FloatLetters
      [] a.type = "string" -> {"s"}
      [] a.type \in {"cstring", "pointer"} /\ a.value = 0 -> Letters \cup {"i", "u"}
      [] a.type = "cstring" /\ a.value # 0 -> {"s", "p"}
      [] OTHER -> {"p"}

(* An integer is taken for one of the length's type, or of its own for an  *)
(* unsigned letter with a long length; %c takes the last char of it.       *)
ValueMeant(a, f) ==
    LET letter == f.letter[1]
        signed == letter \in {"d", "i"}
        own == MaxOf[a.type]
        taken == CASE f.length = <<"L">> \/ letter = "s" -> a.value
                   [] f.length = <<"h", "h">> -> Congruent(a.value, MaxChar, signed)
                   [] f.length = <<"h">> -> Congruent(a.value, MaxShort, signed)
                   [] f.length = <<>> \/ ~signed -> Congruent(a.value, own, signed)
                   [] OTHER -> Congruent(a.value, MaxLong, TRUE)
    IN CASE a.type \notin Integral -> a.value
         [] a.type \in Integral /\ letter = "c" -> Congruent(taken, MaxChar, TRUE)
         [] OTHER -> taken

DirectiveMeant(a, f, width, precision) ==
    LET flags == Range(f.flags)
        zero == "0" \in flags /\ a.type \in Arithmetic
        char == a.type \in Integral /\ f.letter[1] = "c"
    IN [fill |-> IF zero THEN "0" ELSE " ",
        align |-> CASE char -> "right"
                    [] ~char /\ zero -> "numeric"
                    [] ~char /\ ~zero /\ ("-" \in flags \/ width < 0) -> "left"
                    [] OTHER -> "right",
        sign |-> CASE ~char /\ "+" \in flags -> "+"
                   [] ~char /\ "+" \notin flags /\ " " \in flags -> " "
                   [] OTHER -> "",
        hash |-> "#" \in flags /\ ~char /\ ~(a.type \in Integral /\ a.value = 0),
        width |-> Abs(width),
        precision |-> precision,
        type |-> IF a.type \in Integral /\ f.letter[1] \in {"i", "u"} THEN "d"
                 ELSE f.letter[1]]

(* The same of printf, with the values its lengths and letters ask for.    *)
PrintfIsMeant ==
    call.kind = "printf" =>
        LET args == call.args
            Amount(w, at, n, default) ==
                CASE w = <<"*">> -> args[at[n]].value
                  [] w = <<>> -> default
                  [] OTHER -> Number(w)
            Width(t, at) == Amount(t.field.width, at, 1, 0)
            Precision(t, at) ==
                LET w == t.field.precision
                IN Amount(Rest(w), at, Len(at) - 1, IF w = <<>> THEN -1 ELSE 0)
            Allows(t, at) ==
                /\ t.field.letter[1] \in LettersOf(args[Last(at)])
                /\ \A m \in 1 .. Len(at) - 1 : args[at[m]].type \in Integral
                /\ Width(t, at) \in -MaxInt .. MaxInt
                /\ Precision(t, at) \in -MaxInt - 1 .. MaxInt
            Shown(t, at) ==
                LET a == args[Last(at)]
                IN <<Last(at), DirectiveMeant(a, t.field, Width(t, at), Precision(t, at)),
                     ValueMeant(a, t.field)>>
        IN Agree(Meanings(call.str, args, PrintfTokens, Allows, Shown),
                 Printf(call.str, args))
------------------------------------------------------------------------------
(* A string is formatted as the grammar of its language reads it; one that *)
(* the grammar does not have, or that does not fit the arguments, is an    *)
(* error; no string has two meanings; and one whose specifiers are parsed  *)
(* once and used later, by check_format_string and formatter, is accepted  *)
(* and means the same.                                                     *)
StringsMatchTheirGrammar == FormatIsMeant /\ CheckedIsFormatted /\ PrintfIsMeant
==============================================================================
