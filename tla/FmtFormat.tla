----------------------------- MODULE FmtFormat -----------------------------
(* fmt's format strings: parse_format_string with its argument ids and     *)
(* specifiers, as format_handler drives it over the arguments of a call.   *)
(* The result is what to print: pairs of an argument and its specifiers,   *)
(* or of 0 and a character of the string itself; or an error.              *)
EXTENDS FmtSpec

Aligns == [c \in {"<", ">", "=", "^"} |->
               CASE c = "<" -> "left" [] c = ">" -> "right"
                 [] c = "=" -> "numeric" [] c = "^" -> "center"]
NameStarts == {"a", "d", "s", "x"}      \* the letters the runs use

(* parse_arg_id: empty, a number or a name, which ends at the first other  *)
(* character; the handler then takes the next argument, or that one.       *)
RECURSIVE NameEnd(_, _)
NameEnd(p, k) == IF CharAt(p, k) \in NameStarts \cup Digits
                 THEN NameEnd(p, k + 1) ELSE k

Named(p, name) ==
    LET found == SelectInSeq(p.args, LAMBDA a : a.name = name)
    IN ThrowIf(found = 0 /\ ~p.deferred, [p EXCEPT !.arg = found])

Located(p) == IF p.deferred THEN p ELSE GetArg(p)

ParseArgId(p) ==
    CASE Char(p) \in {"}", ":"} -> Located(NextArgId(p))
      [] Char(p) \in Digits ->
             LET n == ParseInt(p)
                 q == ThrowIf(Char(n.p) \notin {"}", ":"}, n.p)
             IN Located([CheckArgId(q) EXCEPT !.arg = n.value + 1])
      [] Char(p) \in NameStarts ->
             LET end == NameEnd(p, p.pos + 1)
             IN Named([p EXCEPT !.pos = end], SubSeq(p.str, p.pos, end - 1))
      [] OTHER -> Throw(p)

(* A width or precision that an argument gives: width_checker and          *)
(* precision_checker look at it, at once or when it is resolved.           *)
IsCount(a) == a.type \in Integral \ {"bool", "char"} /\ a.value \in 0 .. MaxInt

Refer(p, spec, q) ==
    LET r == [Skip(ThrowIf(Char(q) # "}", q), 1) EXCEPT !.arg = p.arg]
    IN IF p.deferred THEN [r EXCEPT !.refs[spec] = q.arg]
       ELSE [ThrowIf(~IsCount(Arg(q)), r) EXCEPT !.specs[spec] = Arg(q).value]

Dynamic(p, spec) == Refer(p, spec, ParseArgId(Skip(p, 1)))

(* The checks of specs_checker on the argument the field formats.          *)
Type(p) == Arg(p).type
RequireNumeric(p) == ThrowIf(Type(p) \notin Arithmetic, p)
CheckSign(p) ==
    ThrowIf(Type(p) \in Integral \ {"int", "long_long", "char"},
            RequireNumeric(p))

(* parse_format_specs.  A fill is known by the alignment that follows it.  *)
ParseAlign(p) ==
    LET Check(q) == IF q.specs.align = "numeric" THEN RequireNumeric(q) ELSE q
    IN CASE CharAt(p, p.pos + 1) \in DOMAIN Aligns ->
                Check([Skip(ThrowIf(Char(p) = "{", p), 2) EXCEPT
                          !.specs.fill = Char(p),
                          !.specs.align = Aligns[CharAt(p, p.pos + 1)]])
         [] /\ CharAt(p, p.pos + 1) \notin DOMAIN Aligns
            /\ Char(p) \in DOMAIN Aligns ->
                Check([Skip(p, 1) EXCEPT !.specs.align = Aligns[Char(p)]])
         [] OTHER -> p

ParseSign(p) ==
    IF Char(p) \in {"+", "-", " "}
    THEN [CheckSign(Skip(p, 1)) EXCEPT !.specs.sign = Char(p)] ELSE p

ParseHash(p) ==
    IF Char(p) = "#" THEN [RequireNumeric(Skip(p, 1)) EXCEPT !.specs.hash = TRUE]
    ELSE p

ParseZero(p) ==
    IF Char(p) = "0"
    THEN [RequireNumeric(Skip(p, 1)) EXCEPT !.specs.align = "numeric",
                                            !.specs.fill = "0"]
    ELSE p

ParseWidth(p) ==
    CASE Char(p) \in Digits ->
             LET n == ParseInt(p) IN [n.p EXCEPT !.specs.width = n.value]
      [] Char(p) = "{" -> Dynamic(p, "width")
      [] OTHER -> p

ParsePrecision(p) ==
    LET q == Skip(p, 1)
        NotFor(types, r) == ThrowIf(Type(p) \in types, r)
    IN IF Char(p) # "." THEN p
       ELSE NotFor(Integral \cup {"pointer"},
                   CASE Char(q) \in Digits ->
                            LET n == ParseInt(q)
                            IN [n.p EXCEPT !.specs.precision = n.value]
                     [] Char(q) = "{" -> Dynamic(q, "precision")
                     [] OTHER -> Throw(q))

ParseType(p) == IF Char(p) \in {"}", Null} THEN p
                ELSE [Skip(p, 1) EXCEPT !.specs.type = Char(p)]

ParseSpecs(p) ==
    IF Char(p) \in {"}", Null} THEN p
    ELSE ParseType(ParsePrecision(ParseWidth(ParseZero(ParseHash(ParseSign(
             ParseAlign(p)))))))

(* arg_formatter_base asks whether the type fits the argument.             *)
TypesOf(t, specs) ==
    CASE t = "char" -> IF specs.type \notin {"", "c"} THEN IntTypes
                       ELSE IF \/ specs.align = "numeric"
                               \/ specs.sign # "" \/ specs.hash
                            THEN {} ELSE {"", "c"}
      [] t \in Integral \ {"char"} -> IntTypes
      [] t \in {"double", "long_double"} ->
             FloatTypes
      [] t = "string" -> {"", "s"}
      [] t = "cstring" -> {"", "s", "p"}
      [] t = "pointer" -> {"", "p"}

Field(p) ==
    IF p.arg \in DOMAIN p.args
    THEN [ThrowIf(p.specs.type \notin TypesOf(Type(p), p.specs), p) EXCEPT
             !.out = Append(@, IF p.deferred THEN <<p.arg, p.specs, p.refs>>
                               ELSE <<p.arg, p.specs>>),
             !.specs = NoSpecs, !.refs = NoRefs]
    ELSE Throw(p)

(* The text before a field: }} stands for }, a } alone is an error.        *)
RECURSIVE WriteText(_, _, _)
WriteText(p, begin, end) ==
    IF begin >= end THEN p
    ELSE LET c == p.str[begin]
             q == [p EXCEPT !.out = Append(@, <<0, c>>)]
         IN IF c # "}" THEN WriteText(q, begin + 1, end)
            ELSE WriteText(ThrowIf(begin + 1 = end \/ p.str[begin + 1] # "}", q),
                           begin + 2, end)

(* From the character after the { to the } of a field.                     *)
Closed(p) == Field(ThrowIf(Char(p) # "}", p))

Specified(id) ==
    CASE Char(id) = "}" -> Field(id)
      [] Char(id) = ":" -> Closed(ParseSpecs(Skip(id, 1)))
      [] OTHER -> Throw(id)

(* format_string_checker knows the arguments' types only, and not their    *)
(* names: it takes the specifiers of a name for those of the argument it   *)
(* had last, and marks nothing else; here such a field leaves a mark.      *)
CheckedName(p) == IF Char(p) = "}" THEN p ELSE Specified(p)

CheckedField(p) ==
    IF Char(p) \notin NameStarts THEN Specified(GetArg(ParseArgId(p)))
    ELSE [CheckedName([ParseArgId(p) EXCEPT !.arg = p.arg]) EXCEPT
             !.out = Append(@, <<p.arg>>)]

ReplacementField(p) ==
    IF p.deferred THEN CheckedField(p) ELSE Specified(ParseArgId(p))

RECURSIVE ParseFormat(_)
ParseFormat(p) ==
    IF p.err THEN p
    ELSE LET brace == SelectInSubSeq(p.str, p.pos, Len(p.str),
                                     LAMBDA c : c = "{")
             end == IF brace = 0 THEN Len(p.str) + 1 ELSE brace
             q == [WriteText(p, p.pos, end) EXCEPT !.pos = end + 1]
         IN CASE brace = 0 -> q
              [] brace # 0 /\ Char(q) = Null -> Throw(q)
              [] brace # 0 /\ Char(q) = "{" ->
                     ParseFormat(Skip([q EXCEPT !.out = Append(@, <<0, "{">>)], 1))
              [] OTHER -> ParseFormat(Skip(ReplacementField(q), 1))

Format(str, args) == Outcome(ParseFormat(Parser(str, args)))

(* check_format_string, and the formatters whose parse functions it calls, *)
(* which resolve the widths and precisions when they format.               *)
CheckFormat(str, args) ==
    ParseFormat([Parser(str, args) EXCEPT !.deferred = TRUE])

HandleDynamic(specs, refs, args) ==
    [specs EXCEPT !.width = IF refs.width = NoRef THEN @ ELSE args[refs.width].value,
                  !.precision = IF refs.precision = NoRef THEN @
                                ELSE args[refs.precision].value]

FormatLater(p) ==
    LET IsField(k) == Len(p.out[k]) = 3
        Gives(ref) == ref = NoRef \/ (ref \in DOMAIN p.args /\ IsCount(p.args[ref]))
        err == p.err \/ \E k \in DOMAIN p.out :
                           IsField(k) /\ ~(/\ Gives(p.out[k][3].width)
                                           /\ Gives(p.out[k][3].precision))
    IN [err |-> err,
        out |-> IF err THEN <<>>
                ELSE [k \in DOMAIN p.out |->
                         IF IsField(k)
                         THEN <<p.out[k][1],
                                HandleDynamic(p.out[k][2], p.out[k][3], p.args)>>
                         ELSE p.out[k]]]
============================================================================
