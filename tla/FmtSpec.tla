------------------------------ MODULE FmtSpec ------------------------------
(* What fmt's two formatting languages share: format specifiers, the       *)
(* parser's position and argument counter, numbers, and the types of       *)
(* arguments.  The functions are pure; the variable is the call a run      *)
(* looks at.  A parser p is a record; once p.err is set the C++ code has   *)
(* thrown, and the rest of p means nothing.                                *)
EXTENDS Integers, Sequences, FiniteSets, SequencesExt

CONSTANT MaxInt     \* numeric_limits<int>::max()

ASSUME MaxIntAssumption == MaxInt \in Nat \ {0}

VARIABLE call

Digits == {"0", "1", "2", "3", "4", "5", "6", "7", "8", "9"}
DigitValue == [d \in Digits |-> CHOOSE n \in 0 .. 9 : ToString(n) = d]

(* basic_format_specs.  A width or a precision that an argument gives is   *)
(* put in while the string is parsed or, by a deferred parser, only        *)
(* referred to: dynamic_format_specs.                                      *)
NoSpecs == [fill |-> " ", align |-> "default", sign |-> "", hash |-> FALSE,
            width |-> 0, precision |-> -1, type |-> ""]

NoRef == -1
NoRefs == [width |-> NoRef, precision |-> NoRef]

(* enum type: the integral types, then the floating ones, then the others. *)
Integral == {"int", "uint", "long_long", "ulong_long", "bool", "char"}
Arithmetic == Integral \cup {"double", "long_double"}

(* handle_int_type_spec, handle_float_type_spec.                           *)
IntTypes == {"", "d", "x", "X", "b", "B", "o", "n"}
FloatTypes == {"", "g", "G", "e", "E", "f", "F", "a", "A"}

Parser(str, args) == [str |-> str, pos |-> 1, args |-> args, next_arg_id |-> 0,
                      specs |-> NoSpecs, refs |-> NoRefs, deferred |-> FALSE,
                      arg |-> 0, out |-> <<>>, err |-> FALSE]

(* What a call prints, or the error it throws.                             *)
Outcome(p) == [err |-> p.err, out |-> IF p.err THEN <<>> ELSE p.out]

(* null_terminating_iterator: the end reads as a null character.           *)
Null == ""
CharAt(p, k) == IF k <= Len(p.str) THEN p.str[k] ELSE Null
Char(p) == CharAt(p, p.pos)
Skip(p, n) == [p EXCEPT !.pos = @ + n]
Throw(p) == [p EXCEPT !.err = TRUE]
ThrowIf(cond, p) == [p EXCEPT !.err = @ \/ cond]

(* parse_nonnegative_int stops before the next digit could overflow.       *)
RECURSIVE Scan(_, _)
Scan(p, value) ==
    IF Char(p) \notin Digits THEN [p |-> p, value |-> value]
    ELSE IF value > MaxInt \div 10 THEN [p |-> p, value |-> MaxInt + 1]
    ELSE Scan(Skip(p, 1), value * 10 + DigitValue[Char(p)])

ParseInt(p) == LET n == Scan(p, 0)
               IN [n EXCEPT !.p = ThrowIf(n.value > MaxInt, n.p)]

(* basic_parse_context: arguments are counted, or named by their index,    *)
(* never both; next_arg_id_ is -1 once an index was used.                  *)
NextArgId(p) ==
    [ThrowIf(p.next_arg_id < 0, p) EXCEPT !.arg = p.next_arg_id + 1,
                                          !.next_arg_id = @ + 1]

CheckArgIdKeepingCount(p) == ThrowIf(p.next_arg_id > 0, p)

CheckArgId(p) == [ThrowIf(p.next_arg_id > 0, p) EXCEPT !.next_arg_id = -1]

(* do_get_arg: argument ids begin with 0, the positions in args with 1.    *)
GetArg(p) == ThrowIf(p.arg \notin DOMAIN p.args, p)

Arg(p) == IF p.arg \in DOMAIN p.args THEN p.args[p.arg]
          ELSE [type |-> "none", name |-> <<>>, value |-> 0]
============================================================================
