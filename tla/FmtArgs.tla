------------------------------ MODULE FmtArgs ------------------------------
(* How the arguments of a call to fmt are stored and found again: packed,  *)
(* with their types as nibbles of one integer, or, if they are many, each  *)
(* with its type; and the map of the named ones.  "?" is memory that       *)
(* nobody wrote.                                                           *)
EXTENDS Integers, Sequences, Powers

CONSTANTS MaxPacked,    \* max_packed_args, one less than a word's nibbles
          Arguments,    \* what a call may be given; a name <<>> is none
          MaxArgs       \* how many

Codes == <<"named", "int", "uint", "long_long", "ulong_long", "bool", "char", "double",
           "long_double", "cstring", "string", "pointer", "custom">>

ASSUME MaxPackedAssumption == MaxPacked \in Nat \ {0}
ASSUME ArgumentsAssumption ==
    Arguments \subseteq [type : {Codes[i] : i \in 2 .. 13},
                         name : {a.name : a \in Arguments},
                         value : {a.value : a \in Arguments}]

SixteenTo == PowersOf(16, MaxPacked + 1)
TypeWord == SixteenTo[MaxPacked + 1]

(* The arguments of a call are fewer than the nibbles below the one that   *)
(* tells whether they are packed can count.                                *)
ASSUME ArgsBound == MaxArgs \in Nat /\ MaxArgs <= SixteenTo[MaxPacked - 1]

VARIABLE given   \* the arguments of a call

NoArg == [type |-> "none", value |-> 0]

(* make_value: a named argument is stored by a pointer to it.              *)
MakeArg(a) == IF a.name = <<>> THEN [type |-> a.type, value |-> a.value]
              ELSE [type |-> "named", value |-> a]
Deserialize(arg) == IF arg.type = "named"
                    THEN [type |-> arg.value.type, value |-> arg.value.value] ELSE arg

(* get_types and format_arg_store: the types word is minus the number of   *)
(* the arguments if they are not packed, and the array then has an end.    *)
Code(type) == CHOOSE i \in DOMAIN Codes : Codes[i] = type
TypesOfLast(args) ==
    LET types[n \in 0 .. Len(args)] ==
            IF n = 0 THEN 0
            ELSE (Code(MakeArg(args[Len(args) - n + 1]).type) + types[n - 1] * 16) % TypeWord
    IN types
GetTypes(args) == TypesOfLast(args)[Len(args)]

IsPacked(args) == Len(args) < MaxPacked

ArgStore(args) ==
    IF IsPacked(args)
    THEN [types |-> GetTypes(args), data |-> [i \in DOMAIN args |-> MakeArg(args[i]).value]]
    ELSE [types |-> TypeWord - Len(args),
          data |-> Append([i \in DOMAIN args |-> MakeArg(args[i])], NoArg)]

(* basic_format_args.                                                      *)
TypeAt(store, index) ==
    LET code == (store.types \div SixteenTo[index]) % 16
    IN CASE code = 0 -> "none"
         [] code \in DOMAIN Codes -> Codes[code]
         [] OTHER -> "invalid"
Negative(store) == store.types >= TypeWord \div 2
DataAt(store, index) == IF index < Len(store.data) THEN store.data[index + 1] ELSE "?"

DoGet(store, index) ==
    CASE Negative(store) ->
             IF index < TypeWord - store.types THEN DataAt(store, index) ELSE NoArg
      [] ~Negative(store) /\ index <= MaxPacked /\ TypeAt(store, index) # "none" ->
             [type |-> TypeAt(store, index), value |-> DataAt(store, index)]
      [] OTHER -> NoArg

Get(store, index) == Deserialize(DoGet(store, index))

MaxSize(store) == IF Negative(store) THEN TypeWord - store.types ELSE MaxPacked

(* arg_map: init collects the named arguments up to the first none, find   *)
(* returns the first with the name.                                        *)
ArgAt(store, i) ==
    IF TypeAt(store, MaxPacked - 1) = "none"
    THEN [type |-> TypeAt(store, i), value |-> DataAt(store, i)]
    ELSE DataAt(store, i)

EndOf(store) == CHOOSE i \in 0 .. MaxPacked + Len(store.data) :
                    /\ ArgAt(store, i).type = "none"
                    /\ \A j \in 0 .. i - 1 : ArgAt(store, j).type # "none"

NamedUpTo(store) ==
    LET map[i \in 0 .. EndOf(store)] ==
            IF i = 0 THEN <<>>
            ELSE IF ArgAt(store, i - 1).type = "named"
                 THEN Append(map[i - 1], [name |-> ArgAt(store, i - 1).value.name,
                                          arg |-> Deserialize(ArgAt(store, i - 1))])
                 ELSE map[i - 1]
    IN map
InitMap(store) == NamedUpTo(store)[EndOf(store)]

FindLastNamed(map, name) ==
    LET found == {i \in DOMAIN map : map[i].name = name}
    IN IF found = {} THEN NoArg
       ELSE map[CHOOSE i \in found : \A j \in found : j <= i].arg

FindNamed(map, name) ==
    LET found == {i \in DOMAIN map : map[i].name = name}
    IN IF found = {} THEN NoArg
       ELSE map[CHOOSE i \in found : \A j \in found : i <= j].arg

(* format_arg_store is made of one argument after the other.               *)
ArgsInit == given = <<>>

GiveArg == /\ Len(given) < MaxArgs
           /\ \E a \in Arguments : given' = Append(given, a)

ArgsSpec == ArgsInit /\ [][GiveArg]_given
------------------------------------------------------------------------------
(* However many arguments there are, each is found by its index, and the   *)
(* first of a name by that name, with the type and the value it was given; *)
(* nothing is found elsewhere, and the map has room for what it collects.  *)
ArgsKeepTheirTypes ==
    LET store == ArgStore(given)
        Given(a) == [type |-> a.type, value |-> a.value]
        names == {given[i].name : i \in DOMAIN given} \ {<<>>}
    IN /\ \A index \in 0 .. 2 * MaxPacked :
             Get(store, index) = IF index < Len(given) THEN Given(given[index + 1])
                                 ELSE NoArg
       /\ \A name \in names \cup {<<"s">>} :
             \/ name \notin names /\ FindNamed(InitMap(store), name) = NoArg
             \/ \E i \in DOMAIN given :
                   /\ given[i].name = name
                   /\ \A j \in 1 .. i - 1 : given[j].name # name
                   /\ FindNamed(InitMap(store), name) = Given(given[i])
       /\ Len(InitMap(store)) <= MaxSize(store)
============================================================================
