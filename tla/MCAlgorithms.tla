---------------------------- MODULE MCAlgorithms ---------------------------
(* The pure algorithms under one TLC run: the histograms, the benchmark's  *)
(* data or the buffers of a log's queue with their steps, or one call of   *)
(* fmt, whose format string grows by one character a step, whose           *)
(* specifiers are chosen, or whose list of arguments or bytes grows.       *)
EXTENDS Histogram, FmtGrammar, FmtDouble, FmtArgs, HexDump, BenchmarkData, MemoryBuffer

Given(type, name, value) == [type |-> type, name |-> name, value |-> value]
Unnamed(type, value) == Given(type, <<>>, value)

(* Format strings: of any characters, or of one field's specifiers.        *)
FormatCalls ==
    [kind : {"format"}, str : {<<>>}, chars : {{"{", "}", ":", "0", "1", "a"}}, max : {5},
     args : {<<Unnamed("int", 2), Given("ulong_long", <<"a">>, 5)>>,
             <<Unnamed("string", 0), Unnamed("double", 0), Given("int", <<"a">>, 20)>>}]
    \cup UNION {[kind : {"format"}, str : {<<"{", ":">>},
                 args : {<<Unnamed(type, 3), Unnamed("uint", 4)>>}, max : {7},
                 chars : {{"}", "0", "1", "."} \cup
                             CASE type = "int" -> {"<", "=", "{"}
                               [] type = "char" -> {"+", "x", "c"}
                               [] type = "double" -> {"{", "g", ">"}
                               [] type = "cstring" -> {":", "s", "^"}
                               [] type = "bool" -> {"#", "d", "s"}}] :
                   type \in {"int", "char", "double", "cstring", "bool"}}

(* Printf formats: each with the arguments its characters are for.         *)
PrintfCalls ==
    {[kind |-> "printf", str |-> g[1], args |-> g[2], chars |-> g[3], max |-> 6] :
        g \in {<<<<"%">>, <<Unnamed("int", -2), Unnamed("long_long", 20)>>,
                 {"*", "1", "0", "$", "-", "d"}>>,
               <<<<"%">>, <<Unnamed("ulong_long", 44), Unnamed("int", 0)>>,
                 {"h", "l", "#", "d", "x", "c", "%"}>>,
               <<<<"%">>, <<Unnamed("bool", 1), Unnamed("uint", 30)>>,
                 {".", "1", "*", "s", "u", "+", " "}>>,
               <<<<"%">>, <<Unnamed("double", 1), Unnamed("char", -3)>>,
                 {"0", "5", "L", "g", "i", "c", "+"}>>,
               <<<<"%">>, <<Unnamed("cstring", 3), Unnamed("pointer", 9)>>,
                 {"1", "2", "$", "p", "s", "0"}>>,
               <<<<"%", "s", "%">>, <<Unnamed("cstring", 0), Unnamed("pointer", 0)>>,
                 {"s", "p", "0", "d", "-"}>>}}

AddCharacter == /\ call.kind \in {"format", "printf"}
        /\ Len(call.str) < call.max
        /\ \E c \in call.chars : call' = [call EXCEPT !.str = Append(@, c)]
------------------------------------------------------------------------------
(* What is written: words of 16 bits at the boundaries of digits, bases    *)
(* and signs; a separator is asked for only where fmt's buffer holds it.   *)
Integers16 == {0, 9, 10, 99, 100, 1024, 9999, 10000, 32767, -1, -10, -32768}
WriteCalls ==
    [kind : {"value"},
     arg : {Unnamed("int", v) : v \in Integers16}
            \cup {Unnamed("uint", v) : v \in {32768, 65535}}
            \cup {Unnamed("string", <<"a", "b", "c">>), Unnamed("cstring", <<>>),
                  Unnamed("char", "x"), Unnamed("bool", 1), Unnamed("pointer", 255)}
            \cup {Unnamed("double", [negative |-> negative, text |-> text]) :
                     negative \in BOOLEAN,
                     text \in {<<"0">>, <<"1", ".", "5">>, <<"2", ".", "2", "5", "e", "7">>,
                              <<"1", "0", "0", "0", "0", ".", "5">>,
                              <<"n", "a", "n">>, <<"i", "n", "f">>}}]

AllSpecs == [fill : {"0", "_"}, align : {"default", "left", "right", "center", "numeric"},
             sign : {"", "+", "-"}, hash : BOOLEAN, width : {0, 3, 8},
             precision : {-1, 2, 7}, type : IntTypes]

Specify ==
    /\ call.kind = "value"
    /\ \E specs \in AllSpecs :
          /\ specs.fill = IF specs.align = "numeric" THEN "0" ELSE "_"
          /\ specs.sign # "" => call.arg.type \in {"int", "double"}
          /\ \/ /\ call.arg.type \in {"int", "uint"}
                /\ specs.type = "n" => call.arg.value \in -9999 .. 9999
             \/ /\ call.arg.type \notin {"int", "uint"}
                /\ specs.type = "" /\ ~specs.hash
                /\ call.arg.type # "double" => specs.align # "numeric"
          /\ \E type \in IF call.arg.type = "double" THEN {"", "E"} ELSE {specs.type} :
                call' = [kind |-> "write", arg |-> call.arg,
                         specs |-> [specs EXCEPT !.type = type]]
------------------------------------------------------------------------------
ArgsCalls == [kind : {"args"}]

MCArguments == {Unnamed("int", 1), Unnamed("custom", 2), Given("int", <<"a">>, 3),
                Given("string", <<"d">>, 4), Given("custom", <<"a">>, 5)}
------------------------------------------------------------------------------
HexCalls ==
    [kind : {"hex"}, bytes : {<<>>},
     flags : {<<>>, <<"X">>, <<"s", "p">>, <<"n", "?">>, <<"p", "X">>, <<"n", "s">>}]

AddByte == /\ call.kind = "hex"
           /\ Len(call.bytes) < line_size
           /\ \E item \in {10, -128} : call' = [call EXCEPT !.bytes = Append(@, item)]
------------------------------------------------------------------------------
(* The benchmark: all numbers of Random, values of several sizes out of    *)
(* texts of several kinds, and pairs of keys.                              *)
NoData == [kind |-> "none"]

MCKeyPairs ==
    {<<v, w>> \in (0 .. Radix ^ IntBytes \div 2) \X (0 .. Radix ^ IntBytes \div 2) :
        v - w \in {0, 1, 5, Radix, -Radix ^ 2}}
MCKeySizes == {1, 2, IntBytes, IntBytes + 2}
------------------------------------------------------------------------------
NoCall == [kind |-> "none"]
Buffers == [kind |-> "buffers"]

AlgorithmsInit ==
    /\ Init /\ BuffersInit /\ ArgsInit
    /\ \/ /\ call \in {NoCall, Buffers} \cup HexCalls \cup FormatCalls \cup PrintfCalls
                      \cup WriteCalls \cup ArgsCalls
          /\ data = NoData
       \/ call = [kind |-> "data"] /\ DataInit

Steps == Next /\ UNCHANGED <<call, data, given, buffer_vars>>
DataSteps == DataNext /\ UNCHANGED <<call, vars, given, buffer_vars>>
BufferSteps == BuffersNext /\ UNCHANGED <<call, data, given, vars>>
ArgsSteps == GiveArg /\ UNCHANGED <<call, data, vars, buffer_vars>>
CallSteps == /\ AddCharacter \/ Specify \/ AddByte
             /\ UNCHANGED <<data, given, vars, buffer_vars>>

AlgorithmsNext ==
    \/ call.kind = "none" /\ Steps
    \/ call.kind = "data" /\ DataSteps
    \/ call.kind = "buffers" /\ BufferSteps
    \/ call.kind = "args" /\ ArgsSteps
    \/ CallSteps

AlgorithmsSpec ==
    AlgorithmsInit /\ [][AlgorithmsNext]_<<vars, call, data, given, buffer_vars>>
------------------------------------------------------------------------------
(* Integers and strings, floating-point numbers and dumps of bytes are     *)
(* written so that they can be read back, in the layout asked for.         *)
WrittenAsSpecified == ValuesAreWritten /\ DoublesAreWritten /\ BytesAreDumped
============================================================================
