------------------------------ MODULE JsonText ------------------------------
(***************************************************************************)
(* The printing half of the JSON library, JsonFormatter and toString(),    *)
(* and what the reading half in Json makes of the texts it prints.         *)
(***************************************************************************)
EXTENDS Json

CONSTANTS JsonDepth,      \* bound: containers inside each other in a printed document
          JsonTokens      \* bound: tokens of an arbitrary token sequence

ASSUME JsonAssumption == JsonDepth \in Nat \ {0} /\ JsonTokens \in Nat
-----------------------------------------------------------------------------
Close(type) == IF type = "object" THEN "OBJECT_END" ELSE "ARRAY_END"
Open(type) == IF type = "object" THEN "OBJECT_BEGIN" ELSE "ARRAY_BEGIN"

unescape_string(s) ==
    FlattenSeq([i \in DOMAIN s |-> CASE s[i] = "\n" -> <<"\\", "n">>
                                     [] s[i] \in {"\"", "\\"} -> <<"\\", s[i]>>
                                     [] OTHER -> <<s[i]>>])

(***************************************************************************)
(* toStr<double>: at most six digits, a point only before digits that are  *)
(* not zero, and an exponent when that of the first digit is below -4 or   *)
(* above 5.  (The seventh digit is rounded up from 5 on; a number half way *)
(* between two is not among those below.)                                  *)
(***************************************************************************)
Precision == 6
NumberOf(n, k) == [i \in 1..k |-> Ten[((n \div 10^(k - i)) % 10) + 1]]
Significant(d) == Behind(SelectSeq(d, LAMBDA c : c \in Digits), {"0"})

toStrDouble(d) ==
    LET digits == Significant(d)
        exact == Len(digits) <= Precision
        rounded == (NatOf(SubSeq(digits, 1, Precision + 1)) + 5) \div 10
        carry == ~exact /\ rounded = 10^Precision
        kept == IF exact THEN digits ELSE NumberOf(rounded, IF carry THEN Precision + 1 ELSE Precision)
        whole == Leading(Unsigned(d), Digits)
        zeros == Cardinality({i \in DOMAIN d : d[i] \in Digits}) - Len(digits)
        power == Len(whole) - zeros - 1 + (IF carry THEN 1 ELSE 0) IN
    CASE digits = <<>> -> d
      [] digits # <<>> /\ power \in -4..Precision - 1 -> Decimal(Negative(d), kept, power + 1)
      [] OTHER -> Decimal(Negative(d), kept, 1) \o <<"e", IF power < 0 THEN "-" ELSE "+">>
                    \o NumberOf(IF power < 0 THEN -power ELSE power, 2)

(***************************************************************************)
(* Printing: the tokens of a document, and the text of each.  A string     *)
(* made by the parser or by add() has isEscaped set, so it is printed as   *)
(* it is when the formatter escapes, and in toString().                    *)
(***************************************************************************)
RECURSIVE TokensOf(_)
RECURSIVE ItemTokens(_, _)
TokensOf(v) ==
    IF v.type \notin {"object", "array"} THEN <<Token(v.type, v.text)>>
    ELSE <<Token(Open(v.type), <<>>)>> \o ItemTokens(v.type, v.items)
           \o <<Token(Close(v.type), <<>>)>>
ItemTokens(type, items) ==
    IF items = <<>> THEN <<>>
    ELSE (IF type = "object" THEN <<Token("string", items[1].key), Token("KEY_VALUE_SEP", <<>>)>> ELSE <<>>)
           \o TokensOf(items[1].value)
           \o (IF Len(items) > 1 THEN <<Token("SEP", <<>>)>> ELSE <<>>)
           \o ItemTokens(type, Tail(items))

MarkOf(tag) == CHOOSE c \in Punctuation \cup Words : TagOf(c) = tag

QuotedString(s, escape) == <<Quote>> \o (IF escape THEN s ELSE unescape_string(s)) \o <<Quote>>
TokenText(t, escape) == CASE t.tag = "string" -> QuotedString(t.text, escape)
                          [] t.tag = "number" -> t.text          \* toStr<int>
                          [] t.tag = "float" -> toStrDouble(t.text)
                          [] OTHER -> <<MarkOf(t.tag)>>
Printed(v, escape) == LET tokens == TokensOf(v) IN
                      [i \in DOMAIN tokens |-> TokenText(tokens[i], escape)]

(* Layout: where JsonFormatter starts a line, with the indentation as one blank. *)
Formatted(pieces) ==
    [i \in DOMAIN pieces |->
       (IF pieces[i] \in {<<"}">>, <<"]">>} /\ i > 1 /\ pieces[i - 1] \notin {<<"{">>, <<"[">>}
        THEN <<"\n", " ">> ELSE <<>>)
       \o pieces[i] \o
       (CASE pieces[i] = <<",">> -> <<"\n", " ">>
          [] pieces[i] = <<":">> -> <<" ">>
          [] pieces[i] \in {<<"{">>, <<"[">>} /\ pieces[i + 1] \notin {<<"}">>, <<"]">>}
               -> <<"\n", " ">>
          [] OTHER -> <<>>)]
-----------------------------------------------------------------------------
Strings == {<<>>, <<"a">>, <<"\"">>, <<"\\">>, <<" ">>, <<"\n">>, <<"\\", "\"">>, <<"/", "/">>}
Doubles == {<<"1">>, <<"1", ".", "1">>, <<"-", "0", ".", "0", "0", "0", "0", "1">>,
            <<"1", "0", "0", "0", "0", "0", "0">>, <<"9", "9", "9", "9", "9", "9", ".", "9">>}
Leaves == {Scalar("string", s) : s \in Strings} \cup {Scalar(w, <<>>) : w \in {"true", "null"}}
            \cup {Scalar("number", <<"1", "0">>), Scalar("number", <<"-", "1">>)}
            \cup {Scalar("float", d) : d \in Doubles}

RECURSIVE Documents(_)
Documents(depth) ==
    IF depth = 0 THEN Leaves
    ELSE LET inner == Documents(depth - 1)
             few == {Scalar("string", <<"a">>), Scalar("number", <<"1", "0">>)} IN
         inner
         \cup {Container(t, <<>>) : t \in {"object", "array"}}
         \cup {Container("object", <<Item(<<"a">>, v)>>) : v \in inner}
         \cup {Container("array", <<Item(<<>>, v)>>) : v \in inner}
         \cup {Container("array", <<Item(<<>>, v), Item(<<>>, w)>>) : v \in inner, w \in few}
         \cup {Container("object", <<Item(k, w), Item(<<>>, v)>>) :
                 k \in {<<"\"">>, <<>>}, v \in inner, w \in few}

Gaps == {<<>>, <<" ">>, <<"\n">>, <<"/", "*", "*", "a", "/", "*", "/">>, <<"/", "/", "\"", "\n">>}

(* Numbers that nobody printed, and what they are. *)
Written == {<<<<"1", "e", "-", "1">>, "float", <<"0", ".", "1">>>>,
            <<<<"-", "1", ".", "1", "0", "e", "+", "2">>, "float", <<"-", "1", "1", "0">>>>,
            <<<<"-", "0", ".", "0">>, "float", <<"-", "0">>>>,
            <<<<"1", "e", "+">>, "float", <<"0">>>>,
            <<<<"2", "e", "1", "-", "1">>, "float", <<"2", "0">>>>,
            <<<<"+", "0", "7">>, "number", <<"7">>>>,
            <<<<"-", "0">>, "number", <<"0">>>>,
            <<<<"-">>, "number", <<"0">>>>}

(* Texts that end too early. *)
CutOff == {<<"t">>, <<"[", "f">>, <<Quote, "a">>, <<"[", Quote, "\\">>, <<"/", "*", "*">>, <<"/">>, <<"1", ".">>}

(* Printed texts: toString()'s with a gap between two tokens, and the formatter's. *)
WithGap(pieces, k, gap) ==
    FlattenSeq(SubSeq(pieces, 1, k)) \o gap \o FlattenSeq(SubSeq(pieces, k + 1, Len(pieces)))

TextOf(in) == LET pieces == Printed(in.doc, in.escape) IN
              IF in.written # <<>> THEN in.written
              ELSE IF in.format THEN FlattenSeq(Formatted(pieces))
              ELSE WithGap(pieces, in.after, in.gap)

(* JsonReader(std::ifstream &): operator>> skips white space, everywhere. *)
ReadFile(text) == SelectSeq(text, LAMBDA c : c \notin Blanks)

Sequence(tags) == [i \in DOMAIN tags |-> Token(tags[i], <<>>)]
Tags == {TagOf(c) : c \in Punctuation} \cup {"string", "number"}

InitText ==
    /\ \E escape, file \in BOOLEAN :
         \/ \E doc \in Documents(JsonDepth) :
              jsonIn = [NoInput EXCEPT !.doc = doc, !.escape = escape, !.file = file, !.format = TRUE]
         \/ \E doc \in Documents(1) : \E k \in 0..Len(TokensOf(doc)), gap \in Gaps :
              jsonIn = [doc |-> doc, escape |-> escape, file |-> file, format |-> FALSE,
                        after |-> k, gap |-> gap, written |-> <<>>]
         \/ \E w \in Written :
              jsonIn = [NoInput EXCEPT !.doc = Scalar(w[2], w[3]), !.file = file, !.written = w[1]]
         \/ \E w \in CutOff : jsonIn = [NoInput EXCEPT !.file = file, !.written = w]
    /\ sbuffer = IF jsonIn.file THEN ReadFile(TextOf(jsonIn)) ELSE TextOf(jsonIn)
    /\ token_list = <<>> /\ ptr = 0 /\ jsonPc = "lex" /\ JsonRest

(* Any short token sequence. *)
InitTokens == /\ token_list \in {Sequence(tags) : tags \in BoundedSeq(Tags, JsonTokens)}
              /\ jsonIn = NoInput /\ sbuffer = <<>> /\ ptr = 1 /\ jsonPc = "parse" /\ JsonRest

JsonInit == InitText \/ InitTokens
-----------------------------------------------------------------------------
RECURSIVE StringsOf(_)
StringsOf(v) == UNION ({{v.items[i].key} \cup StringsOf(v.items[i].value) : i \in DOMAIN v.items}
                         \cup {IF v.type = "string" THEN {v.text} ELSE {}})
RECURSIVE DoublesOf(_)
DoublesOf(v) == UNION ({DoublesOf(v.items[i].value) : i \in DOMAIN v.items}
                         \cup {IF v.type = "float" THEN {v.text} ELSE {}})
CharsOf(v) == UNION {Range(s) : s \in StringsOf(v)}

(***************************************************************************)
(* JsonRoundTrip: a document that was printed, with blanks and comments    *)
(* between its tokens, is read back as the same document, and a number     *)
(* that was written otherwise with its value, except where printing or     *)
(* reading loses something.  toString() and an escaping formatter (the one *)
(* that setBodyJson uses) do not print a quote or a backslash in a string  *)
(* so that it can be read again; a blank that is in a string as it is gets *)
(* lost in a file; a line comment in a file has no end; a double of more   *)
(* than six digits is rounded, and one that is whole and printed without   *)
(* an exponent is read as an integer, whose value<double>() is 0           *)
(* (JsonString.h 14-26, JsonReader.h 21, JsonLexer.h 65-221, JsonNumber.h  *)
(* 9-19, JsonUtil.h 27-41).                                                *)
(***************************************************************************)
KeptDouble(d) == /\ Len(Reverse(Behind(Reverse(Significant(d)), {"0"}))) <= 6
                 /\ "." \in Range(d) \/ Len(Unsigned(d)) > 6

Readable(in) ==
    /\ in.doc # NoDoc
    /\ in.written = <<>> => \A d \in DoublesOf(in.doc) : KeptDouble(d)
    /\ in.escape => CharsOf(in.doc) \cap {"\"", "\\"} = {}
    /\ in.file => /\ " " \notin CharsOf(in.doc)
                  /\ in.escape => "\n" \notin CharsOf(in.doc)
                  /\ ~IsPrefix(<<"/", "/">>, in.gap)

JsonRoundTrip ==
    jsonIn # NoInput /\ Readable(jsonIn) =>
      /\ jsonPc \notin {"refused", "spins"}
      /\ jsonPc = "done" => json = jsonIn.doc

(***************************************************************************)
(* TreeIsText: whatever the tokens, provided that the brackets are paired, *)
(* the parser throws or returns a document with just the tokens it has     *)
(* read: nothing is dropped, added or nested elsewhere.  What follows the  *)
(* document is ignored; unpaired brackets may leave a null value in it     *)
(* (JsonParser.cc 71-122, JsonParser.h 80-246).                            *)
(***************************************************************************)
Paired == /\ \A i \in DOMAIN token_list : TagAt(i) \in {"OBJECT_END", "ARRAY_END"} =>
               \E j \in 1..i - 1 :
                  LET Count(S) == Cardinality({k \in j..i : TagAt(k) \in S}) IN
                  /\ <<TagAt(j), TagAt(i)>> \in {<<"OBJECT_BEGIN", "OBJECT_END">>, <<"ARRAY_BEGIN", "ARRAY_END">>}
                  /\ Count({"OBJECT_BEGIN"}) = Count({"OBJECT_END"})
                  /\ Count({"ARRAY_BEGIN"}) = Count({"ARRAY_END"})
          /\ Cardinality({i \in DOMAIN token_list : Opens(i)})
               = Cardinality({i \in DOMAIN token_list : TagAt(i) \in {"OBJECT_END", "ARRAY_END"}})

TreeIsText == jsonPc = "done" /\ token_list # <<>> /\ Paired => IsPrefix(TokensOf(json), token_list)
=============================================================================
