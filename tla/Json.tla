-------------------------------- MODULE Json --------------------------------
(***************************************************************************)
(* The reading half of the JSON library: JsonReader and JsonLexer turn     *)
(* text into tokens, one analysis() call a step, and JsonParser turns      *)
(* tokens into a document, one iteration of a loop a step, with the        *)
(* recursion of parseJsonObject() and parseJsonArray() as a stack of       *)
(* frames.  JsonText has the printing half.                                *)
(*                                                                         *)
(* A text is a sequence of characters; a word (true, false, null) is one   *)
(* symbol, and a "t", "f" or "n" outside a string is the beginning of a    *)
(* word that is misspelt or cut off.  The value of a number, an int or a   *)
(* double, is written as its shortest decimal text.  "\n" stands for every *)
(* character with a one-letter escape; \u and \x are left out, and so are  *)
(* numbers outside the range of an int or of a double.                     *)
(***************************************************************************)
EXTENDS Integers, Sequences, SequencesExt, FiniteSetsExt

CONSTANT JsonRounds      \* bound: characters that a loop takes behind the end of its text

ASSUME RoundsAssumption == JsonRounds \in Nat

Ten == <<"0", "1", "2", "3", "4", "5", "6", "7", "8", "9">>
Digits == {"0", "1", "2", "3", "4", "5", "6", "7", "8", "9"}
Signs == {"+", "-"}
Exponent == {"e"}
Words == {"true", "false", "null"}
Punctuation == {"{", "}", "[", "]", ":", ","}
TagOf(c) == CASE c = "{" -> "OBJECT_BEGIN"  [] c = "}" -> "OBJECT_END"
              [] c = "[" -> "ARRAY_BEGIN"   [] c = "]" -> "ARRAY_END"
              [] c = ":" -> "KEY_VALUE_SEP" [] c = "," -> "SEP"
              [] OTHER -> c                    \* a word
Quote == "\""
Blanks == {" ", "\n"}
EOF == "EOF"
Scalars == {"string", "number", "float"} \cup Words

Scalar(type, text) == [type |-> type, text |-> text, items |-> <<>>]
Container(type, items) == [type |-> type, text |-> <<>>, items |-> items]
Item(key, value) == [key |-> key, value |-> value]
Hole == Scalar("hole", <<>>)         \* a null std::shared_ptr<JsonValue>
NoDoc == Scalar("none", <<>>)

VARIABLES jsonIn,       \* what the text was made from: a document, its layout, whether strings
                        \* were printed escaped, and whether a file was read
          sbuffer,      \* the text that JsonReader holds
          ptr,          \* characters taken from it
          token_list,
          tokenIndex,   \* tokens taken
          frames,       \* the containers being parsed, innermost last
          json,         \* what parse() returns
          jsonPc

jsonVars == <<jsonIn, sbuffer, ptr, token_list, tokenIndex, frames, json, jsonPc>>
-----------------------------------------------------------------------------
Token(tag, text) == [tag |-> tag, text |-> text]

escape_string(s) ==
    LET escaped[r \in Seq(STRING)] ==
          IF r = <<>> THEN <<>>
          ELSE IF r[1] # "\\" THEN <<r[1]>> \o escaped[Tail(r)]
          ELSE LET c == IF Len(r) > 1 THEN r[2] ELSE "NUL" IN
               <<IF c = "n" THEN "\n" ELSE c>> \o escaped[SubSeq(r, 3, Len(r))]
    IN escaped[s]

NoInput == [doc |-> NoDoc, escape |-> FALSE, file |-> FALSE, format |-> FALSE, after |-> 0, gap |-> <<>>,
            written |-> <<>>]
JsonRest == tokenIndex = 0 /\ frames = <<>> /\ json = NoDoc
JsonIdle == /\ jsonIn = NoInput /\ sbuffer = <<>> /\ ptr = 0 /\ token_list = <<>> /\ jsonPc = "idle"
            /\ JsonRest

(* Any text; or any tokens, which may be written one after the other, with blanks between. *)
AnyBuffer == /\ sbuffer \in Seq(STRING \ {EOF}) /\ ptr = 0 /\ token_list = <<>>
             /\ jsonPc = "lex" /\ JsonRest
AnyTokens == /\ token_list \in Seq([tag : Scalars \cup {TagOf(c) : c \in Punctuation}, text : Seq(STRING)])
             /\ sbuffer = <<>> /\ ptr = 1 /\ jsonPc = "parse" /\ JsonRest
-----------------------------------------------------------------------------
(***************************************************************************)
(* The lexer.  First(i, S) is where a loop that takes characters of S ends.*)
(***************************************************************************)
CharAt(i) == IF i \in DOMAIN sbuffer THEN sbuffer[i] ELSE EOF
First(i, S) == Min({j \in i..Len(sbuffer) + 1 : CharAt(j) \notin S})

(* Faulty variants of definitions below, as in Session. *)
CloseAtQuote(i) == First(i, Range(sbuffer) \ {Quote})

MismatchAllowed == FALSE

SeparatorOptional(i) == FALSE

(* Where the loop over a string from i ends: at the closing quote, at EOF or at a backslash *)
(* that begins no escape.  A character is taken with a backslash, and not looked at, when an *)
(* odd number of them stands before it.                                                      *)
StringEnd(i) ==
    LET Taken(j) == Cardinality({b \in i..j - 1 : \A k \in b..j - 1 : CharAt(k) = "\\"}) % 2 = 1
    IN Min({j \in i..Len(sbuffer) + 1 :
              /\ ~Taken(j)
              /\ \/ CharAt(j) \in {Quote, EOF}
                 \/ CharAt(j) = "\\" /\ CharAt(j + 1) \notin {"n", Quote, "\\"}})

CommentEnd(i) == LET ends == {j \in i..Len(sbuffer) : CharAt(j) = "*" /\ CharAt(j + 1) = "/"}
                 IN IF ends = {} THEN Len(sbuffer) + 1 ELSE Min(ends) + 1

(***************************************************************************)
(* toAny<double>(s): the longest beginning of s that is a number, the      *)
(* point moved by the exponent; 0 when the stream finds none.              *)
(***************************************************************************)
Leading(s, S) == LET n == SelectInSeq(s, LAMBDA c : c \notin S) IN
                 IF n = 0 THEN s ELSE SubSeq(s, 1, n - 1)
Behind(s, S) == SubSeq(s, Len(Leading(s, S)) + 1, Len(s))
Unsigned(s) == IF s # <<>> /\ s[1] \in Signs THEN Tail(s) ELSE s
Negative(s) == s # <<>> /\ s[1] = "-"
NatOf(s) == FoldLeft(LAMBDA n, c : 10 * n + SelectInSeq(Ten, LAMBDA d : d = c) - 1, 0, s)

(* The digits s with the point behind the first `point` of them, without needless zeros. *)
Decimal(negative, s, point) ==
    LET Digit(i) == IF i \in DOMAIN s THEN s[i] ELSE "0"
        whole == Behind([i \in 1..point |-> Digit(i)], {"0"})
        part == Reverse(Behind(Reverse([i \in 1..Len(s) - point |-> Digit(point + i)]), {"0"})) IN
    (IF negative THEN <<"-">> ELSE <<>>) \o (IF whole = <<>> THEN <<"0">> ELSE whole)
      \o (IF part = <<>> THEN <<>> ELSE <<".">> \o part)

toDouble(s) ==
    LET whole == Leading(Unsigned(s), Digits)
        rest == Behind(Unsigned(s), Digits)
        point == rest # <<>> /\ rest[1] = "."
        part == IF point THEN Leading(Tail(rest), Digits) ELSE <<>>
        tail == IF point THEN Behind(Tail(rest), Digits) ELSE rest
        exp == IF tail # <<>> /\ tail[1] \in Exponent THEN Tail(tail) ELSE <<"0">>
        power == Leading(Unsigned(exp), Digits) IN
    IF whole \o part = <<>> \/ power = <<>> THEN <<"0">>
    ELSE Decimal(Negative(s), whole \o part,
                 Len(whole) + (IF Negative(exp) THEN -NatOf(power) ELSE NatOf(power)))

(* static_cast<int>(toAny<double>(s)), for digits with or without a sign: there is no -0. *)
toInt(s) == IF toDouble(s) = <<"-", "0">> THEN <<"0">> ELSE toDouble(s)

Refused(to) == jsonPc' = "refused" /\ ptr' = to /\ UNCHANGED token_list
Spins == jsonPc' = "spins" /\ ptr' = Len(sbuffer) + 1 /\ UNCHANGED token_list
Skip(to) == ptr' = to /\ UNCHANGED <<token_list, jsonPc>>
Emit(tag, text, to) == /\ token_list' = Append(token_list, Token(tag, text))
                       /\ ptr' = to /\ UNCHANGED jsonPc

lexString(i) == LET end == StringEnd(i + 1) IN
    CASE CharAt(end) = "\\" -> Refused(end + 1)
      [] CharAt(end) = EOF  -> Spins
      [] OTHER -> Emit("string", escape_string(SubSeq(sbuffer, i + 1, end - 1)), end)

lexComment(i) ==
    CASE CharAt(i + 1) = "/" -> Skip(First(i + 2, Range(sbuffer) \ {"\n"}))
      [] CharAt(i + 1) = "*" -> IF CharAt(CommentEnd(i + 2)) = EOF THEN Spins
                                ELSE Skip(CommentEnd(i + 2))
      [] OTHER -> Refused(i + 1)

lexNumber(i) == LET j == First(i + 1, Digits)
                    k == First(j + 1, Digits \cup Exponent \cup Signs) IN
    CASE CharAt(i) = "0" /\ CharAt(i + 1) \in Digits -> Refused(i)
      [] CharAt(j) \notin Exponent \cup {"."} -> Emit("number", toInt(SubSeq(sbuffer, i, j - 1)), j - 1)
      [] CharAt(k - 1) \in Exponent \cup {"."} -> Refused(k)
      [] OTHER -> Emit("float", toDouble(SubSeq(sbuffer, i, k - 1)), k - 1)

analysis == LET i == First(ptr + 1, Blanks) IN
    /\ jsonPc = "lex" /\ ptr <= Len(sbuffer)
    /\ CASE CharAt(i) = Quote -> lexString(i)
         [] CharAt(i) = "/" -> lexComment(i)
         [] CharAt(i) \in Words \cup Punctuation -> Emit(TagOf(CharAt(i)), <<>>, i)
         [] CharAt(i) \in {"n", "t"} -> Refused(i + 3)
         [] CharAt(i) = "f" -> Refused(i + 4)
         [] CharAt(i) \in Digits \cup Signs -> lexNumber(i)
         [] OTHER -> Skip(i)
    /\ UNCHANGED <<jsonIn, sbuffer, tokenIndex, frames, json>>

(* A string or a block comment without an end: getC() goes on behind the text. *)
Round == /\ jsonPc = "spins" /\ ptr < Len(sbuffer) + JsonRounds
         /\ ptr' = ptr + 1
         /\ UNCHANGED <<jsonIn, sbuffer, token_list, tokenIndex, frames, json, jsonPc>>

getTokens == /\ jsonPc = "lex" /\ ptr > Len(sbuffer)
             /\ jsonPc' = "parse"
             /\ UNCHANGED <<jsonIn, sbuffer, ptr, token_list, tokenIndex, frames, json>>
-----------------------------------------------------------------------------
(***************************************************************************)
(* The parser.  Each handle_..._exception() is the condition under which   *)
(* it throws; "none" is the tag of a token that is not there.              *)
(***************************************************************************)
TagAt(i) == IF i \in DOMAIN token_list THEN token_list[i].tag ELSE "none"
Opens(i) == TagAt(i) \in {"OBJECT_BEGIN", "ARRAY_BEGIN"}

begin_end_mismatch == \/ TagAt(1) = "OBJECT_BEGIN" /\ Last(token_list).tag # "OBJECT_END"
                      \/ TagAt(1) = "ARRAY_BEGIN" /\ Last(token_list).tag # "ARRAY_END"
after_closure(i) == TagAt(i + 1) \in Scalars \cup {"KEY_VALUE_SEP", "OBJECT_BEGIN", "ARRAY_BEGIN"}
after_object_array(i) == \/ TagAt(i + 1) \in {"SEP", "KEY_VALUE_SEP"}
                         \/ TagAt(i) = "OBJECT_BEGIN" /\ TagAt(i + 1) = "ARRAY_END"
                         \/ TagAt(i) = "ARRAY_BEGIN" /\ TagAt(i + 1) = "OBJECT_END"
missing_separator(i) == TagAt(i) \in Scalars /\ TagAt(i + 1) \notin {"ARRAY_END", "OBJECT_END", "SEP"}
after_separators(i) == TagAt(i + 1) \in {"SEP", "OBJECT_END", "ARRAY_END", "KEY_VALUE_SEP"}
key_not_string(i) == TagAt(i) # "string"
object_missing_separator(i) == TagAt(i + 1) \notin {"KEY_VALUE_SEP", "none"}
object_missing_value(i) == TagAt(i) \notin Scalars \cup {"OBJECT_BEGIN", "ARRAY_BEGIN", "none"}

Throw == jsonPc' = "refused" /\ UNCHANGED <<tokenIndex, frames, json>>
Take(n) == tokenIndex' = tokenIndex + n
Top == frames[Len(frames)]
Push(i, key) == frames' = Append(frames, [type |-> IF TagAt(i) = "OBJECT_BEGIN" THEN "object" ELSE "array",
                                          key |-> key, items |-> <<>>])
AddTo(fs, key, value) == [fs EXCEPT ![Len(fs)].items = Append(@, Item(key, value))]

parse == /\ jsonPc = "parse"
         /\ CASE token_list = <<>> -> jsonPc' = "done" /\ UNCHANGED <<tokenIndex, frames, json>>
              [] token_list # <<>> /\ begin_end_mismatch -> Throw
              [] Opens(1) /\ ~begin_end_mismatch ->
                   IF after_object_array(1) THEN Throw
                   ELSE Push(1, <<>>) /\ Take(1) /\ jsonPc' = "loop" /\ UNCHANGED json
              [] OTHER -> IF Len(token_list) = 1 /\ TagAt(1) \in Scalars
                          THEN /\ json' = Scalar(TagAt(1), token_list[1].text) /\ Take(1)
                               /\ jsonPc' = "done" /\ UNCHANGED frames
                          ELSE Throw
         /\ UNCHANGED <<jsonIn, sbuffer, ptr, token_list>>

(* The end of a loop: the container goes into the one around it. *)
Return(n) == LET outer == Front(frames) IN
    /\ Take(n)
    /\ IF outer = <<>> THEN /\ json' = Container(Top.type, Top.items) /\ jsonPc' = "done"
                            /\ frames' = outer
       ELSE /\ frames' = AddTo(outer, Top.key, Container(Top.type, Top.items))
            /\ UNCHANGED <<json, jsonPc>>

(* The value at i, after n tokens were taken. *)
Value(i, key, n) ==
    IF missing_separator(i) \/ (Opens(i) /\ after_object_array(i)) THEN Throw
    ELSE /\ Take(n)
         /\ IF Opens(i) THEN Push(i, key)
            ELSE frames' = AddTo(frames, key, IF TagAt(i) \in Scalars
                                              THEN Scalar(TagAt(i), token_list[i].text) ELSE Hole)
         /\ UNCHANGED <<json, jsonPc>>

Loop(type) == jsonPc = "loop" /\ Top.type = type /\ UNCHANGED <<jsonIn, sbuffer, ptr, token_list>>

(* What both loops begin with: the end of the tokens, a closing bracket, a comma. *)
EndOrSeparator(i) ==
    CASE TagAt(i) = "none" -> Return(0)
      [] TagAt(i) = "SEP" -> IF after_separators(i) THEN Throw
                             ELSE Take(1) /\ UNCHANGED <<frames, json, jsonPc>>
      [] OTHER -> IF after_closure(i) THEN Throw ELSE Return(1)

parseJsonArray == LET i == tokenIndex + 1 IN
    /\ Loop("array")
    /\ IF TagAt(i) \in {"none", "ARRAY_END", "SEP"} THEN EndOrSeparator(i) ELSE Value(i, <<>>, 1)

parseJsonObject == LET i == tokenIndex + 1 IN
    /\ Loop("object")
    /\ CASE TagAt(i) \in {"none", "OBJECT_END", "SEP"} -> EndOrSeparator(i)
         [] key_not_string(i) /\ TagAt(i) \notin {"none", "OBJECT_END", "SEP"} -> Throw
         [] OTHER -> IF object_missing_separator(i) \/ object_missing_value(i + 2) THEN Throw
                     ELSE Value(i + 2, token_list[i].text, 3)

JsonEnded == jsonPc \in {"idle", "done", "refused", "spins"}

JsonNext == analysis \/ Round \/ getTokens \/ parse \/ parseJsonArray \/ parseJsonObject

JsonSpec == (AnyBuffer \/ AnyTokens) /\ [][JsonNext]_jsonVars
-----------------------------------------------------------------------------
(***************************************************************************)
(* JsonInBounds: the token that parseJsonObject() takes without comparing  *)
(* __tokenIndex with __tokenLength, after a key and the colon that it has  *)
(* skipped, is there.  The index of the reader has no such bound: a word   *)
(* that is cut off moves it up to four characters behind the text, and a   *)
(* string or a block comment without an end moves it on and on; but such a *)
(* text is not accepted, and one that is was read to its end and no        *)
(* further (JsonParser.cc 23-30, JsonReader.h 47-79, JsonLexer.h 70-159).  *)
(***************************************************************************)
JsonInBounds ==
    /\ tokenIndex \in 0..Len(token_list)
    /\ jsonPc = "lex" => ptr \in 0..Len(sbuffer) + 1
    /\ jsonPc \in {"parse", "loop", "done"} => ptr = Len(sbuffer) + 1
    /\ \A i \in DOMAIN token_list :
         jsonPc = "loop" /\ Top.type = "object" /\ i = tokenIndex + 1 /\ ~key_not_string(i)
           => object_missing_separator(i) \/ object_missing_value(i + 2) \/ i + 2 \in DOMAIN token_list
=============================================================================
