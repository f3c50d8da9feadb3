------------------------------ MODULE UrlText -------------------------------
(***************************************************************************)
(* The texts of a request that hold names and values: the query string and *)
(* a form (parseKeyValue() with '&'), cookies (with ';'), and a Digest     *)
(* authorization, which has a machine of its own in parseAuthorization().  *)
(* A text is a sequence of characters; Hex gives the two hexadecimal       *)
(* digits of the characters that EncodeUtil::urlEncode() replaces.         *)
(***************************************************************************)
EXTENDS Integers, Sequences, SequencesExt, FiniteSetsExt

CONSTANTS KeyTexts, ValueTexts,  \* names and values that a client sends
          DigestBuffer           \* bytes of the buffer for a name and its value in a Digest, 128

ASSUME TextAssumption == /\ <<>> \notin KeyTexts   \* nothing between two separators is no pair
                         /\ DigestBuffer \in Nat \ {0}

Hex == [c \in {"%", "&", "=", ";", " ", "?", "/"} |->
          CASE c = "%" -> <<"2", "5">> [] c = "&" -> <<"2", "6">> [] c = "=" -> <<"3", "D">>
            [] c = ";" -> <<"3", "B">> [] c = " " -> <<"2", "0">> [] c = "?" -> <<"3", "F">>
            [] OTHER -> <<"2", "F">>]

VARIABLES textIn,    \* what the client sends: kind of text, path, pairs, what is between and behind them
          text,      \* the text, or what is left of it
          i_,        \* the position in a Digest text
          key,       \* the name that was read, buffer[0 .. k) in the code
          map,       \* query_, form_, cookies_ or da_
          url_,
          textPc     \* "past" and "overrun": the code has left the text or its buffer

textVars == <<textIn, text, i_, key, map, url_, textPc>>
-----------------------------------------------------------------------------
urlEncode(s) == FlattenSeq([j \in DOMAIN s |-> IF s[j] \in DOMAIN Hex THEN <<"%">> \o Hex[s[j]] ELSE <<s[j]>>])

Escaped(s) == Len(s) >= 3 /\ s[1] = "%" /\ \E c \in DOMAIN Hex : Hex[c] = SubSeq(s, 2, 3)

(* Faulty variants of definitions below, as in Session. *)
KeepEquals(pos2, kv) == IF pos2 = 0 THEN kv ELSE SubSeq(kv, pos2, Len(kv))

CloseAtComma(s) == LET S == {j \in DOMAIN s : s[j] = ","} IN IF S = {} THEN Len(s) + 1 ELSE Min(S)

RECURSIVE urlDecode(_)
urlDecode(s) ==
    IF s = <<>> THEN <<>>
    ELSE IF Escaped(s)
         THEN <<CHOOSE c \in DOMAIN Hex : Hex[c] = SubSeq(s, 2, 3)>> \o urlDecode(SubSeq(s, 4, Len(s)))
         ELSE <<s[1]>> \o urlDecode(Tail(s))

(* A pair has a name, a value and a form: "=", no "=" at all, or, in a Digest, quotes. *)
Pairs_(forms, values) == [name : KeyTexts, value : values, form : forms]
PairText(p, Enc(_)) == CASE p.form = "flag"   -> Enc(p.name)
                         [] p.form = "quoted" -> p.name \o <<"=", "\"">> \o p.value \o <<"\"">>
                         [] OTHER             -> Enc(p.name) \o <<"=">> \o Enc(p.value)
Joined(ps, sep, Enc(_)) ==
    FlattenSeq([j \in DOMAIN ps |-> PairText(ps[j], Enc) \o (IF j < Len(ps) THEN sep ELSE <<>>)])

TextFor(in) == (IF in.kind = "url" THEN urlEncode(in.path) \o (IF in.pairs = <<>> THEN <<>> ELSE <<"?">>)
                                   ELSE <<>>)
               \o Joined(in.pairs, in.sep, LAMBDA s : IF in.kind = "digest" THEN s ELSE urlEncode(s))
               \o (IF in.pairs = <<>> THEN <<>> ELSE in.tail)

(***************************************************************************)
(* What a client sends.  A query string, a form or the cookies may end in  *)
(* a separator; the pairs of a Digest may be next to each other without a  *)
(* blank, and may just fit into the buffer or not.                         *)
(***************************************************************************)
Sent(kind, path, ps, sep, tail) == [kind |-> kind, path |-> path, pairs |-> ps, sep |-> sep, tail |-> tail]
Filled(n) == [j \in 1..n |-> "a"]
AnyText ==
    {Sent("url", path, ps, <<"&">>, <<>>) : path \in {<<"/">>, <<"/", "?", "a">>},
                                            ps \in BoundedSeq(Pairs_({"=", "flag"}, ValueTexts), 2)}
    \cup {Sent("form", <<>>, ps, <<"&">>, tail) : ps \in BoundedSeq(Pairs_({"=", "flag"}, ValueTexts), 2),
                                                  tail \in {<<>>, <<"&">>, <<"&", " ">>}}
    \cup {Sent("cookie", <<>>, ps, sep, tail) : ps \in BoundedSeq(Pairs_({"="}, ValueTexts), 2),
                                                sep \in {<<";">>, <<";", " ">>}, tail \in {<<>>, <<";", " ">>}}
    \cup {Sent("digest", <<>>, ps, sep, <<>>) :
             ps \in BoundedSeq([name : {<<"a">>, <<"b">>, Filled(DigestBuffer + 1)}, form : {"=", "quoted"},
                                value : {<<>>, <<"a", "b">>, <<"a", ",", "b">>,
                                         Filled(DigestBuffer - 1), Filled(DigestBuffer)}], 2),
             sep \in {<<",">>, <<",", " ">>}}

NoText == Sent("none", <<>>, <<>>, <<>>, <<>>)
TextRest == i_ = 1 /\ key = <<>> /\ map = <<>> /\ url_ = <<>>
TextIdle == textIn = NoText /\ text = <<>> /\ TextRest /\ textPc = "idle"
TextInit == /\ textIn \in AnyText /\ text = TextFor(textIn) /\ TextRest
            /\ textPc = CASE textIn.kind = "url" -> "url" [] textIn.kind = "digest" -> "key" [] OTHER -> "pairs"
-----------------------------------------------------------------------------
Find(s, c) == LET S == {j \in DOMAIN s : s[j] = c} IN IF S = {} THEN 0 ELSE Min(S)
AddPair(k, v) == map' = (k :> v) @@ map

(* req_url_ up to '?' is the URL, the rest the query. *)
parseUrlQuery == LET pos == Find(text, "?") IN
    /\ textPc = "url"
    /\ url_' = urlDecode(IF pos = 0 THEN text ELSE SubSeq(text, 1, pos - 1))
    /\ text' = IF pos = 0 THEN <<>> ELSE SubSeq(text, pos + 1, Len(text))
    /\ textPc' = "pairs"
    /\ UNCHANGED <<textIn, i_, key, map>>

(* Without '=', pos2 + 1 and pos - pos2 - 1 wrap around: the value is the name. *)
ValueAfter(pos2, kv) == IF pos2 = 0 THEN kv ELSE SubSeq(kv, pos2 + 1, Len(kv))

(***************************************************************************)
(* One round of parseKeyValue(); blanks after the separator are skipped.   *)
(* At the end of the text the code looks at the byte behind it.  Behind    *)
(* req_url_ and a header value that is the 0 of a std::string; behind a    *)
(* form it is what an earlier request left in the receive buffer, and if   *)
(* that is a blank, remove_prefix() goes past the end.                     *)
(***************************************************************************)
parseKeyValue ==
    LET pos == Find(text, IF textIn.kind = "cookie" THEN ";" ELSE "&")
        kv == IF pos = 0 THEN text ELSE SubSeq(text, 1, pos - 1)
        pos2 == Find(kv, "=")
        next == Min({j \in pos + 1..Len(text) + 1 : j > Len(text) \/ text[j] # " "}) IN
    /\ textPc = "pairs" /\ text # <<>>
    /\ AddPair(urlDecode(IF pos2 = 0 THEN kv ELSE SubSeq(kv, 1, pos2 - 1)), urlDecode(ValueAfter(pos2, kv)))
    /\ text' = IF pos = 0 THEN <<>> ELSE SubSeq(text, next, Len(text))
    /\ textPc' \in {"pairs"} \cup (IF textIn.kind = "form" /\ pos > 0 /\ next > Len(text) THEN {"past"} ELSE {})
    /\ UNCHANGED <<textIn, i_, key, url_>>
-----------------------------------------------------------------------------
(***************************************************************************)
(* The Digest machine: cases 0, 1 and 2 of its switch.  A name and its     *)
(* value are copied into one buffer whose end nobody looks at.             *)
(***************************************************************************)
Within(n, pcNext) == textPc' = IF n > DigestBuffer THEN "overrun" ELSE pcNext
More(s) == textPc = s /\ i_ <= Len(text)
Rest == SubSeq(text, i_, Len(text))

digestKey == LET eq == Find(Rest, "=") IN
    /\ More("key")
    /\ key' = key \o (IF eq = 0 THEN Rest ELSE SubSeq(Rest, 1, eq - 1))
    /\ i_' = IF eq = 0 THEN Len(text) + 1 ELSE i_ + eq
    /\ Within(Len(key'), IF eq = 0 THEN "key" ELSE "value")
    /\ UNCHANGED <<textIn, text, map, url_>>

(* An opening quote is skipped; a comma, quoted or not, or a quote ends the value. *)
ValueEnd(s) == LET S == {j \in DOMAIN s : s[j] \in {",", "\""}} IN IF S = {} THEN Len(s) + 1 ELSE Min(S)

digestValue ==
    LET from == IF text[i_] = "\"" THEN i_ + 1 ELSE i_
        s == SubSeq(text, from, Len(text))
        end == ValueEnd(s) IN
    /\ More("value")
    /\ AddPair(key, SubSeq(s, 1, end - 1))
    /\ i_' = from + end - 1 + (IF end <= Len(s) /\ s[end] = "\"" THEN 1 ELSE 0)
    /\ key' = <<>> /\ Within(Len(key) + end - 1, "separator")
    /\ UNCHANGED <<textIn, text, url_>>

digestSeparator == /\ More("separator") /\ IsPrefix(<<",", " ">>, Rest)
                   /\ i_' = i_ + 2 /\ textPc' = "key"
                   /\ UNCHANGED <<textIn, text, key, map, url_>>

(* The method of the request is added to the parameters of the client. *)
digestMethod == /\ textPc \in {"key", "value", "separator"} /\ i_ > Len(text)
                /\ AddPair(<<"method">>, <<"GET">>)
                /\ textPc' = "done"
                /\ UNCHANGED <<textIn, text, i_, key, url_>>

TextNext == \/ parseUrlQuery \/ parseKeyValue
            \/ digestKey \/ digestValue \/ digestSeparator \/ digestMethod

(* Case 2 does nothing, for ever, if it is not at a comma and a blank. *)
TextSpins == More("separator") /\ ~IsPrefix(<<",", " ">>, Rest)

TextEnded == textPc \in {"idle", "done", "past", "overrun"} \/ (textPc = "pairs" /\ text = <<>>)
-----------------------------------------------------------------------------
(***************************************************************************)
(* PairsExact: names and values with any characters come back from the     *)
(* query string, a form and cookies just as a client encoded them, the     *)
(* last value of a name counting, a separator at the end changing nothing, *)
(* and a name without '=' being its own value; unless a form ends in its   *)
(* separator and the byte that is left behind it is a blank, for then the  *)
(* text is left (HttpRequest.cc 200-216 and 315-334, EncodeUtil.cc         *)
(* 138-199).                                                               *)
(***************************************************************************)
Meant(ps) == [n \in {ps[j].name : j \in DOMAIN ps} |->
                LET p == ps[Max({j \in DOMAIN ps : ps[j].name = n})] IN
                IF p.form = "flag" THEN p.name ELSE p.value]

PairsExact == textIn.kind \in {"url", "form", "cookie"} /\ TextEnded =>
                \/ map = Meant(textIn.pairs) /\ url_ = textIn.path
                \/ textPc = "past" /\ textIn.kind = "form" /\ textIn.tail # <<>>

(***************************************************************************)
(* DigestExact: the parameters of a Digest authorization are read exactly, *)
(* no byte is written behind the buffer, and the machine does not go round *)
(* for ever in case 2 (HttpRequest.cc 247-298).  The text must be sound:   *)
(* a comma in a value, quoted or not, and a comma between two parameters   *)
(* without a blank behind it are where the machine never ends; a name and  *)
(* its value must fit into the buffer together; and an empty value without *)
(* quotes at the end is lost.  No value here holds a quote, which would    *)
(* end it, and a text is what follows the word Digest and its blank.       *)
(***************************************************************************)
Sound(in) == /\ \A p \in Range(in.pairs) : /\ "," \notin Range(p.value)
                                           /\ Len(p.name) + Len(p.value) <= DigestBuffer
             /\ Len(in.pairs) > 1 => in.sep = <<",", " ">>
             /\ in.pairs # <<>> => ~(Last(in.pairs).form = "=" /\ Last(in.pairs).value = <<>>)

DigestExact == textIn.kind = "digest" /\ Sound(textIn) =>
                 /\ ~TextSpins /\ textPc # "overrun"
                 /\ textPc = "done" => map = (<<"method">> :> <<"GET">>) @@ Meant(textIn.pairs)
=============================================================================
