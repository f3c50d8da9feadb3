----------------------------- MODULE MultiPart ------------------------------
(***************************************************************************)
(* HttpMultiPart::parse(): the body of a multipart/form-data request, read *)
(* by a machine with one action per case of its switch.  A body is a       *)
(* sequence of symbols: the words that the parser compares or skips as a   *)
(* whole are one symbol each, and so is CR LF.  A state in which no action *)
(* is enabled before the end of the body is one in which the loop goes     *)
(* round without ever taking a character.                                  *)
(***************************************************************************)
EXTENDS Integers, Sequences, SequencesExt, FiniteSetsExt

CONSTANTS BufSize,      \* buf_size, in symbols
          PartData      \* the contents that parts may have

ASSUME PartAssumption == /\ BufSize \in Nat \ {0}
                         /\ \A d \in PartData : \A i \in DOMAIN d :
                              SubSeq(d \o <<"CRLF", "--", "B">>, i, i + 2) # <<"CRLF", "--", "B">>

VARIABLES parts,       \* the parts that the client sends
          body,        \* the symbols that arrive
          at,          \* i, counted from 1
          state,
          part,        \* name, filename, type and form_file_data
          buffer,      \* the k characters in buffer
          file_mark,
          form_, files_

partVars == <<parts, body, at, state, part, buffer, file_mark, form_, files_>>
stored == <<form_, files_>>
-----------------------------------------------------------------------------
(* The body that a client makes of its parts. *)
Delimiter == <<"--", "B">>
Encoded(p) ==
    Delimiter \o <<"CRLF", "Content-Disposition", ": form-data; ", "a", "=\"">> \o p.name \o <<"\"">>
      \o (IF p.file THEN <<"b", "=\"">> \o p.filename \o <<"\"">> ELSE <<>>)
      \o <<"CRLF">>
      \o (IF p.file THEN <<"Content-Type: ">> \o p.type \o <<"CRLF">> ELSE <<>>)
      \o <<"CRLF">> \o p.data \o <<"CRLF">>

Body(ps) == FlattenSeq([k \in DOMAIN ps |-> Encoded(ps[k])]) \o Delimiter \o <<"--", "CRLF">>

FormPart(name, data) == [name |-> name, filename |-> <<>>, type |-> <<>>, data |-> data, file |-> FALSE]
FilePart(name, data) == [name |-> name, filename |-> <<"b">>, type |-> <<"a">>, data |-> data, file |-> TRUE]
AnyPart(datas) == UNION {{FormPart(n, d), FilePart(n, d)} : n \in {<<"a">>, <<"b", "a">>}, d \in datas}

NewPart == [name |-> <<>>, filename |-> <<>>, type |-> <<>>, data |-> <<>>]

PartRest == /\ at = 1 /\ state = "start_body" /\ part = NewPart /\ buffer = <<>> /\ file_mark = FALSE
            /\ form_ = <<>> /\ files_ = <<>>
PartIdle == parts = <<>> /\ body = <<>> /\ PartRest

(* A whole body, or the beginning of one, perhaps cut in the middle of a word. *)
PartInit == /\ \/ /\ parts \in BoundedSeq(AnyPart(PartData), 2)
                  /\ body = Body(parts)
               \/ /\ parts \in BoundedSeq(AnyPart({<<"a">>}), 2)
                  /\ \E n \in 1..Len(Body(parts)) :
                       body \in {SubSeq(Body(parts), 1, n), SubSeq(Body(parts), 1, n) \o <<"?">>}
            /\ PartRest
-----------------------------------------------------------------------------
In(s) == state = s /\ at <= Len(body)
Symbol(i) == IF i \in DOMAIN body THEN body[i] ELSE "end"
FirstCRLF(i) == LET S == {j \in i..Len(body) : body[j] = "CRLF"} IN
                IF S = {} THEN Len(body) + 1 ELSE Min(S)
GoOn(s, i) == state' = s /\ at' = i

start_body == /\ In("start_body") /\ Symbol(at) = "--"
              /\ GoOn("start_boundary", at + 1)
              /\ UNCHANGED <<parts, body, part, buffer, file_mark, stored>>

start_boundary == /\ In("start_boundary") /\ Symbol(at) = "B"
                  /\ CASE Symbol(at + 1) = "CRLF" -> GoOn("end_boundary", at + 2)
                       [] Symbol(at + 1) = "--"   -> GoOn("end_body", at + 2)
                       [] OTHER                   -> GoOn("start_boundary", at + 1)
                  /\ UNCHANGED <<parts, body, part, buffer, file_mark, stored>>

end_boundary == /\ In("end_boundary") /\ Symbol(at) = "Content-Disposition"
                /\ GoOn("start_content_disposition", at + 1)
                /\ UNCHANGED <<parts, body, part, buffer, file_mark, stored>>

(* The loop over name="..." and filename="...": what one symbol does. *)
Quoting(q, c) == CASE c = "=\"" -> [q EXCEPT !.quoted = TRUE]
                   [] c = "\""  -> [q EXCEPT !.quoted = FALSE, !.is_name = ~@]
                   [] q.quoted /\ q.is_name /\ c \notin {"=\"", "\""} -> [q EXCEPT !.name = Append(@, c)]
                   [] q.quoted /\ ~q.is_name /\ c \notin {"=\"", "\""} -> [q EXCEPT !.filename = Append(@, c)]
                   [] OTHER -> q

start_content_disposition ==
    LET end == FirstCRLF(at + 1)
        q == FoldLeft(Quoting, [quoted |-> FALSE, is_name |-> TRUE,
                                name |-> part.name, filename |-> part.filename],
                      SubSeq(body, at + 1, end - 1)) IN
    /\ In("start_content_disposition")
    /\ part' = [part EXCEPT !.name = q.name, !.filename = q.filename]
    /\ GoOn(IF end \in DOMAIN body THEN "end_content_disposition" ELSE state, end + 1)
    /\ UNCHANGED <<parts, body, buffer, file_mark, stored>>

end_content_disposition ==
    /\ In("end_content_disposition") /\ Symbol(at) \in {"CRLF", "Content-Type: "}
    /\ file_mark' = (Symbol(at) # "CRLF")
    /\ GoOn(IF Symbol(at) = "CRLF" THEN "start_content_data" ELSE "start_content_type", at + 1)
    /\ UNCHANGED <<parts, body, part, buffer, stored>>

start_content_type ==
    LET end == FirstCRLF(at) IN
    /\ In("start_content_type")
    /\ part' = [part EXCEPT !.type = @ \o SubSeq(body, at, end - 1)]
    /\ GoOn(IF end \in DOMAIN body THEN "end_content_type" ELSE state, end + 1)
    /\ UNCHANGED <<parts, body, buffer, file_mark, stored>>

end_content_type == /\ In("end_content_type") /\ Symbol(at) = "CRLF"
                    /\ GoOn("start_content_data", at + 1)
                    /\ UNCHANGED <<parts, body, part, buffer, file_mark, stored>>

(* One character of the contents, through a buffer that is flushed when it is full. *)
AtDelimiter == <<Symbol(at), Symbol(at + 1), Symbol(at + 2)>> = <<"CRLF", "--", "B">>

(* Faulty variants of definitions below, as in Session. *)
KeepNames == [part EXCEPT !.data = <<>>]

StopBeforeLineEnd(s) == GoOn(s, at)

PastLineEnd(s) == GoOn(s, at + 1)
Flushed(b) == IF Len(b) >= BufSize THEN <<>> ELSE b

start_content_data ==
    /\ In("start_content_data")
    /\ IF AtDelimiter
       THEN /\ part' = [part EXCEPT !.data = @ \o buffer]
            /\ buffer' = <<>>
            /\ PastLineEnd("end_content_data")
       ELSE LET b == Append(buffer, Symbol(at)) IN
            /\ buffer' = Flushed(b)
            /\ part' = [part EXCEPT !.data = IF Len(b) >= BufSize THEN @ \o b ELSE @]
            /\ GoOn(state, at + 1)
    /\ UNCHANGED <<parts, body, file_mark, stored>>

(* HttpMap::get() returns a copy, so that a second file of a name goes nowhere. *)
NextPart == NewPart
Stored(map, value) == (part.name :> value) @@ map

end_content_data ==
    /\ In("end_content_data")
    /\ IF ~file_mark THEN form_' = Stored(form_, part.data) /\ UNCHANGED files_
       ELSE /\ files_' = IF part.name \in DOMAIN files_ THEN files_ ELSE Stored(files_, <<part>>)
            /\ UNCHANGED form_
    /\ part' = NextPart
    /\ file_mark' = FALSE
    /\ GoOn("start_body", at)
    /\ UNCHANGED <<parts, body, buffer>>

end_body == /\ In("end_body") /\ GoOn(state, at + 1)
            /\ UNCHANGED <<parts, body, part, buffer, file_mark, stored>>

PartNext == \/ start_body \/ start_boundary \/ end_boundary
            \/ start_content_disposition \/ end_content_disposition
            \/ start_content_type \/ end_content_type
            \/ start_content_data \/ end_content_data \/ end_body

PartEnded == at > Len(body)
-----------------------------------------------------------------------------
(***************************************************************************)
(* PartsExact: a form field or a file is stored once its contents are      *)
(* followed by the delimiter, with just the name, type and contents that   *)
(* the client sent, also when the rest of the body is missing.  A later    *)
(* value of a field replaces an earlier one; of several files of one name  *)
(* the first is kept (HttpMultiPart.cc 134-176).                           *)
(***************************************************************************)
UpTo(k) == FlattenSeq([j \in 1..k |-> Encoded(parts[j])]) \o Delimiter
Received(file) == {k \in DOMAIN parts : IsPrefix(UpTo(k), body) /\ parts[k].file = file}
NamesOf(S) == {parts[k].name : k \in S}
Named(S, n) == {k \in S : parts[k].name = n}

PartsExact ==
    PartEnded =>
      /\ form_ = [n \in NamesOf(Received(FALSE)) |-> parts[Max(Named(Received(FALSE), n))].data]
      /\ files_ = [n \in NamesOf(Received(TRUE)) |->
                     LET p == parts[Min(Named(Received(TRUE), n))] IN
                     <<[name |-> p.name, filename |-> p.filename, type |-> p.type, data |-> p.data]>>]

(***************************************************************************)
(* NoSpinInBody: as long as the symbols are those that a client sends, the *)
(* machine goes on: it only goes round without taking a character on a     *)
(* word that was cut.  The "bad body" branches of HttpMultiPart.cc 39-131  *)
(* neither take a character nor leave the loop.                            *)
(***************************************************************************)
NoSpinInBody == ~PartEnded /\ Last(body) # "?" => ENABLED PartNext
=============================================================================
