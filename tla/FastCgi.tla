------------------------------ MODULE FastCgi -------------------------------
(***************************************************************************)
(* dispatchPhpProcessor() and PhpFastCgi: the conversation of a worker     *)
(* with php-fpm.  What the worker writes is a sequence of bytes, with the  *)
(* byte reduced to Base values so that its limits can be reached: a        *)
(* record's length is two bytes, a name or value is long (four bytes of    *)
(* length) from Base \div 2 on.  What php-fpm writes is a sequence of      *)
(* records whose contents are symbols, CR LF being one.  php-fpm itself is *)
(* external: it decodes the bytes as the FastCGI specification says.       *)
(***************************************************************************)
EXTENDS Integers, Sequences, SequencesExt, FiniteSetsExt

CONSTANTS Base,         \* values of a byte
          kBufferSize,
          PostSizes,    \* sizes of request bodies
          Outputs       \* what scripts print: header fields, blanks after a colon, body

ASSUME CgiAssumption == Base \in {b \in Nat : b >= 6 /\ b % 2 = 0} /\ kBufferSize \in Nat \ {0}

VARIABLES cgiReq,       \* method, query string, Content-Type, authorization, body
          toSend,       \* the parameters that are still to be sent
          unsent,       \* rn in sendPost()
          sent,         \* the bytes written to php-fpm
          cut,          \* a write() took less than a record, or failed; bound: once
          inbound,      \* the records of php-fpm that were not read yet
          replied,      \* php-fpm has answered, and closes the connection
          record,       \* the record that is read, with the contents left in the socket
          nbuf,
          buffer_,      \* what was appended to the Buffer
          output,       \* the output of the script, element of Outputs
          ok,           \* no STDERR record was read
          cgiResp,      \* header, code and body of the response
          cgiPc

cgiVars == <<cgiReq, toSend, unsent, sent, cut, inbound, replied, record, nbuf, buffer_, output, ok,
             cgiResp, cgiPc>>
outbox == <<toSend, unsent, sent, cut>>
inbox == <<inbound, replied, record, nbuf, buffer_, output, ok>>
-----------------------------------------------------------------------------
(* The bytes of records. *)
Long == Base \div 2
Types == [BEGIN |-> 1, PARAMS |-> 4, STDIN |-> 5]

makeHeader(type, n) == <<1, Types[type], 0, 1, (n \div Base) % Base, n % Base, 0, 0>>

LengthBytes(n) == IF n < Long THEN <<n>>
                  ELSE <<Long + ((n \div Base^3) % Long), (n \div Base^2) % Base, (n \div Base) % Base, n % Base>>

makeNameValueBody(name, value) == LengthBytes(Len(name)) \o LengthBytes(Len(value)) \o name \o value

ParamRecord(p) == LET b == makeNameValueBody(p[1], p[2]) IN makeHeader("PARAMS", Len(b)) \o b
Fits(p) == Len(makeNameValueBody(p[1], p[2])) <= kBufferSize
BeginRecord == makeHeader("BEGIN", 8) \o <<0, 1, 0, 0, 0, 0, 0, 0>>

(* params_, with short names, and the values of REQUEST_METHOD. *)
Name == [SCRIPT_FILENAME |-> <<1>>, REQUEST_METHOD |-> <<2>>, QUERY_STRING |-> <<3>>,
         CONTENT_TYPE |-> <<1, 1>>, CONTENT_LENGTH |-> <<1, 2>>,
         PHP_AUTH_USER |-> <<2, 1>>, PHP_AUTH_PW |-> <<2, 2>>, PHP_AUTH_DIGEST |-> <<2, 3>>]
MethodText == [HEAD |-> <<1>>, GET |-> <<2>>, POST |-> <<3>>]
SizeText(n) == <<(n \div Base) % Base, n % Base>>

(* The sendParams() calls of dispatchPhpProcessor(), in order. *)
ParamsOf(r) ==
    <<<<Name.SCRIPT_FILENAME, <<1, 2, 3>>>>>>
      \o (CASE r.auth = "Basic"  -> <<<<Name.PHP_AUTH_USER, <<1>>>>, <<Name.PHP_AUTH_PW, <<>>>>>>
            [] r.auth = "Digest" -> <<<<Name.PHP_AUTH_DIGEST, <<3, 2, 1>>>>>>
            [] OTHER             -> <<>>)
      \o (IF r.query # <<>> THEN <<<<Name.QUERY_STRING, r.query>>>> ELSE <<>>)
      \o <<<<Name.REQUEST_METHOD, MethodText[r.method]>>>>
      \o (IF r.method = "POST" /\ r.type # <<>>
          THEN <<<<Name.CONTENT_TYPE, r.type>>, <<Name.CONTENT_LENGTH, SizeText(Len(r.post))>>>>
          ELSE <<>>)
-----------------------------------------------------------------------------
(* The other side: records of a byte sequence, their parameters and their input. *)
Garbage == [type |-> 0, content |-> <<>>]
Decoded[bytes \in Seq(Nat)] ==
    IF Len(bytes) < 8 \/ bytes[1] # 1 \/ bytes[2] \notin {1, 4, 5}
      \/ Len(bytes) < 8 + bytes[5] * Base + bytes[6] THEN IF bytes = <<>> THEN <<>> ELSE <<Garbage>>
    ELSE LET n == bytes[5] * Base + bytes[6] IN
         <<[type |-> bytes[2], content |-> SubSeq(bytes, 9, 8 + n)]>>
           \o Decoded[SubSeq(bytes, 9 + n, Len(bytes))]

Pairs[b \in Seq(Nat)] ==
    IF b = <<>> THEN <<>>
    ELSE LET Width(i) == IF b[i] < Long THEN 1 ELSE 4
             Size(i) == IF b[i] < Long THEN b[i]
                        ELSE ((b[i] - Long) * Base^3) + (b[i + 1] * Base^2) + (b[i + 2] * Base) + b[i + 3]
             v == 1 + Width(1)
             start == v + Width(v) IN
         <<<<SubSeq(b, start, start + Size(1) - 1),
             SubSeq(b, start + Size(1), start + Size(1) + Size(v) - 1)>>>>
           \o Pairs[SubSeq(b, start + Size(1) + Size(v), Len(b))]

Contents(type) == LET rs == SelectSeq(Decoded[sent], LAMBDA r : r.type = Types[type]) IN
                  FlattenSeq([i \in DOMAIN rs |-> rs[i].content])
Intact == Garbage \notin Range(Decoded[sent])

(* A request is complete with an empty PARAMS record, and an empty STDIN record if there is input. *)
EndsWith(type) == IsSuffix(makeHeader(type, 0), sent)

Record(type, content, pad) ==
    [type |-> type, B1 |-> Len(content) \div Base, B0 |-> Len(content) % Base, content |-> content, pad |-> pad]

NoOutput == [fields |-> <<>>, blanks |-> <<>>, body |-> <<>>]
Text(out) == FlattenSeq([i \in DOMAIN out.fields |->
                           <<out.fields[i][1], ":">> \o out.blanks \o out.fields[i][2] \o <<"CRLF">>])
               \o <<"CRLF">> \o out.body

(* A script's output in two records with padding, and a message on STDERR between them. *)
Messages == {<<>>} \cup {<<Record("STDERR", [i \in 1..n |-> "e"], 1)>> : n \in {1, kBufferSize + 1}}
Streams(out) == {<<Record("STDOUT", SubSeq(out, 1, k), 2)>> \o err
                   \o <<Record("STDOUT", SubSeq(out, k + 1, Len(out)), 0), Record("END_REQUEST", <<>>, 0)>> :
                     k \in 0..Len(out), err \in Messages}
-----------------------------------------------------------------------------
PostData(n) == [i \in 1..n |-> i % Base]
NoRequest == [method |-> "GET", query |-> <<>>, type |-> <<>>, auth |-> "None", post |-> <<>>]
NoRecord == Record("END_REQUEST", <<>>, 0)
NoResponse == [header |-> <<>>, code |-> 200, body |-> <<>>]

CgiRest == /\ toSend = <<>> /\ unsent = 0 /\ sent = <<>> /\ cut = FALSE /\ inbound = <<>> /\ replied = FALSE
           /\ record = NoRecord /\ nbuf = 0 /\ buffer_ = <<>> /\ output = NoOutput /\ ok = TRUE
           /\ cgiResp = NoResponse
CgiIdle == cgiReq = NoRequest /\ CgiRest /\ cgiPc = "idle"

CgiInit == /\ cgiReq \in [method : {"GET", "HEAD"}, type : {<<>>},
                          query : {<<>>, <<1>>, [i \in 1..kBufferSize - 6 |-> 1], [i \in 1..kBufferSize - 5 |-> 1]},
                          auth : {"None", "Basic", "Digest"}, post : {<<>>}]
                     \cup [method : {"POST"}, query : {<<>>}, type : {<<>>, <<2>>}, auth : {"None"},
                           post : {PostData(n) : n \in PostSizes}]
           /\ CgiRest /\ cgiPc = "connect"

(***************************************************************************)
(* One write() of a record.  It may take a part of it only, or nothing     *)
(* (SIGPIPE is ignored, the result is -1): the code does not look at what  *)
(* it returns, and goes on with the next record.                           *)
(***************************************************************************)
Write(bytes) == \/ sent' = sent \o bytes /\ UNCHANGED cut
                \/ /\ ~cut /\ cut' = TRUE
                   /\ \E n \in 0..Len(bytes) - 1 : sent' = sent \o SubSeq(bytes, 1, n)

connectPhpFpm == /\ cgiPc = "connect"
                 /\ \/ /\ cgiPc' = "params" /\ toSend' = ParamsOf(cgiReq)
                       /\ Write(BeginRecord)
                       /\ UNCHANGED cgiResp
                    \/ /\ cgiPc' = "responded" /\ cgiResp' = [cgiResp EXCEPT !.code = 500]
                       /\ UNCHANGED <<toSend, sent, cut>>
                 /\ UNCHANGED <<cgiReq, unsent, inbox>>

(* The body is made in bodyBuff, whose size nobody compares: a longer one goes past its end. *)
sendParams == /\ cgiPc = "params" /\ toSend # <<>>
              /\ \/ /\ Fits(Head(toSend))
                    /\ Write(ParamRecord(Head(toSend)))
                    /\ toSend' = Tail(toSend)
                    /\ UNCHANGED cgiPc
                 \/ /\ ~Fits(Head(toSend))
                    /\ cgiPc' = "smashed"
                    /\ UNCHANGED <<toSend, sent, cut>>
              /\ UNCHANGED <<cgiReq, unsent, inbox, cgiResp>>

sendEndRequestRecord ==
    /\ cgiPc = "params" /\ toSend = <<>>
    /\ Write(makeHeader("PARAMS", 0))
    /\ cgiPc' = IF cgiReq.method = "POST" THEN "stdin" ELSE "read"
    /\ UNCHANGED <<cgiReq, toSend, unsent, inbox, cgiResp>>

(* Faulty variants of definitions below, as in Session. *)
FromTheStart(n) == SubSeq(cgiReq.post, 1, n)

FirstOnly(h, k, v) == IF \E i \in DOMAIN h : h[i][1] = k THEN h ELSE Append(h, <<k, v>>)

(***************************************************************************)
(* sendPost(): the header, the data in as many writes as they take, and    *)
(* the end record.  A write of data that fails ends the loop as well.      *)
(***************************************************************************)
sendPostHeader == /\ cgiPc = "stdin"
                  /\ Write(makeHeader("STDIN", Len(cgiReq.post)))
                  /\ unsent' = Len(cgiReq.post) /\ cgiPc' = "post"
                  /\ UNCHANGED <<cgiReq, toSend, inbox, cgiResp>>

NextBytes(n) == LET from == Len(cgiReq.post) - unsent IN SubSeq(cgiReq.post, from + 1, from + n)
sendPost == /\ cgiPc = "post"
            /\ \/ /\ \E n \in 1..unsent : sent' = sent \o NextBytes(n) /\ unsent' = unsent - n
                  /\ UNCHANGED <<cgiPc, cut>>
               \/ /\ unsent > 0 /\ ~cut /\ cut' = TRUE /\ cgiPc' = "end"
                  /\ UNCHANGED <<sent, unsent>>
               \/ /\ unsent = 0 /\ cgiPc' = "end"
                  /\ UNCHANGED <<sent, unsent, cut>>
            /\ UNCHANGED <<cgiReq, toSend, inbox, cgiResp>>

sendPostEnd == /\ cgiPc = "end"
               /\ Write(makeHeader("STDIN", 0)) /\ cgiPc' = "read"
               /\ UNCHANGED <<cgiReq, toSend, unsent, inbox, cgiResp>>

(***************************************************************************)
(* php-fpm answers a request that it can decode and whose end it has seen; *)
(* any other it may drop with its connection, or wait for the rest.  After *)
(* a cut one output stands for all.                                        *)
(***************************************************************************)
Complete == Intact /\ (EndsWith("PARAMS") \/ EndsWith("STDIN"))
FpmAnswers == /\ ~replied /\ cgiPc = "read"
              /\ replied' = TRUE
              /\ IF Complete THEN \E out \in IF cut THEN {NoOutput} ELSE Outputs :
                                     inbound' \in Streams(Text(out)) /\ output' = out
                 ELSE UNCHANGED <<inbound, output>>
              /\ UNCHANGED <<cgiReq, outbox, record, nbuf, buffer_, ok, cgiResp, cgiPc>>
-----------------------------------------------------------------------------
(***************************************************************************)
(* readPhpFpm().  Every read() is taken to return as much as it asked for; *)
(* a short one leaves the reader inside a record, and what it takes for a  *)
(* header from then on is arbitrary: "torn".  A message on STDERR that is  *)
(* larger than the array it is read into is "overrun".                     *)
(***************************************************************************)
Short == replied /\ cgiPc \in {"read", "stdout"} /\ cgiPc' = "torn"
         /\ (cgiPc = "read" => inbound # <<>>) /\ (cgiPc = "stdout" => Len(record.content) > 1)
         /\ UNCHANGED <<cgiReq, outbox, inbox, cgiResp>>

contentLen(r) == (r.B1 * Base) + r.B0

readHeader == LET r == Head(inbound) IN
    /\ cgiPc = "read" /\ replied /\ inbound # <<>>
    /\ inbound' = Tail(inbound) /\ record' = r
    /\ nbuf' = contentLen(r) \div kBufferSize
    /\ ok' = (ok /\ r.type # "STDERR")
    /\ cgiPc' = CASE r.type = "STDOUT" -> "stdout"
                  [] r.type = "STDERR" /\ contentLen(r) > kBufferSize -> "overrun"
                  [] OTHER -> "read"
    /\ UNCHANGED <<cgiReq, outbox, replied, buffer_, output, cgiResp>>

(* nbuf whole buffers, then what remains, then the padding. *)
readContent ==
    LET n == IF nbuf > 0 THEN kBufferSize ELSE contentLen(record) % kBufferSize IN
    /\ cgiPc = "stdout"
    /\ buffer_' = buffer_ \o SubSeq(record.content, 1, n)
    /\ record' = [record EXCEPT !.content = SubSeq(@, n + 1, Len(@))]
    /\ nbuf' = IF nbuf > 0 THEN nbuf - 1 ELSE 0
    /\ cgiPc' = IF nbuf > 0 THEN "stdout" ELSE "read"
    /\ UNCHANGED <<cgiReq, outbox, inbound, replied, output, ok, cgiResp>>
-----------------------------------------------------------------------------
(* HttpHeader: keys in lower case, one value for each but Set-Cookie. *)
toLowers(k) == CASE k = "Status" -> "status" [] k \in {"X", "x"} -> "x" [] OTHER -> "set-cookie"

add0(h, k, v) == LET same == {i \in DOMAIN h : h[i][1] = k} IN
                 IF k = "set-cookie" \/ same = {} THEN Append(h, <<k, v>>)
                 ELSE [h EXCEPT ![Min(same)] = <<k, v>>]

Position(s, c) == LET S == {i \in DOMAIN s : s[i] = c} IN IF S = {} THEN 0 ELSE Min(S)
SkipBlanks(s) == LET S == {i \in DOMAIN s : s[i] # " "} IN IF S = {} THEN <<>> ELSE SubSeq(s, Min(S), Len(s))

parseHeader(buffer) ==
    LET parsed[p \in [text : Seq(STRING), index : Nat, header : Seq(STRING \X Seq(STRING))]] ==
          LET end == Position(p.text, "CRLF")
              line == SubSeq(p.text, 1, end - 1)
              colon == Position(line, ":") IN
          IF end = 1 THEN [p EXCEPT !.index = @ + 1]
          ELSE IF end = 0 \/ colon = 0 THEN p
          ELSE parsed[[text |-> SubSeq(p.text, end + 1, Len(p.text)), index |-> p.index + end,
                       header |-> add0(p.header, toLowers(line[1]),
                                       SkipBlanks(SubSeq(line, colon + 1, Len(line))))]]
    IN parsed[[text |-> buffer, index |-> 0, header |-> <<>>]]

Lookup(h, k) == LET S == {i \in DOMAIN h : h[i][1] = k} IN IF S = {} THEN <<>> ELSE h[Min(S)][2]
CodeOf(v) == IF v = <<>> THEN 200 ELSE IF v[1] = "404" THEN 404 ELSE 201

respond ==
    LET p == parseHeader(buffer_)
        code == CodeOf(Lookup(p.header, "status")) IN
    /\ cgiPc = "read" /\ replied /\ inbound = <<>>
    /\ cgiResp' = [header |-> p.header, code |-> code,
                   body |-> IF ~ok /\ code # 200 THEN <<>>
                            ELSE SubSeq(buffer_, p.index + 1, Len(buffer_))]
    /\ cgiPc' = "responded"
    /\ UNCHANGED <<cgiReq, outbox, inbox>>

CgiNext == \/ connectPhpFpm \/ sendParams \/ sendEndRequestRecord
           \/ sendPostHeader \/ sendPost \/ sendPostEnd
           \/ FpmAnswers \/ Short \/ readHeader \/ readContent \/ respond

(* The memory is damaged, or the worker waits for an answer to a request that never ends. *)
CgiLost == cgiPc \in {"torn", "overrun", "smashed"} \/ (cut /\ cgiPc = "read" /\ ~replied)
CgiEnded == cgiPc \in {"idle", "responded"} \/ CgiLost
-----------------------------------------------------------------------------
(***************************************************************************)
(* PhpReceives: php-fpm decodes what dispatchPhpProcessor() has sent to    *)
(* just the parameters and the request body, whatever a write() of the     *)
(* body takes at a time, and no parameter goes past its array.  The body   *)
(* must fit the two bytes of a record's length, each parameter the array   *)
(* of sendParams(), and every write() of another record must take it       *)
(* whole: nothing in the code looks at any of the three                    *)
(* (PhpFastCgi.cc 53-177).                                                 *)
(***************************************************************************)
Sendable(r) == Len(r.post) < Base^2 /\ \A p \in Range(ParamsOf(r)) : Fits(p)

PhpReceives ==
    Sendable(cgiReq) /\ ~cut =>
      /\ cgiPc # "smashed"
      /\ cgiPc \in {"read", "stdout", "torn", "overrun", "responded"} /\ sent # <<>> =>
           /\ Intact
           /\ Pairs[Contents("PARAMS")] = ParamsOf(cgiReq)
           /\ Contents("STDIN") = IF cgiReq.method = "POST" THEN cgiReq.post ELSE <<>>

(***************************************************************************)
(* PhpAnswerExact: whatever records php-fpm divides its output into, and   *)
(* with messages on STDERR between them, the response has the header       *)
(* fields of the output, its status and the rest as the body; only after a *)
(* message on STDERR, and with a status other than 200, the body is left   *)
(* out.  This needs whole reads (PhpFastCgi.cc 179-228, HttpServer.cc      *)
(* 328-349, HttpHeader.cc 12-70).                                          *)
(***************************************************************************)
ValuesOf(out, k) == LET fs == SelectSeq(out.fields, LAMBDA f : toLowers(f[1]) = k) IN
                    [i \in DOMAIN fs |-> fs[i][2]]
FieldsOf(k) == LET fs == SelectSeq(cgiResp.header, LAMBDA f : f[1] = k) IN [i \in DOMAIN fs |-> fs[i][2]]
LastOnly(vs) == IF vs = <<>> THEN vs ELSE <<Last(vs)>>

PhpAnswerExact ==
    cgiPc = "responded" /\ replied /\ output # NoOutput =>
      /\ \A k \in {"status", "x"} : FieldsOf(k) = LastOnly(ValuesOf(output, k))
      /\ FieldsOf("set-cookie") = ValuesOf(output, "set-cookie")
      /\ cgiResp.code = IF ValuesOf(output, "status") = <<>> THEN 200 ELSE CodeOf(Last(ValuesOf(output, "status")))
      /\ cgiResp.body = IF ~ok /\ cgiResp.code # 200 THEN <<>> ELSE output.body
=============================================================================
