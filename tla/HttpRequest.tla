---------------------------- MODULE HttpRequest -----------------------------
(***************************************************************************)
(* Parsing a request out of the TCP stream: the state machine of           *)
(* HttpRequest::parseRequest(), called by HttpServer::onMessage() whenever *)
(* a worker has read more bytes, for every way the stream may be cut into  *)
(* segments.  A byte is its position in the request:                       *)
(*                                                                         *)
(*    method SP url SP version CRLF  header-line ...  CRLF  body           *)
(*                                                                         *)
(* so that a piece of text is an interval of positions, and what the       *)
(* parser finds in it depends on where the interval begins and ends.       *)
(***************************************************************************)
EXTENDS Naturals, FiniteSets

CONSTANTS MethodLen,     \* bytes of the method: 3 (GET) or 4 (POST, HEAD)
          UrlLen,        \* bytes of the url
          HeaderLen,     \* bytes of a header line, with its CRLF
          MaxHeaders,    \* bound: header lines of a request
          MaxBody,       \* bound: bytes of a body
          MaxRequests,   \* bound: requests on one connection
          Splits         \* the parts of a request that a segment may end in

ASSUME LengthsAssumption == /\ MethodLen \in {3, 4} /\ UrlLen \in Nat \ {0}
                            /\ HeaderLen \in Nat /\ HeaderLen > 4
                            /\ MaxHeaders \in Nat /\ MaxBody \in Nat /\ MaxRequests \in Nat \ {0}
                            /\ Splits \subseteq {"line", "header", "body", "multipart"}

VARIABLES wire,          \* the request the peer is sending
          sent,          \* how many bytes of it have arrived at the socket
          recver_,       \* the readable bytes of the receive buffer, from .. to - 1
          context_,      \* whether the connection has an HttpRequest
          ret_code_,     \* of that HttpRequest
          req_url_,      \* whether its url is the one that the peer has sent
          header_,       \* where the header lines began that it has
          has_multipart_, keepalive_,
          post_data_,    \* the number of bytes in post_data_
          content,       \* how many bytes of the body were given to the form or multipart parser
          code,          \* what parseRequest() returned
          pc,            \* "read", "parse", "respond", "closed", or "lost" with its worker
          count          \* requests begun on this connection

request == <<req_url_, header_, has_multipart_, keepalive_, post_data_, content>>
vars == <<wire, sent, recver_, context_, ret_code_, request, code, pc, count>>

Codes == {"NO_REQUEST", "REQUEST_LINE_DONE", "REQUEST_HEADER_DONE", "REQUEST_CONTENT_DONE",
          "BAD_REQUEST", "AGAIN_HEADER", "AGAIN_CONTENT"}

(***************************************************************************)
(* The layout of a request r.  The multipart Content-Type, if there is     *)
(* one, is the first header line, and names the boundary that the body     *)
(* ends with.  A flawed request has a version that the server does not     *)
(* know; a last header line without a colon ("colon") or with nothing      *)
(* behind it ("bare"); or an Authorization in its last line ("value"), or  *)
(* a body ("body"), that its parser need not come back from: UrlText and   *)
(* MultiPart say which ones.                                               *)
(***************************************************************************)
Requests == {r \in [headers : 0..MaxHeaders, body : 0..MaxBody, multipart : BOOLEAN,
                    http10 : BOOLEAN,
                    flaw : {"none", "version", "colon", "bare", "value", "body"}] :
               /\ r.body > 0 \/ r.flaw \in {"colon", "bare", "value"} => r.headers > 0
               /\ r.flaw = "body" => r.body > 0
               /\ r.multipart => r.headers > 0 /\ r.body > 0
               /\ r.multipart /\ r.flaw = "value" => r.headers > 1}

UrlEnd == MethodLen + 1 + UrlLen + 1
LineEnd == UrlEnd + 10
HeaderLineEnd(k) == LineEnd + k * HeaderLen
Lines(n) == {HeaderLineEnd(k - 1) : k \in 1..n}    \* where the first n header lines begin
HeaderEnd(r) == HeaderLineEnd(r.headers) + 2
Size(r) == HeaderEnd(r) + r.body

(* Where a segment may end. *)
Cuts(r) == {Size(r)}
    \cup (IF "line" \in Splits THEN 1..(LineEnd - 1) ELSE {})
    \cup (IF "header" \in Splits THEN LineEnd..(HeaderEnd(r) - 1) ELSE {})
    \cup (IF (IF r.multipart THEN "multipart" ELSE "body") \in Splits
          THEN HeaderEnd(r)..(Size(r) - 1) ELSE {})

(* Where the lines of the request end. *)
LineEnds == {LineEnd, HeaderEnd(wire)} \cup {HeaderLineEnd(k) : k \in 1..wire.headers}

Empty(p) == [from |-> p, to |-> p]
Readable == recver_.to - recver_.from

Init == /\ wire \in Requests
        /\ sent = 0
        /\ recver_ = Empty(0)
        /\ context_ = FALSE
        /\ ret_code_ = "NO_REQUEST" /\ code = "NO_REQUEST"
        /\ req_url_ = TRUE /\ header_ = {} /\ has_multipart_ = FALSE /\ keepalive_ = FALSE
        /\ post_data_ = 0 /\ content = 0
        /\ pc = "read"
        /\ count = 1

(* The peer's bytes arrive. *)
Arrive(n) == /\ n \in Cuts(wire) /\ n > sent
             /\ pc \notin {"closed", "lost"}
             /\ sent' = n
             /\ UNCHANGED <<wire, recver_, context_, ret_code_, request, code, pc, count>>

(* A peer that has its response sends the next request on the connection. *)
NextRequest(r) == /\ pc = "read"
                  /\ sent = Size(wire) /\ recver_ = Empty(sent)
                  /\ count < MaxRequests
                  /\ wire' = r /\ sent' = 0 /\ recver_' = Empty(0)
                  /\ count' = count + 1
                  /\ UNCHANGED <<context_, ret_code_, request, code, pc>>

(* The idle timer or the peer closes the connection; nobody frees the HttpRequest. *)
Close == /\ pc = "read"
         /\ pc' = "closed"
         /\ UNCHANGED <<wire, sent, recver_, context_, ret_code_, request, code, count>>
-----------------------------------------------------------------------------
(***************************************************************************)
(* Faulty variants of definitions below.  Next does not use them: each is  *)
(* a plausible mistake in the code that a property must reject.            *)
(***************************************************************************)
KeepContext == UNCHANGED context_

FoundIfMoreFollows(p, e) == /\ e \in LineEnds /\ e < recver_.to /\ p <= e - 2
                            /\ \A d \in LineEnds : p <= d - 2 => e <= d

RetireOne(n) == recver_' = [recver_ EXCEPT !.from = @ + n + 1]
-----------------------------------------------------------------------------
(***************************************************************************)
(* onRead() reads all that is there; onMessage() makes an HttpRequest if   *)
(* the connection has none.                                                *)
(***************************************************************************)
NewRequest == /\ context_' = TRUE
              /\ ret_code_' = "NO_REQUEST"
              /\ req_url_' = TRUE /\ header_' = {} /\ has_multipart_' = FALSE /\ keepalive_' = FALSE
              /\ post_data_' = 0 /\ content' = 0

onMessage == /\ pc = "read"
             /\ sent > recver_.to
             /\ recver_' = [recver_ EXCEPT !.to = sent]
             /\ IF context_ THEN UNCHANGED <<context_, ret_code_, request>> ELSE NewRequest
             /\ pc' = "parse"
             /\ UNCHANGED <<wire, sent, code, count>>

(* Buffer::retired(n): all if there are not more. *)
retired(n) == recver_' = [recver_ EXCEPT !.from = IF n < Readable THEN @ + n ELSE recver_.to]

(* parseRequest() returns c; onMessage() goes on with it. *)
Return(c) == /\ code' = c
             /\ pc' = IF c \in {"AGAIN_HEADER", "AGAIN_CONTENT"} THEN "read" ELSE "respond"
Loop == UNCHANGED <<code, pc>>

(* The call does not return: nobody catches an exception, or a loop has no end. *)
WorkerLost == pc' = "lost" /\ UNCHANGED code

(***************************************************************************)
(* parseRequestLine(): the line must be there as a whole, but its CRLF is  *)
(* not looked at.  If the method is all there is, remove_prefix() goes     *)
(* past the end and the search runs over whatever is in memory there: it   *)
(* finds nothing useful or a line that an earlier request left behind.     *)
(***************************************************************************)
LineResults ==
    CASE recver_.from = 0 /\ Readable = MethodLen -> {"BAD_REQUEST", "REQUEST_LINE_DONE"}
      [] recver_.from = 0 /\ Readable >= UrlEnd + 8 /\ wire.flaw # "version"
                                                  -> {"REQUEST_LINE_DONE"}
      [] OTHER                                    -> {"BAD_REQUEST"}

parseRequestLine ==
    /\ pc = "parse" /\ ret_code_ = "NO_REQUEST"
    /\ \E c \in LineResults :
         /\ ret_code_' = c
         /\ IF c = "BAD_REQUEST" THEN UNCHANGED recver_ ELSE retired(LineEnd)
         /\ req_url_' = (c = "REQUEST_LINE_DONE" /\ Readable > MethodLen)
         /\ IF c = "BAD_REQUEST" THEN Return(c) ELSE Loop
    /\ UNCHANGED <<wire, sent, context_, header_, has_multipart_, keepalive_, post_data_,
                   content, count>>

(***************************************************************************)
(* parseRequestHeader(), one iteration.  LineFound(p, e): the next CRLF at *)
(* or after p ends at e.  The text before it is empty, a header line, or   *)
(* has no colon.  If the colon is its last character, the substr() of the  *)
(* value begins past its end and throws.                                   *)
(***************************************************************************)
LineFound(p, e) == /\ e \in LineEnds /\ e <= recver_.to /\ p <= e - 2
                   /\ \A d \in LineEnds : p <= d - 2 => e <= d
Blank(p, e) == e - 2 = p
HasColon(p, e) == \E k \in 1..wire.headers : /\ e = HeaderLineEnd(k) /\ p <= HeaderLineEnd(k - 1)
                                            /\ ~(wire.flaw = "colon" /\ k = wire.headers)
Bare(e) == wire.flaw = "bare" /\ e = HeaderLineEnd(wire.headers)

parseRequestHeader ==
    /\ pc = "parse" /\ ret_code_ \in {"REQUEST_LINE_DONE", "AGAIN_HEADER"}
    /\ LET p == recver_.from
           Found(e) == LineFound(p, e)
       IN \/ /\ \A e \in LineEnds : ~Found(e)
             /\ ret_code_' = "AGAIN_HEADER" /\ Return("AGAIN_HEADER")
             /\ UNCHANGED <<recver_, header_>>
          \/ \E e \in LineEnds :
             /\ Found(e) /\ Blank(p, e)
             /\ retired(2)
             /\ ret_code_' = "REQUEST_HEADER_DONE" /\ Loop
             /\ UNCHANGED header_
          \/ \E e \in LineEnds :
             /\ Found(e) /\ ~Blank(p, e) /\ HasColon(p, e) /\ Bare(e)
             /\ WorkerLost
             /\ UNCHANGED <<ret_code_, recver_, header_>>
          \/ \E e \in LineEnds :
             /\ Found(e) /\ ~Blank(p, e) /\ HasColon(p, e) /\ ~Bare(e)
             /\ retired(e - p)
             /\ header_' = header_ \cup {p}
             /\ UNCHANGED ret_code_ /\ Loop
          \/ \E e \in LineEnds :
             /\ Found(e) /\ ~Blank(p, e) /\ ~HasColon(p, e)
             /\ ret_code_' = "BAD_REQUEST" /\ Return("BAD_REQUEST")
             /\ UNCHANGED <<recver_, header_>>
    /\ UNCHANGED <<wire, sent, context_, req_url_, has_multipart_, keepalive_, post_data_,
                   content, count>>

(***************************************************************************)
(* parseRequestContent(): a multipart body must end with its last          *)
(* boundary; any other body is what has been received by now.  The parser  *)
(* of the parts, or of a form, may not return if they are flawed.          *)
(***************************************************************************)
ContentLost == wire.flaw = "body" /\ WorkerLost /\ UNCHANGED <<ret_code_, recver_, content>>

parseRequestContent(multipart) ==
    /\ post_data_' = post_data_ + Readable
    /\ IF multipart /\ ~(recver_.to = Size(wire) /\ Readable > 0)
       THEN /\ ret_code_' = "AGAIN_CONTENT" /\ Return("AGAIN_CONTENT")
            /\ UNCHANGED <<recver_, content>>
       ELSE \/ /\ content' = Readable
               /\ recver_' = Empty(recver_.to)
               /\ ret_code_' = "REQUEST_CONTENT_DONE" /\ Return("REQUEST_CONTENT_DONE")
            \/ ContentLost

(***************************************************************************)
(* The case REQUEST_HEADER_DONE of parseRequest().  A Connection header    *)
(* may say anything; a Content-Type is known if its line was kept whole.   *)
(* parseAuthorization() may not return.                                    *)
(***************************************************************************)
ValueLost == /\ wire.flaw = "value" /\ HeaderLineEnd(wire.headers - 1) \in header_
             /\ WorkerLost
             /\ UNCHANGED <<ret_code_, recver_, post_data_, content>>

HeaderDone ==
    /\ pc = "parse" /\ ret_code_ = "REQUEST_HEADER_DONE"
    /\ keepalive_' \in IF header_ = {} THEN {~wire.http10} ELSE BOOLEAN
    /\ has_multipart_' = (wire.multipart /\ LineEnd \in header_)
    /\ IF header_ = {} /\ ~wire.http10
       THEN /\ Return("REQUEST_CONTENT_DONE")
            /\ UNCHANGED <<ret_code_, recver_, post_data_, content>>
       ELSE parseRequestContent(has_multipart_') \/ ValueLost
    /\ UNCHANGED <<wire, sent, context_, req_url_, header_, count>>

ContentAgain ==
    /\ pc = "parse" /\ ret_code_ = "AGAIN_CONTENT"
    /\ parseRequestContent(has_multipart_)
    /\ UNCHANGED <<wire, sent, context_, req_url_, header_, has_multipart_, keepalive_, count>>

(* parseRequest() is called again for a header that is to be continued. *)
parseRequest == parseRequestLine \/ parseRequestHeader \/ HeaderDone \/ ContentAgain

(* delete req; setContext(nullptr). *)
DeleteRequest == context_' = FALSE

(***************************************************************************)
(* The request is reset, the response is built and written, the channel is *)
(* reset, and the connection waits for a request or is closed.             *)
(***************************************************************************)
Respond == /\ pc = "respond"
           /\ ret_code_' = IF code = "BAD_REQUEST" THEN ret_code_ ELSE "NO_REQUEST"
           /\ DeleteRequest
           /\ recver_' = Empty(recver_.to)
           /\ pc' = IF keepalive_ /\ code # "BAD_REQUEST" THEN "read" ELSE "closed"
           /\ UNCHANGED <<wire, sent, request, code, count>>

Next == \/ \E n \in Cuts(wire) : Arrive(n)
        \/ \E r \in Requests : NextRequest(r)
        \/ Close
        \/ onMessage \/ parseRequest \/ Respond

Spec == Init /\ [][Next]_vars

(* The worker goes on, and reported data are read. *)
FairSpec == Spec /\ WF_vars(onMessage) /\ WF_vars(parseRequest) /\ WF_vars(Respond)
-----------------------------------------------------------------------------
TypeOK == /\ wire \in Requests
          /\ sent \in 0..Size(wire)
          /\ recver_ \in [from : 0..Size(wire), to : 0..sent]
          /\ recver_.from <= recver_.to
          /\ context_ \in BOOLEAN /\ req_url_ \in BOOLEAN
          /\ has_multipart_ \in BOOLEAN /\ keepalive_ \in BOOLEAN
          /\ ret_code_ \in Codes /\ code \in Codes
          /\ header_ \subseteq Nat
          /\ post_data_ \in Nat /\ content \in Nat
          /\ pc \in {"read", "parse", "respond", "closed", "lost"}
          /\ count \in 1..MaxRequests

(***************************************************************************)
(* SegmentsDoNotMatter: a request is answered as if it had arrived in one  *)
(* piece.  A well-formed one is served with all its header lines as they   *)
(* were sent, and with its whole body; one without a known version or with *)
(* a line without a colon is rejected.  If the worker comes back from a    *)
(* flawed value or body, the request is as complete as a well-formed one,  *)
(* whatever its parser made of them.  The README says that a state machine *)
(* turns the TCP stream into requests.                                     *)
(***************************************************************************)
SegmentsDoNotMatter ==
    pc = "respond" =>
       IF wire.flaw \in {"version", "colon"} THEN code = "BAD_REQUEST"
       ELSE /\ code = "REQUEST_CONTENT_DONE"
            /\ req_url_
            /\ header_ = Lines(wire.headers)
            /\ has_multipart_ = wire.multipart
            /\ content = wire.body

(***************************************************************************)
(* ResumesWhereItStopped: an HttpRequest that waits for more data has used *)
(* every byte of the lines it knows, once, and nothing beyond: the buffer  *)
(* begins at the first line that is not complete, or at the body           *)
(* (HttpRequest.cc 152-198).                                               *)
(***************************************************************************)
ResumesWhereItStopped ==
    pc = "read" /\ context_ =>
       \/ /\ ret_code_ = "AGAIN_HEADER"
          /\ \E k \in 0..wire.headers : header_ = Lines(k) /\ recver_.from = HeaderLineEnd(k)
          /\ \A e \in LineEnds : ~LineFound(recver_.from, e)
       \/ /\ ret_code_ = "AGAIN_CONTENT"
          /\ header_ = Lines(wire.headers) /\ recver_.from = HeaderEnd(wire)
          /\ recver_.to < Size(wire)

(***************************************************************************)
(* EveryRequestAnswered: a request that has arrived completely, a          *)
(* multipart one with the boundary that its header names, is answered, or  *)
(* the connection is closed; the parser does not wait for more.  The       *)
(* worker, and with an exception the whole server, is lost instead in      *)
(* three cases: a header line that ends in its colon, whose value is taken *)
(* with an unguarded substr() (HttpRequest.cc 172); an Authorization that  *)
(* parseAuthorization() goes round in or past the end of (233-313); and a  *)
(* form or multipart body that its parser does so with (180-198).          *)
(***************************************************************************)
EveryRequestAnswered ==
    (sent = Size(wire) /\ recver_.to < sent)
       ~> (pc \in {"respond", "closed"} \/ (pc = "lost" /\ wire.flaw \in {"bare", "value", "body"}))
=============================================================================
