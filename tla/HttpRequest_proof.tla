------------------------- MODULE HttpRequest_proof --------------------------
(***************************************************************************)
(* Proofs about HttpRequest: for a request of any length, with any number  *)
(* of header lines, and any number of requests on the connection, a        *)
(* request that arrives in pieces cut anywhere between the end of its      *)
(* request line and its body, or inside a multipart body, is answered as   *)
(* if it had arrived in one piece.                                         *)
(***************************************************************************)
EXTENDS HttpRequest, TLAPS

(* The parser is at header line k + 1, and has kept the k lines before it. *)
AtLine(k) == /\ header_ = Lines(k) /\ recver_.from = HeaderLineEnd(k)
             /\ wire.flaw = "colon" => k < wire.headers
InHeader == /\ \E k \in 0..wire.headers : AtLine(k)
            /\ wire.flaw # "version" /\ req_url_ /\ content = 0

(* The parser is at the body of a request that it does not reject. *)
InBody == /\ header_ = Lines(wire.headers) /\ recver_.from = HeaderEnd(wire)
          /\ wire.flaw \notin {"version", "colon"} /\ req_url_ /\ content = 0
InMultipart == InBody /\ wire.multipart /\ has_multipart_

NoLine == \A e \in LineEnds : ~LineFound(recver_.from, e)

(* A segment has ended where the bytes end that have arrived, and those that were read. *)
StreamInv == sent \in Cuts(wire) \cup {0} /\ recver_.to \in Cuts(wire) \cup {0}

(* Between two calls of parseRequest(). *)
ReadInv == pc = "read" =>
    IF context_
    THEN /\ recver_.to # 0
         /\ \/ ret_code_ = "AGAIN_HEADER" /\ InHeader /\ NoLine
            \/ ret_code_ = "AGAIN_CONTENT" /\ InMultipart /\ recver_.to < Size(wire)
    ELSE recver_.from = recver_.to /\ recver_.to \in {0, Size(wire)}

(* Inside parseRequest(). *)
ParseInv == pc = "parse" =>
    /\ context_ /\ recver_.to # 0
    /\ \/ ret_code_ = "NO_REQUEST" /\ recver_.from = 0 /\ header_ = {} /\ content = 0
       \/ ret_code_ \in {"REQUEST_LINE_DONE", "AGAIN_HEADER"} /\ InHeader
       \/ ret_code_ = "REQUEST_HEADER_DONE" /\ InBody
       \/ ret_code_ = "AGAIN_CONTENT" /\ InMultipart

RespondInv == /\ SegmentsDoNotMatter
              /\ pc = "respond" /\ code # "BAD_REQUEST" => recver_.to = Size(wire)

IInv == TypeOK /\ StreamInv /\ ReadInv /\ ParseInv /\ RespondInv

(* No segment ends in the request line or in a body that is not multipart. *)
CutsAllowed == Splits \subseteq {"header", "multipart"}

-----------------------------------------------------------------------------
(***************************************************************************)
(* The layout of a request.                                                *)
(***************************************************************************)
LEMMA LineLength ==
    /\ MethodLen \in Nat /\ UrlLen \in Nat /\ UrlEnd \in Nat /\ LineEnd \in Nat
    /\ LineEnd = UrlEnd + 10 /\ UrlEnd > MethodLen + 1 /\ MethodLen > 2
    /\ HeaderLen \in Nat /\ HeaderLen > 4
BY LengthsAssumption DEF UrlEnd, LineEnd

LEMMA Steps ==
    ASSUME NEW H \in Nat, NEW j \in Nat, NEW k \in Nat, j < k
    PROVE  j * H \in Nat /\ k * H \in Nat /\ j * H + H <= k * H /\ (j + 1) * H = j * H + H
<1>1. (j + 1) * H = j * H + H /\ j * H \in Nat /\ k * H \in Nat
  BY SMT
<1>2. PICK d \in Nat : k = j + 1 + d
  <2>1. k - (j + 1) \in Nat /\ k = j + 1 + (k - (j + 1))
    OBVIOUS
  <2>2. QED
    BY <2>1
<1>3. k * H = j * H + H + d * H /\ d * H \in Nat
  BY <1>2, SMT
<1>4. QED
  BY <1>1, <1>3

LEMMA HeaderLines ==
    /\ HeaderLineEnd(0) = LineEnd
    /\ \A k \in Nat : HeaderLineEnd(k) \in Nat /\ HeaderLineEnd(k) >= LineEnd
    /\ \A k \in Nat : HeaderLineEnd(k + 1) = HeaderLineEnd(k) + HeaderLen
    /\ \A j, k \in Nat : j < k => HeaderLineEnd(j) + HeaderLen <= HeaderLineEnd(k)
<1>1. \A k \in Nat : k * HeaderLen \in Nat
  BY LineLength, SMT
<1>2. HeaderLineEnd(0) = LineEnd
  BY LineLength DEF HeaderLineEnd
<1>3. \A k \in Nat : HeaderLineEnd(k) \in Nat /\ HeaderLineEnd(k) >= LineEnd
  <2>1. ASSUME NEW k \in Nat PROVE HeaderLineEnd(k) \in Nat /\ HeaderLineEnd(k) >= LineEnd
    <3>1. PICK m \in Nat : m = k * HeaderLen
      BY <1>1
    <3>2. HeaderLineEnd(k) = LineEnd + m
      BY <3>1 DEF HeaderLineEnd
    <3>3. QED
      BY <3>2, LineLength
  <2>2. QED
    BY <2>1
<1>4. ASSUME NEW j \in Nat, NEW k \in Nat, j < k
      PROVE  HeaderLineEnd(j) + HeaderLen <= HeaderLineEnd(k)
  <2>1. PICK m \in Nat, n \in Nat : m = j * HeaderLen /\ n = k * HeaderLen
    BY <1>1
  <2>2. m + HeaderLen <= n
    BY <1>4, <2>1, LineLength, Steps
  <2>3. HeaderLineEnd(j) = LineEnd + m /\ HeaderLineEnd(k) = LineEnd + n
    BY <2>1 DEF HeaderLineEnd
  <2>4. QED
    BY <2>2, <2>3, LineLength
<1>5. ASSUME NEW k \in Nat PROVE HeaderLineEnd(k + 1) = HeaderLineEnd(k) + HeaderLen
  <2>1. PICK m \in Nat, n \in Nat : m = k * HeaderLen /\ n = (k + 1) * HeaderLen
    BY <1>1
  <2>2. n = m + HeaderLen
    BY <2>1, LineLength, Steps
  <2>3. HeaderLineEnd(k) = LineEnd + m /\ HeaderLineEnd(k + 1) = LineEnd + n
    BY <2>1 DEF HeaderLineEnd
  <2>4. QED
    BY <2>2, <2>3, LineLength
<1>6. QED
  BY <1>2, <1>3, <1>4, <1>5

LEMMA Layout ==
    ASSUME NEW r \in Requests
    PROVE  /\ r.headers \in Nat /\ r.body \in Nat /\ r.multipart \in BOOLEAN /\ r.http10 \in BOOLEAN
           /\ r.flaw \in {"none", "version", "colon", "bare", "value", "body"}
           /\ (r.body > 0 \/ r.flaw = "colon") => r.headers > 0
           /\ r.multipart => r.headers > 0 /\ r.body > 0
           /\ HeaderEnd(r) = HeaderLineEnd(r.headers) + 2 /\ HeaderEnd(r) \in Nat
           /\ HeaderEnd(r) > LineEnd
           /\ Size(r) = HeaderEnd(r) + r.body /\ Size(r) \in Nat
           /\ Cuts(r) \subseteq 1..Size(r)
<1>1. /\ r.headers \in Nat /\ r.body \in Nat /\ r.multipart \in BOOLEAN /\ r.http10 \in BOOLEAN
      /\ r.flaw \in {"none", "version", "colon", "bare", "value", "body"}
      /\ (r.body > 0 \/ r.flaw = "colon") => r.headers > 0
      /\ r.multipart => r.headers > 0 /\ r.body > 0
  BY LengthsAssumption DEF Requests
<1>2. HeaderEnd(r) = HeaderLineEnd(r.headers) + 2 /\ HeaderEnd(r) \in Nat /\ HeaderEnd(r) > LineEnd
  <2>1. PICK m \in Nat : m = HeaderLineEnd(r.headers) /\ m >= LineEnd
    BY <1>1, HeaderLines
  <2>2. HeaderEnd(r) = m + 2
    BY <2>1 DEF HeaderEnd
  <2>3. QED
    BY <2>1, <2>2, LineLength
<1>3. Size(r) = HeaderEnd(r) + r.body /\ Size(r) \in Nat
  BY <1>1, <1>2 DEF Size
<1>4. Cuts(r) \subseteq 1..Size(r)
  BY <1>1, <1>2, <1>3, LineLength DEF Cuts
<1>5. QED
  BY <1>1, <1>2, <1>3, <1>4

(* Where a segment ends if none ends in the request line or in a plain body. *)
LEMMA CutsAfterLine ==
    ASSUME CutsAllowed, NEW r \in Requests, NEW n \in Cuts(r)
    PROVE  n >= LineEnd /\ (n >= HeaderEnd(r) /\ ~r.multipart => n = Size(r))
BY Layout, LineLength DEF Cuts, CutsAllowed

LEMMA LinesOf ==
    /\ Lines(0) = {}
    /\ \A k \in Nat : Lines(k) \subseteq Nat
    /\ \A k \in Nat : Lines(k + 1) = Lines(k) \cup {HeaderLineEnd(k)}
    /\ \A k \in Nat : k > 0 => LineEnd \in Lines(k)
<1>1. Lines(0) = {}
  BY DEF Lines
<1>2. ASSUME NEW k \in Nat PROVE Lines(k) \subseteq Nat
  <2>1. \A m \in 1..k : m - 1 \in Nat
    OBVIOUS
  <2>2. QED
    BY <2>1, HeaderLines DEF Lines
<1>3. ASSUME NEW k \in Nat PROVE Lines(k + 1) = Lines(k) \cup {HeaderLineEnd(k)}
  <2>1. 1..(k + 1) = (1..k) \cup {k + 1} /\ (k + 1) - 1 = k
    OBVIOUS
  <2>2. QED
    BY <2>1 DEF Lines
<1>4. ASSUME NEW k \in Nat, k > 0 PROVE LineEnd \in Lines(k)
  <2>1. 1 \in 1..k /\ 1 - 1 = 0
    BY <1>4
  <2>2. HeaderLineEnd(1 - 1) \in Lines(k)
    BY <2>1 DEF Lines
  <2>3. QED
    BY <2>1, <2>2, HeaderLines
<1>5. QED
  BY <1>1, <1>2, <1>3, <1>4

(* The line that the search for a CRLF finds from the beginning of header line k + 1. *)
NextEnd(k) == IF k < wire.headers THEN HeaderLineEnd(k + 1) ELSE HeaderEnd(wire)

LEMMA NextLine ==
    ASSUME wire \in Requests, NEW k \in 0..wire.headers, recver_.to \in Nat
    PROVE  /\ NextEnd(k) \in LineEnds /\ NextEnd(k) \in Nat
           /\ \A e \in LineEnds : LineFound(HeaderLineEnd(k), e) <=> e = NextEnd(k) /\ e <= recver_.to
           /\ k = wire.headers <=> Blank(HeaderLineEnd(k), NextEnd(k))
           /\ k < wire.headers =>
                (HasColon(HeaderLineEnd(k), NextEnd(k)) <=>
                   ~(wire.flaw = "colon" /\ k + 1 = wire.headers))
<1>n. PICK n \in Nat : n = wire.headers /\ k \in 0..n
  BY Layout
<1>L. PICK L \in [Nat -> Nat] : /\ \A m \in Nat : L[m] = HeaderLineEnd(m)
                                /\ \A m \in Nat : L[m + 1] = L[m] + HeaderLen /\ L[m] >= LineEnd
                                /\ \A i, j \in Nat : i < j => L[i] + HeaderLen <= L[j]
  <2> DEFINE M == [m \in Nat |-> HeaderLineEnd(m)]
  <2>1. M \in [Nat -> Nat]
    BY HeaderLines
  <2>2. \A m \in Nat : M[m] = HeaderLineEnd(m) /\ M[m + 1] = HeaderLineEnd(m + 1)
    OBVIOUS
  <2>3. \A m \in Nat : HeaderLineEnd(m + 1) = HeaderLineEnd(m) + HeaderLen /\ HeaderLineEnd(m) >= LineEnd
    BY HeaderLines
  <2>4. \A i, j \in Nat : i < j => M[i] + HeaderLen <= M[j]
    BY <2>2, HeaderLines
  <2> HIDE DEF M
  <2>5. QED
    BY <2>1, <2>2, <2>3, <2>4
<1>1. /\ n \in Nat /\ k \in Nat /\ k <= n /\ HeaderEnd(wire) = L[n] + 2
      /\ LineEnd \in Nat /\ HeaderLen \in Nat /\ HeaderLen > 4 /\ LineEnd > 4
  <2>1. HeaderEnd(wire) = L[n] + 2
    BY <1>n, <1>L DEF HeaderEnd
  <2>2. QED
    BY <1>n, <2>1, LineLength
<1>2. \A i, j \in Nat : i <= j => L[i] <= L[j]
  BY <1>1, <1>L
<1>3. /\ \A e \in LineEnds : e = LineEnd \/ e = L[n] + 2 \/ \E m \in 1..n : e = L[m]
      /\ L[n] + 2 \in LineEnds /\ \A m \in 1..n : L[m] \in LineEnds
  <2>1. \A m \in 1..n : L[m] = HeaderLineEnd(m)
    BY <1>L
  <2>2. QED
    BY <1>1, <1>n, <2>1 DEF LineEnds
<1>4. /\ HeaderLineEnd(k) = L[k]
      /\ k = n => NextEnd(k) = L[k] + 2
      /\ k < n => NextEnd(k) = HeaderLineEnd(k + 1) /\ NextEnd(k) = L[k + 1] /\ NextEnd(k) = L[k] + HeaderLen
  <2>1. k \in Nat /\ k + 1 \in Nat
    BY <1>1
  <2>2. L[k] = HeaderLineEnd(k) /\ L[k + 1] = HeaderLineEnd(k + 1) /\ L[k + 1] = L[k] + HeaderLen
    BY <1>L, <2>1
  <2>3. k = n => NextEnd(k) = L[k] + 2
    BY <1>1, <1>n DEF NextEnd
  <2>4. k < n => NextEnd(k) = HeaderLineEnd(k + 1)
    BY <1>n DEF NextEnd
  <2>5. QED
    BY <2>2, <2>3, <2>4
<1>a. /\ L \in [Nat -> Nat] /\ \A m \in Nat : L[m] >= LineEnd
      /\ \A i, j \in Nat : i < j => L[i] + HeaderLen <= L[j]
  BY <1>L
<1>x. PICK x \in Nat : /\ x = NextEnd(k)
                       /\ k = n => x = L[k] + 2
                       /\ k < n => x = L[k + 1] /\ x = L[k] + HeaderLen
  <2>1. L[k] \in Nat /\ (k < n \/ k = n)
    BY <1>1, <1>a
  <2>2. L[k] + 2 \in Nat /\ L[k] + HeaderLen \in Nat
    BY <1>1, <2>1
  <2>3. NextEnd(k) \in Nat
    BY <1>4, <2>1, <2>2
  <2>4. QED
    BY <1>4, <2>3
<1>5. x \in Nat /\ L[k] <= x - 2 /\ x \in LineEnds
  <2>1. CASE k = n
    BY <1>1, <1>3, <1>a, <1>x, <2>1
  <2>2. CASE k < n
    <3>1. k + 1 \in 1..n
      BY <1>1, <2>2
    <3>2. QED
      BY <1>1, <1>3, <1>a, <1>x, <2>2, <3>1
  <2>3. QED
    BY <1>1, <2>1, <2>2
<1>6. \A d \in LineEnds : d \in Nat /\ (L[k] <= d - 2 => x <= d)
  <2>1. ASSUME NEW d \in LineEnds PROVE d \in Nat /\ (L[k] <= d - 2 => x <= d)
    <3>1. CASE d = LineEnd
      BY <1>1, <1>a, <3>1
    <3>2. CASE d = L[n] + 2
      <4>1. CASE k = n
        BY <1>1, <1>a, <1>x, <3>2, <4>1
      <4>2. CASE k < n
        <5>1. L[k + 1] <= L[n]
          BY <1>1, <1>2, <4>2
        <5>2. QED
          BY <1>1, <1>a, <1>x, <3>2, <4>2, <5>1
      <4>3. QED
        BY <1>1, <4>1, <4>2
    <3>3. ASSUME NEW m \in 1..n, d = L[m] PROVE d \in Nat /\ (L[k] <= d - 2 => x <= d)
      <4>1. m \in Nat /\ d \in Nat
        BY <1>a, <3>3
      <4>2. CASE m <= k
        <5>1. L[m] <= L[k] /\ L[k] \in Nat
          BY <1>1, <1>2, <1>a, <4>1, <4>2
        <5>2. QED
          BY <3>3, <4>1, <5>1
      <4>3. CASE m > k
        <5>1. L[k + 1] <= L[m] /\ k < n
          BY <1>1, <1>2, <4>1, <4>3
        <5>2. QED
          BY <1>x, <3>3, <4>1, <5>1
      <4>4. QED
        BY <1>1, <4>1, <4>2, <4>3
    <3>4. QED
      BY <1>3, <2>1, <3>1, <3>2, <3>3
  <2>2. QED
    BY <2>1
<1>7. \A e \in LineEnds : LineFound(L[k], e) <=> e = x /\ e <= recver_.to
  <2>1. \A e \in LineEnds : (\A d \in LineEnds : L[k] <= d - 2 => e <= d) /\ L[k] <= e - 2 => e = x
    BY <1>5, <1>6
  <2>2. QED
    BY <1>5, <1>6, <2>1 DEF LineFound
<1>8. k = n <=> Blank(L[k], x)
  BY <1>1, <1>a, <1>x DEF Blank
<1>9. ASSUME k < n
      PROVE  HasColon(L[k], x) <=> ~(wire.flaw = "colon" /\ k + 1 = n)
  <2>1. k + 1 \in 1..n /\ (k + 1) - 1 = k /\ x = HeaderLineEnd(k + 1) /\ HeaderLineEnd(k) = L[k] /\ L[k] \in Nat
    BY <1>1, <1>4, <1>9, <1>a, <1>x
  <2>2. \A m \in 1..n : x = HeaderLineEnd(m) => m = k + 1
    <3>1. ASSUME NEW m \in 1..n, x = HeaderLineEnd(m) PROVE m = k + 1
      <4>1. m \in Nat /\ k + 1 \in Nat /\ L[m] = L[k + 1]
        BY <1>1, <1>9, <1>x, <1>L, <3>1
      <4>2. ~(m < k + 1) /\ ~(k + 1 < m)
        BY <1>1, <1>a, <4>1
      <4>3. QED
        BY <4>1, <4>2
    <3>2. QED
      BY <3>1
  <2>3. HasColon(L[k], x) => ~(wire.flaw = "colon" /\ k + 1 = n)
    BY <1>n, <2>2 DEF HasColon
  <2>4. ~(wire.flaw = "colon" /\ k + 1 = n) => HasColon(L[k], x)
    <3>1. HeaderLineEnd((k + 1) - 1) = L[k] /\ L[k] <= L[k]
      BY <2>1
    <3>2. QED
      BY <1>n, <2>1, <3>1 DEF HasColon
  <2>5. QED
    BY <2>3, <2>4
<1>10. QED
  BY <1>n, <1>4, <1>x, <1>5, <1>7, <1>8, <1>9

-----------------------------------------------------------------------------
(***************************************************************************)
(* The type invariant, however the stream is cut.                          *)
(***************************************************************************)
(* Buffer::retired() leaves the end of the buffer, and its beginning not behind the end. *)
LEMMA Retired ==
    ASSUME TypeOK, NEW n \in Nat, retired(n)
    PROVE  /\ recver_' \in [from : 0..Size(wire), to : 0..sent] /\ recver_'.from <= recver_'.to
           /\ recver_'.to = recver_.to
           /\ n <= Readable => recver_'.from = recver_.from + n
<1>1. /\ recver_.from \in Nat /\ recver_.to \in Nat /\ recver_.from <= recver_.to
      /\ recver_ \in [from : 0..Size(wire), to : 0..sent] /\ Size(wire) \in Nat /\ sent \in Nat
      /\ recver_.to <= sent /\ sent <= Size(wire)
  BY Layout DEF TypeOK
<1>2. PICK m \in Nat : /\ m = (IF n < Readable THEN recver_.from + n ELSE recver_.to)
                       /\ m <= recver_.to
  BY <1>1 DEF Readable
<1>3. recver_' = [recver_ EXCEPT !.from = m]
  BY <1>2 DEF retired
<1>4. m \in 0..Size(wire)
  BY <1>1, <1>2
<1>5. recver_'.from = m /\ recver_'.to = recver_.to /\ recver_' \in [from : 0..Size(wire), to : 0..sent]
  BY <1>1, <1>3, <1>4
<1>6. n <= Readable => m = recver_.from + n
  BY <1>1, <1>2 DEF Readable
<1>7. QED
  BY <1>1, <1>2, <1>5, <1>6

LEMMA InitTypeOK == Init => TypeOK
<1> SUFFICES ASSUME Init PROVE TypeOK
  OBVIOUS
<1>1. wire \in Requests /\ sent = 0 /\ recver_ = [from |-> 0, to |-> 0] /\ count = 1 /\ header_ = {}
      /\ Size(wire) \in Nat
  BY Layout DEF Init, Empty
<1>2. /\ sent \in 0..Size(wire) /\ recver_ \in [from : 0..Size(wire), to : 0..sent]
      /\ recver_.from <= recver_.to /\ count \in 1..MaxRequests /\ header_ \subseteq Nat
  BY <1>1, LengthsAssumption
<1>3. QED
  BY <1>1, <1>2 DEF Init, TypeOK, Codes

LEMMA ArriveType ==
    ASSUME TypeOK, NEW n \in Cuts(wire), Arrive(n)
    PROVE  TypeOK'
<1>1. /\ wire \in Requests /\ n \in 1..Size(wire) /\ sent' = n /\ n > sent /\ sent \in Nat
      /\ recver_ \in [from : 0..Size(wire), to : 0..sent]
      /\ UNCHANGED <<wire, recver_, context_, ret_code_, request, code, pc, count>>
  BY Layout DEF TypeOK, Arrive
<1>2. recver_' \in [from : 0..Size(wire'), to : 0..sent'] /\ sent' \in 0..Size(wire')
  BY <1>1, Layout
<1>3. QED
  BY <1>1, <1>2 DEF TypeOK, request

LEMMA NextRequestType ==
    ASSUME TypeOK, NEW r \in Requests, NextRequest(r)
    PROVE  TypeOK'
<1>1. /\ wire' = r /\ sent' = 0 /\ recver_' = [from |-> 0, to |-> 0] /\ count' = count + 1
      /\ count < MaxRequests /\ UNCHANGED <<context_, ret_code_, request, code, pc>>
  BY DEF NextRequest, Empty
<1>2. /\ recver_' \in [from : 0..Size(wire'), to : 0..sent'] /\ sent' \in 0..Size(wire')
      /\ recver_'.from <= recver_'.to /\ wire' \in Requests
  BY <1>1, Layout
<1>3. count' \in 1..MaxRequests
  BY <1>1, LengthsAssumption DEF TypeOK
<1>4. QED
  BY <1>1, <1>2, <1>3 DEF TypeOK, request

LEMMA OnMessageType ==
    ASSUME TypeOK, onMessage
    PROVE  /\ TypeOK' /\ recver_'.from = recver_.from /\ recver_'.to = sent
           /\ UNCHANGED <<wire, sent>>
<1>1. /\ recver_' = [recver_ EXCEPT !.to = sent] /\ pc' = "parse"
      /\ UNCHANGED <<wire, sent, code, count>>
  BY DEF onMessage
<1>2. /\ recver_ \in [from : 0..Size(wire), to : 0..sent] /\ sent \in Nat /\ recver_.from \in Nat
      /\ recver_.to \in Nat /\ recver_.from <= recver_.to /\ recver_.to < sent /\ sent <= Size(wire)
      /\ Size(wire) \in Nat
  BY Layout DEF TypeOK, onMessage
<1>3. /\ recver_' \in [from : 0..Size(wire), to : 0..sent] /\ recver_'.from = recver_.from
      /\ recver_'.to = sent
  BY <1>1, <1>2
<1>4. recver_'.from <= recver_'.to
  BY <1>2, <1>3
<1>5. CASE context_
  <2>1. UNCHANGED <<context_, ret_code_, request>>
    BY <1>5 DEF onMessage
  <2>2. QED
    BY <1>1, <1>3, <1>4, <2>1 DEF TypeOK, request
<1>6. CASE ~context_
  <2>1. NewRequest
    BY <1>6 DEF onMessage
  <2>2. QED
    BY <1>1, <1>3, <1>4, <2>1 DEF TypeOK, NewRequest, Codes
<1>7. QED
  BY <1>5, <1>6

LEMMA LineType ==
    ASSUME TypeOK, parseRequestLine
    PROVE  TypeOK'
<1>1. PICK c \in LineResults :
         /\ ret_code_' = c
         /\ IF c = "BAD_REQUEST" THEN UNCHANGED recver_ ELSE retired(LineEnd)
         /\ req_url_' = (c = "REQUEST_LINE_DONE" /\ Readable > MethodLen)
         /\ IF c = "BAD_REQUEST" THEN Return(c) ELSE Loop
  BY DEF parseRequestLine
<1>2. UNCHANGED <<wire, sent, context_, header_, has_multipart_, keepalive_, post_data_, content, count>>
  BY DEF parseRequestLine
<1>3. c \in {"BAD_REQUEST", "REQUEST_LINE_DONE"}
  BY DEF LineResults
<1>4. recver_' \in [from : 0..Size(wire), to : 0..sent] /\ recver_'.from <= recver_'.to
  <2>1. CASE c = "BAD_REQUEST"
    BY <1>1, <2>1 DEF TypeOK
  <2>2. CASE c # "BAD_REQUEST"
    BY <1>1, <2>2, Retired, LineLength
  <2>3. QED
    BY <2>1, <2>2
<1>5. /\ code' \in Codes /\ ret_code_' \in Codes /\ pc' \in {"read", "parse", "respond", "closed", "lost"}
      /\ req_url_' \in BOOLEAN
  BY <1>1, <1>3 DEF Return, Loop, Codes, TypeOK
<1>6. QED
  BY <1>2, <1>4, <1>5 DEF TypeOK

LEMMA HeaderType ==
    ASSUME TypeOK, parseRequestHeader
    PROVE  TypeOK'
<1>1. UNCHANGED <<wire, sent, context_, req_url_, has_multipart_, keepalive_, post_data_, content, count>>
  BY DEF parseRequestHeader
<1>2. recver_.from \in Nat /\ recver_.to \in Nat /\ LineEnds \subseteq Nat
  <2>1. LineEnd \in Nat /\ HeaderEnd(wire) \in Nat
    BY LineLength, Layout DEF TypeOK
  <2>2. \A k \in 1..wire.headers : k \in Nat /\ HeaderLineEnd(k) \in Nat
    BY HeaderLines
  <2>3. QED
    BY <2>1, <2>2 DEF LineEnds, TypeOK
<1>3. /\ recver_' \in [from : 0..Size(wire), to : 0..sent] /\ recver_'.from <= recver_'.to
      /\ header_' \subseteq Nat
      /\ code' \in Codes /\ ret_code_' \in Codes /\ pc' \in {"read", "parse", "respond", "closed", "lost"}
  <2>1. CASE UNCHANGED <<recver_, header_>> /\ ret_code_' = "AGAIN_HEADER" /\ Return("AGAIN_HEADER")
    BY <2>1 DEF TypeOK, Return, Codes
  <2>2. CASE retired(2) /\ ret_code_' = "REQUEST_HEADER_DONE" /\ Loop /\ UNCHANGED header_
    <3>1. recver_' \in [from : 0..Size(wire), to : 0..sent] /\ recver_'.from <= recver_'.to
      BY <2>2, Retired
    <3>2. QED
      BY <2>2, <3>1 DEF TypeOK, Loop, Codes
  <2>3. ASSUME NEW e \in LineEnds, LineFound(recver_.from, e), retired(e - recver_.from),
               header_' = header_ \cup {recver_.from}, UNCHANGED ret_code_, Loop
        PROVE  /\ recver_' \in [from : 0..Size(wire), to : 0..sent] /\ recver_'.from <= recver_'.to
               /\ header_' \subseteq Nat
               /\ code' \in Codes /\ ret_code_' \in Codes
               /\ pc' \in {"read", "parse", "respond", "closed", "lost"}
    <3>1. e - recver_.from \in Nat
      BY <1>2, <2>3 DEF LineFound
    <3>2. recver_' \in [from : 0..Size(wire), to : 0..sent] /\ recver_'.from <= recver_'.to
      BY <2>3, <3>1, Retired
    <3>3. QED
      BY <1>2, <2>3, <3>2 DEF TypeOK, Loop
  <2>4. CASE ret_code_' = "BAD_REQUEST" /\ Return("BAD_REQUEST") /\ UNCHANGED <<recver_, header_>>
    BY <2>4 DEF TypeOK, Return, Codes
  <2>5. CASE WorkerLost /\ UNCHANGED <<ret_code_, recver_, header_>>
    BY <2>5 DEF TypeOK, WorkerLost
  <2>6. QED
    BY <2>1, <2>2, <2>3, <2>4, <2>5 DEF parseRequestHeader
<1>4. QED
  BY <1>1, <1>3 DEF TypeOK

LEMMA ContentType ==
    ASSUME TypeOK, NEW multipart, parseRequestContent(multipart)
    PROVE  /\ recver_' \in [from : 0..Size(wire), to : 0..sent] /\ recver_'.from <= recver_'.to
           /\ recver_'.to = recver_.to
           /\ post_data_' \in Nat /\ content' \in Nat
           /\ code' \in Codes /\ ret_code_' \in Codes /\ pc' \in {"read", "parse", "respond", "closed", "lost"}
<1>1. /\ recver_.from \in Nat /\ recver_.to \in Nat /\ recver_.from <= recver_.to
      /\ recver_ \in [from : 0..Size(wire), to : 0..sent] /\ Size(wire) \in Nat /\ sent \in Nat
      /\ recver_.to <= sent /\ sent <= Size(wire) /\ post_data_ \in Nat /\ content \in Nat
  BY Layout DEF TypeOK
<1>2. Readable \in Nat
  BY <1>1 DEF Readable
<1>3. post_data_' \in Nat
  BY <1>1, <1>2 DEF parseRequestContent
<1>4. CASE multipart /\ ~(recver_.to = Size(wire) /\ Readable > 0)
  BY <1>1, <1>3, <1>4 DEF parseRequestContent, Return, Codes
<1>5. CASE ~(multipart /\ ~(recver_.to = Size(wire) /\ Readable > 0))
  <2>1. CASE ContentLost
    BY <1>1, <1>3, <2>1 DEF ContentLost, WorkerLost, TypeOK
  <2>2. CASE ~ContentLost
    <3>1. /\ recver_' = [from |-> recver_.to, to |-> recver_.to] /\ content' = Readable
          /\ ret_code_' = "REQUEST_CONTENT_DONE" /\ Return("REQUEST_CONTENT_DONE")
      BY <1>5, <2>2 DEF parseRequestContent, Empty
    <3>2. /\ recver_' \in [from : 0..Size(wire), to : 0..sent] /\ recver_'.from <= recver_'.to
          /\ recver_'.to = recver_.to
      BY <1>1, <3>1
    <3>3. QED
      BY <1>2, <1>3, <3>1, <3>2 DEF Return, Codes
  <2>3. QED
    BY <2>1, <2>2
<1>6. QED
  BY <1>4, <1>5

LEMMA BodyType ==
    ASSUME TypeOK, HeaderDone \/ ContentAgain
    PROVE  TypeOK'
<1>1. CASE HeaderDone
  <2>1. /\ UNCHANGED <<wire, sent, context_, req_url_, header_, count>>
        /\ keepalive_' \in BOOLEAN /\ has_multipart_' \in BOOLEAN
    BY <1>1, Layout DEF HeaderDone, TypeOK
  <2>2. CASE header_ = {} /\ ~wire.http10
    <3>1. Return("REQUEST_CONTENT_DONE") /\ UNCHANGED <<ret_code_, recver_, post_data_, content>>
      BY <1>1, <2>2 DEF HeaderDone
    <3>2. QED
      BY <2>1, <3>1 DEF TypeOK, Return, Codes
  <2>3. CASE ~(header_ = {} /\ ~wire.http10)
    <3>1. CASE parseRequestContent(has_multipart_')
      BY <2>1, <3>1, ContentType DEF TypeOK
    <3>2. CASE ValueLost
      BY <2>1, <3>2 DEF ValueLost, WorkerLost, TypeOK
    <3>3. QED
      BY <1>1, <2>3, <3>1, <3>2 DEF HeaderDone
  <2>4. QED
    BY <2>2, <2>3
<1>2. CASE ContentAgain
  <2>1. /\ UNCHANGED <<wire, sent, context_, req_url_, header_, has_multipart_, keepalive_, count>>
        /\ parseRequestContent(has_multipart_)
    BY <1>2 DEF ContentAgain
  <2>2. QED
    BY <2>1, ContentType DEF TypeOK
<1>3. QED
  BY <1>1, <1>2

LEMMA RespondType ==
    ASSUME TypeOK, Respond \/ Close
    PROVE  TypeOK'
<1>1. CASE Close
  BY <1>1 DEF Close, TypeOK, request
<1>2. CASE Respond
  <2>1. /\ recver_' = [from |-> recver_.to, to |-> recver_.to] /\ context_' = FALSE
        /\ ret_code_' \in Codes /\ pc' \in {"read", "parse", "respond", "closed", "lost"}
        /\ UNCHANGED <<wire, sent, request, code, count>>
    BY <1>2 DEF Respond, DeleteRequest, Empty, TypeOK, Codes
  <2>2. recver_.to \in 0..Size(wire) /\ recver_.to \in 0..sent
    BY Layout DEF TypeOK
  <2>3. recver_' \in [from : 0..Size(wire), to : 0..sent] /\ recver_'.from <= recver_'.to
    BY <2>1, <2>2
  <2>4. QED
    BY <2>1, <2>3 DEF TypeOK, request
<1>3. QED
  BY <1>1, <1>2

LEMMA NextTypeOK ==
    ASSUME TypeOK, [Next]_vars
    PROVE  TypeOK'
<1>1. CASE UNCHANGED vars
  BY <1>1 DEF vars, request, TypeOK
<1>2. CASE Next
  BY <1>2, ArriveType, NextRequestType, OnMessageType, LineType, HeaderType, BodyType, RespondType
  DEF Next, parseRequest
<1>3. QED
  BY <1>1, <1>2

(***************************************************************************)
(* TypeCorrect: wherever the stream is cut, the receive buffer stays       *)
(* inside what has arrived (HttpRequest.cc 50-198, Buffer.h) and the       *)
(* parser in one of its states.                                            *)
(***************************************************************************)
THEOREM TypeCorrect == Spec => []TypeOK
BY InitTypeOK, NextTypeOK, PTL DEF Spec

-----------------------------------------------------------------------------
(***************************************************************************)
(* The inductive invariant.                                                *)
(***************************************************************************)
LEMMA Arrived ==
    ASSUME CutsAllowed, IInv
    PROVE  /\ wire \in Requests /\ Size(wire) \in Nat /\ HeaderEnd(wire) \in Nat
           /\ wire.headers \in Nat /\ wire.body \in Nat /\ Size(wire) = HeaderEnd(wire) + wire.body
           /\ sent \in Nat /\ recver_.from \in Nat /\ recver_.to \in Nat
           /\ recver_.from <= recver_.to /\ recver_.to <= sent /\ sent <= Size(wire)
           /\ recver_.to # 0 => recver_.to >= LineEnd
           /\ recver_.to >= HeaderEnd(wire) /\ ~wire.multipart => recver_.to = Size(wire)
           /\ sent # 0 => sent \in Cuts(wire)
<1>1. wire \in Requests
  BY DEF IInv, TypeOK
<1>2. /\ Size(wire) \in Nat /\ HeaderEnd(wire) \in Nat /\ HeaderEnd(wire) > LineEnd /\ LineEnd \in Nat
      /\ wire.headers \in Nat /\ wire.body \in Nat /\ Size(wire) = HeaderEnd(wire) + wire.body
  BY <1>1, Layout, LineLength
<1>3. /\ sent \in Nat /\ recver_.from \in Nat /\ recver_.to \in Nat
      /\ recver_.from <= recver_.to /\ recver_.to <= sent /\ sent <= Size(wire)
  BY <1>2 DEF IInv, TypeOK
<1>4. /\ recver_.to # 0 => recver_.to \in Cuts(wire)
      /\ sent # 0 => sent \in Cuts(wire)
  BY DEF IInv, StreamInv
<1>5. /\ recver_.to # 0 => recver_.to >= LineEnd
      /\ recver_.to # 0 /\ recver_.to >= HeaderEnd(wire) /\ ~wire.multipart => recver_.to = Size(wire)
  BY <1>1, <1>4, CutsAfterLine
<1>6. QED
  BY <1>1, <1>2, <1>3, <1>4, <1>5

LEMMA InitImpliesIInv == Init => IInv
<1> SUFFICES ASSUME Init PROVE IInv
  OBVIOUS
<1>1. TypeOK
  BY InitTypeOK
<1>2. sent = 0 /\ recver_.from = 0 /\ recver_.to = 0 /\ pc = "read" /\ context_ = FALSE
  BY DEF Init, Empty
<1>3. StreamInv /\ ReadInv /\ ParseInv /\ RespondInv
  BY <1>2 DEF StreamInv, ReadInv, ParseInv, RespondInv, SegmentsDoNotMatter
<1>4. QED
  BY <1>1, <1>3 DEF IInv

LEMMA ArrivePreserves ==
    ASSUME IInv, NEW n \in Cuts(wire), Arrive(n)
    PROVE  IInv'
<1>1. TypeOK'
  BY ArriveType DEF IInv
<1>2. sent' = n /\ UNCHANGED <<wire, recver_, context_, ret_code_, request, code, pc, count>>
  BY DEF Arrive
<1>3. StreamInv'
  BY <1>2 DEF IInv, StreamInv
<1>4. InHeader' = InHeader /\ InBody' = InBody /\ InMultipart' = InMultipart /\ NoLine' = NoLine
  BY <1>2 DEF InHeader, InBody, InMultipart, NoLine, AtLine, LineFound, LineEnds, request
<1>5. ReadInv' /\ ParseInv'
  BY <1>2, <1>4 DEF IInv, ReadInv, ParseInv, request
<1>6. RespondInv'
  BY <1>2 DEF IInv, RespondInv, SegmentsDoNotMatter, request
<1>7. QED
  BY <1>1, <1>3, <1>5, <1>6 DEF IInv

(* A request whose header is not complete has bytes to come. *)
LEMMA HeaderBeforeEnd ==
    ASSUME CutsAllowed, IInv, InHeader
    PROVE  recver_.from < Size(wire)
<1>1. PICK k \in 0..wire.headers : recver_.from = HeaderLineEnd(k)
  BY DEF InHeader, AtLine
<1>2. PICK n \in Nat : n = wire.headers /\ k \in Nat /\ k <= n
  BY Arrived
<1>3. HeaderLineEnd(k) \in Nat /\ HeaderLineEnd(n) \in Nat
  BY <1>2, HeaderLines
<1>4. k < n => HeaderLineEnd(k) + HeaderLen <= HeaderLineEnd(n)
  BY <1>2, HeaderLines
<1>5. HeaderLineEnd(k) <= HeaderLineEnd(n)
  <2>1. CASE k < n
    BY <1>3, <1>4, <2>1, LineLength
  <2>2. CASE k = n
    BY <1>3, <2>2
  <2>3. QED
    BY <1>2, <2>1, <2>2
<1>6. HeaderEnd(wire) = HeaderLineEnd(n) + 2
  BY <1>2 DEF HeaderEnd
<1>7. QED
  BY <1>1, <1>3, <1>5, <1>6, Arrived

LEMMA NextRequestPreserves ==
    ASSUME CutsAllowed, IInv, NEW r \in Requests, NextRequest(r)
    PROVE  IInv'
<1>1. TypeOK'
  BY NextRequestType DEF IInv
<1>2. /\ pc = "read" /\ recver_.from = Size(wire) /\ recver_.to = Size(wire)
      /\ sent' = 0 /\ recver_'.from = 0 /\ recver_'.to = 0 /\ UNCHANGED <<context_, pc>>
  BY DEF NextRequest, Empty
<1>3. ~context_
  <2>1. ~InHeader
    BY <1>2, HeaderBeforeEnd, Arrived
  <2>2. ~(recver_.to < Size(wire))
    BY <1>2, Arrived
  <2>3. QED
    BY <1>2, <2>1, <2>2 DEF IInv, ReadInv
<1>4. StreamInv' /\ ReadInv' /\ ParseInv' /\ RespondInv'
  BY <1>2, <1>3 DEF StreamInv, ReadInv, ParseInv, RespondInv, SegmentsDoNotMatter
<1>5. QED
  BY <1>1, <1>4 DEF IInv

LEMMA OnMessagePreserves ==
    ASSUME CutsAllowed, IInv, onMessage
    PROVE  IInv'
<1>1. TypeOK' /\ recver_'.from = recver_.from /\ recver_'.to = sent /\ UNCHANGED <<wire, sent>>
  BY OnMessageType DEF IInv
<1>2. pc = "read" /\ pc' = "parse" /\ recver_.to < sent /\ sent # 0 /\ recver_'.to # 0
  BY <1>1, Arrived DEF onMessage
<1>3. StreamInv'
  BY <1>1, <1>2, Arrived DEF StreamInv
<1>4. CASE context_
  <2>1. UNCHANGED <<context_, ret_code_, request>>
    BY <1>4 DEF onMessage
  <2>2. InHeader' = InHeader /\ InMultipart' = InMultipart
    BY <1>1, <2>1 DEF InHeader, InMultipart, InBody, AtLine, request
  <2>3. ParseInv'
    BY <1>2, <1>4, <2>1, <2>2 DEF IInv, ReadInv, ParseInv
  <2>4. QED
    BY <1>1, <1>2, <1>3, <2>3 DEF IInv, ReadInv, RespondInv, SegmentsDoNotMatter
<1>5. CASE ~context_
  <2>1. context_' /\ ret_code_' = "NO_REQUEST" /\ header_' = {} /\ content' = 0
    BY <1>5 DEF onMessage, NewRequest
  <2>2. recver_.from = 0
    BY <1>2, <1>5, Arrived DEF IInv, ReadInv
  <2>3. ParseInv'
    BY <1>1, <1>2, <2>1, <2>2 DEF ParseInv
  <2>4. QED
    BY <1>1, <1>2, <1>3, <2>3 DEF IInv, ReadInv, RespondInv, SegmentsDoNotMatter
<1>6. QED
  BY <1>4, <1>5

LEMMA LinePreserves ==
    ASSUME CutsAllowed, IInv, parseRequestLine
    PROVE  IInv'
<1>1. TypeOK' /\ TypeOK
  BY LineType DEF IInv
<1>2. /\ pc = "parse" /\ ret_code_ = "NO_REQUEST" /\ context_ /\ recver_.to # 0
      /\ recver_.from = 0 /\ header_ = {} /\ content = 0
  BY DEF IInv, ParseInv, parseRequestLine
<1>3. Readable >= LineEnd /\ Readable \in Nat
  BY <1>2, Arrived, LineLength DEF Readable
<1>4. Readable # MethodLen /\ Readable >= UrlEnd + 8 /\ Readable > MethodLen
  BY <1>3, LineLength
<1>5. UNCHANGED <<wire, sent, context_, header_, has_multipart_, keepalive_, post_data_, content, count>>
  BY DEF parseRequestLine
<1>6. CASE wire.flaw = "version"
  <2>1. LineResults = {"BAD_REQUEST"}
    BY <1>4, <1>6 DEF LineResults
  <2>2. UNCHANGED recver_ /\ code' = "BAD_REQUEST" /\ pc' = "respond"
    BY <2>1 DEF parseRequestLine, Return
  <2>3. StreamInv' /\ ReadInv' /\ ParseInv' /\ RespondInv'
    BY <1>5, <1>6, <2>2 DEF IInv, StreamInv, ReadInv, ParseInv, RespondInv, SegmentsDoNotMatter
  <2>4. QED
    BY <1>1, <2>3 DEF IInv
<1>7. CASE wire.flaw # "version"
  <2>1. LineResults = {"REQUEST_LINE_DONE"}
    BY <1>2, <1>4, <1>7 DEF LineResults
  <2>2. /\ retired(LineEnd) /\ ret_code_' = "REQUEST_LINE_DONE" /\ req_url_' = TRUE
        /\ UNCHANGED <<code, pc>>
    BY <1>4, <2>1 DEF parseRequestLine, Loop
  <2>3. recver_'.to = recver_.to /\ recver_'.from = LineEnd
    <3>1. recver_'.to = recver_.to /\ recver_'.from = recver_.from + LineEnd
      BY <1>1, <1>3, <2>2, LineLength, Retired
    <3>2. QED
      BY <1>2, <3>1, LineLength
  <2>4. InHeader'
    <3>1. wire.headers \in Nat /\ (wire.flaw = "colon" => wire.headers > 0)
      BY <1>1, Layout DEF TypeOK
    <3>2. AtLine(0)' /\ 0 \in 0..wire'.headers
      BY <1>2, <1>5, <2>3, <3>1, LinesOf, HeaderLines DEF AtLine
    <3>3. QED
      BY <1>2, <1>5, <1>7, <2>2, <3>2 DEF InHeader
  <2>5. StreamInv' /\ ReadInv' /\ ParseInv' /\ RespondInv'
    BY <1>2, <1>5, <2>2, <2>3, <2>4
    DEF IInv, StreamInv, ReadInv, ParseInv, RespondInv, SegmentsDoNotMatter
  <2>6. QED
    BY <1>1, <2>5 DEF IInv
<1>8. QED
  BY <1>6, <1>7

(* The body is where the header lines end, and all of it has arrived unless it is multipart. *)
LEMMA BodyHere ==
    ASSUME CutsAllowed, IInv, InBody
    PROVE  /\ recver_.to >= HeaderEnd(wire) /\ (~wire.multipart => recver_.to = Size(wire))
           /\ Readable \in Nat
           /\ recver_.to = Size(wire) => Readable = wire.body
<1>1. recver_.from = HeaderEnd(wire)
  BY DEF InBody
<1>2. QED
  BY <1>1, Arrived DEF Readable

LEMMA HeaderPreserves ==
    ASSUME CutsAllowed, IInv, parseRequestHeader
    PROVE  IInv'
<1>1. TypeOK' /\ TypeOK
  BY HeaderType DEF IInv
<1>2. pc = "parse" /\ context_ /\ recver_.to # 0 /\ InHeader
  BY DEF IInv, ParseInv, parseRequestHeader
<1>3. UNCHANGED <<wire, sent, context_, req_url_, has_multipart_, keepalive_, post_data_, content, count>>
  BY DEF parseRequestHeader
<1>4. PICK k \in 0..wire.headers : AtLine(k)
  BY <1>2 DEF InHeader
<1>p. PICK p \in Nat : p = recver_.from /\ p = HeaderLineEnd(k)
  BY <1>4, Arrived DEF AtLine
<1>5. wire \in Requests /\ recver_.to \in Nat /\ p <= recver_.to /\ wire.headers \in Nat /\ k \in Nat
  BY <1>p, Arrived
<1>6. PICK x \in Nat : /\ x = NextEnd(k)
                       /\ \A e \in LineEnds : LineFound(p, e) <=> e = x /\ e <= recver_.to
                       /\ k = wire.headers <=> Blank(p, x)
                       /\ k < wire.headers =>
                            (HasColon(p, x) <=> ~(wire.flaw = "colon" /\ k + 1 = wire.headers))
  BY <1>4, <1>5, <1>p, NextLine
<1>7. CASE /\ \A e \in LineEnds : ~LineFound(p, e)
           /\ ret_code_' = "AGAIN_HEADER" /\ Return("AGAIN_HEADER")
           /\ UNCHANGED <<recver_, header_>>
  <2>1. InHeader' /\ NoLine'
    <3>1. InHeader'
      BY <1>2, <1>3, <1>7 DEF InHeader, AtLine
    <3>2. NoLine
      BY <1>7, <1>p DEF NoLine
    <3>3. NoLine' = NoLine
      BY <1>3, <1>7 DEF NoLine, LineFound, LineEnds
    <3>4. QED
      BY <3>1, <3>2, <3>3
  <2>2. pc' = "read"
    BY <1>7 DEF Return
  <2>3. StreamInv' /\ ReadInv' /\ ParseInv' /\ RespondInv'
    BY <1>2, <1>3, <1>7, <2>1, <2>2
    DEF IInv, StreamInv, ReadInv, ParseInv, RespondInv, SegmentsDoNotMatter
  <2>4. QED
    BY <1>1, <2>3 DEF IInv
<1>8. ASSUME NEW e \in LineEnds, LineFound(p, e), Blank(p, e), retired(2),
             ret_code_' = "REQUEST_HEADER_DONE", Loop, UNCHANGED header_
      PROVE  IInv'
  <2>1. e = x /\ x <= recver_.to /\ x - 2 = p
    BY <1>6, <1>8 DEF Blank
  <2>2. k = wire.headers
    BY <1>6, <1>8, <2>1
  <2>3. 2 <= Readable /\ 2 \in Nat
    BY <1>5, <1>p, <2>1 DEF Readable
  <2>4. recver_'.to = recver_.to /\ recver_'.from = p + 2
    BY <1>1, <1>8, <1>p, <2>3, Retired
  <2>5. wire.flaw # "colon" /\ wire.flaw # "version"
    BY <1>2, <1>4, <1>5, <2>2 DEF AtLine, InHeader
  <2>6. InBody'
    <3>1. HeaderEnd(wire) = p + 2
      BY <1>p, <2>2 DEF HeaderEnd
    <3>2. HeaderEnd(wire') = recver_'.from
      BY <1>3, <2>4, <3>1
    <3>3. header_' = Lines(wire'.headers)
      BY <1>3, <1>4, <1>8, <2>2 DEF AtLine
    <3>4. QED
      BY <1>2, <1>3, <2>5, <3>2, <3>3 DEF InBody, InHeader
  <2>7. StreamInv' /\ ReadInv' /\ ParseInv' /\ RespondInv'
    BY <1>2, <1>3, <1>8, <2>4, <2>6
    DEF IInv, StreamInv, ReadInv, ParseInv, RespondInv, SegmentsDoNotMatter, Loop
  <2>8. QED
    BY <1>1, <2>7 DEF IInv
<1>9. ASSUME NEW e \in LineEnds, LineFound(p, e), ~Blank(p, e), HasColon(p, e), retired(e - p),
             header_' = header_ \cup {p}, UNCHANGED ret_code_, Loop
      PROVE  IInv'
  <2>1. e = x /\ x <= recver_.to /\ p <= x - 2
    BY <1>6, <1>9 DEF LineFound
  <2>2. k < wire.headers
    BY <1>4, <1>5, <1>6, <1>9, <2>1
  <2>3. ~(wire.flaw = "colon" /\ k + 1 = wire.headers)
    BY <1>6, <1>9, <2>1, <2>2
  <2>4. e - p <= Readable /\ e - p \in Nat
    BY <1>5, <1>p, <2>1 DEF Readable
  <2>5. recver_'.to = recver_.to /\ recver_'.from = x
    <3>1. recver_'.to = recver_.to /\ recver_'.from = recver_.from + (e - p)
      BY <1>1, <1>9, <2>4, Retired
    <3>2. p + (x - p) = x
      OBVIOUS
    <3>3. QED
      BY <1>p, <2>1, <3>1, <3>2
  <2>6. x = HeaderLineEnd(k + 1)
    BY <1>6, <2>2 DEF NextEnd
  <2>7. header_' = Lines(k + 1)
    <3>1. Lines(k + 1) = Lines(k) \cup {HeaderLineEnd(k)}
      BY <1>5, LinesOf
    <3>2. QED
      BY <1>4, <1>9, <1>p, <3>1 DEF AtLine
  <2>8. InHeader'
    <3>1. k + 1 \in 0..wire'.headers /\ (wire'.flaw = "colon" => k + 1 < wire'.headers)
      BY <1>3, <1>5, <2>2, <2>3
    <3>2. AtLine(k + 1)'
      BY <2>5, <2>6, <2>7, <3>1 DEF AtLine
    <3>3. QED
      BY <1>2, <1>3, <3>1, <3>2 DEF InHeader
  <2>9. ret_code_ \in {"REQUEST_LINE_DONE", "AGAIN_HEADER"}
    BY DEF parseRequestHeader
  <2>10. StreamInv' /\ ReadInv' /\ ParseInv' /\ RespondInv'
    BY <1>2, <1>3, <1>9, <2>5, <2>8, <2>9
    DEF IInv, StreamInv, ReadInv, ParseInv, RespondInv, SegmentsDoNotMatter, Loop
  <2>11. QED
    BY <1>1, <2>10 DEF IInv
<1>10. ASSUME NEW e \in LineEnds, LineFound(p, e), ~Blank(p, e), ~HasColon(p, e),
              Return("BAD_REQUEST"), UNCHANGED <<recver_, header_>>
       PROVE  IInv'
  <2>1. e = x
    BY <1>6, <1>10
  <2>2. k < wire.headers
    BY <1>4, <1>5, <1>6, <1>10, <2>1
  <2>3. wire.flaw = "colon"
    BY <1>6, <1>10, <2>1, <2>2
  <2>4. code' = "BAD_REQUEST" /\ pc' = "respond"
    BY <1>10 DEF Return
  <2>5. StreamInv' /\ ReadInv' /\ ParseInv' /\ RespondInv'
    BY <1>3, <1>10, <2>3, <2>4
    DEF IInv, StreamInv, ReadInv, ParseInv, RespondInv, SegmentsDoNotMatter
  <2>6. QED
    BY <1>1, <2>5 DEF IInv
<1>11. CASE WorkerLost /\ UNCHANGED <<ret_code_, recver_, header_>>
  <2>1. StreamInv' /\ ReadInv' /\ ParseInv' /\ RespondInv'
    BY <1>3, <1>11 DEF IInv, StreamInv, ReadInv, ParseInv, RespondInv, SegmentsDoNotMatter, WorkerLost
  <2>2. QED
    BY <1>1, <2>1 DEF IInv
<1>12. QED
  BY <1>7, <1>8, <1>9, <1>10, <1>11, <1>p DEF parseRequestHeader

LEMMA BodyParsed ==
    ASSUME CutsAllowed, IInv, pc = "parse", InBody, has_multipart_' = wire.multipart,
           parseRequestContent(wire.multipart),
           UNCHANGED <<wire, sent, context_, req_url_, header_>>
    PROVE  StreamInv' /\ ReadInv' /\ ParseInv' /\ RespondInv'
<1>1. TypeOK /\ context_ /\ recver_.to # 0
  BY DEF IInv, ParseInv
<1>2. recver_'.to = recver_.to
  BY <1>1, ContentType
<1>3. StreamInv'
  BY <1>2 DEF IInv, StreamInv
<1>4. CASE wire.multipart /\ ~(recver_.to = Size(wire) /\ Readable > 0)
  <2>1. /\ ret_code_' = "AGAIN_CONTENT" /\ pc' = "read" /\ UNCHANGED <<recver_, content>>
    BY <1>4 DEF parseRequestContent, Return
  <2>2. InMultipart'
    BY <1>4, <2>1 DEF InMultipart, InBody
  <2>3. recver_.to < Size(wire)
    <3>1. recver_.to # Size(wire)
      <4>1. wire.body > 0
        BY <1>4, Arrived, Layout
      <4>2. QED
        BY <1>4, <4>1, BodyHere
    <3>2. QED
      BY <3>1, Arrived
  <2>4. ReadInv'
    BY <1>1, <2>1, <2>2, <2>3 DEF ReadInv
  <2>5. QED
    BY <1>3, <2>1, <2>4 DEF ParseInv, RespondInv, SegmentsDoNotMatter
<1>5. CASE ~(wire.multipart /\ ~(recver_.to = Size(wire) /\ Readable > 0))
  <2>1. CASE ContentLost
    BY <1>3, <2>1 DEF ContentLost, WorkerLost, ReadInv, ParseInv, RespondInv, SegmentsDoNotMatter
  <2>2. CASE ~ContentLost
    <3>1. content' = Readable /\ code' = "REQUEST_CONTENT_DONE" /\ pc' = "respond"
      BY <1>5, <2>2 DEF parseRequestContent, Return
    <3>2. recver_.to = Size(wire) /\ Readable = wire.body
      BY <1>5, BodyHere
    <3>3. SegmentsDoNotMatter'
      BY <3>1, <3>2 DEF SegmentsDoNotMatter, InBody
    <3>4. QED
      BY <1>2, <1>3, <3>1, <3>2, <3>3 DEF ReadInv, ParseInv, RespondInv
  <2>3. QED
    BY <2>1, <2>2
<1>6. QED
  BY <1>4, <1>5

LEMMA HeaderDonePreserves ==
    ASSUME CutsAllowed, IInv, HeaderDone
    PROVE  IInv'
<1>1. TypeOK' /\ TypeOK
  BY BodyType DEF IInv
<1>2. pc = "parse" /\ InBody
  BY DEF IInv, ParseInv, HeaderDone
<1>3. /\ UNCHANGED <<wire, sent, context_, req_url_, header_, count>>
      /\ has_multipart_' = (wire.multipart /\ LineEnd \in header_)
  BY DEF HeaderDone
<1>4. header_ = Lines(wire.headers) /\ wire \in Requests /\ wire.headers \in Nat
  BY <1>2, Arrived DEF InBody
<1>5. /\ wire.headers > 0 => LineEnd \in header_
      /\ wire.multipart \in BOOLEAN /\ (wire.multipart => wire.headers > 0)
      /\ wire.body \in Nat /\ (wire.body > 0 => wire.headers > 0)
  BY <1>4, LinesOf, Layout
<1>6. has_multipart_' = wire.multipart
  BY <1>3, <1>5
<1>7. CASE header_ = {} /\ ~wire.http10
  <2>1. code' = "REQUEST_CONTENT_DONE" /\ pc' = "respond" /\ UNCHANGED <<recver_, content>>
    BY <1>7 DEF HeaderDone, Return
  <2>2. ~(wire.headers > 0)
    BY <1>5, <1>7
  <2>3. wire.body = 0 /\ ~wire.multipart
    BY <1>5, <2>2
  <2>4. recver_.to = Size(wire)
    BY <1>2, <2>3, BodyHere
  <2>5. SegmentsDoNotMatter'
    BY <1>2, <1>3, <1>6, <2>1, <2>3 DEF SegmentsDoNotMatter, InBody
  <2>6. StreamInv' /\ ReadInv' /\ ParseInv' /\ RespondInv'
    BY <1>3, <2>1, <2>4, <2>5 DEF IInv, StreamInv, ReadInv, ParseInv, RespondInv
  <2>7. QED
    BY <1>1, <2>6 DEF IInv
<1>8. CASE ~(header_ = {} /\ ~wire.http10)
  <2>1. CASE parseRequestContent(wire.multipart)
    <3>1. StreamInv' /\ ReadInv' /\ ParseInv' /\ RespondInv'
      BY <1>2, <1>3, <1>6, <2>1, BodyParsed
    <3>2. QED
      BY <1>1, <3>1 DEF IInv
  <2>2. CASE ValueLost
    <3>1. StreamInv' /\ ReadInv' /\ ParseInv' /\ RespondInv'
      BY <1>3, <2>2
      DEF IInv, StreamInv, ReadInv, ParseInv, RespondInv, SegmentsDoNotMatter, ValueLost, WorkerLost
    <3>2. QED
      BY <1>1, <3>1 DEF IInv
  <2>3. QED
    BY <1>6, <1>8, <2>1, <2>2 DEF HeaderDone
<1>9. QED
  BY <1>7, <1>8

LEMMA ContentAgainPreserves ==
    ASSUME CutsAllowed, IInv, ContentAgain
    PROVE  IInv'
<1>1. TypeOK'
  BY BodyType DEF IInv
<1>2. /\ pc = "parse" /\ InMultipart
      /\ UNCHANGED <<wire, sent, context_, req_url_, header_, has_multipart_>>
      /\ parseRequestContent(has_multipart_)
  BY DEF IInv, ParseInv, ContentAgain
<1>3. has_multipart_ = wire.multipart /\ InBody
  <2>1. has_multipart_ \in BOOLEAN /\ wire.multipart \in BOOLEAN
    BY Layout DEF IInv, TypeOK
  <2>2. QED
    BY <1>2, <2>1 DEF InMultipart
<1>4. has_multipart_' = wire.multipart /\ parseRequestContent(wire.multipart)
  BY <1>2, <1>3
<1>5. StreamInv' /\ ReadInv' /\ ParseInv' /\ RespondInv'
  BY <1>2, <1>3, <1>4, BodyParsed
<1>6. QED
  BY <1>1, <1>5 DEF IInv

LEMMA RespondPreserves ==
    ASSUME CutsAllowed, IInv, Respond
    PROVE  IInv'
<1>1. TypeOK'
  BY RespondType DEF IInv
<1>2. /\ pc = "respond" /\ context_' = FALSE /\ UNCHANGED <<wire, sent>>
      /\ recver_'.from = recver_.to /\ recver_'.to = recver_.to
      /\ pc' \in {"read", "closed"} /\ (pc' = "read" => code # "BAD_REQUEST")
  BY DEF Respond, DeleteRequest, Empty
<1>3. code # "BAD_REQUEST" => recver_.to = Size(wire)
  BY <1>2 DEF IInv, RespondInv
<1>4. StreamInv' /\ ReadInv' /\ ParseInv' /\ RespondInv'
  BY <1>2, <1>3 DEF IInv, StreamInv, ReadInv, ParseInv, RespondInv, SegmentsDoNotMatter
<1>5. QED
  BY <1>1, <1>4 DEF IInv

LEMMA ClosePreserves ==
    ASSUME IInv, Close
    PROVE  IInv'
<1>1. TypeOK'
  BY RespondType DEF IInv
<1>2. pc' = "closed" /\ UNCHANGED <<wire, sent, recver_>>
  BY DEF Close
<1>3. StreamInv' /\ ReadInv' /\ ParseInv' /\ RespondInv'
  BY <1>2 DEF IInv, StreamInv, ReadInv, ParseInv, RespondInv, SegmentsDoNotMatter
<1>4. QED
  BY <1>1, <1>3 DEF IInv

LEMMA StutterPreserves ==
    ASSUME IInv, UNCHANGED vars
    PROVE  IInv'
<1>1. TypeOK' = TypeOK /\ StreamInv' = StreamInv
  BY DEF TypeOK, StreamInv, vars, request
<1>2. InHeader' = InHeader /\ InBody' = InBody /\ InMultipart' = InMultipart /\ NoLine' = NoLine
  BY DEF InHeader, InBody, InMultipart, NoLine, AtLine, LineFound, LineEnds, vars, request
<1>3. ReadInv' /\ ParseInv'
  BY <1>2 DEF IInv, ReadInv, ParseInv, vars, request
<1>4. RespondInv'
  BY DEF IInv, RespondInv, SegmentsDoNotMatter, vars, request
<1>5. QED
  BY <1>1, <1>3, <1>4 DEF IInv

LEMMA NextPreservesIInv ==
    ASSUME CutsAllowed, IInv, [Next]_vars
    PROVE  IInv'
<1>1. CASE UNCHANGED vars
  BY <1>1, StutterPreserves
<1>2. ASSUME NEW n \in Cuts(wire), Arrive(n) PROVE IInv'
  BY <1>2, ArrivePreserves
<1>3. ASSUME NEW r \in Requests, NextRequest(r) PROVE IInv'
  BY <1>3, NextRequestPreserves
<1>4. CASE Close
  BY <1>4, ClosePreserves
<1>5. CASE onMessage
  BY <1>5, OnMessagePreserves
<1>6. CASE parseRequestLine
  BY <1>6, LinePreserves
<1>7. CASE parseRequestHeader
  BY <1>7, HeaderPreserves
<1>8. CASE HeaderDone
  BY <1>8, HeaderDonePreserves
<1>9. CASE ContentAgain
  BY <1>9, ContentAgainPreserves
<1>10. CASE Respond
  BY <1>10, RespondPreserves
<1>11. QED
  BY <1>1, <1>2, <1>3, <1>4, <1>5, <1>6, <1>7, <1>8, <1>9, <1>10 DEF Next, parseRequest

(***************************************************************************)
(* Invariance: the inductive invariant holds if no segment ends in the     *)
(* request line or in a body that is not multipart (HttpRequest.cc 50-198).*)
(***************************************************************************)
THEOREM Invariance ==
    ASSUME CutsAllowed
    PROVE  Spec => []IInv
<1>1. IInv /\ [Next]_vars => IInv'
  BY NextPreservesIInv
<1>2. QED
  BY <1>1, InitImpliesIInv, PTL DEF Spec

(***************************************************************************)
(* SegmentsDoNotMatterAlways: however the header lines and a multipart     *)
(* body are cut into segments, parseRequest() ends with the header lines   *)
(* and the body that were sent, or rejects a request with a bad version or *)
(* a line without a colon; it answers no other way, but may lose the       *)
(* worker (HttpRequest.cc 50-198).                                         *)
(***************************************************************************)
THEOREM SegmentsDoNotMatterAlways ==
    ASSUME CutsAllowed
    PROVE  Spec => []SegmentsDoNotMatter
<1>1. IInv => SegmentsDoNotMatter
  BY DEF IInv, RespondInv
<1>2. QED
  BY <1>1, Invariance, PTL

(***************************************************************************)
(* ResumesWhereItStoppedAlways: between two segments the receive buffer    *)
(* begins at the first header line that is not complete, or at a multipart *)
(* body: no line is lost and none is parsed twice (HttpRequest.cc 152-198).*)
(***************************************************************************)
THEOREM ResumesWhereItStoppedAlways ==
    ASSUME CutsAllowed
    PROVE  Spec => []ResumesWhereItStopped
<1>1. IInv => ResumesWhereItStopped
  <2> SUFFICES ASSUME IInv, pc = "read", context_ PROVE ResumesWhereItStopped
    BY DEF ResumesWhereItStopped
  <2>1. CASE ret_code_ = "AGAIN_HEADER" /\ InHeader /\ NoLine
    <3>1. \E k \in 0..wire.headers : header_ = Lines(k) /\ recver_.from = HeaderLineEnd(k)
      BY <2>1 DEF InHeader, AtLine
    <3>2. QED
      BY <2>1, <3>1 DEF ResumesWhereItStopped, NoLine
  <2>2. CASE ret_code_ = "AGAIN_CONTENT" /\ InMultipart /\ recver_.to < Size(wire)
    BY <2>2 DEF ResumesWhereItStopped, InMultipart, InBody
  <2>3. QED
    BY <2>1, <2>2 DEF IInv, ReadInv
<1>2. QED
  BY <1>1, Invariance, PTL
=============================================================================
