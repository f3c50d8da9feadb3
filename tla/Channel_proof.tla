--------------------------- MODULE Channel_proof ----------------------------
(***************************************************************************)
(* Proofs about Channel: for all sizes of headers, bodies and files, and   *)
(* for every way the kernel may split a response, the response arrives     *)
(* complete and in order.                                                  *)
(***************************************************************************)
EXTENDS Channel, TLAPS

IInv == TypeOK /\ CountersInv /\ InOrder /\ Framed

(***************************************************************************)
(* What one call of write() computes: remain_bytes_ is what is left of the *)
(* response, the call offers a part of it that is not empty, the bytes     *)
(* offered start where the peer's stream ends, and they are this           *)
(* response's (Channel.cc 42-54 and 95-119).                               *)
(***************************************************************************)
LEMMA WriteComputes ==
    ASSUME IInv, pc = "write"
    PROVE  /\ Remaining = Total - send_bytes_
           /\ Offered \in 1..Remaining
           /\ From = stream.next
           /\ ~Alien
           /\ wsend \in 0..MaxTotal
           /\ UsesSendfile => /\ send_bytes_ >= sender_
                              /\ Attached(sfile_obj_)
                              /\ Offered = sfile_obj_.size - sfile_obj_.offset
           /\ ~UsesSendfile /\ Attached(sfile_obj_) => send_bytes_ + Offered <= sender_
<1> USE SizesAssumption
<1>1. /\ sender_ \in Nat /\ send_bytes_ \in Nat /\ remain_bytes_ \in Nat /\ wsend_bytes_ \in 0..MaxTotal
      /\ mmap_obj_.size \in Nat /\ sfile_obj_.size \in Nat /\ sfile_obj_.offset \in Nat
      /\ MaxTotal \in Nat /\ type \in {"Raw", "Ssl"}
  BY DEF IInv, TypeOK, MaxTotal
<1>2. /\ send_bytes_ < Total /\ Total <= MaxTotal /\ sender_ > 0
      /\ stream.next = send_bytes_
      /\ send_bytes_ >= sender_ => remain_bytes_ = Total - send_bytes_
      /\ Attached(mmap_obj_) => mmap_obj_.of = count /\ ~Attached(sfile_obj_)
      /\ Attached(sfile_obj_) => sfile_obj_.of = count /\ type = "Raw"
      /\ sfile_obj_.offset = IF Attached(sfile_obj_) /\ send_bytes_ > sender_
                             THEN send_bytes_ - sender_ ELSE 0
  BY DEF IInv, CountersInv, Sending
<1>3. CASE InBuffer
  BY <1>1, <1>2, <1>3 DEF Remaining, Offered, From, Alien, wsend, UsesSendfile, InBuffer,
                          Rest, Attached, Total
<1>4. CASE ~InBuffer /\ Attached(mmap_obj_)
  BY <1>1, <1>2, <1>4 DEF Remaining, Offered, From, Alien, wsend, UsesSendfile, InBuffer,
                          Rest, Attached, Total
<1>5. CASE ~InBuffer /\ ~Attached(mmap_obj_)
  BY <1>1, <1>2, <1>5 DEF Remaining, Offered, From, Alien, wsend, UsesSendfile, InBuffer,
                          Rest, Attached, Total
<1>6. QED
  BY <1>3, <1>4, <1>5

(***************************************************************************)
(* build() starts a response on an idle channel: the buffer and the file   *)
(* it attaches hold the whole response (HttpResponse.cc 80-160).           *)
(***************************************************************************)
LEMMA BuildPreserves ==
    ASSUME IInv, NEW h \in 1..MaxHeader, NEW b \in 0..MaxBody, NEW g \in 0..MaxBody,
           NEW file \in BOOLEAN, NEW head \in BOOLEAN, NEW fails \in BOOLEAN,
           build(h, file, b, g, head, fails)
    PROVE  IInv'
<1> USE SizesAssumption
<1>1. /\ type \in {"Raw", "Ssl"} /\ sendfile_ \in BOOLEAN /\ (sendfile_ => type = "Raw")
      /\ sender_ = 0 /\ send_bytes_ = 0 /\ remain_bytes_ = 0 /\ wsend_bytes_ = 0
      /\ mmap_obj_ = NoObject /\ sfile_obj_ = NoObject
      /\ count \in 0..MaxResponses /\ count < MaxResponses
  BY DEF IInv, TypeOK, CountersInv, Sending, build
<1>2. /\ Length(file, b, g) \in 0..MaxBody
      /\ count' = count + 1 /\ count' \in 0..MaxResponses
      /\ stream' = Fresh /\ pc' = "write"
      /\ type' = type /\ sendfile_' = sendfile_
      /\ send_bytes_' = 0 /\ remain_bytes_' = 0 /\ wsend_bytes_' = 0
      /\ resp' = [header |-> h, length |-> Length(file, b, g), head |-> head, mapped |-> ~fails]
  BY <1>1 DEF build, Length, counters
<1>3. /\ sender_' \in 1..MaxTotal
      /\ sfile_obj_' \in {NoObject, [size |-> b, of |-> count', offset |-> 0]}
      /\ mmap_obj_' \in {NoObject, [size |-> b, of |-> count', offset |-> 0]}
      /\ sfile_obj_' # NoObject => ViaSendfile(file) /\ sender_' = h
      /\ mmap_obj_' # NoObject => ViaMmap(file, b) /\ sender_' = h
      /\ sender_' # h => sender_' = h + Length(file, b, g)
      /\ Length(file, b, g) = 0 => b = 0
      /\ sender_' = h /\ ~head /\ ~fails =>
           \/ Length(file, b, g) = 0
           \/ /\ Length(file, b, g) = b
              /\ \/ sfile_obj_' = [size |-> b, of |-> count', offset |-> 0]
                 \/ mmap_obj_' = [size |-> b, of |-> count', offset |-> 0]
  BY <1>1, <1>2 DEF build, Length, ViaSendfile, ViaMmap, NoObject, Attached, MaxTotal
<1>4. TypeOK'
  BY <1>1, <1>2, <1>3 DEF TypeOK, NoObject, Fresh, MaxTotal
<1>5. CountersInv'
  <2>1. /\ ~(sfile_obj_' # NoObject /\ mmap_obj_' # NoObject)
        /\ sfile_obj_' # NoObject => type = "Raw"
    BY <1>1, <1>3 DEF ViaSendfile, ViaMmap
  <2>2. /\ Total' \in sender_'..MaxTotal
        /\ ~head /\ ~fails => Total' = h + Length(file, b, g)
    BY <1>2, <1>3, <2>1 DEF Total, NoObject, MaxTotal
  <2>3. /\ Attached(mmap_obj_)' => mmap_obj_'.of = count' /\ ~Attached(sfile_obj_)'
        /\ Attached(sfile_obj_)' => sfile_obj_'.of = count' /\ type' = "Raw"
        /\ sfile_obj_'.offset = 0
    BY <1>2, <1>3, <2>1 DEF Attached, NoObject
  <2>4. /\ stream'.next = 0
        /\ ~resp'.head /\ resp'.mapped => Total' = resp'.header + resp'.length
    BY <1>2, <2>2 DEF Fresh
  <2>5. /\ sendfile_' => type' = "Raw"
        /\ Sending'
    BY <1>1, <1>2 DEF Sending
  <2>6. /\ send_bytes_' < Total' /\ Total' <= MaxTotal /\ sender_' > 0
        /\ stream'.next = send_bytes_'
        /\ ~(send_bytes_' >= sender_') /\ ~(send_bytes_' > sender_')
    BY <1>2, <1>3, <2>2, <2>4 DEF MaxTotal
  <2>7. QED
    BY <2>3, <2>4, <2>5, <2>6 DEF CountersInv, MaxTotal
<1>6. InOrder' /\ Framed'
  BY <1>2 DEF InOrder, Framed, Fresh
<1>7. QED
  BY <1>4, <1>5, <1>6 DEF IInv

(***************************************************************************)
(* A call of write() that completes the response: what is sent is all that *)
(* the channel held, and reset() leaves the channel empty.                 *)
(***************************************************************************)
LEMMA LastWritePreserves ==
    ASSUME IInv, NEW n \in Amounts, write(n), Remaining - n <= 0
    PROVE  IInv'
<1> USE SizesAssumption
<1>1. pc = "write"
  BY DEF write
<1>2. /\ Remaining = Total - send_bytes_ /\ Offered \in 1..Remaining
      /\ From = stream.next /\ ~Alien
  BY <1>1, WriteComputes
<1>3. /\ Total \in Nat /\ send_bytes_ \in Nat /\ Total <= MaxTotal /\ MaxTotal \in Nat
      /\ stream.next = send_bytes_ /\ stream.torn = FALSE /\ stream.alien = FALSE
      /\ ~resp.head /\ resp.mapped => Total = resp.header + resp.length
  BY <1>1 DEF IInv, TypeOK, CountersInv, InOrder, Sending, Total, MaxTotal
<1>4. n \in Nat /\ n <= Remaining
  BY <1>2, <1>3 DEF Amounts
<1>5. send_bytes_ + n = Total
  BY <1>2, <1>3, <1>4
<1>6. stream' = [next |-> Total, torn |-> FALSE, alien |-> FALSE]
  BY <1>2, <1>3, <1>5 DEF write
<1>7. /\ reset /\ pc' = "done"
      /\ type' = type /\ sendfile_' = sendfile_ /\ resp' = resp /\ count' = count
  BY DEF write
<1>8. TypeOK'
  BY <1>3, <1>6, <1>7 DEF IInv, TypeOK, reset, NoObject, MaxTotal
<1>9. CountersInv'
  BY <1>7 DEF IInv, CountersInv, Sending, reset, NoObject
<1>10. InOrder' /\ Framed'
  BY <1>3, <1>6, <1>7 DEF InOrder, Framed
<1>11. QED
  BY <1>8, <1>9, <1>10 DEF IInv

(***************************************************************************)
(* A call of write() that leaves something to send: the counters and the   *)
(* offset of the attached file advance together, also when the call stops  *)
(* exactly at the boundary between the buffer and the file.                *)
(***************************************************************************)
LEMMA PartialWritePreserves ==
    ASSUME IInv, NEW n \in Amounts, write(n), ~(Remaining - n <= 0)
    PROVE  IInv'
<1> USE SizesAssumption
<1>1. pc = "write"
  BY DEF write
<1>2. /\ Remaining = Total - send_bytes_ /\ Offered \in 1..Remaining
      /\ From = stream.next /\ ~Alien /\ wsend \in 0..MaxTotal
      /\ UsesSendfile => /\ send_bytes_ >= sender_ /\ Attached(sfile_obj_)
                         /\ Offered = sfile_obj_.size - sfile_obj_.offset
      /\ ~UsesSendfile /\ Attached(sfile_obj_) => send_bytes_ + Offered <= sender_
  BY <1>1, WriteComputes
<1>3. /\ type \in {"Raw", "Ssl"} /\ sender_ \in Nat /\ send_bytes_ \in Nat
      /\ mmap_obj_.size \in Nat /\ sfile_obj_.size \in 0..MaxBody
      /\ sfile_obj_.offset \in 0..MaxBody /\ Total \in Nat /\ MaxTotal \in Nat
      /\ sfile_obj_ \in [size : 0..MaxBody, of : 0..MaxResponses, offset : 0..MaxBody]
  BY DEF IInv, TypeOK, Total, MaxTotal
<1>4. /\ send_bytes_ < Total /\ Total <= MaxTotal /\ sender_ > 0
      /\ stream.next = send_bytes_ /\ stream.torn = FALSE /\ stream.alien = FALSE
      /\ Attached(mmap_obj_) => mmap_obj_.of = count /\ ~Attached(sfile_obj_)
      /\ Attached(sfile_obj_) => sfile_obj_.of = count /\ type = "Raw"
      /\ sfile_obj_.offset = IF Attached(sfile_obj_) /\ send_bytes_ > sender_
                             THEN send_bytes_ - sender_ ELSE 0
      /\ ~resp.head /\ resp.mapped => Total = resp.header + resp.length
  BY <1>1 DEF IInv, TypeOK, CountersInv, InOrder, Sending
<1>5. n \in Nat /\ 1 <= n /\ n <= Offered
  BY <1>2, <1>3 DEF Amounts
<1>6. stream' = [next |-> send_bytes_ + n, torn |-> FALSE, alien |-> FALSE]
  BY <1>2, <1>4 DEF write
<1>7. /\ send_bytes_' = send_bytes_ + n /\ remain_bytes_' = Remaining - n /\ wsend_bytes_' = wsend
      /\ sfile_obj_' = IF UsesSendfile THEN [sfile_obj_ EXCEPT !.offset = @ + n] ELSE sfile_obj_
      /\ pc' = "write" /\ sender_' = sender_ /\ mmap_obj_' = mmap_obj_
      /\ type' = type /\ sendfile_' = sendfile_ /\ resp' = resp /\ count' = count
  BY DEF write, Advance
<1>8. /\ sfile_obj_' \in [size : 0..MaxBody, of : 0..MaxResponses, offset : 0..MaxBody]
      /\ sfile_obj_'.size = sfile_obj_.size /\ sfile_obj_'.of = sfile_obj_.of
      /\ sfile_obj_'.offset = IF UsesSendfile THEN sfile_obj_.offset + n ELSE sfile_obj_.offset
  BY <1>2, <1>3, <1>5, <1>7
<1>9. Total' = Total
  BY <1>7, <1>8 DEF Total
<1>10. send_bytes_' < Total /\ send_bytes_' \in Nat /\ remain_bytes_' = Total - send_bytes_'
  BY <1>2, <1>3, <1>5, <1>7
<1>11. TypeOK'
  <2>1. /\ send_bytes_' \in 0..MaxTotal /\ remain_bytes_' \in 0..MaxTotal
        /\ stream' \in [next : 0..MaxTotal, torn : BOOLEAN, alien : BOOLEAN]
    BY <1>3, <1>4, <1>6, <1>7, <1>10
  <2>2. QED
    BY <1>2, <1>7, <1>8, <2>1 DEF IInv, TypeOK, MaxTotal
<1>12. sfile_obj_'.offset = IF Attached(sfile_obj_) /\ send_bytes_' > sender_
                            THEN send_bytes_' - sender_ ELSE 0
  BY <1>2, <1>3, <1>4, <1>5, <1>7, <1>8
<1>13. CountersInv'
  <2>1. /\ sendfile_' => type' = "Raw"
        /\ Sending'
    BY <1>7 DEF IInv, CountersInv, Sending
  <2>2. Attached(sfile_obj_') <=> Attached(sfile_obj_)
    BY <1>8 DEF Attached
  <2>3. /\ Attached(mmap_obj_') => mmap_obj_'.of = count' /\ ~Attached(sfile_obj_')
        /\ Attached(sfile_obj_') => sfile_obj_'.of = count' /\ type' = "Raw"
        /\ sfile_obj_'.offset = IF Attached(sfile_obj_') /\ send_bytes_' > sender_'
                                THEN send_bytes_' - sender_' ELSE 0
    BY <1>4, <1>7, <1>8, <1>12, <2>2
  <2>4. /\ stream'.next = send_bytes_'
        /\ ~resp'.head /\ resp'.mapped => Total' = resp'.header + resp'.length
    BY <1>4, <1>6, <1>7, <1>9
  <2>5. QED
    BY <1>4, <1>7, <1>9, <1>10, <2>1, <2>3, <2>4 DEF CountersInv, MaxTotal
<1>14. InOrder' /\ Framed'
  BY <1>6, <1>7 DEF InOrder, Framed
<1>15. QED
  BY <1>11, <1>13, <1>14 DEF IInv

(***************************************************************************)
(* A call that fails with EAGAIN keeps what it has computed.               *)
(***************************************************************************)
LEMMA WouldBlockPreserves ==
    ASSUME IInv, WouldBlock
    PROVE  IInv'
<1> USE SizesAssumption
<1>1. pc = "write" /\ pc' = "blocked"
  BY DEF WouldBlock
<1>2. /\ Remaining = Total - send_bytes_ /\ wsend \in 0..MaxTotal
      /\ Remaining \in 0..MaxTotal
  <2>1. Total \in Nat /\ send_bytes_ \in Nat /\ Total <= MaxTotal /\ send_bytes_ < Total
        /\ MaxTotal \in Nat
    BY <1>1 DEF IInv, TypeOK, CountersInv, Sending, Total, MaxTotal
  <2>2. QED
    BY <1>1, <2>1, WriteComputes
<1>3. /\ remain_bytes_' = Remaining /\ wsend_bytes_' = wsend
      /\ type' = type /\ sendfile_' = sendfile_ /\ sender_' = sender_
      /\ mmap_obj_' = mmap_obj_ /\ sfile_obj_' = sfile_obj_ /\ send_bytes_' = send_bytes_
      /\ resp' = resp /\ stream' = stream /\ count' = count
  BY DEF WouldBlock
<1>4. TypeOK'
  BY <1>1, <1>2, <1>3 DEF IInv, TypeOK, MaxTotal
<1>5. CountersInv'
  <2>1. Sending /\ Sending' /\ Total' = Total
    BY <1>1, <1>3 DEF Sending, Total
  <2>2. QED
    BY <1>2, <1>3, <2>1 DEF IInv, CountersInv, MaxTotal, Attached
<1>6. InOrder' /\ Framed'
  BY <1>1, <1>3 DEF IInv, InOrder, Framed
<1>7. QED
  BY <1>4, <1>5, <1>6 DEF IInv

LEMMA InitImpliesIInv == Init => IInv
<1> SUFFICES ASSUME Init PROVE IInv
  OBVIOUS
<1> USE SizesAssumption
<1>1. TypeOK
  <2>1. type \in {"Raw", "Ssl"} /\ sendfile_ \in BOOLEAN
    BY DEF Init
  <2>2. resp \in [header : 0..MaxHeader, length : 0..MaxBody, head : BOOLEAN, mapped : BOOLEAN]
    BY DEF Init, NoResponse
  <2>3. stream \in [next : 0..MaxTotal, torn : BOOLEAN, alien : BOOLEAN]
    BY DEF Init, Fresh, MaxTotal
  <2>4. QED
    BY <2>1, <2>2, <2>3 DEF Init, TypeOK, NoObject, MaxTotal
<1>2. CountersInv
  BY DEF Init, CountersInv, Sending
<1>3. InOrder /\ Framed
  BY DEF Init, InOrder, Framed, Fresh
<1>4. QED
  BY <1>1, <1>2, <1>3 DEF IInv

(***************************************************************************)
(* Every step of the channel preserves the inductive invariant.            *)
(***************************************************************************)
LEMMA NextPreservesIInv == IInv /\ [Next]_vars => IInv'
<1> SUFFICES ASSUME IInv, [Next]_vars PROVE IInv'
  OBVIOUS
<1>1. ASSUME NEW h \in 1..MaxHeader, NEW b \in 0..MaxBody, NEW g \in 0..MaxBody,
             NEW file \in BOOLEAN, NEW head \in BOOLEAN, NEW fails \in BOOLEAN,
             build(h, file, b, g, head, fails)
      PROVE  IInv'
  BY <1>1, BuildPreserves
<1>2. ASSUME NEW n \in Amounts, write(n) PROVE IInv'
  BY <1>2, LastWritePreserves, PartialWritePreserves
<1>3. CASE WouldBlock
  BY <1>3, WouldBlockPreserves
<1>4. CASE Writable
  BY <1>4 DEF Writable, channel, counters, IInv, TypeOK, CountersInv, InOrder, Framed,
              Sending, Total, MaxTotal, Attached, NoObject
<1>5. CASE NextRequest
  BY <1>5 DEF NextRequest, channel, counters, IInv, TypeOK, CountersInv, InOrder, Framed,
              Sending, Total, MaxTotal, Attached, NoObject
<1>6. CASE UNCHANGED vars
  BY <1>6 DEF vars, channel, counters, IInv, TypeOK, CountersInv, InOrder, Framed,
              Sending, Total, MaxTotal, Attached, NoObject
<1>7. QED
  BY <1>1, <1>2, <1>3, <1>4, <1>5, <1>6 DEF Next

(***************************************************************************)
(* The strengthened invariant holds in every reachable state.              *)
(***************************************************************************)
THEOREM Invariance == Spec => []IInv
<1>1. QED
  BY InitImpliesIInv, NextPreservesIInv, PTL DEF Spec

(***************************************************************************)
(* Type correctness: no counter of the channel leaves its range, whatever  *)
(* the sizes (Channel.cc 34-66, 83-136).                                   *)
(***************************************************************************)
THEOREM TypeCorrect == Spec => []TypeOK
<1>1. IInv => TypeOK
  BY DEF IInv
<1>2. QED
  BY <1>1, Invariance, PTL

(***************************************************************************)
(* Each byte of every response is sent once, in order and from this        *)
(* response, for all sizes of header and file and however the kernel       *)
(* splits the response (Channel.cc 34-66, 83-136).                         *)
(***************************************************************************)
THEOREM InOrderAlways == Spec => []InOrder
<1>1. IInv => InOrder
  BY DEF IInv
<1>2. QED
  BY <1>1, Invariance, PTL

(***************************************************************************)
(* When write() reports completion, the peer has the header and the        *)
(* Content-Length bytes it promised (HttpResponse.cc 80-160 with           *)
(* Channel.cc).                                                            *)
(***************************************************************************)
THEOREM FramedAlways == Spec => []Framed
<1>1. IInv => Framed
  BY DEF IInv
<1>2. QED
  BY <1>1, Invariance, PTL

(***************************************************************************)
(* The counters agree with what the channel holds in every state, between  *)
(* calls of write() too (Channel.cc 42-62, 95-132).                        *)
(***************************************************************************)
THEOREM CountersAgree == Spec => []CountersInv
<1>1. IInv => CountersInv
  BY DEF IInv
<1>2. QED
  BY <1>1, Invariance, PTL
=============================================================================
