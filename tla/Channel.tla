------------------------------ MODULE Channel -------------------------------
(***************************************************************************)
(* How a response leaves the server: HttpResponseBuilder::build() fills    *)
(* the sender buffer of the channel and may attach a mapped file or a file *)
(* for sendfile(); TcpConnection::write() calls RawChannel::write() or     *)
(* SslChannel::write() until everything is sent or the socket blocks; and  *)
(* the byte counters of the channel carry over from call to call.          *)
(*                                                                         *)
(* Bytes are positions: of the response on the wire, 0 is the first byte   *)
(* of the header.  stream.next is the position the peer expects, and       *)
(* stream.torn becomes TRUE when another one is sent to it.                *)
(***************************************************************************)
EXTENDS Integers

CONSTANTS MaxHeader,      \* bound: length of a status line and header
          MaxBody,        \* bound: length of a body
          Threshold,      \* build(): a larger file is mapped, not read (4M in the code)
          MaxResponses    \* bound: responses on one connection

ASSUME SizesAssumption == /\ MaxHeader \in Nat \ {0}
                          /\ MaxBody \in Nat
                          /\ Threshold \in Nat
                          /\ MaxResponses \in Nat

VARIABLES type,           \* "Raw" or "Ssl"
          sendfile_,      \* whether the channel supports sendfile()
          sender_,        \* the number of readable bytes of the sender buffer
          mmap_obj_,      \* the mapped file
          sfile_obj_,     \* the file for sendfile()
          send_bytes_, remain_bytes_, wsend_bytes_,   \* the counters
          resp,           \* the response that build() was asked for
          stream,         \* what the peer was sent of it
          pc,             \* of the connection's worker: "idle", "write", "blocked", "done"
          count           \* responses so far

counters == <<send_bytes_, remain_bytes_, wsend_bytes_>>
channel == <<type, sendfile_, sender_, mmap_obj_, sfile_obj_, counters>>
vars == <<channel, resp, stream, pc, count>>

NoObject == [size |-> 0, of |-> 0, offset |-> 0]
NoResponse == [header |-> 0, length |-> 0, head |-> FALSE, mapped |-> TRUE]
Fresh == [next |-> 0, torn |-> FALSE, alien |-> FALSE]

Init == /\ type \in {"Raw", "Ssl"}
        /\ sendfile_ \in IF type = "Raw" THEN BOOLEAN ELSE {FALSE}
        /\ sender_ = 0
        /\ mmap_obj_ = NoObject /\ sfile_obj_ = NoObject
        /\ send_bytes_ = 0 /\ remain_bytes_ = 0 /\ wsend_bytes_ = 0
        /\ resp = NoResponse
        /\ stream = Fresh
        /\ pc = "idle"
        /\ count = 0

(* A mapped or attached file of no bytes is as good as none. *)
Attached(o) == o.size > 0
-----------------------------------------------------------------------------
(***************************************************************************)
(* build(): h bytes of header and a body of b bytes, from a file or from   *)
(* tmp_buffer_; g > 0 is the size gzip compresses it to; fails is TRUE if  *)
(* mmap() returns MAP_FAILED.                                              *)
(***************************************************************************)
ViaSendfile(file) == file /\ sendfile_
ViaMmap(file, b) == file /\ ~sendfile_ /\ b > Threshold

(* Content-Length, makeHeaderPart(sv.second). *)
Length(file, b, g) == IF g > 0 /\ ~ViaSendfile(file) THEN g ELSE b

build(h, file, b, g, head, fails) ==
    LET zip == g > 0 /\ ~ViaSendfile(file)
        length == Length(file, b, g)
        object == [size |-> b, of |-> count + 1, offset |-> 0]
    IN
    /\ pc = "idle"
    /\ count < MaxResponses
    /\ g > 0 => b > 0
    /\ fails => ViaMmap(file, b) /\ ~zip
    /\ sfile_obj_' = IF ViaSendfile(file) /\ ~Attached(sfile_obj_) THEN object ELSE sfile_obj_
    /\ mmap_obj_' = IF ViaMmap(file, b) /\ ~Attached(mmap_obj_) /\ ~fails /\ (head \/ ~zip)
                    THEN object
                    ELSE IF zip /\ ~head THEN NoObject ELSE mmap_obj_
    /\ sender_' = IF head \/ (~zip /\ (ViaSendfile(file) \/ ViaMmap(file, b)))
                  THEN sender_ + h ELSE sender_ + h + length
    /\ resp' = [header |-> h, length |-> length, head |-> head, mapped |-> ~fails]
    /\ stream' = Fresh
    /\ pc' = "write"
    /\ count' = count + 1
    /\ UNCHANGED <<type, sendfile_, counters>>

(***************************************************************************)
(* One call of write(): what it computes before the system call.           *)
(***************************************************************************)
InBuffer == send_bytes_ < sender_
Rest == sender_ - send_bytes_
UsesSendfile == type = "Raw" /\ ~InBuffer /\ ~Attached(mmap_obj_) /\ Attached(sfile_obj_)

(* remain_bytes_ before the call. *)
Remaining ==
    IF InBuffer
    THEN IF Attached(mmap_obj_) THEN Rest + mmap_obj_.size
         ELSE IF type = "Raw" THEN Rest + sfile_obj_.size ELSE Rest
    ELSE IF type = "Ssl" /\ Attached(mmap_obj_) THEN mmap_obj_.size - send_bytes_ + sender_
         ELSE remain_bytes_

(* The length passed to writev() or SSL_write(), or what sendfile() can still read. *)
Offered ==
    IF UsesSendfile THEN sfile_obj_.size - sfile_obj_.offset
    ELSE IF InBuffer
         THEN IF type = "Raw" /\ Attached(mmap_obj_) THEN Rest + mmap_obj_.size ELSE Rest
         ELSE IF Attached(mmap_obj_) THEN mmap_obj_.size - send_bytes_ + sender_
              ELSE IF type = "Ssl" THEN wsend_bytes_ ELSE 0

(* The position on the wire of the first byte offered: where the address points to. *)
From == IF UsesSendfile THEN sender_ + sfile_obj_.offset ELSE send_bytes_

(* The file that the bytes come from belongs to an earlier response. *)
Alien == \/ UsesSendfile /\ sfile_obj_.of # count
         \/ ~UsesSendfile /\ Attached(mmap_obj_) /\ mmap_obj_.of # count

wsend == IF type = "Ssl" /\ (InBuffer \/ Attached(mmap_obj_)) THEN Offered ELSE wsend_bytes_
-----------------------------------------------------------------------------
(***************************************************************************)
(* Faulty variants of definitions below.  Next does not use them: each is  *)
(* a plausible mistake in the code that a property must reject.            *)
(***************************************************************************)
ResetKeepsObjects == /\ send_bytes_' = 0 /\ remain_bytes_' = 0 /\ wsend_bytes_' = 0
                     /\ sender_' = 0
                     /\ UNCHANGED <<mmap_obj_, sfile_obj_>>

AdvanceTwice(n) == /\ send_bytes_' = send_bytes_ + n
                   /\ remain_bytes_' = Remaining - 2 * n
                   /\ wsend_bytes_' = wsend

AdvanceSendOnly(n) == /\ send_bytes_' = send_bytes_ + n
                      /\ remain_bytes_' = Remaining
                      /\ wsend_bytes_' = wsend
-----------------------------------------------------------------------------
(* reset(), when all data is sent. *)
reset == /\ send_bytes_' = 0 /\ remain_bytes_' = 0 /\ wsend_bytes_' = 0
         /\ sender_' = 0
         /\ mmap_obj_' = NoObject /\ sfile_obj_' = NoObject

(* n >= 0 bytes were taken. *)
Advance(n) == /\ send_bytes_' = send_bytes_ + n
              /\ remain_bytes_' = Remaining - n
              /\ wsend_bytes_' = wsend

(* SSL_write() takes all or nothing; writev() and sendfile() any part. *)
Amounts == IF type = "Ssl" \/ Offered = 0 THEN {Offered} ELSE 1..Offered

(***************************************************************************)
(* TcpConnection::write(): again until cflag (remain_bytes_ <= 0).         *)
(***************************************************************************)
write(n) ==
    /\ pc = "write"
    /\ stream' = [next |-> stream.next + n,
                  torn |-> stream.torn \/ (n > 0 /\ From # stream.next),
                  alien |-> stream.alien \/ (n > 0 /\ Alien)]
    /\ IF Remaining - n <= 0
       THEN reset /\ pc' = "done"
       ELSE /\ Advance(n)
            /\ sfile_obj_' = IF UsesSendfile THEN [sfile_obj_ EXCEPT !.offset = @ + n]
                             ELSE sfile_obj_
            /\ pc' = "write"
            /\ UNCHANGED <<sender_, mmap_obj_>>
    /\ UNCHANGED <<type, sendfile_, resp, count>>

(* The system call fails, with EAGAIN or another error: n < 0. *)
WouldBlock == /\ pc = "write"
              /\ Offered > 0
              /\ remain_bytes_' = Remaining
              /\ wsend_bytes_' = wsend
              /\ pc' = "blocked"
              /\ UNCHANGED <<type, sendfile_, sender_, mmap_obj_, sfile_obj_, send_bytes_,
                             resp, stream, count>>

(* EPOLLOUT was reported and onWrite() is called again. *)
Writable == /\ pc = "blocked"
            /\ pc' = "write"
            /\ UNCHANGED <<channel, resp, stream, count>>

(* A keep-alive connection goes on to its next request. *)
NextRequest == /\ pc = "done"
               /\ pc' = "idle"
               /\ UNCHANGED <<channel, resp, stream, count>>

Next == \/ \E h \in 1..MaxHeader, b, g \in 0..MaxBody, file, head, fails \in BOOLEAN :
             build(h, file, b, g, head, fails)
        \/ \E n \in Amounts : write(n)
        \/ WouldBlock \/ Writable \/ NextRequest

Spec == Init /\ [][Next]_vars
(* The peer keeps reading: a blocked socket does not block for ever. *)
FairSpec == Spec /\ WF_vars(Writable) /\ WF_vars(NextRequest)
                 /\ SF_vars(\E n \in Amounts : write(n))
-----------------------------------------------------------------------------
MaxTotal == MaxHeader + MaxBody

TypeOK == /\ type \in {"Raw", "Ssl"} /\ sendfile_ \in BOOLEAN
          /\ sender_ \in 0..MaxTotal
          /\ mmap_obj_ \in [size : 0..MaxBody, of : 0..MaxResponses, offset : {0}]
          /\ sfile_obj_ \in [size : 0..MaxBody, of : 0..MaxResponses, offset : 0..MaxBody]
          /\ send_bytes_ \in 0..MaxTotal
          /\ remain_bytes_ \in 0..MaxTotal
          /\ wsend_bytes_ \in 0..MaxTotal
          /\ resp \in [header : 0..MaxHeader, length : 0..MaxBody, head : BOOLEAN, mapped : BOOLEAN]
          /\ stream \in [next : 0..MaxTotal, torn : BOOLEAN, alien : BOOLEAN]
          /\ pc \in {"idle", "write", "blocked", "done"}
          /\ count \in 0..MaxResponses

(***************************************************************************)
(* InOrder: whatever the kernel takes at a time and however often it       *)
(* blocks, each byte of a response is sent once, in order, across the      *)
(* boundary between the buffer and the file, and comes from this response  *)
(* (Channel.cc 34-66, 83-136).                                             *)
(***************************************************************************)
InOrder == ~stream.torn /\ ~stream.alien

(***************************************************************************)
(* Framed: when write() reports completion, the peer has got exactly the   *)
(* header and the Content-Length bytes that the header promised.           *)
(***************************************************************************)
Framed == pc = "done" /\ ~resp.head /\ resp.mapped
             => stream.next = resp.header + resp.length

(***************************************************************************)
(* CountersInv: the inductive invariant behind InOrder and Framed.  Total  *)
(* is what the channel holds of the response; the counters and the offset  *)
(* of the attached file all say the same about how much of it has gone.    *)
(***************************************************************************)
Sending == pc \in {"write", "blocked"}
Total == sender_ + mmap_obj_.size + sfile_obj_.size

CountersInv ==
    /\ sendfile_ => type = "Raw"
    /\ ~Sending => /\ sender_ = 0 /\ send_bytes_ = 0 /\ remain_bytes_ = 0 /\ wsend_bytes_ = 0
                   /\ mmap_obj_ = NoObject /\ sfile_obj_ = NoObject
    /\ Sending => /\ send_bytes_ < Total /\ Total <= MaxTotal /\ sender_ > 0
                  /\ stream.next = send_bytes_
                  /\ send_bytes_ >= sender_ => remain_bytes_ = Total - send_bytes_
                  /\ Attached(mmap_obj_) => mmap_obj_.of = count /\ ~Attached(sfile_obj_)
                  /\ Attached(sfile_obj_) => sfile_obj_.of = count /\ type = "Raw"
                  /\ sfile_obj_.offset = IF Attached(sfile_obj_) /\ send_bytes_ > sender_
                                         THEN send_bytes_ - sender_ ELSE 0
                  /\ ~resp.head /\ resp.mapped => Total = resp.header + resp.length

(***************************************************************************)
(* HeadHasNoBody: the response to HEAD ends with its header: build()       *)
(* returns before it appends the body ("HEAD method", HttpResponse.cc 148).*)
(***************************************************************************)
HeadHasNoBody == pc = "done" /\ resp.head => stream.next = resp.header

(* WriteEnds: the loop of TcpConnection::write() completes each response. *)
WriteEnds == pc = "write" ~> pc = "done"
=============================================================================
