------------------------------- MODULE Buffer -------------------------------
(***************************************************************************)
(* Buffer: a vector of bytes with two indices, into which a channel reads  *)
(* and from which the parser takes.  The other modules take a Buffer for   *)
(* the interval of the bytes that were appended and not retired; this one  *)
(* shows that the vector holds just these, wherever makeSpace() moves them *)
(* and whatever is left in front of them or behind.  A byte is its         *)
(* position in the stream, and 0 is what a vector is filled with.          *)
(***************************************************************************)
EXTENDS Integers, Sequences

CONSTANTS init_size,
          MaxLen,        \* the most bytes that are appended at a time: kBufferSize, or a file of 4 M
          MaxReadable,   \* the most bytes that wait in the buffer: the longest request
          MaxBytes       \* bound: bytes appended in all

ASSUME BufferAssumption == /\ init_size \in Nat /\ MaxLen \in Nat
                           /\ MaxReadable \in Nat /\ MaxBytes \in Nat

VARIABLES vector_,    \* buffer_
          rindex_, windex_,
          len,        \* how many bytes are being appended
          bufPc,      \* "idle", "room" after ensureWritable(), "copied" before hasWritten()
          appended,   \* bytes that the callers have appended
          consumed    \* bytes that the callers have retired

bufVars == <<vector_, rindex_, windex_, len, bufPc, appended, consumed>>
indices == <<rindex_, windex_>>
stream == <<appended, consumed>>

size == Len(vector_)
readable == windex_ - rindex_
writable == size - windex_

BufInit == /\ vector_ = [i \in 1..init_size |-> 0]
           /\ rindex_ = 0 /\ windex_ = 0
           /\ len = 0 /\ bufPc = "idle"
           /\ appended = 0 /\ consumed = 0

(* No buffer is looked at. *)
BufIdle == /\ vector_ = <<>> /\ rindex_ = 0 /\ windex_ = 0
           /\ len = 0 /\ bufPc = "none"
           /\ appended = 0 /\ consumed = 0
-----------------------------------------------------------------------------
(* Faulty variants of definitions below, as in Session. *)
AlwaysResize(n) ==
    /\ vector_' = [i \in 1..(windex_ + n + 1) |-> IF i <= size THEN vector_[i] ELSE 0]
    /\ UNCHANGED indices

ResizeToLength(n) ==
    /\ vector_' = [i \in 1..(n + 1) |-> IF i <= size THEN vector_[i] ELSE 0]
    /\ UNCHANGED indices

MoveUnread(n) ==
    /\ vector_' = [i \in 1..size |-> IF i <= readable THEN vector_[rindex_ + i] ELSE vector_[i]]
    /\ rindex_' = 0 /\ UNCHANGED windex_
-----------------------------------------------------------------------------
(* resize() keeps what is there; the bytes to be read stay where they are. *)
Resize(n) == /\ vector_' = [i \in 1..(windex_ + n + 1) |-> IF i <= size THEN vector_[i] ELSE 0]
             /\ UNCHANGED indices

(* The bytes to be read go to the beginning, over those that were read. *)
Move(n) == /\ vector_' = [i \in 1..size |-> IF i <= readable THEN vector_[rindex_ + i] ELSE vector_[i]]
           /\ rindex_' = 0 /\ windex_' = readable

makeSpace(n) == IF rindex_ + writable < n THEN Resize(n) ELSE Move(n)

(***************************************************************************)
(* append(), and what HttpResponseBuilder::build() does with a file:       *)
(* ensureWritable(n), n bytes written from beginWrite() on, hasWritten(n). *)
(***************************************************************************)
ensureWritable(n) ==
    /\ bufPc = "idle"
    /\ readable + n <= MaxReadable /\ appended + n <= MaxBytes
    /\ IF writable < n THEN makeSpace(n) ELSE UNCHANGED <<vector_, indices>>
    /\ len' = n /\ bufPc' = "room"
    /\ UNCHANGED stream

copy == /\ bufPc = "room"
        /\ vector_' = [i \in 1..size |-> IF i \in (windex_ + 1)..(windex_ + len)
                                         THEN appended + (i - windex_) ELSE vector_[i]]
        /\ bufPc' = "copied"
        /\ UNCHANGED <<indices, len, stream>>

hasWritten == /\ bufPc = "copied"
              /\ windex_' = windex_ + len
              /\ appended' = appended + len
              /\ len' = 0 /\ bufPc' = "idle"
              /\ UNCHANGED <<vector_, rindex_, consumed>>

(* The caller has used n bytes, or all if there are not more. *)
Advance(n) == IF n < readable THEN rindex_' = rindex_ + n /\ UNCHANGED windex_
              ELSE rindex_' = 0 /\ windex_' = 0

retired(n) == /\ bufPc = "idle"
              /\ Advance(n)
              /\ consumed' = IF n < appended - consumed THEN consumed + n ELSE appended
              /\ UNCHANGED <<vector_, len, bufPc, appended>>

(* retiredAll(), and reset() between two requests. *)
reset == /\ bufPc = "idle"
         /\ rindex_' = 0 /\ windex_' = 0
         /\ consumed' = appended
         /\ UNCHANGED <<vector_, len, bufPc, appended>>

BufNext == \/ \E n \in 0..MaxLen : ensureWritable(n)
           \/ copy \/ hasWritten
           \/ \E n \in 0..MaxReadable : retired(n)
           \/ reset

BufSpec == BufInit /\ [][BufNext]_bufVars
-----------------------------------------------------------------------------
BufTypeOK == /\ vector_ \in Seq(0..MaxBytes)
             /\ rindex_ \in Nat /\ windex_ \in Nat /\ rindex_ <= windex_ /\ windex_ <= size
             /\ len \in 0..MaxLen
             /\ bufPc \in {"idle", "room", "copied"}
             /\ appended \in 0..MaxBytes /\ consumed \in 0..appended

(***************************************************************************)
(* ReadableExact: between peek() and beginWrite() are just the bytes that  *)
(* were appended and not retired, each once and in order, after any        *)
(* sequence of resizes and moves: what HttpRequest, Channel and FastCgi    *)
(* take a Buffer for (Buffer.h 18-31 and 64-73).                           *)
(***************************************************************************)
ReadableExact == /\ readable = appended - consumed
                 /\ \A i \in 1..readable : vector_[rindex_ + i] = consumed + i

(***************************************************************************)
(* RoomForWrite: the bytes that append() copies and that a read() of a     *)
(* file stores from beginWrite() on are inside the vector, whichever way   *)
(* makeSpace() took (Buffer.h 44-59, HttpResponse.cc 121-124).             *)
(***************************************************************************)
RoomForWrite == bufPc \in {"room", "copied"} => windex_ + len <= size

(***************************************************************************)
(* SizeBounded: a buffer that lives as long as its connection does not     *)
(* grow with the bytes that pass through it, although makeSpace() resizes  *)
(* from windex_ on and leaves the bytes that were read in front: it is     *)
(* never larger than the longest request and one more read                 *)
(* (Buffer.h 64-66).                                                       *)
(***************************************************************************)
SizeBounded == size <= init_size \/ size <= MaxReadable + MaxLen
=============================================================================
