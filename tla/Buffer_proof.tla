---------------------------- MODULE Buffer_proof ----------------------------
(***************************************************************************)
(* Proofs about Buffer, for every initial size, every bound on what is     *)
(* appended at a time and on what waits in the buffer.                     *)
(***************************************************************************)
EXTENDS Buffer, TLAPS

(***************************************************************************)
(* What is known while an append is under way: the bytes fit the bounds,   *)
(* and after copy they stand from beginWrite() on, in the order of the     *)
(* stream, where hasWritten() makes them readable.                         *)
(***************************************************************************)
Appending == /\ bufPc \in {"room", "copied"}
                => readable + len <= MaxReadable /\ appended + len <= MaxBytes
             /\ bufPc = "copied" => \A i \in 1..len : vector_[windex_ + i] = appended + i
             /\ bufPc = "idle" => readable <= MaxReadable

IInv == BufTypeOK /\ ReadableExact /\ RoomForWrite /\ SizeBounded /\ Appending

(* A vector that is made element by element has just the elements it was made with. *)
LEMMA VectorMade ==
    ASSUME NEW S, NEW k \in Nat, NEW f \in [1..k -> S]
    PROVE  f \in Seq(S) /\ Len(f) = k
OBVIOUS

LEMMA VectorElements ==
    ASSUME NEW S, NEW s \in Seq(S)
    PROVE  /\ Len(s) \in Nat
           /\ \A i \in 1..Len(s) : s[i] \in S
OBVIOUS

(* The numbers that every step computes with, and the order they stand in. *)
Numbers == /\ MaxBytes \in Nat /\ MaxLen \in Nat /\ MaxReadable \in Nat /\ init_size \in Nat
           /\ Len(vector_) \in Nat /\ rindex_ \in Nat /\ windex_ \in Nat
           /\ rindex_ <= windex_ /\ windex_ <= Len(vector_)
           /\ len \in Nat /\ len <= MaxLen
           /\ appended \in Nat /\ consumed \in Nat /\ consumed <= appended /\ appended <= MaxBytes
           /\ readable \in Nat /\ readable = windex_ - rindex_
           /\ writable \in Nat /\ writable = Len(vector_) - windex_

LEMMA BufferFacts ==
    ASSUME IInv
    PROVE  Numbers /\ \A i \in 1..Len(vector_) : vector_[i] \in 0..MaxBytes
<1>1. vector_ \in Seq(0..MaxBytes)
  BY DEF IInv, BufTypeOK
<1>2. Len(vector_) \in Nat /\ \A i \in 1..Len(vector_) : vector_[i] \in 0..MaxBytes
  BY <1>1, VectorElements
<1> QED
  BY <1>2, BufferAssumption DEF Numbers, IInv, BufTypeOK, readable, writable, size

LEMMA InitIInv == BufInit => IInv
<1> SUFFICES ASSUME BufInit PROVE IInv
  OBVIOUS
<1>1. vector_ \in [1..init_size -> 0..MaxBytes]
  BY BufferAssumption DEF BufInit
<1>2. vector_ \in Seq(0..MaxBytes) /\ Len(vector_) = init_size
  BY <1>1, VectorMade, BufferAssumption
<1>3. BufTypeOK
  BY <1>2, BufferAssumption DEF BufInit, BufTypeOK, size
<1>4. ReadableExact
  BY DEF BufInit, ReadableExact, readable
<1>5. RoomForWrite /\ SizeBounded /\ Appending
  BY <1>2, BufferAssumption DEF BufInit, RoomForWrite, SizeBounded, Appending, size, readable
<1> QED
  BY <1>3, <1>4, <1>5 DEF IInv
-----------------------------------------------------------------------------
(* resize() is called only when the whole vector is smaller than what is waiting and what is
   coming, so the new one is smaller than the longest request and one more read. *)
LEMMA ResizeKeeps ==
    ASSUME IInv, NEW n \in 0..MaxLen, readable + n <= MaxReadable,
           rindex_ + writable < n, Resize(n)
    PROVE  /\ vector_' \in Seq(0..MaxBytes)
           /\ rindex_' = rindex_ /\ windex_' = windex_
           /\ Len(vector_') = windex_ + n + 1
           /\ \A i \in 1..readable : vector_'[rindex_ + i] = vector_[rindex_ + i]
           /\ Len(vector_') <= MaxReadable + MaxLen
<1>a. Numbers
  BY BufferFacts
<1>b. \A i \in 1..Len(vector_) : vector_[i] \in 0..MaxBytes
  BY BufferFacts
<1> USE <1>a DEF Numbers
<1>1. windex_ + n + 1 \in Nat /\ n \in Nat /\ n <= MaxLen
  OBVIOUS
<1>2. vector_' \in [1..(windex_ + n + 1) -> 0..MaxBytes]
  BY <1>1, <1>b DEF Resize, size
<1>3. vector_' \in Seq(0..MaxBytes) /\ Len(vector_') = windex_ + n + 1
  BY <1>1, <1>2, VectorMade
<1>4. ASSUME NEW i \in 1..readable
      PROVE  vector_'[rindex_ + i] = vector_[rindex_ + i]
  <2>1. rindex_ + i \in 1..(windex_ + n + 1) /\ rindex_ + i <= Len(vector_)
    BY <1>1
  <2> QED
    BY <2>1 DEF Resize, size
<1>5. Len(vector_) < MaxReadable
  OBVIOUS
<1>6. windex_ + n + 1 <= MaxReadable + MaxLen
  BY <1>1, <1>5
<1> QED
  BY <1>3, <1>4, <1>6 DEF Resize, indices

(* The move finds room behind the bytes that wait, and takes them along. *)
LEMMA MoveKeeps ==
    ASSUME IInv, NEW n \in 0..MaxLen, ~(rindex_ + writable < n), Move(n)
    PROVE  /\ vector_' \in Seq(0..MaxBytes)
           /\ rindex_' = 0 /\ windex_' = readable
           /\ Len(vector_') = Len(vector_)
           /\ \A i \in 1..readable : vector_'[i] = vector_[rindex_ + i]
           /\ readable + n <= Len(vector_)
<1>a. Numbers
  BY BufferFacts
<1>b. \A i \in 1..Len(vector_) : vector_[i] \in 0..MaxBytes
  BY BufferFacts
<1> USE <1>a DEF Numbers
<1>1. \A i \in 1..readable : rindex_ + i \in 1..Len(vector_) /\ i \in 1..Len(vector_)
  OBVIOUS
<1>2. vector_' \in [1..Len(vector_) -> 0..MaxBytes]
  BY <1>1, <1>b DEF Move, size
<1>3. vector_' \in Seq(0..MaxBytes) /\ Len(vector_') = Len(vector_)
  BY <1>2, VectorMade
<1>4. ASSUME NEW i \in 1..readable
      PROVE  vector_'[i] = vector_[rindex_ + i]
  BY <1>1 DEF Move, size
<1>5. readable + n <= Len(vector_)
  OBVIOUS
<1> QED
  BY <1>3, <1>4, <1>5 DEF Move

LEMMA EnsureWritableKeeps ==
    ASSUME IInv, NEW n \in 0..MaxLen, ensureWritable(n)
    PROVE  IInv'
<1>a. Numbers
  BY BufferFacts
<1>b. \A i \in 1..Len(vector_) : vector_[i] \in 0..MaxBytes
  BY BufferFacts
<1> USE <1>a DEF Numbers
<1>1. /\ bufPc = "idle" /\ bufPc' = "room" /\ len' = n
      /\ appended' = appended /\ consumed' = consumed
      /\ readable + n <= MaxReadable /\ appended + n <= MaxBytes
  BY DEF ensureWritable, stream
<1>2. readable = appended - consumed /\ \A i \in 1..readable : vector_[rindex_ + i] = consumed + i
  BY DEF IInv, ReadableExact
<1>3. /\ vector_' \in Seq(0..MaxBytes)
      /\ rindex_' \in Nat /\ windex_' \in Nat /\ rindex_' <= windex_'
      /\ windex_' - rindex_' = readable
      /\ windex_' + n <= Len(vector_')
      /\ Len(vector_') <= init_size \/ Len(vector_') <= MaxReadable + MaxLen
      /\ \A i \in 1..readable : vector_'[rindex_' + i] = vector_[rindex_ + i]
  <2>1. CASE ~(writable < n)
    <3>1. vector_' = vector_ /\ rindex_' = rindex_ /\ windex_' = windex_
      BY <2>1 DEF ensureWritable, indices
    <3> QED
      BY <2>1, <3>1 DEF IInv, BufTypeOK, SizeBounded, size
  <2>2. CASE writable < n /\ rindex_ + writable < n
    <3>1. Resize(n)
      BY <2>2 DEF ensureWritable, makeSpace
    <3>2. /\ vector_' \in Seq(0..MaxBytes)
          /\ rindex_' = rindex_ /\ windex_' = windex_
          /\ Len(vector_') = windex_ + n + 1
          /\ \A i \in 1..readable : vector_'[rindex_ + i] = vector_[rindex_ + i]
          /\ Len(vector_') <= MaxReadable + MaxLen
      BY <1>1, <2>2, <3>1, ResizeKeeps
    <3>3. windex_ + n <= windex_ + n + 1
      OBVIOUS
    <3> QED
      BY <3>2, <3>3
  <2>3. CASE writable < n /\ ~(rindex_ + writable < n)
    <3>1. Move(n)
      BY <2>3 DEF ensureWritable, makeSpace
    <3>2. /\ vector_' \in Seq(0..MaxBytes)
          /\ rindex_' = 0 /\ windex_' = readable
          /\ Len(vector_') = Len(vector_)
          /\ \A i \in 1..readable : vector_'[i] = vector_[rindex_ + i]
          /\ readable + n <= Len(vector_)
      BY <2>3, <3>1, MoveKeeps
    <3>3. \A i \in 1..readable : 0 + i = i
      OBVIOUS
    <3>4. \A i \in 1..readable : vector_'[rindex_' + i] = vector_[rindex_ + i]
      BY <3>2, <3>3
    <3>5. Len(vector_) <= init_size \/ Len(vector_) <= MaxReadable + MaxLen
      BY DEF IInv, SizeBounded, size
    <3>6. 0 \in Nat /\ 0 <= readable /\ readable - 0 = readable
      OBVIOUS
    <3> QED
      BY <3>2, <3>4, <3>5, <3>6
  <2> QED
    BY <2>1, <2>2, <2>3
<1>4. BufTypeOK'
  BY <1>1, <1>3 DEF IInv, BufTypeOK, size
<1>5. ReadableExact'
  BY <1>1, <1>2, <1>3 DEF ReadableExact, readable
<1>6. RoomForWrite' /\ SizeBounded'
  BY <1>1, <1>3 DEF RoomForWrite, SizeBounded, size
<1>7. Appending'
  BY <1>1, <1>3 DEF Appending, readable
<1> QED
  BY <1>4, <1>5, <1>6, <1>7 DEF IInv

LEMMA CopyKeeps ==
    ASSUME IInv, copy
    PROVE  IInv'
<1>a. Numbers
  BY BufferFacts
<1>b. \A i \in 1..Len(vector_) : vector_[i] \in 0..MaxBytes
  BY BufferFacts
<1> USE <1>a DEF Numbers
<1>1. /\ bufPc = "room" /\ bufPc' = "copied" /\ len' = len
      /\ appended' = appended /\ consumed' = consumed
      /\ rindex_' = rindex_ /\ windex_' = windex_
  BY DEF copy, stream, indices
<1>2. /\ windex_ + len <= Len(vector_)
      /\ readable + len <= MaxReadable /\ appended + len <= MaxBytes
  BY <1>1 DEF IInv, RoomForWrite, Appending, size
<1>3. ASSUME NEW i \in (windex_ + 1)..(windex_ + len)
      PROVE  appended + (i - windex_) \in 0..MaxBytes /\ i \in 1..Len(vector_)
  BY <1>2
<1>4. vector_' \in [1..Len(vector_) -> 0..MaxBytes]
  BY <1>3, <1>b DEF copy, size
<1>5. vector_' \in Seq(0..MaxBytes) /\ Len(vector_') = Len(vector_)
  BY <1>4, VectorMade
<1>6. ASSUME NEW i \in 1..readable
      PROVE  vector_'[rindex_ + i] = vector_[rindex_ + i]
  <2>1. rindex_ + i \in 1..Len(vector_) /\ rindex_ + i \notin (windex_ + 1)..(windex_ + len)
    OBVIOUS
  <2> QED
    BY <2>1 DEF copy, size
<1>7. ASSUME NEW i \in 1..len
      PROVE  vector_'[windex_ + i] = appended + i
  <2>1. /\ windex_ + i \in (windex_ + 1)..(windex_ + len)
        /\ windex_ + i \in 1..Len(vector_)
        /\ (windex_ + i) - windex_ = i
    BY <1>2
  <2> QED
    BY <2>1 DEF copy, size
<1>8. BufTypeOK' /\ RoomForWrite' /\ SizeBounded'
  BY <1>1, <1>2, <1>5 DEF IInv, BufTypeOK, RoomForWrite, SizeBounded, size
<1>9. ReadableExact'
  BY <1>1, <1>6 DEF IInv, ReadableExact, readable
<1>10. Appending'
  BY <1>1, <1>2, <1>7 DEF Appending, readable
<1> QED
  BY <1>8, <1>9, <1>10 DEF IInv

LEMMA HasWrittenKeeps ==
    ASSUME IInv, hasWritten
    PROVE  IInv'
<1>a. Numbers
  BY BufferFacts
<1>b. \A i \in 1..Len(vector_) : vector_[i] \in 0..MaxBytes
  BY BufferFacts
<1> USE <1>a DEF Numbers
<1>1. /\ bufPc = "copied" /\ bufPc' = "idle" /\ len' = 0
      /\ appended' = appended + len /\ consumed' = consumed
      /\ rindex_' = rindex_ /\ windex_' = windex_ + len /\ vector_' = vector_
  BY DEF hasWritten
<1>2. /\ windex_ + len <= Len(vector_)
      /\ readable + len <= MaxReadable /\ appended + len <= MaxBytes
      /\ \A i \in 1..len : vector_[windex_ + i] = appended + i
  BY <1>1 DEF IInv, RoomForWrite, Appending, size
<1>3. readable = appended - consumed /\ \A i \in 1..readable : vector_[rindex_ + i] = consumed + i
  BY DEF IInv, ReadableExact
<1>4. ASSUME NEW i \in 1..(readable + len)
      PROVE  vector_[rindex_ + i] = consumed + i
  <2>1. CASE i <= readable
    BY <2>1, <1>3
  <2>2. CASE i > readable
    <3>1. /\ i - readable \in 1..len
          /\ windex_ + (i - readable) = rindex_ + i
          /\ appended + (i - readable) = consumed + i
      BY <2>2, <1>3
    <3>2. vector_[windex_ + (i - readable)] = appended + (i - readable)
      BY <1>2, <3>1
    <3> QED
      BY <3>1, <3>2
  <2> QED
    BY <2>1, <2>2
<1>5. windex_' - rindex_' = readable + len
  BY <1>1
<1>6. ReadableExact'
  BY <1>1, <1>3, <1>4, <1>5 DEF ReadableExact, readable
<1>7. BufTypeOK' /\ RoomForWrite' /\ SizeBounded' /\ Appending'
  BY <1>1, <1>2, <1>5 DEF IInv, BufTypeOK, RoomForWrite, SizeBounded, Appending, size, readable
<1> QED
  BY <1>6, <1>7 DEF IInv

LEMMA RetiredKeeps ==
    ASSUME IInv, NEW n \in 0..MaxReadable, retired(n)
    PROVE  IInv'
<1>a. Numbers
  BY BufferFacts
<1>b. \A i \in 1..Len(vector_) : vector_[i] \in 0..MaxBytes
  BY BufferFacts
<1> USE <1>a DEF Numbers
<1>1. bufPc = "idle" /\ bufPc' = bufPc /\ len' = len /\ appended' = appended /\ vector_' = vector_
  BY DEF retired
<1>2. /\ readable = appended - consumed /\ \A i \in 1..readable : vector_[rindex_ + i] = consumed + i
      /\ readable <= MaxReadable
  BY <1>1 DEF IInv, ReadableExact, Appending
<1>3. CASE n < readable
  <2>1. rindex_' = rindex_ + n /\ windex_' = windex_ /\ consumed' = consumed + n
    BY <1>2, <1>3 DEF retired, Advance
  <2>2. windex_' - rindex_' = readable - n
    BY <2>1
  <2>3. ASSUME NEW i \in 1..(readable - n)
        PROVE  vector_[(rindex_ + n) + i] = (consumed + n) + i
    <3>1. /\ n + i \in 1..readable
          /\ rindex_ + (n + i) = (rindex_ + n) + i
          /\ consumed + (n + i) = (consumed + n) + i
      BY <1>3
    <3>2. vector_[rindex_ + (n + i)] = consumed + (n + i)
      BY <1>2, <3>1
    <3> QED
      BY <3>1, <3>2
  <2>4. ReadableExact'
    BY <1>1, <1>2, <2>1, <2>2, <2>3 DEF ReadableExact, readable
  <2>5. BufTypeOK' /\ RoomForWrite' /\ SizeBounded' /\ Appending'
    BY <1>1, <1>2, <1>3, <2>1, <2>2
    DEF IInv, BufTypeOK, RoomForWrite, SizeBounded, Appending, size, readable
  <2> QED
    BY <2>4, <2>5 DEF IInv
<1>4. CASE ~(n < readable)
  <2>1. rindex_' = 0 /\ windex_' = 0 /\ consumed' = appended
    BY <1>2, <1>4 DEF retired, Advance
  <2> QED
    BY <1>1, <2>1
    DEF IInv, BufTypeOK, ReadableExact, RoomForWrite, SizeBounded, Appending, size, readable
<1> QED
  BY <1>3, <1>4

LEMMA ResetKeeps ==
    ASSUME IInv, reset
    PROVE  IInv'
BY BufferFacts
DEF Numbers, reset, IInv, BufTypeOK, ReadableExact, RoomForWrite, SizeBounded, Appending, size, readable
-----------------------------------------------------------------------------
LEMMA NextKeeps == IInv /\ [BufNext]_bufVars => IInv'
<1> SUFFICES ASSUME IInv, [BufNext]_bufVars PROVE IInv'
  OBVIOUS
<1>1. ASSUME NEW n \in 0..MaxLen, ensureWritable(n) PROVE IInv'
  BY <1>1, EnsureWritableKeeps
<1>2. CASE copy
  BY <1>2, CopyKeeps
<1>3. CASE hasWritten
  BY <1>3, HasWrittenKeeps
<1>4. ASSUME NEW n \in 0..MaxReadable, retired(n) PROVE IInv'
  BY <1>4, RetiredKeeps
<1>5. CASE reset
  BY <1>5, ResetKeeps
<1>6. CASE UNCHANGED bufVars
  BY <1>6
  DEF bufVars, IInv, BufTypeOK, ReadableExact, RoomForWrite, SizeBounded, Appending, size, readable
<1> QED
  BY <1>1, <1>2, <1>3, <1>4, <1>5, <1>6 DEF BufNext

(***************************************************************************)
(* Invariance: the inductive invariant holds in every reachable state, for *)
(* a Buffer of any initial size (Buffer.h 13-73).                          *)
(***************************************************************************)
THEOREM Invariance == BufSpec => []IInv
BY InitIInv, NextKeeps, PTL DEF BufSpec

(***************************************************************************)
(* TypeCorrect: the read index is never behind the write index nor the     *)
(* write index behind the end of the vector, so that readable() and        *)
(* writable() never wrap around (Buffer.h 18-19).                          *)
(***************************************************************************)
THEOREM TypeCorrect == BufSpec => []BufTypeOK
<1>1. IInv => BufTypeOK
  BY DEF IInv
<1> QED
  BY <1>1, Invariance, PTL

(***************************************************************************)
(* ReadableAlwaysExact: whatever was appended, retired, moved and resized  *)
(* before, the readable bytes are the appended and not retired ones, in    *)
(* order (Buffer.h 18-31 and 64-73).                                       *)
(***************************************************************************)
THEOREM ReadableAlwaysExact == BufSpec => []ReadableExact
<1>1. IInv => ReadableExact
  BY DEF IInv
<1> QED
  BY <1>1, Invariance, PTL

(***************************************************************************)
(* RoomAlwaysForWrite: no append writes behind the vector, for any length  *)
(* (Buffer.h 44-59, HttpResponse.cc 121-124).                              *)
(***************************************************************************)
THEOREM RoomAlwaysForWrite == BufSpec => []RoomForWrite
<1>1. IInv => RoomForWrite
  BY DEF IInv
<1> QED
  BY <1>1, Invariance, PTL

(***************************************************************************)
(* SizeAlwaysBounded: however long the connection lives, its buffer stays  *)
(* at its initial size or below the longest request and one more read      *)
(* (Buffer.h 64-66).                                                       *)
(***************************************************************************)
THEOREM SizeAlwaysBounded == BufSpec => []SizeBounded
<1>1. IInv => SizeBounded
  BY DEF IInv
<1> QED
  BY <1>1, Invariance, PTL
=============================================================================
