----------------------------- MODULE TimerHeap ------------------------------
(***************************************************************************)
(* The indexed binary min-heap of soc/net/include/TimerHeap.h: the vector  *)
(* c_ ordered by expiration time, its length n_, and fds_, which remembers *)
(* where the timer of each key is.  The public operations run under one    *)
(* mutex, so one is executed at a time; the loops of upAdjust() and        *)
(* downAdjust() take one step per iteration, with the timer v that is on   *)
(* its way and the vacant position i as in the code.  Callbacks are not    *)
(* modelled: c_[k].callback moves with c_[k].fd.                           *)
(***************************************************************************)
EXTENDS Naturals, FiniteSets

CONSTANTS Keys,      \* file descriptors, or hashes of session names
          Lifetime,  \* what is added to the clock to get an expiration time
          MaxNow     \* bound: the clock

ASSUME HeapAssumption == IsFiniteSet(Keys) /\ Lifetime \in Nat /\ MaxNow \in Nat

VARIABLES c_,        \* the vector, a function on 0 .. size-1
          n_,        \* the number of timers in the heap
          fds_,      \* position by key
          now,       \* the clock the expiration times are taken from
          job        \* the operation that is being executed

vars == <<c_, n_, fds_, now, job>>

Timer == [fd : Keys, timestamp : 0..(MaxNow + Lifetime)]
Ready == [pc |-> "ready"]
Parent(k) == (k - 1) \div 2

(* c[k] := t, also one past the end (emplace_back). *)
Put(f, k, t) == [j \in DOMAIN f \cup {k} |-> IF j = k THEN t ELSE f[j]]
Remove(f, k) == [j \in DOMAIN f \ {k} |-> f[j]]

(* operator<: the timer that expires later is the smaller one. *)
Less(s, t) == t.timestamp < s.timestamp

Init == /\ c_ = [k \in {} |-> 0]
        /\ n_ = 0
        /\ fds_ = [f \in {} |-> 0]
        /\ now = 0
        /\ job = Ready

Tick == /\ job = Ready
        /\ now < MaxNow
        /\ now' = now + 1
        /\ UNCHANGED <<c_, n_, fds_, job>>

(* The first lines of downAdjust(i) and upAdjust(i), called by operation op. *)
Sift(dir, op, k, c) == [pc |-> dir, op |-> op, i |-> k, x |-> k, v |-> c[k]]
-----------------------------------------------------------------------------
(***************************************************************************)
(* Faulty variants of actions defined below.  Next does not use them: each *)
(* is a plausible mistake in the code that a property must reject.         *)
(***************************************************************************)
LeftChild(k) == 2 * k + 1

UpMoveForgetsIndex ==
    LET p == Parent(job.i) IN
    /\ job.pc = "up" /\ job.i > 0 /\ ~Less(job.v, c_[p])
    /\ c_' = Put(c_, job.i, c_[p])
    /\ job' = [job EXCEPT !.i = p]
    /\ UNCHANGED <<n_, fds_, now>>

UpMoveWithoutParent ==
    LET p == Parent(job.i) IN
    /\ job.pc = "up" /\ job.i > 0 /\ ~Less(job.v, c_[p])
    /\ fds_' = Put(fds_, c_[p].fd, job.i)
    /\ c_' = Put(c_, job.i, c_[p])
    /\ UNCHANGED <<n_, job, now>>

EraseKeyOnly == /\ job.pc = "erase"
                /\ fds_' = Remove(fds_, c_[n_].fd)
                /\ job' = Ready
                /\ UNCHANGED <<c_, n_, now>>
-----------------------------------------------------------------------------
(***************************************************************************)
(* push(): a new key goes to the end and up; a known key gets the new time *)
(* and goes down, then up.                                                 *)
(***************************************************************************)
PushNew(f) == LET t == [fd |-> f, timestamp |-> now + Lifetime] IN
    /\ job = Ready
    /\ f \notin DOMAIN fds_
    /\ c_' = Put(c_, n_, t)
    /\ fds_' = Put(fds_, f, n_)
    /\ n_' = n_ + 1
    /\ job' = IF n_' = 1 THEN Ready ELSE Sift("up", "push", n_, c_')
    /\ UNCHANGED now

SetTime(op, f) ==
    /\ job = Ready
    /\ f \in DOMAIN fds_
    /\ c_' = [c_ EXCEPT ![fds_[f]].timestamp = now + Lifetime]
    /\ job' = Sift("down", op, fds_[f], c_')
    /\ UNCHANGED <<n_, fds_, now>>

PushExisting(f) == SetTime("push", f)

(* adjust(): goes down only. *)
adjust(f) == SetTime("adjust", f)

(* pop(), del(0): the last timer takes the place of the first. *)
pop == /\ job = Ready
       /\ n_ > 0
       /\ c_' = [c_ EXCEPT ![0] = c_[n_ - 1], ![n_ - 1] = c_[0]]
       /\ n_' = n_ - 1
       /\ job' = Sift("down", "pop", 0, c_')
       /\ UNCHANGED <<fds_, now>>

(***************************************************************************)
(* upAdjust(): the parent moves down while it does not expire earlier.     *)
(***************************************************************************)
UpStops == job.i > 0 => Less(job.v, c_[Parent(job.i)])

UpMove == LET p == Parent(job.i) IN
    /\ job.pc = "up" /\ ~UpStops
    /\ fds_' = Put(fds_, c_[p].fd, job.i)
    /\ c_' = Put(c_, job.i, c_[p])
    /\ job' = [job EXCEPT !.i = p]
    /\ UNCHANGED <<n_, now>>

UpPlace == /\ job.pc = "up" /\ UpStops
           /\ c_' = Put(c_, job.i, job.v)
           /\ fds_' = Put(fds_, job.v.fd, job.i)
           /\ job' = IF job.op = "pop" THEN [pc |-> "erase"] ELSE Ready
           /\ UNCHANGED <<n_, now>>

(***************************************************************************)
(* downAdjust(): the child that expires first moves up while it does not   *)
(* expire later.  Child(k) is that child.                                  *)
(***************************************************************************)
Child(k) == IF 2 * k + 2 < n_ /\ Less(c_[2 * k + 1], c_[2 * k + 2])
            THEN 2 * k + 2 ELSE 2 * k + 1

DownStops == 2 * job.i + 1 < n_ => Less(c_[Child(job.i)], job.v)

DownMove == LET d == Child(job.i) IN
    /\ job.pc = "down" /\ ~DownStops
    /\ fds_' = Put(fds_, c_[d].fd, job.i)
    /\ c_' = Put(c_, job.i, c_[d])
    /\ job' = [job EXCEPT !.i = d]
    /\ UNCHANGED <<n_, now>>

(* It returns x > i; the callers other than adjust() go on with upAdjust(x) if that is false. *)
DownPlace == /\ job.pc = "down" /\ DownStops
             /\ c_' = Put(c_, job.i, job.v)
             /\ fds_' = Put(fds_, job.v.fd, job.i)
             /\ job' = CASE job.op = "adjust" -> Ready
                         [] job.op = "push" /\ job.x > job.i -> Ready
                         [] job.op = "pop" /\ job.x > job.i -> [pc |-> "erase"]
                         [] OTHER -> Sift("up", job.op, job.x, c_')
             /\ UNCHANGED <<n_, now>>

(* The end of del(): the removed timer is the last element of the vector. *)
Erase == /\ job.pc = "erase"
         /\ fds_' = Remove(fds_, c_[n_].fd)
         /\ c_' = Remove(c_, n_)
         /\ job' = Ready
         /\ UNCHANGED <<n_, now>>

upAdjust == UpMove \/ UpPlace
downAdjust == DownMove \/ DownPlace

Next == \/ Tick
        \/ \E f \in Keys : PushNew(f) \/ PushExisting(f) \/ adjust(f)
        \/ pop
        \/ upAdjust \/ downAdjust \/ Erase

Spec == Init /\ [][Next]_vars /\ WF_vars(upAdjust \/ downAdjust \/ Erase)
-----------------------------------------------------------------------------
Sifting == job.pc \in {"up", "down"}
Positions == 0..(n_ - 1)

(* The timer at position k, where the one on its way counts as being at i. *)
At(k) == IF Sifting /\ k = job.i THEN job.v ELSE c_[k]

(***************************************************************************)
(* TypeOK: the vector is n_ timers, and the removed one during a pop().    *)
(***************************************************************************)
TypeOK ==
    /\ n_ \in 0..Cardinality(Keys)
    /\ now \in 0..MaxNow
    /\ c_ \in [0..(IF job # Ready /\ (job.pc = "erase" \/ job.op = "pop") THEN n_ ELSE n_ - 1)
               -> Timer]
    /\ DOMAIN fds_ \subseteq Keys
    /\ \A f \in DOMAIN fds_ : fds_[f] \in DOMAIN c_
    /\ \/ job = Ready
       \/ job = [pc |-> "erase"]
       \/ job \in [pc : {"up", "down"}, op : {"push", "adjust", "pop"},
                   i : DOMAIN c_, x : DOMAIN c_, v : Timer]

(***************************************************************************)
(* HeapOrder: no timer expires before its parent.  While a timer is on its *)
(* way this holds everywhere but on the edge it still has to pass: below   *)
(* the vacant position on the way down, above it on the way up.            *)
(***************************************************************************)
HeapOrder ==
    /\ \A k \in Positions \ {0} :
         ~Less(At(Parent(k)), At(k))
           \/ (job.pc = "down" /\ Parent(k) = job.i)
           \/ (job.pc = "up" /\ k = job.i)
    /\ Sifting => \A k \in Positions \ {0} :
         Parent(k) = job.i /\ job.i # 0 => ~Less(At(Parent(job.i)), At(k))

(***************************************************************************)
(* IndexExact: fds_ names the position of every timer, so that adjust()    *)
(* changes the timer it is asked to change (TimerHeap.h 81-83).            *)
(***************************************************************************)
IndexExact ==
    job = Ready => /\ DOMAIN fds_ = {c_[k].fd : k \in Positions}
                   /\ \A k \in Positions : fds_[c_[k].fd] = k

(* Abstraction: the timers in the heap. *)
timers == {At(k) : k \in Positions}

Abstract == INSTANCE Timers WITH Times <- 0..(MaxNow + Lifetime)

(***************************************************************************)
(* ImplementsTimers: every operation does what Timers promises: one timer  *)
(* per key, none lost or duplicated, and pop() removes a first one.        *)
(***************************************************************************)
ImplementsTimers == Abstract!Spec

(* SiftEnds: an operation ends: neither loop runs for ever (TimerHeap.h 110, 133). *)
SiftEnds == []<>(job = Ready)
=============================================================================
