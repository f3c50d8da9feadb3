------------------------------- MODULE Timers -------------------------------
(***************************************************************************)
(* What a timer collection promises its user, TimerQueue: a set with at    *)
(* most one timer per key, whose pop() removes a timer that expires first. *)
(* TimerHeap implements it.                                                *)
(***************************************************************************)
EXTENDS Naturals

CONSTANTS Keys,        \* file descriptors, or hashes of session names
          Times        \* the expiration times

VARIABLE timers        \* a set of [fd, timestamp] records

Init == timers = {}

(* push() or adjust(): a new timer, or another time for the timer the key has. *)
Push(f, ts) == timers' = {t \in timers : t.fd # f} \cup {[fd |-> f, timestamp |-> ts]}

(* pop(): a timer with the least time. *)
Pop == \E t \in timers : /\ \A u \in timers : t.timestamp <= u.timestamp
                         /\ timers' = timers \ {t}

Next == (\E f \in Keys, ts \in Times : Push(f, ts)) \/ Pop

Spec == Init /\ [][Next]_timers
=============================================================================
