-------------------------- MODULE TimerHeap_proof ---------------------------
(***************************************************************************)
(* Proofs about TimerHeap: for any set of keys and any lifetime the vector *)
(* is a heap, fds_ is its exact index, and the heap implements Timers:     *)
(* pop() removes a timer that expires first.                               *)
(***************************************************************************)
EXTENDS TimerHeap, FiniteSetTheorems, TLAPS

(* A pop() is under way: the removed timer is still behind the others. *)
Popping == job # Ready /\ (job.pc = "erase" \/ job.op = "pop")

(* The vector with the timer that is on its way put where it would be put now. *)
View == [k \in DOMAIN c_ |-> At(k)]

(* Where fds_ may be wrong: the timer on its way, and the one that is being removed. *)
Astray == (IF Sifting THEN {job.i} ELSE {}) \cup (IF Popping THEN {n_} ELSE {})

Distinct(V) == \A j, k \in DOMAIN V : V[j].fd = V[k].fd => j = k
Indexed(V, F, X) == /\ DOMAIN F = {V[k].fd : k \in DOMAIN V}
                    /\ \A k \in DOMAIN V \ X : F[V[k].fd] = k

(* Every key has one timer, and fds_ knows where. *)
IndexInv == Distinct(View) /\ Indexed(View, fds_, Astray)

(* V is a heap of n timers, but for the edges above the positions in X. *)
Heap(V, n, X) == \A k \in 1..(n - 1) : k \in X \/ V[Parent(k)].timestamp <= V[k].timestamp

(* The timer above position i does not expire after those below it. *)
Spanned(V, n, i) ==
    \A k \in 1..(n - 1) : Parent(k) = i /\ i # 0 => V[Parent(i)].timestamp <= V[k].timestamp

ToPass == CASE job.pc = "up" -> {job.i}
            [] job.pc = "down" -> {2 * job.i + 1, 2 * job.i + 2}
            [] OTHER -> {}

OrderInv == Heap(View, n_, ToPass) /\ (Sifting => Spanned(View, n_, job.i))

(* A timer is on its way inside the heap, and a pop() goes down from the root only. *)
VacancyInv ==
    Sifting => /\ job.op # "pop" => job.i < n_ /\ job.x < n_
               /\ job.op = "pop" => /\ n_ # 0 => job.i < n_
                                    /\ n_ = 0 \/ job.pc = "up" => job.i = 0
                                    /\ job.x = 0

(* An expiration time is a time of the past plus the lifetime: it can only be set back. *)
ClockInv == \A k \in DOMAIN c_ : View[k].timestamp <= now + Lifetime

IInv == TypeOK /\ VacancyInv /\ IndexInv /\ OrderInv /\ ClockInv
-----------------------------------------------------------------------------
(***************************************************************************)
(* Positions: the children of p are 2p + 1 and 2p + 2.                     *)
(***************************************************************************)
LEMMA ParentOf ==
    ASSUME NEW k \in Nat \ {0}
    PROVE  /\ Parent(k) \in Nat /\ Parent(k) < k
           /\ \A p \in Nat : Parent(k) = p <=> k \in {2 * p + 1, 2 * p + 2}
BY DEF Parent

(* A heap's first timer is a least one: the least position of a counterexample has a parent. *)
LEMMA RootIsLeast ==
    ASSUME NEW n \in Nat, NEW V, DOMAIN V = 0..(n - 1),
           \A k \in 0..(n - 1) : V[k].timestamp \in Nat,
           Heap(V, n, {})
    PROVE  \A k \in 0..(n - 1) : V[0].timestamp <= V[k].timestamp
<1> DEFINE T == {k \in 0..(n - 1) : V[k].timestamp < V[0].timestamp}
<1>1. SUFFICES ASSUME T # {} PROVE FALSE
  OBVIOUS
<1>2. PICK m \in T : \A k \in T : ~(k < m)
  <2>1. T \subseteq Nat
    OBVIOUS
  <2>2. \E m \in T : \A k \in T : <<k, m>> \notin OpToRel(<, Nat)
    <3> HIDE DEF T
    <3> QED
      BY <1>1, <2>1, NatLessThanWellFounded, WFMin
  <2>3. QED
    BY <2>1, <2>2 DEF OpToRel
<1>3. m \in Nat \ {0} /\ m \in 1..(n - 1)
  BY <1>2
<1>4. Parent(m) \in Nat /\ Parent(m) < m
  BY <1>3, ParentOf
<1>5. V[Parent(m)].timestamp <= V[m].timestamp
  BY <1>3 DEF Heap
<1>6. Parent(m) \in T
  BY <1>2, <1>3, <1>4, <1>5
<1>7. QED
  BY <1>2, <1>4, <1>6

(***************************************************************************)
(* Exchanging the timer on its way with a neighbour.                       *)
(***************************************************************************)
Swap(V, i, d) == [V EXCEPT ![i] = V[d], ![d] = V[i]]

LEMMA SwapValues ==
    ASSUME NEW D, NEW V \in [D -> Timer], NEW i \in D, NEW d \in D, i # d
    PROVE  /\ Swap(V, i, d) \in [D -> Timer]
           /\ Swap(V, i, d)[i] = V[d] /\ Swap(V, i, d)[d] = V[i]
           /\ \A k \in D \ {i, d} : Swap(V, i, d)[k] = V[k]
BY DEF Swap

LEMMA SwapIndex ==
    ASSUME NEW D, NEW V \in [D -> Timer], NEW F, NEW X, NEW i \in D, NEW d \in D, i # d,
           Distinct(V), Indexed(V, F, X)
    PROVE  /\ Distinct(Swap(V, i, d))
           /\ Indexed(Swap(V, i, d), Put(F, V[d].fd, i), (X \ {i}) \cup {d})
<1> DEFINE W == Swap(V, i, d)
           G == Put(F, V[d].fd, i)
<1>1. /\ W \in [D -> Timer] /\ W[i] = V[d] /\ W[d] = V[i]
      /\ \A k \in D \ {i, d} : W[k] = V[k]
  BY SwapValues
<1> HIDE DEF W
<1>2. Distinct(W)
  BY <1>1 DEF Distinct
<1>3. DOMAIN F = {V[k].fd : k \in D} /\ \A k \in D \ X : F[V[k].fd] = k
  BY DEF Indexed
<1>4. /\ DOMAIN G = DOMAIN F \cup {V[d].fd} /\ G[V[d].fd] = i
      /\ \A f \in DOMAIN F \ {V[d].fd} : G[f] = F[f]
  BY DEF Put
<1> HIDE DEF G
<1>5. DOMAIN G = {W[k].fd : k \in D}
  BY <1>1, <1>3, <1>4
<1>6. ASSUME NEW k \in D \ ((X \ {i}) \cup {d}) PROVE G[W[k].fd] = k
  <2>1. CASE k = i
    BY <1>1, <1>4, <2>1
  <2>2. CASE k # i
    <3>1. W[k] = V[k] /\ V[k].fd # V[d].fd /\ F[V[k].fd] = k /\ V[k].fd \in DOMAIN F
      BY <1>1, <1>3, <1>6, <2>2 DEF Distinct
    <3>2. QED
      BY <1>4, <3>1
  <2>3. QED
    BY <2>1, <2>2
<1>7. QED
  BY <1>1, <1>2, <1>5, <1>6 DEF Indexed, W, G

LEMMA PlaceIndex ==
    ASSUME NEW D, NEW V \in [D -> Timer], NEW F, NEW X, NEW Y, NEW i \in D,
           Distinct(V), Indexed(V, F, X), X \ {i} \subseteq Y
    PROVE  Indexed(V, Put(F, V[i].fd, i), Y)
<1> DEFINE G == Put(F, V[i].fd, i)
<1>1. DOMAIN F = {V[k].fd : k \in D} /\ \A k \in D \ X : F[V[k].fd] = k
  BY DEF Indexed
<1>2. /\ DOMAIN G = DOMAIN F \cup {V[i].fd} /\ G[V[i].fd] = i
      /\ \A f \in DOMAIN F \ {V[i].fd} : G[f] = F[f]
  BY DEF Put
<1> HIDE DEF G
<1>3. DOMAIN G = {V[k].fd : k \in D}
  BY <1>1, <1>2
<1>4. ASSUME NEW k \in D \ Y PROVE G[V[k].fd] = k
  <2>1. CASE k = i
    BY <1>2, <2>1
  <2>2. CASE k # i
    BY <1>1, <1>2, <1>4, <2>2 DEF Distinct
  <2>3. QED
    BY <2>1, <2>2
<1>5. QED
  BY <1>3, <1>4 DEF Indexed, G

(* On the way up: a parent that does not expire earlier goes below. *)
LEMMA SwapUp ==
    ASSUME NEW n \in Nat, NEW D, 0..(n - 1) \subseteq D, NEW V \in [D -> Timer],
           NEW i \in 1..(n - 1), Heap(V, n, {i}), Spanned(V, n, i),
           V[i].timestamp <= V[Parent(i)].timestamp
    PROVE  /\ Heap(Swap(V, i, Parent(i)), n, {Parent(i)})
           /\ Spanned(Swap(V, i, Parent(i)), n, Parent(i))
<1> DEFINE p == Parent(i)
           W == Swap(V, i, p)
<1> USE HeapAssumption
<1>1. p \in Nat /\ p < i /\ p \in 0..(n - 1) /\ p \in D /\ i \in D /\ i # p
  BY ParentOf
<1>2. \A k \in D : V[k].timestamp \in Nat
  BY DEF Timer
<1>3. /\ W[i] = V[p] /\ W[p] = V[i] /\ \A k \in D \ {i, p} : W[k] = V[k]
  BY <1>1 DEF Swap
<1>4. \A k \in 1..(n - 1) : /\ k \in D /\ Parent(k) \in Nat /\ Parent(k) < k
                            /\ Parent(k) \in 0..(n - 1) /\ Parent(k) \in D
  BY ParentOf
<1> HIDE DEF W, p
<1>5. \A k \in 1..(n - 1) : k # i => V[Parent(k)].timestamp <= V[k].timestamp
  BY DEF Heap
<1>6. \A k \in 1..(n - 1) : Parent(k) = i => V[p].timestamp <= V[k].timestamp
  BY DEF Spanned, p
<1>7. ASSUME NEW k \in 1..(n - 1), k # p PROVE W[Parent(k)].timestamp <= W[k].timestamp
  <2>1. CASE k = i
    BY <1>1, <1>3, <2>1 DEF p
  <2>2. CASE k # i /\ Parent(k) = i
    BY <1>3, <1>4, <1>6, <1>7, <2>2
  <2>3. CASE k # i /\ Parent(k) = p
    <3>1. V[p].timestamp <= V[k].timestamp /\ V[i].timestamp <= V[p].timestamp
      BY <1>5, <2>3 DEF p
    <3>2. V[i].timestamp \in Nat /\ V[p].timestamp \in Nat /\ V[k].timestamp \in Nat
      BY <1>1, <1>2, <1>4
    <3>3. W[Parent(k)] = V[i] /\ W[k] = V[k]
      BY <1>3, <1>4, <1>7, <2>3
    <3>4. QED
      BY <3>1, <3>2, <3>3
  <2>4. CASE k # i /\ Parent(k) \notin {i, p}
    BY <1>3, <1>4, <1>5, <1>7, <2>4
  <2>5. QED
    BY <2>1, <2>2, <2>3, <2>4
<1>8. ASSUME NEW k \in 1..(n - 1), Parent(k) = p, p # 0
      PROVE  W[Parent(p)].timestamp <= W[k].timestamp
  <2>1. p \in 1..(n - 1) /\ p # i /\ Parent(p) \notin {i, p} /\ Parent(p) \in D
    BY <1>1, <1>4, <1>8
  <2>2. W[Parent(p)] = V[Parent(p)] /\ V[Parent(p)].timestamp <= V[p].timestamp
    BY <1>3, <1>5, <2>1
  <2>3. CASE k = i
    BY <1>3, <2>2, <2>3
  <2>4. CASE k # i
    <3>1. W[k] = V[k] /\ V[p].timestamp <= V[k].timestamp
      BY <1>3, <1>4, <1>5, <1>8, <2>4
    <3>2. V[Parent(p)].timestamp \in Nat /\ V[p].timestamp \in Nat /\ V[k].timestamp \in Nat
      BY <1>1, <1>2, <1>4, <2>1
    <3>3. QED
      BY <2>2, <3>1, <3>2
  <2>5. QED
    BY <2>3, <2>4
<1>9. QED
  BY <1>7, <1>8 DEF Heap, Spanned, W, p

(* On the way down: the child that expires first goes above. *)
LEMMA SwapDown ==
    ASSUME NEW n \in Nat, NEW D, 0..(n - 1) \subseteq D, NEW V \in [D -> Timer],
           NEW i \in 0..(n - 1), NEW d \in 0..(n - 1), d \in {2 * i + 1, 2 * i + 2},
           Heap(V, n, {2 * i + 1, 2 * i + 2}), Spanned(V, n, i),
           \A k \in 0..(n - 1) \cap {2 * i + 1, 2 * i + 2} : V[d].timestamp <= V[k].timestamp,
           V[d].timestamp <= V[i].timestamp
    PROVE  /\ Heap(Swap(V, i, d), n, {2 * d + 1, 2 * d + 2})
           /\ Spanned(Swap(V, i, d), n, d)
<1> DEFINE W == Swap(V, i, d)
<1>1. i \in D /\ d \in D /\ i # d /\ d \in 1..(n - 1) /\ Parent(d) = i
  BY ParentOf
<1>2. /\ W[i] = V[d] /\ W[d] = V[i] /\ \A k \in D \ {i, d} : W[k] = V[k]
  BY <1>1 DEF Swap
<1>3. \A k \in 1..(n - 1) : /\ k \in D /\ Parent(k) \in Nat /\ Parent(k) < k
                            /\ Parent(k) \in 0..(n - 1) /\ Parent(k) \in D
                            /\ Parent(k) = i <=> k \in {2 * i + 1, 2 * i + 2}
                            /\ Parent(k) = d <=> k \in {2 * d + 1, 2 * d + 2}
  BY ParentOf
<1> HIDE DEF W
<1>4. \A k \in 1..(n - 1) : Parent(k) # i => V[Parent(k)].timestamp <= V[k].timestamp
  BY <1>3 DEF Heap
<1>5. \A k \in 1..(n - 1) : Parent(k) = i => V[d].timestamp <= V[k].timestamp
  BY <1>3
<1>6. i # 0 => V[Parent(i)].timestamp <= V[d].timestamp
  BY <1>1 DEF Spanned
<1>7. ASSUME NEW k \in 1..(n - 1), Parent(k) # d PROVE W[Parent(k)].timestamp <= W[k].timestamp
  <2>1. CASE k = i
    <3>1. Parent(i) \in D \ {i, d}
      BY <1>1, <1>3, <1>7, <2>1
    <3>2. QED
      BY <1>2, <1>6, <2>1, <3>1
  <2>2. CASE k = d
    BY <1>1, <1>2, <2>2
  <2>3. CASE k \notin {i, d} /\ Parent(k) = i
    BY <1>2, <1>3, <1>5, <2>3
  <2>4. CASE k \notin {i, d} /\ Parent(k) # i
    BY <1>2, <1>3, <1>4, <1>7, <2>4
  <2>5. QED
    BY <2>1, <2>2, <2>3, <2>4
<1>8. ASSUME NEW k \in 1..(n - 1), Parent(k) = d
      PROVE  W[Parent(d)].timestamp <= W[k].timestamp
  <2>1. k \notin {i, d}
    BY <1>1, <1>3, <1>8
  <2>2. V[d].timestamp <= V[k].timestamp
    BY <1>1, <1>4, <1>8
  <2>3. QED
    BY <1>1, <1>2, <1>3, <2>1, <2>2
<1>9. Heap(W, n, {2 * d + 1, 2 * d + 2})
  BY <1>3, <1>7 DEF Heap
<1>10. Spanned(W, n, d)
  BY <1>8 DEF Spanned
<1>11. QED
  BY <1>9, <1>10 DEF W

-----------------------------------------------------------------------------
Erasing == [pc |-> "erase"]
SiftState == [pc : {"up", "down"}, op : {"push", "adjust", "pop"},
              i : DOMAIN c_, x : DOMAIN c_, v : Timer]
LastPosition == IF Popping THEN n_ ELSE n_ - 1

(* What TypeOK says of the operation that is being executed. *)
LEMMA Jobs ==
    ASSUME TypeOK
    PROVE  /\ job.pc \in {"ready", "erase", "up", "down"}
           /\ job.pc = "ready" <=> job = Ready
           /\ job.pc = "erase" <=> job = Erasing
           /\ Sifting => job \in SiftState
           /\ Popping <=> job.pc = "erase" \/ (Sifting /\ job.op = "pop")
           /\ n_ \in Nat /\ DOMAIN c_ = 0..LastPosition /\ Positions \subseteq DOMAIN c_
           /\ c_ \in [DOMAIN c_ -> Timer]
<1>1. \/ job = Ready \/ job = Erasing \/ job \in SiftState
  BY DEF TypeOK, Erasing, SiftState
<1>2. /\ job.pc \in {"ready", "erase", "up", "down"}
      /\ job.pc = "ready" <=> job = Ready
      /\ job.pc = "erase" <=> job = Erasing
      /\ Sifting => job \in SiftState
  BY <1>1 DEF Ready, Erasing, SiftState, Sifting
<1>3. Popping <=> job.pc = "erase" \/ (Sifting /\ job.op = "pop")
  BY <1>2 DEF Popping, Sifting
<1>4. n_ \in Nat
  BY HeapAssumption, FS_CardinalityType DEF TypeOK
<1>5. c_ \in [0..LastPosition -> Timer]
  BY DEF TypeOK, LastPosition, Popping
<1>6. QED
  BY <1>2, <1>3, <1>4, <1>5 DEF LastPosition, Positions

LEMMA ViewType ==
    ASSUME TypeOK
    PROVE  /\ View \in [DOMAIN c_ -> Timer]
           /\ \A k \in DOMAIN c_ : View[k] = IF Sifting /\ k = job.i THEN job.v ELSE c_[k]
           /\ timers = {View[k] : k \in Positions}
<1>1. \A k \in DOMAIN c_ : View[k] = IF Sifting /\ k = job.i THEN job.v ELSE c_[k]
  BY DEF View, At
<1>2. \A k \in DOMAIN c_ : View[k] \in Timer
  BY <1>1, Jobs DEF SiftState
<1>3. timers = {View[k] : k \in Positions}
  BY Jobs DEF timers, View
<1>4. QED
  BY <1>1, <1>2, <1>3 DEF View

(* A step that begins or ends a sift: the timer on its way is where the vector has it. *)
LEMMA Settled ==
    ASSUME NEW D, c_' \in [D -> Timer], Sifting' => job'.v = c_'[job'.i]
    PROVE  View' = c_' /\ (Positions' \subseteq D => timers' = {c_'[k] : k \in Positions'})
<1>1. \A k \in D : At(k)' = c_'[k]
  BY DEF At
<1>2. QED
  BY <1>1 DEF View, timers

(***************************************************************************)
(* A move of either loop: the timer on its way and the one at position d   *)
(* change places, and nothing but the order of the heap has to be seen to. *)
(***************************************************************************)
LEMMA Move ==
    ASSUME IInv, Sifting, NEW d \in Positions, d # job.i, job.i < n_,
           job.pc = "up" => job.op # "pop",
           fds_' = Put(fds_, c_[d].fd, job.i),
           c_' = Put(c_, job.i, c_[d]),
           job' = [job EXCEPT !.i = d],
           UNCHANGED <<n_, now>>
    PROVE  /\ View' = Swap(View, job.i, d) /\ job'.pc = job.pc /\ job'.i = d
           /\ TypeOK' /\ VacancyInv' /\ IndexInv' /\ ClockInv' /\ timers' = timers
<1> USE DEF IInv
<1>1. /\ job \in SiftState /\ n_ \in Nat /\ Positions \subseteq DOMAIN c_
      /\ c_ \in [DOMAIN c_ -> Timer] /\ DOMAIN c_ = 0..LastPosition
  BY Jobs
<1>2. job.i \in DOMAIN c_ /\ d \in DOMAIN c_ /\ job.v \in Timer /\ job.i \in Positions
  BY <1>1 DEF SiftState, Positions
<1>3. c_' \in [DOMAIN c_ -> Timer] /\ \A k \in DOMAIN c_ : c_'[k] = IF k = job.i THEN c_[d] ELSE c_[k]
  BY <1>1, <1>2 DEF Put
<1>4. /\ job' \in SiftState /\ job'.pc = job.pc /\ job'.op = job.op /\ job'.i = d
      /\ job'.x = job.x /\ job'.v = job.v
  BY <1>1, <1>2 DEF SiftState
<1>5. DOMAIN c_' = DOMAIN c_ /\ Sifting' /\ (Popping' <=> Popping) /\ LastPosition' = LastPosition
  <2>1. DOMAIN c_' = DOMAIN c_ /\ Sifting'
    BY <1>3, <1>4 DEF Sifting
  <2>2. Popping' <=> Popping
    <3>1. job # Ready /\ job' # Ready /\ job.pc # "erase" /\ job'.pc # "erase"
      BY <1>1, <1>4 DEF SiftState, Ready
    <3>2. QED
      BY <1>4, <3>1 DEF Popping
  <2>3. QED
    BY <2>1, <2>2 DEF LastPosition
<1>6. /\ View \in [DOMAIN c_ -> Timer] /\ View[job.i] = job.v /\ View[d] = c_[d]
      /\ \A k \in DOMAIN c_ \ {job.i} : View[k] = c_[k]
      /\ timers = {View[k] : k \in Positions}
  BY <1>2, ViewType
<1>7. View' = Swap(View, job.i, d)
  <2>1. View' = [k \in DOMAIN c_ |-> IF k = d THEN job.v ELSE c_'[k]]
    BY <1>4, <1>5 DEF View, At
  <2>2. \A k \in DOMAIN c_ : View'[k] = Swap(View, job.i, d)[k]
    BY <1>2, <1>3, <1>6, <2>1 DEF Swap
  <2>3. Swap(View, job.i, d) \in [DOMAIN c_ -> Timer]
    BY <1>2, <1>6, SwapValues
  <2>4. QED
    BY <2>1, <2>2, <2>3
<1>8. IndexInv'
  <2>1. /\ Distinct(Swap(View, job.i, d))
        /\ Indexed(Swap(View, job.i, d), Put(fds_, View[d].fd, job.i), (Astray \ {job.i}) \cup {d})
    BY <1>2, <1>6, SwapIndex DEF IndexInv
  <2>2. Astray' = (Astray \ {job.i}) \cup {d}
    <3>1. job.i # n_
      BY <1>1, <1>2
    <3>2. QED
      BY <1>4, <1>5, <3>1 DEF Astray
  <2>3. QED
    BY <1>6, <1>7, <2>1, <2>2 DEF IndexInv
<1>9. TypeOK'
  <2>1. /\ n_' \in 0..Cardinality(Keys) /\ now' \in 0..MaxNow
        /\ DOMAIN fds_ \subseteq Keys /\ \A f \in DOMAIN fds_ : fds_[f] \in DOMAIN c_
    BY DEF TypeOK
  <2>2. c_' \in [0..LastPosition' -> Timer] /\ job' \in SiftState'
    BY <1>1, <1>3, <1>4, <1>5 DEF SiftState
  <2>3. DOMAIN fds_' \subseteq Keys /\ \A f \in DOMAIN fds_' : fds_'[f] \in DOMAIN c_'
    <3>1. c_[d].fd \in Keys
      BY <1>1, <1>2 DEF Timer
    <3>2. QED
      BY <1>2, <1>5, <2>1, <3>1 DEF Put
  <2>4. QED
    BY <2>1, <2>2, <2>3 DEF TypeOK, LastPosition, Popping, SiftState
<1>10. VacancyInv'
  BY <1>1, <1>4 DEF VacancyInv, Positions
<1>11. ClockInv'
  <2>1. \A k \in DOMAIN c_ : Swap(View, job.i, d)[k].timestamp <= now + Lifetime
    BY <1>2, <1>6 DEF ClockInv, Swap
  <2>2. QED
    BY <1>5, <1>7, <2>1 DEF ClockInv
<1>12. timers' = timers
  <2>1. timers' = {View'[k] : k \in Positions}
    BY <1>1, <1>5 DEF timers, View, Positions
  <2>2. /\ View'[job.i] = View[d] /\ View'[d] = View[job.i]
        /\ \A k \in Positions \ {job.i, d} : View'[k] = View[k]
    BY <1>1, <1>2, <1>6, <1>7 DEF Swap
  <2>3. QED
    BY <1>2, <1>6, <2>1, <2>2
<1>13. QED
  BY <1>4, <1>7, <1>8, <1>9, <1>10, <1>11, <1>12

LEMMA UpMovePreserves ==
    ASSUME IInv, UpMove
    PROVE  IInv' /\ timers' = timers
<1> USE DEF IInv
<1> DEFINE p == Parent(job.i)
<1>1. /\ Sifting /\ job.pc = "up" /\ job.i > 0 /\ ~Less(job.v, c_[p])
      /\ fds_' = Put(fds_, c_[p].fd, job.i) /\ c_' = Put(c_, job.i, c_[p])
      /\ job' = [job EXCEPT !.i = p] /\ UNCHANGED <<n_, now>>
  BY DEF UpMove, UpStops, Sifting
<1>2. job \in SiftState /\ n_ \in Nat /\ DOMAIN c_ = 0..LastPosition /\ Positions \subseteq DOMAIN c_
  BY <1>1, Jobs
<1>3. job.i \in Nat \ {0} /\ job.i < n_ /\ job.op # "pop"
  BY <1>1, <1>2 DEF VacancyInv, SiftState
<1>4. p \in Nat /\ p < job.i /\ p \in Positions /\ p # job.i
  BY <1>2, <1>3, ParentOf DEF Positions
<1>5. /\ View' = Swap(View, job.i, p) /\ job'.pc = job.pc /\ job'.i = p
      /\ TypeOK' /\ VacancyInv' /\ IndexInv' /\ ClockInv' /\ timers' = timers
  BY <1>1, <1>3, <1>4, Move
<1>6. View \in [DOMAIN c_ -> Timer] /\ View[job.i] = job.v /\ View[p] = c_[p]
  BY <1>1, <1>2, <1>4, ViewType DEF SiftState
<1>7. View[job.i].timestamp <= View[p].timestamp
  <2>1. View[job.i].timestamp \in Nat /\ View[p].timestamp \in Nat
    BY <1>2, <1>4, <1>6, HeapAssumption DEF Timer, SiftState
  <2>2. QED
    BY <1>1, <1>6, <2>1 DEF Less
<1>8. Heap(View, n_, {job.i}) /\ Spanned(View, n_, job.i)
  BY <1>1 DEF OrderInv, ToPass
<1>9. job.i \in 1..(n_ - 1) /\ 0..(n_ - 1) \subseteq DOMAIN c_
  BY <1>2, <1>3 DEF Positions
<1>10. /\ Heap(Swap(View, job.i, p), n_, {p})
       /\ Spanned(Swap(View, job.i, p), n_, p)
  BY <1>2, <1>6, <1>7, <1>8, <1>9, SwapUp
<1>11. OrderInv'
  BY <1>1, <1>5, <1>10 DEF OrderInv, ToPass
<1>12. QED
  BY <1>5, <1>11

LEMMA DownMovePreserves ==
    ASSUME IInv, DownMove
    PROVE  IInv' /\ timers' = timers
<1> USE DEF IInv
<1> DEFINE i == job.i
           d == Child(i)
<1>1. /\ Sifting /\ job.pc = "down" /\ 2 * i + 1 < n_ /\ ~Less(c_[d], job.v)
      /\ fds_' = Put(fds_, c_[d].fd, i) /\ c_' = Put(c_, i, c_[d])
      /\ job' = [job EXCEPT !.i = d] /\ UNCHANGED <<n_, now>>
  BY DEF DownMove, DownStops, Sifting
<1>2. job \in SiftState /\ n_ \in Nat /\ DOMAIN c_ = 0..LastPosition /\ Positions \subseteq DOMAIN c_
  BY <1>1, Jobs
<1>3. i \in Nat /\ i < n_ /\ i \in DOMAIN c_
  BY <1>1, <1>2 DEF SiftState
<1>4. d \in {2 * i + 1, 2 * i + 2} /\ d \in Positions /\ d # i
  BY <1>1, <1>2, <1>3 DEF Positions, Child
<1>5. /\ View' = Swap(View, i, d) /\ job'.pc = job.pc /\ job'.i = d
      /\ TypeOK' /\ VacancyInv' /\ IndexInv' /\ ClockInv' /\ timers' = timers
  BY <1>1, <1>3, <1>4, Move
<1>6. /\ View \in [DOMAIN c_ -> Timer] /\ View[i] = job.v
      /\ \A k \in DOMAIN c_ \ {i} : View[k] = c_[k]
  BY <1>1, <1>3, ViewType
<1>7. \A k \in DOMAIN c_ : View[k].timestamp \in Nat
  BY <1>6, HeapAssumption DEF Timer
<1>8. View[d].timestamp <= View[i].timestamp
  <2>1. View[d] = c_[d] /\ View[d].timestamp \in Nat /\ View[i].timestamp \in Nat
    BY <1>2, <1>3, <1>4, <1>6, <1>7
  <2>2. QED
    BY <1>1, <1>6, <2>1 DEF Less
<1>9. ASSUME NEW k \in 0..(n_ - 1) \cap {2 * i + 1, 2 * i + 2}
      PROVE  View[d].timestamp <= View[k].timestamp
  <2>1. k \in Positions /\ k # i /\ k \in DOMAIN c_ /\ d \in DOMAIN c_
    BY <1>2, <1>3, <1>4 DEF Positions
  <2>2. View[k] = c_[k] /\ View[d] = c_[d] /\ c_[k].timestamp \in Nat /\ c_[d].timestamp \in Nat
    BY <1>4, <1>6, <1>7, <2>1
  <2>3. CASE k = d
    BY <2>2, <2>3
  <2>4. CASE k # d
    <3>1. CASE d = 2 * i + 2
      <4>1. Less(c_[2 * i + 1], c_[2 * i + 2]) /\ k = 2 * i + 1
        BY <1>3, <1>9, <2>4, <3>1 DEF Child
      <4>2. QED
        BY <2>2, <3>1, <4>1 DEF Less
    <3>2. CASE d = 2 * i + 1
      <4>1. k = 2 * i + 2 /\ k < n_
        BY <1>2, <1>9, <2>4, <3>2
      <4>2. ~Less(c_[2 * i + 1], c_[2 * i + 2])
        BY <1>3, <3>2, <4>1 DEF Child
      <4>3. QED
        BY <2>2, <3>2, <4>1, <4>2 DEF Less
    <3>3. QED
      BY <1>4, <3>1, <3>2
  <2>5. QED
    BY <2>3, <2>4
<1>10. Heap(View, n_, {2 * i + 1, 2 * i + 2}) /\ Spanned(View, n_, i)
  BY <1>1 DEF OrderInv, ToPass
<1>11. i \in 0..(n_ - 1) /\ d \in 0..(n_ - 1) /\ 0..(n_ - 1) \subseteq DOMAIN c_
  BY <1>2, <1>3, <1>4 DEF Positions
<1>12. /\ Heap(Swap(View, i, d), n_, {2 * d + 1, 2 * d + 2})
       /\ Spanned(Swap(View, i, d), n_, d)
  <2> HIDE DEF i, d
  <2> QED
    BY <1>2, <1>4, <1>6, <1>8, <1>9, <1>10, <1>11, SwapDown
<1>13. OrderInv'
  BY <1>1, <1>5, <1>12 DEF OrderInv, ToPass
<1>14. QED
  BY <1>5, <1>13

(***************************************************************************)
(* The end of either loop: the timer on its way is put down.               *)
(***************************************************************************)
LEMMA Place ==
    ASSUME IInv, Sifting,
           c_' = Put(c_, job.i, job.v), fds_' = Put(fds_, job.v.fd, job.i),
           UNCHANGED <<n_, now>>,
           \/ job' = Ready /\ job.op # "pop"
           \/ job' = Erasing /\ job.op = "pop"
           \/ job' = Sift("up", job.op, job.x, c_')
    PROVE  View' = View /\ TypeOK' /\ VacancyInv' /\ IndexInv' /\ ClockInv' /\ timers' = timers
<1> USE DEF IInv
<1>1. /\ job \in SiftState /\ n_ \in Nat /\ Positions \subseteq DOMAIN c_
      /\ c_ \in [DOMAIN c_ -> Timer] /\ DOMAIN c_ = 0..LastPosition
      /\ Popping <=> job.op = "pop"
  BY Jobs DEF Sifting
<1>2. /\ job.i \in DOMAIN c_ /\ job.x \in DOMAIN c_ /\ job.v \in Timer
      /\ job.op \in {"push", "adjust", "pop"}
  BY <1>1 DEF SiftState
<1>3. /\ View \in [DOMAIN c_ -> Timer] /\ View[job.i] = job.v
      /\ \A k \in DOMAIN c_ \ {job.i} : View[k] = c_[k]
      /\ timers = {View[k] : k \in Positions}
  BY <1>2, ViewType
<1>4. c_' = View /\ c_' \in [DOMAIN c_ -> Timer] /\ DOMAIN c_' = DOMAIN c_
  <2>1. DOMAIN c_' = DOMAIN c_ /\ \A k \in DOMAIN c_ : c_'[k] = View[k]
    BY <1>1, <1>2, <1>3 DEF Put
  <2>2. c_' = [k \in DOMAIN c_' |-> c_'[k]]
    BY DEF Put
  <2>3. QED
    BY <1>3, <2>1, <2>2
<1>5. /\ Popping' <=> Popping
      /\ \/ job' = Ready \/ job' = Erasing \/ job' \in SiftState
      /\ Sifting' => /\ job'.v = c_'[job'.i] /\ job'.i = job.x /\ job'.x = job.x
                     /\ job'.op = job.op
  <2>1. CASE job' = Ready /\ job.op # "pop"
    <3>1. job'.pc = "ready"
      BY <2>1 DEF Ready
    <3>2. QED
      BY <1>1, <2>1, <3>1 DEF Popping, Sifting
  <2>2. CASE job' = Erasing /\ job.op = "pop"
    <3>1. job'.pc = "erase" /\ job' # Ready
      BY <2>2 DEF Erasing, Ready
    <3>2. QED
      BY <1>1, <2>2, <3>1 DEF Popping, Sifting
  <2>3. CASE job' = Sift("up", job.op, job.x, c_')
    <3>1. /\ job' = [pc |-> "up", op |-> job.op, i |-> job.x, x |-> job.x, v |-> c_'[job.x]]
          /\ c_'[job.x] \in Timer
      BY <1>2, <1>4, <2>3 DEF Sift
    <3>2. /\ job' \in SiftState /\ job'.pc = "up" /\ job'.op = job.op /\ job'.i = job.x
          /\ job'.x = job.x /\ job'.v = c_'[job.x]
      BY <1>2, <3>1 DEF SiftState
    <3>3. job' # Ready
      BY <3>2 DEF Ready
    <3>4. QED
      BY <1>1, <3>2, <3>3 DEF Popping
  <2>4. QED
    BY <2>1, <2>2, <2>3
<1>6. View' = View /\ timers' = timers
  <2>1. View' = c_' /\ (Positions' \subseteq DOMAIN c_ => timers' = {c_'[k] : k \in Positions'})
    BY <1>4, <1>5, Settled
  <2>2. Positions' = Positions
    BY DEF Positions
  <2>3. QED
    BY <1>1, <1>3, <1>4, <2>1, <2>2
<1>7. TypeOK'
  <2>1. /\ n_' \in 0..Cardinality(Keys) /\ now' \in 0..MaxNow
        /\ DOMAIN fds_ \subseteq Keys /\ \A f \in DOMAIN fds_ : fds_[f] \in DOMAIN c_
    BY DEF TypeOK
  <2>2. c_' \in [0..LastPosition' -> Timer]
    BY <1>1, <1>4, <1>5 DEF LastPosition
  <2>3. job' = Ready \/ job' = Erasing \/ job' \in SiftState'
    BY <1>4, <1>5 DEF SiftState
  <2>4. DOMAIN fds_' \subseteq Keys /\ \A f \in DOMAIN fds_' : fds_'[f] \in DOMAIN c_'
    <3>1. job.v.fd \in Keys
      BY <1>2 DEF Timer
    <3>2. QED
      BY <1>2, <1>4, <2>1, <3>1 DEF Put
  <2>5. QED
    BY <2>1, <2>2, <2>3, <2>4 DEF TypeOK, LastPosition, Popping, SiftState, Erasing
<1>8. VacancyInv'
  BY <1>1, <1>2, <1>5 DEF VacancyInv
<1>9. IndexInv'
  <2>1. Astray \ {job.i} \subseteq Astray'
    BY <1>5 DEF Astray
  <2>2. Distinct(View) /\ Indexed(View, fds_, Astray)
    BY DEF IndexInv
  <2>3. Indexed(View, Put(fds_, View[job.i].fd, job.i), Astray')
    BY <1>2, <1>3, <2>1, <2>2, PlaceIndex
  <2>4. QED
    BY <1>3, <1>6, <2>2, <2>3 DEF IndexInv
<1>10. ClockInv'
  BY <1>4, <1>6 DEF ClockInv
<1>11. QED
  BY <1>6, <1>7, <1>8, <1>9, <1>10

(* A heap is one whichever edges are excused. *)
LEMMA HeapIsOrdered ==
    ASSUME NEW n \in Nat, NEW D, 0..(n - 1) \subseteq D, NEW V \in [D -> Timer],
           Heap(V, n, {}), NEW X, NEW i \in Nat, i < n \/ n = 0
    PROVE  Heap(V, n, X) /\ Spanned(V, n, i)
<1>1. Heap(V, n, X)
  BY DEF Heap
<1>2. ASSUME NEW k \in 1..(n - 1), Parent(k) = i, i # 0
      PROVE  V[Parent(i)].timestamp <= V[k].timestamp
  <2>1. i \in 1..(n - 1)
    BY <1>2
  <2>2. Parent(i) \in 0..(n - 1)
    BY <2>1, ParentOf
  <2>3. /\ V[Parent(i)].timestamp \in Nat /\ V[i].timestamp \in Nat /\ V[k].timestamp \in Nat
    BY <2>1, <2>2, HeapAssumption DEF Timer
  <2>4. V[Parent(i)].timestamp <= V[i].timestamp /\ V[i].timestamp <= V[k].timestamp
    BY <1>2, <2>1 DEF Heap
  <2>5. QED
    BY <2>3, <2>4
<1>3. QED
  BY <1>1, <1>2 DEF Spanned

LEMMA UpPlacePreserves ==
    ASSUME IInv, UpPlace
    PROVE  IInv' /\ timers' = timers
<1> USE DEF IInv
<1>1. /\ Sifting /\ job.pc = "up" /\ UpStops
      /\ c_' = Put(c_, job.i, job.v) /\ fds_' = Put(fds_, job.v.fd, job.i)
      /\ UNCHANGED <<n_, now>>
      /\ \/ job' = Ready /\ job.op # "pop"
         \/ job' = Erasing /\ job.op = "pop"
  BY DEF UpPlace, Sifting, Erasing
<1>2. View' = View /\ TypeOK' /\ VacancyInv' /\ IndexInv' /\ ClockInv' /\ timers' = timers
  BY <1>1, Place
<1>3. /\ job \in SiftState /\ n_ \in Nat /\ Positions \subseteq DOMAIN c_
      /\ job.i \in DOMAIN c_ /\ DOMAIN c_ = 0..LastPosition
  BY <1>1, Jobs DEF SiftState
<1>4. Heap(View, n_, {})
  <2>1. ASSUME NEW k \in 1..(n_ - 1) PROVE View[Parent(k)].timestamp <= View[k].timestamp
    <3>1. CASE k # job.i
      BY <1>1, <3>1 DEF OrderInv, ToPass, Heap
    <3>2. CASE k = job.i
      <4>1. Parent(k) \in Positions /\ Parent(k) # k
        BY <1>3, ParentOf DEF Positions
      <4>2. View[Parent(k)] = c_[Parent(k)] /\ View[k] = job.v
        BY <1>1, <1>3, <3>2, <4>1, ViewType
      <4>3. View[Parent(k)].timestamp \in Nat /\ View[k].timestamp \in Nat
        BY <1>3, <3>2, <4>1, ViewType, HeapAssumption DEF Timer
      <4>4. QED
        BY <1>1, <1>3, <3>2, <4>2, <4>3 DEF UpStops, Less
    <3>3. QED
      BY <3>1, <3>2
  <2>2. QED
    BY <2>1 DEF Heap
<1>5. OrderInv'
  BY <1>1, <1>2, <1>4 DEF OrderInv, ToPass, Sifting, Ready, Erasing
<1>6. QED
  BY <1>2, <1>5

LEMMA DownPlacePreserves ==
    ASSUME IInv, DownPlace
    PROVE  IInv' /\ timers' = timers
<1> USE DEF IInv
<1> DEFINE i == job.i
<1>1. /\ Sifting /\ job.pc = "down" /\ DownStops
      /\ c_' = Put(c_, job.i, job.v) /\ fds_' = Put(fds_, job.v.fd, job.i)
      /\ UNCHANGED <<n_, now>>
  BY DEF DownPlace, Sifting
<1>2. /\ job \in SiftState /\ n_ \in Nat /\ Positions \subseteq DOMAIN c_
      /\ DOMAIN c_ = 0..LastPosition
  BY <1>1, Jobs
<1>3. i \in DOMAIN c_ /\ i \in Nat /\ job.x \in Nat /\ job.op \in {"push", "adjust", "pop"}
  BY <1>2 DEF SiftState
<1>4. \/ job' = Ready /\ job.op # "pop"
      \/ job' = Erasing /\ job.op = "pop"
      \/ job' = Sift("up", job.op, job.x, c_')
  BY <1>3 DEF DownPlace, Erasing
<1>5. View' = View /\ TypeOK' /\ VacancyInv' /\ IndexInv' /\ ClockInv' /\ timers' = timers
  BY <1>1, <1>4, Place
<1>6. View \in [DOMAIN c_ -> Timer] /\ \A k \in DOMAIN c_ : View[k].timestamp \in Nat
  BY ViewType, HeapAssumption DEF Timer
<1>7. Heap(View, n_, {})
  <2>1. ASSUME NEW k \in 1..(n_ - 1) PROVE View[Parent(k)].timestamp <= View[k].timestamp
    <3>1. CASE k \notin {2 * i + 1, 2 * i + 2}
      BY <1>1, <3>1 DEF OrderInv, ToPass, Heap
    <3>2. CASE k \in {2 * i + 1, 2 * i + 2}
      <4>1. Parent(k) = i /\ k # i /\ k \in DOMAIN c_ /\ 2 * i + 1 < n_
        BY <1>2, <1>3, <3>2, ParentOf DEF Positions
      <4>2. View[i] = job.v /\ \A j \in DOMAIN c_ \ {i} : View[j] = c_[j]
        BY <1>1, <1>3, ViewType
      <4>3. 2 * i + 1 \in DOMAIN c_ \ {i} /\ (2 * i + 2 < n_ => 2 * i + 2 \in DOMAIN c_ \ {i})
        BY <1>2, <1>3, <4>1 DEF Positions
      <4>4. Child(i) \in DOMAIN c_ \ {i} /\ Less(c_[Child(i)], job.v)
        BY <1>1, <4>1, <4>3 DEF DownStops, Child
      <4>5. c_[Child(i)].timestamp <= c_[k].timestamp
        <5>1. CASE Child(i) = k
          BY <1>6, <4>1, <4>2, <5>1
        <5>2. CASE Child(i) # k
          <6>1. 2 * i + 2 < n_
            BY <1>2, <1>3, <3>2, <4>1, <5>2 DEF Child
          <6>2. c_[2 * i + 1].timestamp \in Nat /\ c_[2 * i + 2].timestamp \in Nat
            BY <1>6, <4>2, <4>3, <6>1
          <6>3. QED
            BY <3>2, <5>2, <6>1, <6>2 DEF Child, Less
        <5>3. QED
          BY <5>1, <5>2
      <4>6. job.v.timestamp \in Nat /\ c_[k].timestamp \in Nat /\ c_[Child(i)].timestamp \in Nat
        BY <1>3, <1>6, <4>1, <4>2, <4>4
      <4>7. QED
        BY <4>1, <4>2, <4>4, <4>5, <4>6 DEF Less
    <3>3. QED
      BY <3>1, <3>2
  <2>2. QED
    BY <2>1 DEF Heap
<1>8. OrderInv'
  <2>1. job.x < n_ \/ n_ = 0
    BY <1>1, <1>2 DEF VacancyInv
  <2>2. 0..(n_ - 1) \subseteq DOMAIN c_
    BY <1>2 DEF Positions
  <2>3. \A X : Heap(View, n_, X) /\ Spanned(View, n_, job.x)
    BY <1>2, <1>3, <1>6, <1>7, <2>1, <2>2, HeapIsOrdered
  <2>4. Sifting' => job'.i = job.x
    BY <1>4 DEF Sifting, Ready, Erasing, Sift
  <2>5. QED
    BY <1>1, <1>5, <2>3, <2>4 DEF OrderInv
<1>9. QED
  BY <1>5, <1>8

(***************************************************************************)
(* The operations.  Between two of them the view is the vector itself.     *)
(***************************************************************************)
LEMMA Resting ==
    ASSUME IInv, ~Sifting
    PROVE  /\ View = c_ /\ c_ \in [0..LastPosition -> Timer] /\ n_ \in Nat
           /\ DOMAIN c_ = 0..LastPosition /\ timers = {c_[k] : k \in Positions}
           /\ \A k \in DOMAIN c_ : c_[k].timestamp \in Nat /\ c_[k].timestamp <= now + Lifetime
           /\ Heap(c_, n_, {}) /\ Distinct(c_) /\ Indexed(c_, fds_, Astray)
           /\ job = Ready => LastPosition = n_ - 1 /\ Astray = {}
           /\ job = Erasing => LastPosition = n_ /\ Astray = {n_}
<1> USE DEF IInv
<1>1. /\ c_ \in [0..LastPosition -> Timer] /\ n_ \in Nat /\ DOMAIN c_ = 0..LastPosition
      /\ Positions \subseteq DOMAIN c_
  BY Jobs
<1>2. View = c_ /\ timers = {c_[k] : k \in Positions}
  <2>1. \A k \in DOMAIN c_ : At(k) = c_[k]
    BY DEF At
  <2>2. QED
    BY <1>1, <2>1 DEF View, timers
<1>3. \A k \in DOMAIN c_ : c_[k].timestamp \in Nat /\ c_[k].timestamp <= now + Lifetime
  BY <1>1, <1>2, HeapAssumption DEF ClockInv, Timer
<1>4. Heap(c_, n_, {}) /\ Distinct(c_) /\ Indexed(c_, fds_, Astray)
  BY <1>2 DEF OrderInv, ToPass, IndexInv, Sifting
<1>5. job = Ready => LastPosition = n_ - 1 /\ Astray = {}
  BY DEF LastPosition, Astray, Popping
<1>6. job = Erasing => LastPosition = n_ /\ Astray = {n_}
  BY Jobs DEF LastPosition, Astray
<1>7. QED
  BY <1>1, <1>2, <1>3, <1>4, <1>5, <1>6

LEMMA TickPreserves ==
    ASSUME IInv, Tick
    PROVE  IInv' /\ timers' = timers
<1> USE DEF IInv
<1>1. /\ UNCHANGED <<c_, n_, fds_, job>> /\ now \in 0..MaxNow /\ now' \in 0..MaxNow /\ now' = now + 1
      /\ ~Sifting
  BY HeapAssumption DEF Tick, TypeOK, Ready, Sifting
<1>2. /\ View' = View /\ timers' = timers /\ Astray' = Astray /\ ToPass' = ToPass
      /\ (Sifting' <=> Sifting)
  BY <1>1 DEF View, At, timers, Astray, ToPass, Sifting, Popping, Positions
<1>3. TypeOK'
  BY <1>1 DEF TypeOK
<1>4. VacancyInv' /\ IndexInv' /\ OrderInv'
  BY <1>1, <1>2 DEF VacancyInv, IndexInv, OrderInv
<1>5. ClockInv'
  <2>1. \A k \in DOMAIN c_ : View[k].timestamp \in Nat /\ View[k].timestamp <= now + Lifetime
    BY <1>1, Resting
  <2>2. QED
    BY <1>1, <1>2, <2>1, HeapAssumption DEF ClockInv
<1>6. QED
  BY <1>2, <1>3, <1>4, <1>5

LEMMA ErasePreserves ==
    ASSUME IInv, Erase
    PROVE  IInv' /\ timers' = timers
<1> USE DEF IInv
<1>1. job = Erasing /\ ~Sifting
  BY Jobs DEF Erase, Sifting
<1>2. /\ c_ \in [0..n_ -> Timer] /\ n_ \in Nat /\ timers = {c_[k] : k \in Positions}
      /\ \A k \in 0..n_ : c_[k].timestamp <= now + Lifetime
      /\ Heap(c_, n_, {}) /\ Distinct(c_) /\ Indexed(c_, fds_, {n_})
  BY <1>1, Resting
<1>3. /\ c_' = Remove(c_, n_) /\ fds_' = Remove(fds_, c_[n_].fd) /\ job' = Ready
      /\ UNCHANGED <<n_, now>> /\ Positions' = Positions /\ ~Sifting' /\ Positions = 0..(n_ - 1)
  BY DEF Erase, Positions, Sifting, Ready
<1>4. /\ c_' \in [0..(n_ - 1) -> Timer] /\ \A k \in 0..(n_ - 1) : c_'[k] = c_[k]
  BY <1>2, <1>3 DEF Remove
<1>5. View' = c_' /\ timers' = timers
  <2>1. View' = c_' /\ timers' = {c_'[k] : k \in Positions'}
    BY <1>3, <1>4, Settled
  <2>2. QED
    BY <1>2, <1>3, <1>4, <2>1
<1>6. Distinct(c_')
  BY <1>2, <1>4 DEF Distinct
<1>7. DOMAIN fds_' = {c_'[k].fd : k \in 0..(n_ - 1)} /\ \A k \in 0..(n_ - 1) : fds_'[c_'[k].fd] = k
  <2>1. DOMAIN fds_ = {c_[k].fd : k \in 0..n_} /\ \A k \in 0..n_ \ {n_} : fds_[c_[k].fd] = k
    BY <1>2 DEF Indexed
  <2>2. /\ DOMAIN fds_' = DOMAIN fds_ \ {c_[n_].fd}
        /\ \A f \in DOMAIN fds_ \ {c_[n_].fd} : fds_'[f] = fds_[f]
    BY <1>3 DEF Remove
  <2>3. \A k \in 0..(n_ - 1) : k \in 0..n_ /\ k # n_ /\ c_[k].fd # c_[n_].fd
    BY <1>2 DEF Distinct
  <2>4. 0..n_ = (0..(n_ - 1)) \cup {n_}
    BY <1>2
  <2>5. DOMAIN fds_' = {c_[k].fd : k \in 0..(n_ - 1)}
    BY <2>1, <2>2, <2>3, <2>4
  <2>6. \A k \in 0..(n_ - 1) : fds_'[c_[k].fd] = k
    BY <2>1, <2>2, <2>3
  <2>7. \A k \in 0..(n_ - 1) : c_'[k].fd = c_[k].fd
    BY <1>4
  <2>8. {c_'[k].fd : k \in 0..(n_ - 1)} = {c_[k].fd : k \in 0..(n_ - 1)}
    BY <2>7
  <2>9. QED
    BY <2>5, <2>6, <2>7, <2>8
<1>8. IndexInv'
  BY <1>4, <1>5, <1>6, <1>7 DEF IndexInv, Indexed
<1>9. TypeOK'
  <2>1. n_' \in 0..Cardinality(Keys) /\ now' \in 0..MaxNow
    BY <1>3 DEF TypeOK
  <2>2. DOMAIN fds_' \subseteq Keys
    BY <1>3 DEF TypeOK, Remove
  <2>3. \A f \in DOMAIN fds_' : fds_'[f] \in DOMAIN c_'
    BY <1>4, <1>7
  <2>4. QED
    BY <1>3, <1>4, <2>1, <2>2, <2>3 DEF TypeOK
<1>10. VacancyInv'
  BY <1>3 DEF VacancyInv
<1>11. OrderInv'
  <2>1. \A k \in 1..(n_ - 1) : k \in 0..(n_ - 1) /\ Parent(k) \in 0..(n_ - 1)
    BY <1>2, ParentOf
  <2>2. Heap(c_', n_, {})
    BY <1>2, <1>4, <2>1 DEF Heap
  <2>3. QED
    BY <1>3, <1>5, <2>2 DEF OrderInv, ToPass, Ready
<1>12. ClockInv'
  BY <1>2, <1>3, <1>4, <1>5 DEF ClockInv
<1>13. QED
  BY <1>5, <1>8, <1>9, <1>10, <1>11, <1>12

LEMMA PushNewPreserves ==
    ASSUME IInv, NEW f \in Keys, PushNew(f)
    PROVE  IInv' /\ Abstract!Push(f, now + Lifetime)
<1> USE HeapAssumption DEF IInv
<1> DEFINE t == [fd |-> f, timestamp |-> now + Lifetime]
<1>1. /\ job = Ready /\ ~Sifting /\ f \notin DOMAIN fds_ /\ now' = now /\ n_' = n_ + 1
      /\ c_' = Put(c_, n_, t) /\ fds_' = Put(fds_, f, n_)
      /\ job' = IF n_ + 1 = 1 THEN Ready ELSE Sift("up", "push", n_, c_')
  BY DEF PushNew, Sifting, Ready
<1>2. /\ c_ \in [0..(n_ - 1) -> Timer] /\ n_ \in Nat /\ timers = {c_[k] : k \in Positions}
      /\ \A k \in 0..(n_ - 1) : c_[k].timestamp <= now + Lifetime
      /\ Heap(c_, n_, {}) /\ Distinct(c_) /\ Indexed(c_, fds_, {})
  BY <1>1, Resting
<1>3. now \in 0..MaxNow /\ t \in Timer /\ t.fd = f /\ t.timestamp = now + Lifetime
  BY DEF TypeOK, Timer
<1> HIDE DEF t
<1>4. /\ c_' \in [0..n_ -> Timer] /\ c_'[n_] = t /\ \A k \in 0..(n_ - 1) : c_'[k] = c_[k]
  <2>1. (0..(n_ - 1)) \cup {n_} = 0..n_ /\ n_ \notin 0..(n_ - 1)
    BY <1>2
  <2>2. QED
    BY <1>1, <1>2, <1>3, <2>1 DEF Put
<1>5. /\ DOMAIN fds_ = {c_[k].fd : k \in 0..(n_ - 1)}
      /\ \A k \in 0..(n_ - 1) : fds_[c_[k].fd] = k /\ c_[k].fd # f
  BY <1>1, <1>2 DEF Indexed
<1>6. \/ job' = Ready /\ n_' = 1 /\ ~Sifting'
      \/ /\ job' \in SiftState' /\ Sifting' /\ job'.pc = "up" /\ job'.op = "push"
         /\ job'.i = n_ /\ job'.x = n_ /\ job'.v = c_'[n_]
  <2>1. CASE n_ + 1 = 1
    BY <1>1, <2>1 DEF Sifting, Ready
  <2>2. CASE n_ + 1 # 1
    <3>1. job' = [pc |-> "up", op |-> "push", i |-> n_, x |-> n_, v |-> c_'[n_]]
      BY <1>1, <2>2 DEF Sift
    <3>2. n_ \in 0..n_ /\ DOMAIN c_' = 0..n_ /\ c_'[n_] \in Timer
      BY <1>2, <1>3, <1>4
    <3>3. QED
      BY <3>1, <3>2 DEF SiftState, Sifting
  <2>3. QED
    BY <2>1, <2>2
<1>7. ~Popping'
  <2>1. job' # Ready => job'.pc = "up" /\ job'.op = "push"
    BY <1>6
  <2>2. QED
    BY <2>1 DEF Popping
<1>8. View' = c_' /\ timers' = {c_'[k] : k \in 0..n_} /\ Positions = 0..(n_ - 1)
  <2>1. Sifting' => job'.v = c_'[job'.i]
    BY <1>6
  <2>2. Positions' = 0..n_ /\ Positions = 0..(n_ - 1)
    BY <1>1, <1>2 DEF Positions
  <2>3. QED
    BY <1>4, <2>1, <2>2, Settled
<1>9. Distinct(c_')
  <2>1. ASSUME NEW j \in 0..n_, NEW k \in 0..n_, c_'[j].fd = c_'[k].fd PROVE j = k
    <3>1. (j = n_ \/ j \in 0..(n_ - 1)) /\ (k = n_ \/ k \in 0..(n_ - 1))
      BY <1>2
    <3>2. QED
      BY <1>2, <1>3, <1>4, <1>5, <2>1, <3>1 DEF Distinct
  <2>2. QED
    BY <1>4, <2>1 DEF Distinct
<1>10. n_' \in 0..Cardinality(Keys)
  <2> DEFINE g == [k \in 0..n_ |-> c_'[k].fd]
  <2>1. g \in Injection(0..n_, Keys)
    <3>1. g \in [0..n_ -> Keys]
      BY <1>4 DEF Timer
    <3>2. \A j, k \in 0..n_ : g[j] = g[k] => j = k
      BY <1>4, <1>9 DEF Distinct
    <3>3. QED
      BY <3>1, <3>2 DEF Injection, IsInjective
  <2>2. Cardinality(0..n_) = n_ + 1
    BY <1>2, FS_Interval
  <2>3. Cardinality(0..n_) <= Cardinality(Keys)
    <3> HIDE DEF g
    <3> QED
      BY <2>1, FS_Injection
  <2>4. QED
    BY <1>1, <1>2, <2>2, <2>3, FS_CardinalityType
<1>11. /\ DOMAIN fds_' = DOMAIN fds_ \cup {f} /\ fds_'[f] = n_
       /\ \A g \in DOMAIN fds_ : fds_'[g] = fds_[g]
  BY <1>1 DEF Put
<1>12. TypeOK'
  <2>1. c_' \in [0..LastPosition' -> Timer]
    BY <1>1, <1>2, <1>4, <1>7 DEF LastPosition
  <2>2. DOMAIN fds_' \subseteq Keys /\ \A g \in DOMAIN fds_' : fds_'[g] \in DOMAIN c_'
    <3>1. DOMAIN fds_ \subseteq Keys /\ \A g \in DOMAIN fds_ : fds_[g] \in DOMAIN c_
      BY DEF TypeOK
    <3>2. DOMAIN c_' = DOMAIN c_ \cup {n_}
      BY <1>1 DEF Put
    <3>3. QED
      BY <1>11, <3>1, <3>2
  <2>3. QED
    BY <1>1, <1>3, <1>6, <1>10, <2>1, <2>2 DEF TypeOK, LastPosition, Popping, SiftState
<1>13. VacancyInv'
  BY <1>1, <1>2, <1>6 DEF VacancyInv
<1>14. IndexInv'
  <2>1. \A k \in 0..n_ : k = n_ \/ k \in 0..(n_ - 1)
    BY <1>2
  <2>2. \A k \in 0..n_ : fds_'[c_'[k].fd] = k
    BY <1>3, <1>4, <1>5, <1>11, <2>1
  <2>3. DOMAIN fds_' = {c_'[k].fd : k \in 0..n_}
    <3>1. {c_'[k].fd : k \in 0..n_} = {c_'[k].fd : k \in 0..(n_ - 1)} \cup {f}
      BY <1>2, <1>3, <1>4, <2>1
    <3>2. {c_'[k].fd : k \in 0..(n_ - 1)} = {c_[k].fd : k \in 0..(n_ - 1)}
      BY <1>4
    <3>3. QED
      BY <1>5, <1>11, <3>1, <3>2
  <2>4. QED
    BY <1>4, <1>8, <1>9, <2>2, <2>3 DEF IndexInv, Indexed
<1>15. OrderInv'
  <2>1. ASSUME NEW k \in 1..n_ PROVE k = n_ \/ c_'[Parent(k)].timestamp <= c_'[k].timestamp
    <3>1. k # n_ => k \in 1..(n_ - 1) /\ k \in 0..(n_ - 1) /\ Parent(k) \in 0..(n_ - 1)
      BY <1>2, ParentOf
    <3>2. QED
      BY <1>2, <1>4, <3>1 DEF Heap
  <2>2. \A k \in 1..n_ : Parent(k) # n_
    BY <1>2, ParentOf
  <2>3. n_' - 1 = n_ /\ (n_' = 1 => 1..n_ = {})
    BY <1>1, <1>2
  <2>4. CASE ~Sifting'
    <3>1. 1..(n_' - 1) = {} /\ job' = Ready
      BY <1>6, <2>3, <2>4
    <3>2. QED
      BY <2>4, <3>1 DEF OrderInv, Heap
  <2>5. CASE Sifting'
    <3>1. ToPass' = {n_} /\ job'.i = n_
      BY <1>6, <2>5, <1>7 DEF ToPass, Popping, Sifting
    <3>2. QED
      BY <1>8, <2>1, <2>2, <2>3, <3>1 DEF OrderInv, Heap, Spanned
  <2>6. QED
    BY <2>4, <2>5
<1>16. ClockInv'
  <2>1. \A k \in 0..n_ : c_'[k].timestamp <= now + Lifetime
    <3>1. \A k \in 0..n_ : k = n_ \/ k \in 0..(n_ - 1)
      BY <1>2
    <3>2. QED
      BY <1>2, <1>3, <1>4, <3>1
  <2>2. QED
    BY <1>1, <1>4, <1>8, <2>1 DEF ClockInv
<1>17. timers' = {s \in timers : s.fd # f} \cup {t}
  <2>1. \A k \in 0..n_ : k = n_ \/ k \in 0..(n_ - 1)
    BY <1>2
  <2>2. \A k \in 0..(n_ - 1) : k \in 0..n_
    BY <1>2
  <2>3. timers' = {c_[k] : k \in 0..(n_ - 1)} \cup {t}
    BY <1>2, <1>4, <1>8, <2>1, <2>2
  <2>4. \A s \in timers : s.fd # f
    BY <1>2, <1>5, <1>8
  <2>5. QED
    BY <1>2, <1>8, <2>3, <2>4
<1>18. QED
  BY <1>12, <1>13, <1>14, <1>15, <1>16, <1>17 DEF Abstract!Push, t

(* A new time is not before any other, so that the timer has to go down only. *)
LEMMA SetTimePreserves ==
    ASSUME IInv, NEW f \in Keys, NEW op \in {"push", "adjust"}, SetTime(op, f)
    PROVE  IInv' /\ Abstract!Push(f, now + Lifetime)
<1> USE HeapAssumption DEF IInv
<1> DEFINE m == fds_[f]
           D == 0..(n_ - 1)
<1>1. /\ job = Ready /\ ~Sifting /\ f \in DOMAIN fds_ /\ UNCHANGED <<n_, fds_, now>>
      /\ c_' = [c_ EXCEPT ![m].timestamp = now + Lifetime]
      /\ job' = Sift("down", op, m, c_')
  BY DEF SetTime, Sifting, Ready
<1>2. /\ c_ \in [D -> Timer] /\ n_ \in Nat /\ timers = {c_[k] : k \in Positions}
      /\ \A k \in D : c_[k].timestamp \in Nat /\ c_[k].timestamp <= now + Lifetime
      /\ Heap(c_, n_, {}) /\ Distinct(c_) /\ Indexed(c_, fds_, {})
  BY <1>1, Resting
<1>3. /\ DOMAIN fds_ = {c_[k].fd : k \in D} /\ \A k \in D : fds_[c_[k].fd] = k
      /\ m \in D /\ c_[m].fd = f
  BY <1>1, <1>2 DEF Indexed
<1>4. /\ now \in 0..MaxNow /\ now + Lifetime \in 0..(MaxNow + Lifetime)
      /\ now + Lifetime \in Nat
  BY DEF TypeOK
<1> HIDE DEF m, D
<1>5. /\ c_' \in [D -> Timer] /\ c_'[m].fd = f /\ c_'[m].timestamp = now + Lifetime
      /\ c_'[m] = [fd |-> f, timestamp |-> now + Lifetime]
      /\ \A k \in D \ {m} : c_'[k] = c_[k]
  <2>1. c_[m] \in Timer /\ c_'[m] = [c_[m] EXCEPT !.timestamp = now + Lifetime]
    BY <1>1, <1>2, <1>3
  <2>2. /\ c_'[m] \in Timer /\ c_'[m].fd = f /\ c_'[m].timestamp = now + Lifetime
        /\ c_'[m] = [fd |-> f, timestamp |-> now + Lifetime]
    BY <1>3, <1>4, <2>1 DEF Timer
  <2>3. DOMAIN c_' = D /\ \A k \in D \ {m} : c_'[k] = c_[k]
    BY <1>1, <1>2
  <2>4. c_' = [k \in D |-> IF k = m THEN c_'[m] ELSE c_[k]]
    BY <1>1, <1>2, <1>3, <2>1
  <2>5. QED
    BY <1>2, <2>2, <2>3, <2>4
<1>6. \A k \in D : c_'[k].fd = c_[k].fd
  BY <1>3, <1>5
<1>7. /\ job' \in SiftState' /\ Sifting' /\ job'.pc = "down" /\ job'.op = op
      /\ job'.i = m /\ job'.x = m /\ job'.v = c_'[m] /\ ~Popping'
  <2>1. job' = [pc |-> "down", op |-> op, i |-> m, x |-> m, v |-> c_'[m]]
    BY <1>1 DEF Sift
  <2>2. DOMAIN c_' = D /\ c_'[m] \in Timer
    BY <1>3, <1>5
  <2>3. /\ job' \in SiftState' /\ Sifting' /\ job'.pc = "down" /\ job'.op = op
        /\ job'.i = m /\ job'.x = m /\ job'.v = c_'[m]
    BY <1>3, <2>1, <2>2 DEF SiftState, Sifting
  <2>4. QED
    BY <2>3 DEF Popping
<1>8. View' = c_' /\ timers' = {c_'[k] : k \in D} /\ timers = {c_[k] : k \in D}
  <2>1. Positions' = D /\ Positions = D
    BY <1>1 DEF Positions, D
  <2>2. QED
    BY <1>2, <1>5, <1>7, <2>1, Settled
<1>9. TypeOK'
  <2>1. c_' \in [0..LastPosition' -> Timer]
    BY <1>1, <1>5, <1>7 DEF LastPosition, D
  <2>2. /\ n_' \in 0..Cardinality(Keys) /\ now' \in 0..MaxNow
        /\ DOMAIN fds_' \subseteq Keys /\ \A g \in DOMAIN fds_' : fds_'[g] \in DOMAIN c_'
    BY <1>1 DEF TypeOK
  <2>3. QED
    BY <1>7, <2>1, <2>2 DEF TypeOK, LastPosition, Popping, SiftState
<1>10. VacancyInv'
  BY <1>1, <1>2, <1>3, <1>7 DEF VacancyInv, D
<1>11. IndexInv'
  <2>1. Distinct(c_')
    BY <1>2, <1>5, <1>6 DEF Distinct
  <2>2. {c_'[k].fd : k \in D} = {c_[k].fd : k \in D}
    BY <1>6
  <2>3. DOMAIN c_' = D /\ \A k \in D : fds_[c_'[k].fd] = k
    BY <1>3, <1>5, <1>6
  <2>4. Indexed(c_', fds_, Astray')
    BY <1>3, <2>2, <2>3 DEF Indexed
  <2>5. QED
    BY <1>1, <1>8, <2>1, <2>4 DEF IndexInv
<1>12. OrderInv'
  <2>1. m \in Nat /\ m < n_ /\ 0..(n_ - 1) \subseteq D
    BY <1>2, <1>3 DEF D
  <2>2. Spanned(c_, n_, m)
    BY <1>2, <2>1, HeapIsOrdered
  <2>3. \A k \in 1..(n_ - 1) : /\ k \in D /\ Parent(k) \in D /\ Parent(k) # k
                               /\ Parent(k) = m <=> k \in {2 * m + 1, 2 * m + 2}
    BY <1>2, <2>1, ParentOf DEF D
  <2>4. ASSUME NEW k \in 1..(n_ - 1), Parent(k) # m
        PROVE  c_'[Parent(k)].timestamp <= c_'[k].timestamp
    <3>1. c_'[Parent(k)] = c_[Parent(k)] /\ c_[Parent(k)].timestamp <= now + Lifetime
      BY <1>2, <1>5, <2>3, <2>4
    <3>2. CASE k = m
      BY <1>5, <3>1, <3>2
    <3>3. CASE k # m
      BY <1>2, <1>5, <2>3, <3>1, <3>3 DEF Heap
    <3>4. QED
      BY <3>2, <3>3
  <2>5. ASSUME NEW k \in 1..(n_ - 1), Parent(k) = m, m # 0
        PROVE  c_'[Parent(m)].timestamp <= c_'[k].timestamp
    <3>1. m \in 1..(n_ - 1)
      BY <1>3, <2>5 DEF D
    <3>2. c_'[Parent(m)] = c_[Parent(m)] /\ c_'[k] = c_[k]
      BY <1>5, <2>3, <2>5, <3>1
    <3>3. QED
      BY <2>2, <2>5, <3>2 DEF Spanned
  <2>6. ToPass' = {2 * m + 1, 2 * m + 2}
    BY <1>7 DEF ToPass
  <2>7. QED
    BY <1>1, <1>7, <1>8, <2>3, <2>4, <2>5, <2>6 DEF OrderInv, Heap, Spanned
<1>13. ClockInv'
  <2>1. \A k \in D : c_'[k].timestamp <= now + Lifetime
    BY <1>2, <1>4, <1>5
  <2>2. QED
    BY <1>1, <1>5, <1>8, <2>1 DEF ClockInv
<1>14. timers' = {s \in timers : s.fd # f} \cup {[fd |-> f, timestamp |-> now + Lifetime]}
  <2>1. \A k \in D : c_[k].fd # f <=> k # m
    BY <1>2, <1>3 DEF Distinct
  <2>2. {s \in timers : s.fd # f} = {c_[k] : k \in D \ {m}}
    BY <1>8, <2>1
  <2>3. timers' = {c_[k] : k \in D \ {m}} \cup {c_'[m]}
    BY <1>3, <1>5, <1>8
  <2>4. QED
    BY <1>5, <2>2, <2>3
<1>15. QED
  BY <1>9, <1>10, <1>11, <1>12, <1>13, <1>14 DEF Abstract!Push

(* The root expires first, and the last timer takes its place. *)
LEMMA popPreserves ==
    ASSUME IInv, pop
    PROVE  IInv' /\ Abstract!Pop
<1> USE HeapAssumption DEF IInv
<1> DEFINE D == 0..(n_ - 1)
           l == n_ - 1
<1>1. /\ job = Ready /\ ~Sifting /\ n_ > 0 /\ n_' = l /\ UNCHANGED <<fds_, now>>
      /\ c_' = [c_ EXCEPT ![0] = c_[l], ![l] = c_[0]]
      /\ job' = Sift("down", "pop", 0, c_')
  BY DEF pop, Sifting, Ready
<1>2. /\ c_ \in [D -> Timer] /\ n_ \in Nat /\ timers = {c_[k] : k \in Positions}
      /\ \A k \in D : c_[k].timestamp \in Nat /\ c_[k].timestamp <= now + Lifetime
      /\ Heap(c_, n_, {}) /\ Distinct(c_) /\ Indexed(c_, fds_, {})
  BY <1>1, Resting
<1>3. 0 \in D /\ l \in D /\ l \in Nat /\ D = 0..l
  BY <1>1, <1>2
<1>4. /\ c_' \in [D -> Timer] /\ c_'[0] = c_[l] /\ c_'[l] = c_[0]
      /\ \A k \in D \ {0, l} : c_'[k] = c_[k]
  BY <1>1, <1>2, <1>3
<1>5. Positions' = 0..(l - 1) /\ Positions = D /\ 0..(l - 1) = D \ {l}
  BY <1>1, <1>2 DEF Positions
<1> HIDE DEF D, l
<1>6. /\ job' \in SiftState' /\ Sifting' /\ job'.pc = "down" /\ job'.op = "pop"
      /\ job'.i = 0 /\ job'.x = 0 /\ job'.v = c_'[0] /\ Popping'
  <2>1. job' = [pc |-> "down", op |-> "pop", i |-> 0, x |-> 0, v |-> c_'[0]]
    BY <1>1 DEF Sift
  <2>2. DOMAIN c_' = D /\ c_'[0] \in Timer
    BY <1>3, <1>4
  <2>3. /\ job' \in SiftState' /\ Sifting' /\ job'.pc = "down" /\ job'.op = "pop"
        /\ job'.i = 0 /\ job'.x = 0 /\ job'.v = c_'[0]
    BY <1>3, <2>1, <2>2 DEF SiftState, Sifting
  <2>4. job' # Ready
    BY <2>3 DEF Ready
  <2>5. QED
    BY <2>3, <2>4 DEF Popping
<1>7. View' = c_' /\ timers' = {c_'[k] : k \in D \ {l}}
  BY <1>4, <1>5, <1>6, Settled
<1>8. TypeOK'
  <2>1. c_' \in [0..LastPosition' -> Timer]
    BY <1>1, <1>3, <1>4, <1>6 DEF LastPosition
  <2>2. n_' \in 0..Cardinality(Keys)
    BY <1>1, <1>3, FS_CardinalityType DEF TypeOK, l
  <2>3. /\ now' \in 0..MaxNow
        /\ DOMAIN fds_' \subseteq Keys /\ \A g \in DOMAIN fds_' : fds_'[g] \in DOMAIN c_'
    BY <1>1, <1>2, <1>4 DEF TypeOK
  <2>4. QED
    BY <1>6, <2>1, <2>2, <2>3 DEF TypeOK, LastPosition, Popping, SiftState
<1>9. VacancyInv'
  BY <1>1, <1>3, <1>6 DEF VacancyInv
<1>10. IndexInv'
  <2>1. Distinct(c_')
    BY <1>2, <1>3, <1>4 DEF Distinct
  <2>2. {c_'[k].fd : k \in D} = {c_[k].fd : k \in D}
    BY <1>3, <1>4
  <2>3. Astray' = {0, l}
    BY <1>1, <1>6 DEF Astray
  <2>4. DOMAIN fds_ = {c_[k].fd : k \in D} /\ \A k \in D : fds_[c_[k].fd] = k
    BY <1>2 DEF Indexed
  <2>5. QED
    BY <1>1, <1>4, <1>7, <2>1, <2>2, <2>3, <2>4 DEF IndexInv, Indexed
<1>11. OrderInv'
  <2>1. ASSUME NEW k \in 1..(l - 1), k \notin {1, 2}
        PROVE  c_'[Parent(k)].timestamp <= c_'[k].timestamp
    <3>1. k \in Nat \ {0} /\ k \in 1..(n_ - 1) /\ k \in D \ {0, l}
      BY <1>2, <1>3, <2>1 DEF D, l
    <3>2. Parent(k) \in Nat /\ Parent(k) < k /\ (Parent(k) = 0 <=> k \in {1, 2})
      BY <3>1, ParentOf
    <3>3. Parent(k) \in D \ {0, l}
      BY <1>2, <1>3, <2>1, <3>1, <3>2 DEF D, l
    <3>4. QED
      BY <1>2, <1>4, <3>1, <3>3 DEF Heap
  <2>2. ToPass' = {1, 2}
    BY <1>6 DEF ToPass
  <2>3. QED
    BY <1>1, <1>6, <1>7, <2>1, <2>2 DEF OrderInv, Heap, Spanned
<1>12. ClockInv'
  <2>1. \A k \in D : c_'[k].timestamp <= now + Lifetime
    BY <1>2, <1>3, <1>4
  <2>2. QED
    BY <1>1, <1>4, <1>7, <2>1 DEF ClockInv
<1>13. timers' = timers \ {c_[0]}
  <2>1. \A k \in D \ {0} : c_[k] # c_[0]
    BY <1>2, <1>3 DEF Distinct
  <2>2. timers \ {c_[0]} = {c_[k] : k \in D \ {0}}
    BY <1>2, <1>3, <1>5, <2>1
  <2>3. {c_'[k] : k \in D \ {l}} = {c_[k] : k \in D \ {0}}
    BY <1>3, <1>4
  <2>4. QED
    BY <1>7, <2>2, <2>3
<1>14. \A u \in timers : c_[0].timestamp <= u.timestamp
  <2>1. DOMAIN c_ = 0..(n_ - 1) /\ \A k \in 0..(n_ - 1) : c_[k].timestamp \in Nat
    BY <1>2 DEF D
  <2>2. \A k \in 0..(n_ - 1) : c_[0].timestamp <= c_[k].timestamp
    BY <1>2, <2>1, RootIsLeast
  <2>3. QED
    BY <1>2, <1>5, <2>2 DEF D
<1>15. c_[0] \in timers
  BY <1>2, <1>3, <1>5
<1>16. QED
  BY <1>8, <1>9, <1>10, <1>11, <1>12, <1>13, <1>14, <1>15 DEF Abstract!Pop

-----------------------------------------------------------------------------
LEMMA InitImpliesIInv == Init => IInv /\ Abstract!Init
<1> SUFFICES ASSUME Init PROVE IInv /\ Abstract!Init
  OBVIOUS
<1>1. /\ n_ = 0 /\ now = 0 /\ job = Ready /\ job.pc = "ready" /\ ~Sifting /\ ~Popping
      /\ DOMAIN c_ = {} /\ c_ = [k \in {} |-> 0] /\ DOMAIN fds_ = {}
      /\ 0..(n_ - 1) = {} /\ 1..(n_ - 1) = {}
  BY DEF Init, Ready, Sifting, Popping
<1>2. TypeOK
  <2>1. 0 \in 0..Cardinality(Keys) /\ 0 \in 0..MaxNow
    BY HeapAssumption, FS_CardinalityType
  <2>2. c_ \in [0..(n_ - 1) -> Timer]
    BY <1>1
  <2>3. QED
    BY <1>1, <2>1, <2>2 DEF TypeOK
<1>3. VacancyInv /\ OrderInv /\ ClockInv
  BY <1>1 DEF VacancyInv, OrderInv, Heap, ClockInv
<1>4. IndexInv
  BY <1>1 DEF IndexInv, Distinct, Indexed, View
<1>5. Abstract!Init
  BY <1>1 DEF Abstract!Init, timers, Positions
<1>6. QED
  BY <1>2, <1>3, <1>4, <1>5 DEF IInv

LEMMA NextPreservesIInv == IInv /\ [Next]_vars => IInv' /\ [Abstract!Next]_timers
<1> SUFFICES ASSUME IInv, [Next]_vars PROVE IInv' /\ [Abstract!Next]_timers
  OBVIOUS
<1>1. now + Lifetime \in 0..(MaxNow + Lifetime)
  BY HeapAssumption DEF IInv, TypeOK
<1>2. ASSUME NEW f \in Keys, PushNew(f) \/ PushExisting(f) \/ adjust(f)
      PROVE  IInv' /\ Abstract!Next
  <2>1. IInv' /\ Abstract!Push(f, now + Lifetime)
    BY <1>2, PushNewPreserves, SetTimePreserves DEF PushExisting, adjust
  <2>2. QED
    BY <1>1, <2>1 DEF Abstract!Next
<1>3. CASE pop
  BY <1>3, popPreserves DEF Abstract!Next
<1>4. CASE Tick \/ upAdjust \/ downAdjust \/ Erase
  BY <1>4, TickPreserves, UpMovePreserves, UpPlacePreserves, DownMovePreserves,
     DownPlacePreserves, ErasePreserves DEF upAdjust, downAdjust
<1>5. CASE UNCHANGED vars
  <2>1. /\ View' = View /\ timers' = timers /\ Astray' = Astray /\ ToPass' = ToPass
        /\ (Sifting' <=> Sifting)
    BY <1>5 DEF vars, View, At, timers, Astray, ToPass, Sifting, Popping, Positions
  <2>2. TypeOK'
    BY <1>5 DEF vars, IInv, TypeOK
  <2>3. VacancyInv' /\ IndexInv' /\ OrderInv' /\ ClockInv'
    BY <1>5, <2>1 DEF vars, IInv, VacancyInv, IndexInv, OrderInv, ClockInv
  <2>4. QED
    BY <2>1, <2>2, <2>3 DEF IInv
<1>6. QED
  BY <1>2, <1>3, <1>4, <1>5 DEF Next
-----------------------------------------------------------------------------
(* The inductive invariant holds in every behaviour of push(), adjust() and pop(),
   inside the loops of upAdjust() and downAdjust() too (TimerHeap.h 30-165). *)
THEOREM Invariance == Spec => []IInv
BY InitImpliesIInv, NextPreservesIInv, PTL DEF Spec

(* TypeOK: the vector has n_ timers, plus the removed one until the end of del(), and never
   more timers than there are keys (TimerHeap.h 89-101). *)
THEOREM TypeCorrect == Spec => []TypeOK
<1>1. IInv => TypeOK
  BY DEF IInv
<1>2. QED
  BY <1>1, Invariance, PTL

(* HeapOrder: for any number of timers, no timer expires before its parent, but for the edge
   that the timer on its way still has to pass (TimerHeap.h 104-157). *)
THEOREM HeapOrderAlways == Spec => []HeapOrder
<1>1. IInv => HeapOrder
  <2> SUFFICES ASSUME IInv PROVE HeapOrder
    OBVIOUS
  <2>1. /\ n_ \in Nat /\ Positions \subseteq DOMAIN c_ /\ Positions = 0..(n_ - 1)
        /\ Sifting => job \in SiftState /\ job.i \in Nat
        /\ DOMAIN c_ = 0..LastPosition
    BY Jobs DEF IInv, Positions, SiftState
  <2>2. ASSUME NEW k \in Positions \ {0}
        PROVE  /\ k \in 1..(n_ - 1) /\ Parent(k) \in Positions
               /\ Sifting => (Parent(k) = job.i <=> k \in {2 * job.i + 1, 2 * job.i + 2})
    <3>1. k \in Nat \ {0} /\ k \in 1..(n_ - 1)
      BY <2>1
    <3>2. /\ Parent(k) \in Nat /\ Parent(k) < k
          /\ \A p \in Nat : Parent(k) = p <=> k \in {2 * p + 1, 2 * p + 2}
      BY <3>1, ParentOf
    <3>3. QED
      BY <2>1, <3>1, <3>2
  <2>3. \A k \in Positions : At(k) = View[k] /\ View[k].timestamp \in Nat
    BY <2>1, ViewType, HeapAssumption DEF IInv, View, Timer
  <2>4. ASSUME NEW j \in Positions, NEW k \in Positions
        PROVE  ~Less(At(j), At(k)) <=> View[j].timestamp <= View[k].timestamp
    BY <2>3 DEF Less
  <2>5. ASSUME NEW k \in Positions \ {0}
        PROVE  \/ ~Less(At(Parent(k)), At(k))
               \/ job.pc = "down" /\ Parent(k) = job.i
               \/ job.pc = "up" /\ k = job.i
    <3>1. k \in ToPass \/ View[Parent(k)].timestamp <= View[k].timestamp
      BY <2>2 DEF IInv, OrderInv, Heap
    <3>2. k \in ToPass => \/ job.pc = "down" /\ Parent(k) = job.i
                          \/ job.pc = "up" /\ k = job.i
      BY <2>2 DEF ToPass, Sifting
    <3>3. QED
      BY <2>2, <2>4, <3>1, <3>2
  <2>6. ASSUME Sifting, NEW k \in Positions \ {0}, Parent(k) = job.i, job.i # 0
        PROVE  ~Less(At(Parent(job.i)), At(k))
    <3>1. job.i \in Positions \ {0}
      BY <2>2, <2>6
    <3>2. Parent(job.i) \in Positions
      BY <2>2, <3>1
    <3>3. View[Parent(job.i)].timestamp <= View[k].timestamp
      BY <2>2, <2>6 DEF IInv, OrderInv, Spanned
    <3>4. QED
      BY <2>4, <3>2, <3>3
  <2>7. QED
    BY <2>5, <2>6 DEF HeapOrder
<1>2. QED
  BY <1>1, Invariance, PTL

(* IndexExact: for any keys, fds_ names the position of every timer when an operation has
   ended, so that adjust() sets back the timer it is asked to (TimerHeap.h 78-85). *)
THEOREM IndexExactAlways == Spec => []IndexExact
<1>1. IInv => IndexExact
  <2> SUFFICES ASSUME IInv, job = Ready
               PROVE  /\ DOMAIN fds_ = {c_[k].fd : k \in Positions}
                      /\ \A k \in Positions : fds_[c_[k].fd] = k
    BY DEF IndexExact
  <2>1. ~Sifting
    BY DEF Sifting, Ready
  <2>2. Indexed(c_, fds_, {}) /\ DOMAIN c_ = Positions
    BY <2>1, Resting DEF Positions
  <2>3. QED
    BY <2>2 DEF Indexed
<1>2. QED
  BY <1>1, Invariance, PTL

(* ImplementsTimers: whatever the keys and the times, every step of the heap is a step of
   Timers or changes no timer: none is lost or duplicated by the loops, a key has one timer,
   and pop() removes one that expires first (TimerHeap.h 30-165). *)
THEOREM HeapImplementsTimers == Spec => ImplementsTimers
BY InitImpliesIInv, NextPreservesIInv, PTL DEF Spec, ImplementsTimers, Abstract!Spec
=============================================================================
