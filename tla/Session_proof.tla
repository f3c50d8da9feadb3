--------------------------- MODULE Session_proof ----------------------------
(***************************************************************************)
(* Proofs about Session: for any number of workers, sessions and requests  *)
(* and any lifetime, a session has a timer, is alive while a service uses  *)
(* it, and is not made valid again once it was invalidated.                *)
(***************************************************************************)
EXTENDS Session, FiniteSetTheorems, TLAPS

Creating(w) == worker[w].pc \in {"test", "assign", "add"}
Asking == {w \in Workers : worker[w].pc \in {"get", "check", "create"}}
Assigning == {w \in Workers : worker[w].pc = "assign"}
Pcs == {"idle", "get", "check", "mark", "adjust", "create", "test", "assign", "add", "use", "respond"}
WorkerState == [pc : Pcs, cookie : Ids \cup {NoId}, session : Ids \cup {NoId},
                busy : 0..Interval, late : BOOLEAN]

(* The bounds: every request that may still create a session has room for it. *)
BoundsInv == /\ created + Cardinality(Asking) <= MaxSessions
             /\ queues + Cardinality(Assigning) <= Cardinality(Workers)

(* Numbers of sessions are numbers of sessions that were created. *)
CreatedInv ==
    /\ sessions_ \subseteq 1..created /\ dead \subseteq 1..created
    /\ loop.expired \in 0..created
    /\ loop.pc \in {"poll", "top"} => loop.expired = NoId
    /\ loop.pc \in {"callback", "pop"} => loop.expired # NoId
    /\ \A s \in Ids : timers[s] # NoTimer => s <= created
    /\ \A w \in Workers : worker[w].pc \notin {"idle", "get", "create"} =>
         worker[w].session \in 1..created

(* A session whose creator has not added its timer is in the table and out of reach of the loop. *)
CreatorInv ==
    /\ \A w \in Workers : Creating(w) =>
         /\ worker[w].session \in sessions_
         /\ timers[worker[w].session] = NoTimer
         /\ loop.expired # worker[w].session
    /\ \A v, w \in Workers : Creating(v) /\ Creating(w) /\ v # w =>
         worker[v].session # worker[w].session
    /\ \A w \in Workers : worker[w].pc = "add" => queues # 0

(* The timer that the loop has copied is the one that pop() will remove. *)
LoopInv ==
    /\ queues = 0 => loop = Polling /\ \A s \in Ids : timers[s] = NoTimer
    /\ loop.pc = "pop" => loop.expired \notin sessions_
    /\ ~torn /\ queues <= 1 /\ loop.pc \in {"callback", "pop"} => timers[loop.expired] = 0

(* A service that has had its session for b ticks has at least Interval - b ticks left. *)
UseInv ==
    \A w \in Workers :
       worker[w].pc \in {"use", "respond"} /\ ~worker[w].late /\ worker[w].busy < Interval =>
         /\ worker[w].session \in sessions_
         /\ loop.pc = "callback" => loop.expired # worker[w].session
         /\ timers[worker[w].session] + worker[w].busy >= Interval

(* No request is about to mark a dead session. *)
DeadInv ==
    /\ InvalidatedStaysInvalid
    /\ \A w \in Workers : worker[w].pc = "mark" => worker[w].session \notin dead

IInv == /\ TypeOK /\ BoundsInv /\ CreatedInv /\ CreatorInv /\ LoopInv
        /\ TimerPerSession /\ UseInv /\ DeadInv
-----------------------------------------------------------------------------
LEMMA SmallSets ==
    ASSUME NEW S \in SUBSET Workers, NEW w \in Workers
    PROVE  /\ Cardinality(S) \in Nat
           /\ Cardinality(S) <= Cardinality(Workers) /\ Cardinality(Workers) \in Nat
           /\ w \notin S => Cardinality(S \cup {w}) = Cardinality(S) + 1
           /\ w \in S => Cardinality(S \ {w}) = Cardinality(S) - 1
<1>1. IsFiniteSet(Workers) /\ IsFiniteSet(S)
  BY SessionAssumption, FS_Subset
<1>2. QED
  BY <1>1, FS_Subset, FS_CardinalityType, FS_AddElement, FS_RemoveElement

LEMMA SameBounds ==
    ASSUME IInv, UNCHANGED <<created, queues, Asking, Assigning>>
    PROVE  BoundsInv'
BY DEF IInv, BoundsInv

(* A step that leaves the table, the heap and the loop alone, and every creator where it is. *)
LEMMA TimersKept ==
    ASSUME IInv, UNCHANGED <<sessions_, timers, queues, torn, loop>>,
           \A v \in Workers : Creating(v) => Creating(v)' /\ worker'[v].session = worker[v].session
    PROVE  TimerPerSession'
BY DEF IInv, TimerPerSession, Creating

(* The same if the timers that are there change their time only. *)
LEMMA TimersKeptWhere ==
    ASSUME IInv, UNCHANGED <<sessions_, queues, loop>>, torn => torn',
           \A s \in Ids : timers'[s] = NoTimer <=> timers[s] = NoTimer,
           \A v \in Workers : Creating(v) => Creating(v)' /\ worker'[v].session = worker[v].session
    PROVE  TimerPerSession'
<1> SUFFICES ASSUME ~torn', queues' <= 1
             PROVE  /\ \A s \in sessions_ :
                         \/ timers'[s] # NoTimer
                         \/ \E w \in Workers : worker'[w].session = s /\ Creating(w)'
                    /\ \A s \in Ids : timers'[s] # NoTimer =>
                         s \in sessions_ \/ loop = [pc |-> "pop", expired |-> s]
  BY DEF TimerPerSession, Creating
<1>1. /\ \A s \in sessions_ : \/ timers[s] # NoTimer
                              \/ \E w \in Workers : worker[w].session = s /\ Creating(w)
      /\ \A s \in Ids : timers[s] # NoTimer =>
           s \in sessions_ \/ loop = [pc |-> "pop", expired |-> s]
  BY DEF IInv, TimerPerSession, Creating
<1>2. sessions_ \subseteq Ids
  BY DEF IInv, TypeOK
<1>3. QED
  BY <1>1, <1>2

LEMMA SessionKnown ==
    ASSUME IInv, NEW w \in Workers, worker[w].pc \notin {"idle", "get", "create"}
    PROVE  worker[w].session \in 1..created /\ worker[w].session \in Ids
<1>1. created \in 0..MaxSessions /\ worker[w].session \in 1..created
  BY DEF IInv, TypeOK, CreatedInv
<1>2. QED
  BY <1>1, SessionAssumption DEF Ids

(* What a step of worker w leaves of the others, and that all keep their type. *)
Steps(w) == /\ worker' \in [Workers -> WorkerState] /\ worker[w] \in WorkerState
            /\ \A v \in Workers \ {w} : worker'[v] = worker[v]

LEMMA Replaces ==
    ASSUME IInv, NEW w \in Workers, NEW r \in WorkerState, worker' = [worker EXCEPT ![w] = r]
    PROVE  Steps(w) /\ worker'[w] = r
BY DEF IInv, TypeOK, WorkerState, Pcs, Steps

LEMMA FreeType ==
    ASSUME NEW c \in Ids \cup {NoId}
    PROVE  /\ Free \in WorkerState
           /\ [Free EXCEPT !.pc = "get", !.cookie = c] \in WorkerState
           /\ [Free EXCEPT !.pc = "get", !.cookie = c].pc = "get"
<1>1. Free \in WorkerState
  BY SessionAssumption DEF Free, WorkerState, NoId, Pcs
<1>2. [Free EXCEPT !.pc = "get", !.cookie = c] \in WorkerState
  BY <1>1 DEF WorkerState, Pcs
<1>3. QED
  BY <1>1, <1>2 DEF Free

(* A step to p. *)
LEMMA Moves ==
    ASSUME IInv, NEW w \in Workers, NEW p \in Pcs, worker' = [worker EXCEPT ![w].pc = p]
    PROVE  /\ Steps(w) /\ worker'[w].pc = p /\ worker'[w].session = worker[w].session
           /\ worker'[w].busy = worker[w].busy /\ worker'[w].late = worker[w].late
<1> DEFINE r == [worker[w] EXCEPT !.pc = p]
<1>1. worker[w] \in WorkerState /\ worker \in [Workers -> WorkerState]
  BY DEF IInv, TypeOK, WorkerState, Pcs
<1>2. r \in WorkerState /\ r.pc = p /\ r.session = worker[w].session
      /\ r.busy = worker[w].busy /\ r.late = worker[w].late
  BY <1>1 DEF WorkerState
<1>3. worker' = [worker EXCEPT ![w] = r]
  BY <1>1 DEF WorkerState
<1>4. QED
  BY <1>2, <1>3, Replaces

(* A step to p with session s. *)
LEMMA Finds ==
    ASSUME IInv, NEW w \in Workers, NEW p \in Pcs, NEW s \in Ids \cup {NoId},
           worker' = [worker EXCEPT ![w].pc = p, ![w].session = s]
    PROVE  Steps(w) /\ worker'[w].pc = p /\ worker'[w].session = s
<1> DEFINE r == [worker[w] EXCEPT !.pc = p, !.session = s]
<1>1. worker[w] \in WorkerState /\ worker \in [Workers -> WorkerState]
  BY DEF IInv, TypeOK, WorkerState, Pcs
<1>2. r \in WorkerState /\ r.pc = p /\ r.session = s
  BY <1>1 DEF WorkerState
<1>3. worker' = [worker EXCEPT ![w] = r]
  BY <1>1 DEF WorkerState
<1>4. QED
  BY <1>2, <1>3, Replaces

(* The step that gives the service its session. *)
LEMMA Gives ==
    ASSUME IInv, NEW w \in Workers, NEW l \in BOOLEAN,
           worker' = [worker EXCEPT ![w].pc = "use", ![w].busy = 0, ![w].late = l]
    PROVE  /\ Steps(w) /\ worker'[w].pc = "use" /\ worker'[w].session = worker[w].session
           /\ worker'[w].busy = 0 /\ worker'[w].late = l
<1> DEFINE r == [worker[w] EXCEPT !.pc = "use", !.busy = 0, !.late = l]
<1>1. worker[w] \in WorkerState /\ worker \in [Workers -> WorkerState]
  BY DEF IInv, TypeOK, WorkerState, Pcs
<1>2. /\ r \in WorkerState /\ r.pc = "use" /\ r.session = worker[w].session
      /\ r.busy = 0 /\ r.late = l
  <2>1. 0 \in 0..Interval /\ "use" \in Pcs
    BY SessionAssumption DEF Pcs
  <2>2. QED
    BY <1>1, <2>1 DEF WorkerState
<1>3. worker' = [worker EXCEPT ![w] = r]
  BY <1>1 DEF WorkerState
<1>4. QED
  BY <1>2, <1>3, Replaces

(***************************************************************************)
(* Steps that only move worker w, and not into or out of the states in     *)
(* which a request makes a session or uses it.                             *)
(***************************************************************************)
Quiet == UNCHANGED <<sessions_, status_, created, queues, timers, jar, loop, torn, dead>>
Outside(w) == ~Creating(w) /\ worker[w].pc \notin {"assign", "mark", "use", "respond"}

LEMMA QuietPreserves ==
    ASSUME IInv, NEW w \in Workers, Steps(w), Quiet, Outside(w)',
           ~Creating(w),
           worker'[w].pc \notin {"idle", "get", "create"} => worker'[w].session \in 1..created
    PROVE  /\ CreatedInv' /\ CreatorInv' /\ LoopInv' /\ TimerPerSession' /\ UseInv' /\ DeadInv'
           /\ Assigning' = Assigning
<1> USE DEF IInv, Steps, Quiet, Outside
<1>1. CreatedInv' /\ CreatorInv'
  BY DEF CreatedInv, CreatorInv, Creating
<1>2. LoopInv'
  BY DEF LoopInv
<1>3. TimerPerSession'
  BY TimersKept DEF Creating
<1>4. UseInv' /\ DeadInv'
  BY DEF UseInv, DeadInv, InvalidatedStaysInvalid
<1>5. QED
  BY <1>1, <1>2, <1>3, <1>4 DEF Assigning, Creating

(* A worker that begins to ask needs room; one that goes on asking, or stops, has it. *)
LEMMA AskingGrows ==
    ASSUME IInv, NEW w \in Workers, Steps(w), Room, worker[w].pc \in {"idle", "use"},
           worker'[w].pc = "get", UNCHANGED <<created, queues>>
    PROVE  BoundsInv'
<1> USE SessionAssumption DEF IInv
<1>1. Asking' = Asking \cup {w} /\ w \notin Asking /\ Assigning' = Assigning
  BY DEF Asking, Assigning, Steps
<1>2. created + Cardinality(Asking) < MaxSessions
  BY DEF Room, Asking
<1>3. Cardinality(Asking') = Cardinality(Asking) + 1 /\ Cardinality(Asking) \in Nat
  <2>1. Asking \in SUBSET Workers
    BY DEF Asking
  <2>2. QED
    BY <1>1, <2>1, SmallSets
<1>4. QED
  BY <1>1, <1>2, <1>3 DEF BoundsInv, TypeOK

LEMMA AskingEnds ==
    ASSUME IInv, NEW w \in Workers, Steps(w), worker[w].pc \in {"check", "create"},
           worker'[w].pc \notin {"get", "check", "create", "assign"},
           created' \in {created, created + 1}, UNCHANGED queues
    PROVE  BoundsInv' /\ created' \in 0..MaxSessions
<1> USE SessionAssumption DEF IInv
<1>1. Asking' = Asking \ {w} /\ w \in Asking /\ Assigning' = Assigning
  BY DEF Asking, Assigning, Steps
<1>2. Cardinality(Asking') = Cardinality(Asking) - 1 /\ Cardinality(Asking') \in Nat
      /\ Cardinality(Asking) \in Nat
  <2>1. Asking \in SUBSET Workers /\ Asking' \in SUBSET Workers
    BY <1>1 DEF Asking
  <2>2. QED
    BY <1>1, <2>1, SmallSets
<1>3. QED
  BY <1>1, <1>2 DEF BoundsInv, TypeOK

LEMMA BeginPreserves ==
    ASSUME IInv, NEW w \in Workers, Begin(w)
    PROVE  IInv'
<1> USE SessionAssumption DEF IInv
<1>1. Steps(w) /\ worker'[w].pc = "get"
  BY FreeType, Replaces DEF Begin, TypeOK
<1>2. Quiet /\ worker[w].pc = "idle" /\ requests' \in 0..MaxRequests
  BY DEF Begin, At, Quiet, TypeOK, table, heap, history
<1>3. TypeOK'
  BY <1>1, <1>2 DEF TypeOK, WorkerState, Pcs, Steps, Quiet
<1>4. BoundsInv'
  BY <1>1, <1>2, AskingGrows DEF Begin, Quiet
<1>5. QED
  BY <1>1, <1>2, <1>3, <1>4, QuietPreserves DEF Creating, Outside

LEMMA AgainPreserves ==
    ASSUME IInv, NEW w \in Workers, Again(w)
    PROVE  IInv'
<1> USE SessionAssumption DEF IInv
<1>1. Steps(w) /\ worker'[w].pc = "get"
  BY Moves DEF Again, Pcs
<1>2. Quiet /\ worker[w].pc = "use" /\ requests' \in 0..MaxRequests
  BY DEF Again, At, Quiet, TypeOK, table, heap, history
<1>3. TypeOK'
  BY <1>1, <1>2 DEF TypeOK, WorkerState, Pcs, Steps, Quiet
<1>4. BoundsInv'
  BY <1>1, <1>2, AskingGrows DEF Again, Quiet
<1>5. QED
  BY <1>1, <1>2, <1>3, <1>4, QuietPreserves DEF Creating, Outside

LEMMA GetPreserves ==
    ASSUME IInv, NEW w \in Workers, Get(w)
    PROVE  IInv'
<1> USE SessionAssumption DEF IInv
<1> DEFINE c == worker[w].cookie
<1>1. /\ Steps(w) /\ worker'[w].pc \in {"check", "create"}
      /\ worker'[w].pc = "check" => worker'[w].session \in 1..created
  <2>1. CASE c \in sessions_
    <3>1. worker' = [worker EXCEPT ![w].pc = "check", ![w].session = c]
      BY <2>1 DEF Get
    <3>2. c \in Ids /\ c \in 1..created
      BY <2>1 DEF TypeOK, CreatedInv
    <3>3. QED
      BY <3>1, <3>2, Finds DEF Pcs
  <2>2. CASE c \notin sessions_
    <3>1. worker' = [worker EXCEPT ![w].pc = "create", ![w].session = NoId]
      BY <2>2 DEF Get
    <3>2. QED
      BY <3>1, Finds DEF Pcs
  <2>3. QED
    BY <2>1, <2>2
<1>2. Quiet /\ worker[w].pc = "get" /\ UNCHANGED requests
  BY DEF Get, At, Quiet, table, heap, history
<1>3. TypeOK'
  BY <1>1, <1>2 DEF TypeOK, WorkerState, Pcs, Steps, Quiet
<1>4. BoundsInv'
  BY <1>1, <1>2, SameBounds DEF Asking, Assigning, Steps, Quiet
<1>5. QED
  BY <1>1, <1>2, <1>3, <1>4, QuietPreserves DEF Creating, Outside

(* A session that is found valid is not dead, and so may be marked. *)
LEMMA CheckPreserves ==
    ASSUME IInv, NEW w \in Workers, Check(w)
    PROVE  IInv'
<1> USE SessionAssumption DEF IInv
<1> DEFINE s == worker[w].session
<1>1. Quiet /\ worker[w].pc = "check" /\ UNCHANGED requests
  BY DEF Check, At, Quiet, table, heap, history
<1>2. CASE status_[s] = "Destroy"
  <2>1. worker' = [worker EXCEPT ![w].pc = "create", ![w].session = NoId]
    BY <1>2 DEF Check, TestStatus, Refuse
  <2>2. Steps(w) /\ worker'[w].pc = "create"
    BY <2>1, Finds DEF Pcs
  <2>3. TypeOK'
    BY <1>1, <2>2 DEF TypeOK, WorkerState, Pcs, Steps, Quiet
  <2>4. BoundsInv'
    BY <1>1, <2>2, SameBounds DEF Asking, Assigning, Steps, Quiet
  <2>5. QED
    BY <1>1, <2>2, <2>3, <2>4, QuietPreserves DEF Creating, Outside
<1>3. CASE status_[s] # "Destroy"
  <2>1. worker' = [worker EXCEPT ![w].pc = "mark"]
    BY <1>3 DEF Check, TestStatus, Goto
  <2>2. Steps(w) /\ worker'[w].pc = "mark" /\ worker'[w].session = s
    BY <2>1, Moves DEF Pcs
  <2>3. TypeOK'
    BY <1>1, <2>2 DEF TypeOK, WorkerState, Pcs, Steps, Quiet
  <2>4. BoundsInv'
    BY <1>1, <2>2, AskingEnds DEF Quiet
  <2>5. CreatedInv' /\ CreatorInv' /\ LoopInv'
    BY <1>1, <2>2 DEF CreatedInv, CreatorInv, Creating, LoopInv, Quiet, Steps
  <2>6. TimerPerSession'
    BY <1>1, <2>2, TimersKept DEF Creating, Quiet, Steps
  <2>7. UseInv' /\ DeadInv'
    BY <1>1, <1>3, <2>2 DEF UseInv, DeadInv, InvalidatedStaysInvalid, Quiet, Steps
  <2>8. QED
    BY <2>3, <2>4, <2>5, <2>6, <2>7
<1>4. QED
  BY <1>2, <1>3

LEMMA MarkPreserves ==
    ASSUME IInv, NEW w \in Workers, Mark(w)
    PROVE  IInv'
<1> USE SessionAssumption DEF IInv
<1>1. Steps(w) /\ worker'[w].pc = "adjust" /\ worker'[w].session = worker[w].session
  BY Moves DEF Mark, Goto, Pcs
<1>2. /\ worker[w].pc = "mark"
      /\ status_' = [status_ EXCEPT ![worker[w].session] = "Accessed"]
      /\ UNCHANGED <<sessions_, created, queues, timers, jar, requests, loop, torn, dead>>
  BY DEF Mark, At, heap, history
<1>3. TypeOK'
  BY <1>1, <1>2 DEF TypeOK, WorkerState, Pcs, Steps
<1>4. BoundsInv'
  BY <1>1, <1>2, SameBounds DEF Asking, Assigning, Steps
<1>5. CreatedInv' /\ CreatorInv' /\ LoopInv'
  BY <1>1, <1>2 DEF CreatedInv, CreatorInv, Creating, LoopInv, Steps
<1>6. TimerPerSession'
  BY <1>1, <1>2, TimersKept DEF Creating, Steps
<1>7. UseInv'
  BY <1>1, <1>2 DEF UseInv, Steps
<1>8. DeadInv'
  BY <1>1, <1>2 DEF DeadInv, InvalidatedStaysInvalid, Steps, TypeOK
<1>9. QED
  BY <1>3, <1>4, <1>5, <1>6, <1>7, <1>8

(***************************************************************************)
(* The timer of the session is set back: the service has Interval ticks    *)
(* from now on, unless the timeout is already under way.                   *)
(***************************************************************************)
LEMMA AdjustPreserves ==
    ASSUME IInv, NEW w \in Workers, Adjust(w)
    PROVE  IInv'
<1> USE SessionAssumption DEF IInv
<1> DEFINE s == worker[w].session
           l == s \notin sessions_ \/ loop.expired = s
<1>1. /\ Steps(w) /\ worker'[w].pc = "use" /\ worker'[w].session = s
      /\ worker'[w].busy = 0 /\ worker'[w].late = l
  BY Gives DEF Adjust
<1>2. /\ worker[w].pc = "adjust" /\ s \in 1..created /\ s \in Ids
      /\ timers' = [timers EXCEPT ![s] = IF @ = NoTimer THEN @ ELSE Interval]
      /\ torn' = (torn \/ loop.expired = s)
      /\ UNCHANGED <<sessions_, status_, created, queues, jar, requests, loop, dead>>
  <2>1. worker[w].pc = "adjust"
    BY DEF Adjust, At
  <2>2. s \in 1..created /\ s \in Ids
    BY <2>1, SessionKnown
  <2>3. QED
    BY <2>1, <2>2 DEF Adjust, SetBack, table
<1>3. /\ timers'[s] = IF timers[s] = NoTimer THEN NoTimer ELSE Interval
      /\ \A t \in Ids \ {s} : timers'[t] = timers[t]
      /\ timers' \in [Ids -> 0..NoTimer]
      /\ \A t \in Ids : timers'[t] = NoTimer <=> timers[t] = NoTimer
  BY <1>2 DEF TypeOK, NoTimer
<1>4. TypeOK'
  BY <1>1, <1>2, <1>3 DEF TypeOK, WorkerState, Pcs, Steps
<1>5. BoundsInv'
  BY <1>1, <1>2, SameBounds DEF Asking, Assigning, Steps
<1>6. CreatedInv' /\ CreatorInv'
  BY <1>1, <1>2, <1>3 DEF CreatedInv, CreatorInv, Creating, Steps, TypeOK
<1>7. LoopInv'
  BY <1>1, <1>2, <1>3 DEF LoopInv, CreatedInv, TypeOK, NoId
<1>8. TimerPerSession'
  <2>1. \A v \in Workers : Creating(v) => Creating(v)' /\ worker'[v].session = worker[v].session
    BY <1>1, <1>2 DEF Creating, Steps
  <2>2. sessions_ \subseteq Ids
    BY DEF TypeOK
  <2>3. QED
    BY <1>2, <1>3, <2>1, <2>2, TimersKeptWhere
<1>9. UseInv'
  <2>1. ASSUME NEW v \in Workers, worker'[v].pc \in {"use", "respond"},
               ~worker'[v].late, worker'[v].busy < Interval
        PROVE  /\ worker'[v].session \in sessions_
               /\ loop.pc = "callback" => loop.expired # worker'[v].session
               /\ timers'[worker'[v].session] + worker'[v].busy >= Interval
    <3>1. CASE v = w
      <4>1. ~l /\ worker'[v].session = s /\ worker'[v].busy = 0
        BY <1>1, <2>1, <3>1
      <4>2. timers'[s] >= Interval /\ timers'[s] \in Nat
        BY <1>2, <1>3 DEF NoTimer
      <4>3. QED
        BY <4>1, <4>2
    <3>2. CASE v # w
      <4>1. /\ worker'[v] = worker[v] /\ worker[v].session \in Ids /\ worker[v].busy \in Nat
            /\ worker[v].session \in sessions_
            /\ loop.pc = "callback" => loop.expired # worker[v].session
            /\ timers[worker[v].session] + worker[v].busy >= Interval
        BY <1>1, <2>1, <3>2 DEF Steps, UseInv, TypeOK
      <4>2. timers'[worker[v].session] >= timers[worker[v].session] \/ timers'[worker[v].session] >= Interval
        BY <1>2, <1>3, <4>1 DEF NoTimer, TypeOK
      <4>3. timers[worker[v].session] \in Nat /\ timers'[worker[v].session] \in Nat
        BY <1>3, <4>1 DEF TypeOK, NoTimer
      <4>4. QED
        BY <4>1, <4>2, <4>3
    <3>3. QED
      BY <3>1, <3>2
  <2>2. QED
    BY <1>2, <2>1 DEF UseInv
<1>10. DeadInv'
  BY <1>1, <1>2 DEF DeadInv, InvalidatedStaysInvalid, Steps
<1>11. QED
  BY <1>4, <1>5, <1>6, <1>7, <1>8, <1>9, <1>10

(* A new session has a number that nothing else has. *)
LEMMA createSessionPreserves ==
    ASSUME IInv, NEW w \in Workers, createSession(w)
    PROVE  IInv'
<1> USE SessionAssumption DEF IInv
<1> DEFINE s == created + 1
<1>1. /\ worker[w].pc = "create" /\ created' = s /\ sessions_' = sessions_ \cup {s}
      /\ status_' = [status_ EXCEPT ![s] = "New"]
      /\ worker' = [worker EXCEPT ![w].pc = "test", ![w].session = s]
      /\ UNCHANGED <<queues, timers, jar, requests, loop, torn, dead>>
  BY DEF createSession, At, heap, history
<1>2. s \in Ids /\ created \in Nat
  <2>1. Asking \in SUBSET Workers /\ w \in Asking
    BY <1>1 DEF Asking
  <2>2. Cardinality(Asking) \in Nat /\ Cardinality(Asking \ {w}) \in Nat
        /\ Cardinality(Asking \ {w}) = Cardinality(Asking) - 1
    <3>1. Asking \ {w} \in SUBSET Workers
      BY <2>1
    <3>2. QED
      BY <2>1, <3>1, SmallSets
  <2>3. QED
    BY <2>2 DEF BoundsInv, TypeOK, Ids
<1>3. Steps(w) /\ worker'[w].pc = "test" /\ worker'[w].session = s
  BY <1>1, <1>2, Finds DEF Pcs
<1>4. BoundsInv' /\ created' \in 0..MaxSessions
  BY <1>1, <1>3, AskingEnds
<1>5. TypeOK'
  BY <1>1, <1>2, <1>3, <1>4 DEF TypeOK, WorkerState, Pcs, Steps
<1>6. CreatedInv'
  <2>1. \A v \in Workers : worker'[v].pc \notin {"idle", "get", "create"} =>
           worker'[v].session \in 1..created'
    BY <1>1, <1>2, <1>3 DEF CreatedInv, Steps
  <2>2. 1..created \subseteq 1..created' /\ 0..created \subseteq 0..created'
    BY <1>1, <1>2
  <2>3. sessions_' \subseteq 1..created' /\ dead' \subseteq 1..created' /\ loop'.expired \in 0..created'
    BY <1>1, <1>2, <2>2 DEF CreatedInv
  <2>4. \A r \in Ids : timers'[r] # NoTimer => r <= created'
    BY <1>1, <1>2 DEF CreatedInv, Ids
  <2>5. QED
    BY <1>1, <2>1, <2>3, <2>4 DEF CreatedInv
<1>7. /\ s \notin sessions_ /\ timers[s] = NoTimer /\ loop.expired # s /\ s \notin dead
      /\ \A v \in Workers : worker[v].pc \notin {"idle", "get", "create"} => worker[v].session # s
  <2>1. s \notin 1..created /\ s \notin 0..created /\ ~(s <= created)
    BY <1>2
  <2>2. QED
    BY <1>2, <2>1 DEF CreatedInv
<1>8. CreatorInv'
  BY <1>1, <1>3, <1>7 DEF CreatorInv, Creating, Steps
<1>9. LoopInv'
  BY <1>1, <1>7 DEF LoopInv
<1>10. TimerPerSession'
  <2>1. \A v \in Workers : Creating(v) => Creating(v)' /\ worker'[v].session = worker[v].session
    BY <1>1, <1>3 DEF Creating, Steps
  <2>2. Creating(w)' /\ worker'[w].session = s
    BY <1>3 DEF Creating
  <2>3. SUFFICES ASSUME ~torn, queues <= 1
                 PROVE  /\ \A r \in sessions_ \cup {s} :
                             \/ timers[r] # NoTimer
                             \/ \E v \in Workers : worker'[v].session = r /\ Creating(v)'
                        /\ \A r \in Ids : timers[r] # NoTimer =>
                             r \in sessions_ \/ loop = [pc |-> "pop", expired |-> r]
    BY <1>1 DEF TimerPerSession, Creating
  <2>4. /\ \A r \in sessions_ : \/ timers[r] # NoTimer
                                \/ \E v \in Workers : worker[v].session = r /\ Creating(v)
        /\ \A r \in Ids : timers[r] # NoTimer =>
             r \in sessions_ \/ loop = [pc |-> "pop", expired |-> r]
    BY <2>3 DEF TimerPerSession, Creating
  <2>5. QED
    BY <2>1, <2>2, <2>4
<1>11. UseInv'
  BY <1>1, <1>3 DEF UseInv, Steps
<1>12. DeadInv'
  BY <1>1, <1>3, <1>7 DEF DeadInv, InvalidatedStaysInvalid, Steps, TypeOK
<1>13. QED
  BY <1>4, <1>5, <1>6, <1>8, <1>9, <1>10, <1>11, <1>12

(* createSessionTimer(): a worker that finds no queue goes on to assign one. *)
LEMMA CreateTestPreserves ==
    ASSUME IInv, NEW w \in Workers, CreateTest(w)
    PROVE  IInv'
<1> USE SessionAssumption DEF IInv
<1> DEFINE q == IF queues = 0 THEN "assign" ELSE "add"
<1>1. Steps(w) /\ worker'[w].pc = q /\ worker'[w].session = worker[w].session
  <2>1. q \in Pcs
    BY DEF Pcs
  <2>2. worker' = [worker EXCEPT ![w].pc = q]
    BY DEF CreateTest, TestQueue, Goto
  <2>3. QED
    BY <2>1, <2>2, Moves
<1>2. Quiet /\ worker[w].pc = "test" /\ UNCHANGED requests
  BY DEF CreateTest, TestQueue, At, Quiet, table, heap, history
<1>3. TypeOK'
  BY <1>1, <1>2 DEF TypeOK, WorkerState, Pcs, Steps, Quiet
<1>4. BoundsInv'
  <2>1. Asking' = Asking
    BY <1>1, <1>2 DEF Asking, Steps
  <2>2. CASE queues = 0
    <3>1. Assigning' \in SUBSET Workers
      BY DEF Assigning
    <3>2. Cardinality(Assigning') <= Cardinality(Workers) /\ Cardinality(Assigning') \in Nat
      BY <3>1, SmallSets
    <3>3. QED
      BY <1>2, <2>1, <2>2, <3>2 DEF BoundsInv, Quiet
  <2>3. CASE queues # 0
    <3>1. Assigning' = Assigning
      BY <1>1, <1>2, <2>3 DEF Assigning, Steps
    <3>2. QED
      BY <1>2, <2>1, <3>1, SameBounds DEF Quiet
  <2>4. QED
    BY <2>2, <2>3
<1>5. CreatedInv' /\ CreatorInv' /\ LoopInv'
  BY <1>1, <1>2 DEF CreatedInv, CreatorInv, Creating, LoopInv, Quiet, Steps
<1>6. TimerPerSession'
  BY <1>1, <1>2, TimersKept DEF Creating, Quiet, Steps
<1>7. UseInv' /\ DeadInv'
  BY <1>1, <1>2 DEF UseInv, DeadInv, InvalidatedStaysInvalid, Quiet, Steps
<1>8. QED
  BY <1>3, <1>4, <1>5, <1>6, <1>7

(* The first queue is empty, as the heap was before; a second one loses timers. *)
LEMMA CreateAssignPreserves ==
    ASSUME IInv, NEW w \in Workers, CreateAssign(w)
    PROVE  IInv'
<1> USE SessionAssumption DEF IInv
<1>1. Steps(w) /\ worker'[w].pc = "add" /\ worker'[w].session = worker[w].session
  BY Moves DEF CreateAssign, Goto, Pcs
<1>2. /\ worker[w].pc = "assign" /\ queues' = queues + 1
      /\ timers' = [s \in Ids |-> NoTimer]
      /\ UNCHANGED <<sessions_, status_, created, jar, requests, loop, torn, dead>>
  BY DEF CreateAssign, At, table, history
<1>3. BoundsInv' /\ queues' \in 0..Cardinality(Workers)
  <2>1. Asking' = Asking /\ Assigning' = Assigning \ {w} /\ w \in Assigning
    BY <1>1, <1>2 DEF Asking, Assigning, Steps
  <2>2. /\ Cardinality(Assigning') = Cardinality(Assigning) - 1
        /\ Cardinality(Assigning) \in Nat /\ Cardinality(Assigning') \in Nat
        /\ Cardinality(Workers) \in Nat
    <3>1. Assigning \in SUBSET Workers /\ Assigning' \in SUBSET Workers
      BY <2>1 DEF Assigning
    <3>2. QED
      BY <2>1, <3>1, SmallSets
  <2>3. QED
    BY <1>2, <2>1, <2>2 DEF BoundsInv, TypeOK
<1>4. timers' \in [Ids -> 0..NoTimer] /\ \A s \in Ids : timers'[s] = NoTimer
  BY <1>2 DEF NoTimer
<1>5. TypeOK'
  BY <1>1, <1>2, <1>3, <1>4 DEF TypeOK, WorkerState, Pcs, Steps
<1>6. CreatedInv' /\ CreatorInv'
  <2>1. \A v \in Workers : Creating(v) => worker[v].session \in Ids
    BY SessionKnown DEF Creating
  <2>2. queues' # 0
    BY <1>2 DEF TypeOK
  <2>3. QED
    BY <1>1, <1>2, <1>4, <2>1, <2>2 DEF CreatedInv, CreatorInv, Creating, Steps
<1>7. LoopInv'
  BY <1>2, <1>3, <1>4 DEF LoopInv, TypeOK, Polling
<1>8. TimerPerSession'
  <2>1. CASE queues = 0
    <3>1. \A s \in Ids : timers[s] = NoTimer
      BY <2>1 DEF LoopInv
    <3>2. \A v \in Workers : Creating(v) => Creating(v)' /\ worker'[v].session = worker[v].session
      BY <1>1, <1>2 DEF Creating, Steps
    <3>3. sessions_ \subseteq Ids
      BY DEF TypeOK
    <3>4. QED
      BY <1>2, <1>4, <2>1, <3>1, <3>2, <3>3 DEF TimerPerSession, Creating
  <2>2. CASE queues # 0
    <3>1. ~(queues' <= 1)
      BY <1>2, <2>2 DEF TypeOK
    <3>2. QED
      BY <3>1 DEF TimerPerSession
  <2>3. QED
    BY <2>1, <2>2
<1>9. UseInv'
  <2>1. \A v \in Workers : worker[v].pc \in {"use", "respond"} =>
           worker[v].session \in Ids /\ worker[v].busy \in Nat
    BY SessionKnown DEF TypeOK
  <2>2. \A b \in Nat : NoTimer + b >= Interval
    BY DEF NoTimer
  <2>3. QED
    BY <1>1, <1>2, <1>4, <2>1, <2>2 DEF UseInv, Steps
<1>10. DeadInv'
  BY <1>1, <1>2 DEF DeadInv, InvalidatedStaysInvalid, Steps
<1>11. QED
  BY <1>3, <1>5, <1>6, <1>7, <1>8, <1>9, <1>10

LEMMA AddPreserves ==
    ASSUME IInv, NEW w \in Workers, Add(w)
    PROVE  IInv'
<1> USE SessionAssumption DEF IInv
<1> DEFINE s == worker[w].session
<1>1. /\ Steps(w) /\ worker'[w].pc = "use" /\ worker'[w].session = s
      /\ worker'[w].busy = 0 /\ worker'[w].late = FALSE
  BY Gives DEF Add
<1>2. /\ worker[w].pc = "add" /\ timers' = [timers EXCEPT ![s] = Interval]
      /\ UNCHANGED <<sessions_, status_, created, queues, jar, requests, loop, torn, dead>>
  BY DEF Add, AddTimer, At, table, history
<1>3. /\ s \in Ids /\ s \in 1..created /\ s \in sessions_ /\ loop.expired # s /\ queues # 0
      /\ \A v \in Workers \ {w} : Creating(v) => worker[v].session # s
  BY <1>2, SessionKnown DEF CreatorInv, Creating
<1>4. /\ timers' \in [Ids -> 0..NoTimer] /\ timers'[s] = Interval
      /\ \A t \in Ids \ {s} : timers'[t] = timers[t]
      /\ Interval # NoTimer /\ Interval # 0
  BY <1>2, <1>3 DEF TypeOK, NoTimer
<1>5. TypeOK'
  BY <1>1, <1>2, <1>4 DEF TypeOK, WorkerState, Pcs, Steps
<1>6. BoundsInv'
  BY <1>1, <1>2, SameBounds DEF Asking, Assigning, Steps
<1>7. CreatedInv'
  BY <1>1, <1>2, <1>3, <1>4 DEF CreatedInv, Steps
<1>8. CreatorInv'
  <2>1. \A v \in Workers : Creating(v)' => v # w /\ Creating(v) /\ worker'[v] = worker[v]
                                           /\ worker[v].session \in Ids \ {s}
    BY <1>1, <1>3, SessionKnown DEF Creating, Steps
  <2>2. QED
    BY <1>1, <1>2, <1>4, <2>1 DEF CreatorInv, Creating
<1>9. LoopInv'
  <2>1. loop.expired \in Ids \/ loop.expired = NoId
    BY DEF TypeOK
  <2>2. loop.pc \in {"callback", "pop"} => loop.expired \in Ids \ {s}
    BY <1>3, <2>1 DEF CreatedInv
  <2>3. QED
    BY <1>2, <1>3, <1>4, <2>2 DEF LoopInv
<1>10. TimerPerSession'
  <2>1. \A v \in Workers : Creating(v) /\ worker[v].session # s =>
           Creating(v)' /\ worker'[v].session = worker[v].session
    BY <1>1 DEF Creating, Steps
  <2>2. SUFFICES ASSUME ~torn, queues <= 1
                 PROVE  /\ \A r \in sessions_ :
                             \/ timers'[r] # NoTimer
                             \/ \E v \in Workers : worker'[v].session = r /\ Creating(v)'
                        /\ \A r \in Ids : timers'[r] # NoTimer =>
                             r \in sessions_ \/ loop = [pc |-> "pop", expired |-> r]
    BY <1>2 DEF TimerPerSession, Creating
  <2>3. /\ \A r \in sessions_ : \/ timers[r] # NoTimer
                                \/ \E v \in Workers : worker[v].session = r /\ Creating(v)
        /\ \A r \in Ids : timers[r] # NoTimer =>
             r \in sessions_ \/ loop = [pc |-> "pop", expired |-> r]
        /\ sessions_ \subseteq Ids
    BY <2>2 DEF TimerPerSession, Creating, TypeOK
  <2>4. QED
    BY <1>3, <1>4, <2>1, <2>3
<1>11. UseInv'
  <2>1. ASSUME NEW v \in Workers, worker'[v].pc \in {"use", "respond"},
               ~worker'[v].late, worker'[v].busy < Interval
        PROVE  /\ worker'[v].session \in sessions_
               /\ loop.pc = "callback" => loop.expired # worker'[v].session
               /\ timers'[worker'[v].session] + worker'[v].busy >= Interval
    <3>1. CASE v = w
      BY <1>1, <1>3, <1>4, <3>1
    <3>2. CASE v # w
      <4>1. /\ worker'[v] = worker[v] /\ worker[v].session \in Ids /\ worker[v].busy \in Nat
            /\ worker[v].session \in sessions_
            /\ loop.pc = "callback" => loop.expired # worker[v].session
            /\ timers[worker[v].session] + worker[v].busy >= Interval
        BY <1>1, <2>1, <3>2 DEF Steps, UseInv, TypeOK
      <4>2. QED
        BY <1>4, <4>1
    <3>3. QED
      BY <3>1, <3>2
  <2>2. QED
    BY <1>2, <2>1 DEF UseInv
<1>12. DeadInv'
  BY <1>1, <1>2 DEF DeadInv, InvalidatedStaysInvalid, Steps
<1>13. QED
  BY <1>5, <1>6, <1>7, <1>8, <1>9, <1>10, <1>11, <1>12

LEMMA UsePreserves ==
    ASSUME IInv, NEW w \in Workers, Use(w)
    PROVE  IInv'
<1> USE SessionAssumption DEF IInv
<1>1. /\ Steps(w) /\ worker'[w].pc = "respond" /\ worker'[w].session = worker[w].session
      /\ worker'[w].busy = worker[w].busy /\ worker'[w].late = worker[w].late
  BY Moves DEF Use, Goto, Pcs
<1>2. Quiet /\ worker[w].pc = "use" /\ UNCHANGED requests
  BY DEF Use, At, Quiet, table, heap, history
<1>3. TypeOK'
  BY <1>1, <1>2 DEF TypeOK, WorkerState, Pcs, Steps, Quiet
<1>4. BoundsInv'
  BY <1>1, <1>2, SameBounds DEF Asking, Assigning, Steps, Quiet
<1>5. CreatedInv' /\ CreatorInv' /\ LoopInv'
  BY <1>1, <1>2 DEF CreatedInv, CreatorInv, Creating, LoopInv, Quiet, Steps
<1>6. TimerPerSession'
  BY <1>1, <1>2, TimersKept DEF Creating, Quiet, Steps
<1>7. UseInv' /\ DeadInv'
  BY <1>1, <1>2 DEF UseInv, DeadInv, InvalidatedStaysInvalid, Quiet, Steps
<1>8. QED
  BY <1>3, <1>4, <1>5, <1>6, <1>7

LEMMA invalidatePreserves ==
    ASSUME IInv, NEW w \in Workers, invalidate(w)
    PROVE  IInv'
<1> USE SessionAssumption DEF IInv
<1> DEFINE s == worker[w].session
<1>1. /\ Steps(w) /\ worker'[w].pc = "respond" /\ worker'[w].session = s
      /\ worker'[w].busy = worker[w].busy /\ worker'[w].late = worker[w].late
  BY Moves DEF invalidate, Goto, Pcs
<1>2. /\ worker[w].pc = "use"
      /\ status_' = [status_ EXCEPT ![s] = "Destroy"]
      /\ dead' = IF \E v \in Workers : worker[v].pc = "mark" /\ worker[v].session = s
                 THEN dead ELSE dead \cup {s}
      /\ UNCHANGED <<sessions_, created, queues, timers, jar, requests, loop, torn>>
  BY DEF invalidate, At, heap
<1>3. s \in 1..created /\ s \in Ids
  BY <1>2, SessionKnown
<1>4. TypeOK'
  <2>1. status_' \in [Ids -> {"None", "New", "Accessed", "Destroy"}] /\ dead' \subseteq Ids
    BY <1>2, <1>3 DEF TypeOK
  <2>2. QED
    BY <1>1, <1>2, <2>1 DEF TypeOK, WorkerState, Pcs, Steps
<1>5. BoundsInv'
  BY <1>1, <1>2, SameBounds DEF Asking, Assigning, Steps
<1>6. CreatedInv' /\ CreatorInv' /\ LoopInv'
  BY <1>1, <1>2, <1>3 DEF CreatedInv, CreatorInv, Creating, LoopInv, Steps
<1>7. TimerPerSession'
  BY <1>1, <1>2, TimersKept DEF Creating, Steps
<1>8. UseInv'
  BY <1>1, <1>2 DEF UseInv, Steps
<1>9. DeadInv'
  <2>1. status_'[s] = "Destroy" /\ \A r \in Ids \ {s} : status_'[r] = status_[r]
    BY <1>2, <1>3 DEF TypeOK
  <2>2. \A v \in Workers : worker'[v].pc = "mark" => worker[v].pc = "mark" /\ worker'[v] = worker[v]
    BY <1>1 DEF Steps
  <2>3. dead \subseteq Ids /\ \A r \in dead : status_[r] = "Destroy"
    BY DEF TypeOK, DeadInv, InvalidatedStaysInvalid
  <2>4. \A r \in dead' : status_'[r] = "Destroy"
    BY <1>2, <2>1, <2>3
  <2>5. \A v \in Workers : worker'[v].pc = "mark" => worker'[v].session \notin dead'
    BY <1>2, <2>2 DEF DeadInv
  <2>6. QED
    BY <2>4, <2>5 DEF DeadInv, InvalidatedStaysInvalid
<1>10. QED
  BY <1>4, <1>5, <1>6, <1>7, <1>8, <1>9

LEMMA RespondPreserves ==
    ASSUME IInv, NEW w \in Workers, associateRequestSession(w)
    PROVE  IInv'
<1> USE SessionAssumption DEF IInv
<1>1. Steps(w) /\ worker'[w].pc = "idle"
  <2>1. Free \in WorkerState
    BY FreeType
  <2>2. Free.pc = "idle"
    BY DEF Free
  <2>3. QED
    BY <2>1, <2>2, Replaces DEF associateRequestSession
<1>2. /\ worker[w].pc = "respond" /\ jar' \subseteq Ids
      /\ UNCHANGED <<sessions_, status_, created, queues, timers, requests, loop, torn, dead>>
  <2>1. worker[w].pc = "respond"
    BY DEF associateRequestSession, At
  <2>2. worker[w].session \in Ids
    BY <2>1, SessionKnown
  <2>3. QED
    BY <2>1, <2>2 DEF associateRequestSession, table, heap, history, TypeOK
<1>3. TypeOK'
  BY <1>1, <1>2 DEF TypeOK, WorkerState, Pcs, Steps
<1>4. BoundsInv'
  BY <1>1, <1>2, SameBounds DEF Asking, Assigning, Steps
<1>5. CreatedInv' /\ CreatorInv' /\ LoopInv'
  BY <1>1, <1>2 DEF CreatedInv, CreatorInv, Creating, LoopInv, Steps
<1>6. TimerPerSession'
  BY <1>1, <1>2, TimersKept DEF Creating, Steps
<1>7. UseInv' /\ DeadInv'
  BY <1>1, <1>2 DEF UseInv, DeadInv, InvalidatedStaysInvalid, Steps
<1>8. QED
  BY <1>3, <1>4, <1>5, <1>6, <1>7

(***************************************************************************)
(* The loop thread.  Its steps move no worker and create nothing.          *)
(***************************************************************************)
Served == UNCHANGED <<status_, created, queues, jar, requests, worker, torn, dead>>

LEMMA ServedBounds ==
    ASSUME IInv, Served
    PROVE  BoundsInv'
<1>1. Asking' = Asking /\ Assigning' = Assigning
  BY DEF Served, Asking, Assigning
<1>2. QED
  BY <1>1, SameBounds DEF Served

LEMMA TimeoutPreserves ==
    ASSUME IInv, Timeout
    PROVE  IInv'
<1> USE SessionAssumption DEF IInv
<1>1. /\ Served /\ UNCHANGED <<sessions_, timers>> /\ queues > 0 /\ loop.pc = "poll"
      /\ loop'.pc = "top" /\ loop'.expired = loop.expired
      /\ loop' \in [pc : {"poll", "top", "callback", "pop", "thrown"}, expired : Ids \cup {NoId}]
  BY DEF Timeout, Served, table, heap, history, TypeOK
<1>2. TypeOK' /\ BoundsInv'
  BY <1>1, ServedBounds DEF TypeOK, Served
<1>3. CreatedInv' /\ CreatorInv' /\ DeadInv' /\ UseInv'
  BY <1>1 DEF CreatedInv, CreatorInv, Creating, DeadInv, InvalidatedStaysInvalid, UseInv, Served
<1>4. LoopInv'
  BY <1>1 DEF LoopInv, Served, TypeOK
<1>5. TimerPerSession'
  BY <1>1 DEF TimerPerSession, Served
<1>6. QED
  BY <1>2, <1>3, <1>4, <1>5

(* The timer that is copied has expired, so nobody has begun to use its session since. *)
LEMMA TopPreserves ==
    ASSUME IInv, Top
    PROVE  IInv'
<1> USE SessionAssumption DEF IInv
<1>1. Served /\ UNCHANGED <<sessions_, timers>> /\ loop.pc = "top"
  BY DEF Top, Served, table, heap, history
<1>2. CASE loop' = Polling
  <2>1. loop'.pc = "poll" /\ loop'.expired = NoId
    BY <1>2 DEF Polling
  <2>2. TypeOK' /\ BoundsInv'
    BY <1>1, <1>2, ServedBounds DEF TypeOK, Served, Polling
  <2>3. CreatedInv' /\ CreatorInv' /\ DeadInv' /\ UseInv'
    <3>1. NoId \in 0..created
      BY DEF TypeOK, NoId
    <3>2. \A w \in Workers : Creating(w) => worker[w].session # NoId
      BY SessionKnown DEF Creating, Ids, NoId
    <3>3. QED
      BY <1>1, <2>1, <3>1, <3>2 DEF CreatedInv, CreatorInv, Creating, DeadInv, InvalidatedStaysInvalid, UseInv, Served
  <2>4. LoopInv'
    BY <1>1, <1>2, <2>1 DEF LoopInv, Served
  <2>5. TimerPerSession'
    BY <1>1, <2>1 DEF TimerPerSession, Served
  <2>6. QED
    BY <2>2, <2>3, <2>4, <2>5
<1>3. ASSUME NEW s \in Ids, timers[s] = 0, loop' = [pc |-> "callback", expired |-> s]
      PROVE  IInv'
  <2>1. loop'.pc = "callback" /\ loop'.expired = s /\ timers[s] # NoTimer /\ s # NoId
    BY <1>3 DEF NoTimer, Ids, NoId
  <2>2. s \in 0..created
    BY <2>1 DEF CreatedInv, Ids, TypeOK
  <2>3. TypeOK' /\ BoundsInv'
    BY <1>1, <1>3, ServedBounds DEF TypeOK, Served
  <2>4. CreatedInv' /\ CreatorInv' /\ DeadInv'
    BY <1>1, <2>1, <2>2 DEF CreatedInv, CreatorInv, Creating, DeadInv, InvalidatedStaysInvalid, Served
  <2>5. LoopInv'
    BY <1>1, <1>3, <2>1 DEF LoopInv, Served
  <2>6. TimerPerSession'
    BY <1>1, <2>1 DEF TimerPerSession, Served
  <2>7. UseInv'
    <3>1. ASSUME NEW w \in Workers, worker[w].session = s, worker[w].busy < Interval
          PROVE  ~(timers[worker[w].session] + worker[w].busy >= Interval)
      BY <1>3, <3>1 DEF TypeOK
    <3>2. QED
      BY <1>1, <2>1, <3>1 DEF UseInv, Served
  <2>8. QED
    BY <2>3, <2>4, <2>5, <2>6, <2>7
<1>4. QED
  BY <1>2, <1>3 DEF Top

LEMMA SessionTimeoutPreserves ==
    ASSUME IInv, handleSessionTimeout
    PROVE  IInv'
<1> USE SessionAssumption DEF IInv
<1>1. /\ Served /\ UNCHANGED timers /\ sessions_' = sessions_ \ {loop.expired}
      /\ loop.pc = "callback" /\ loop'.pc = "pop" /\ loop'.expired = loop.expired
      /\ loop' \in [pc : {"poll", "top", "callback", "pop", "thrown"}, expired : Ids \cup {NoId}]
      /\ loop' = [pc |-> "pop", expired |-> loop.expired]
  <2>1. loop \in [pc : {"poll", "top", "callback", "pop", "thrown"}, expired : Ids \cup {NoId}]
    BY DEF TypeOK
  <2>2. loop' = [loop EXCEPT !.pc = "pop"] /\ loop.pc = "callback"
    BY DEF handleSessionTimeout
  <2>3. loop' = [pc |-> "pop", expired |-> loop.expired]
    BY <2>1, <2>2
  <2>4. QED
    BY <2>1, <2>2, <2>3 DEF handleSessionTimeout, WithoutExpired, Served, heap, history
<1>2. TypeOK' /\ BoundsInv'
  BY <1>1, ServedBounds DEF TypeOK, Served
<1>3. CreatedInv' /\ CreatorInv' /\ DeadInv'
  BY <1>1 DEF CreatedInv, CreatorInv, Creating, DeadInv, InvalidatedStaysInvalid, Served
<1>4. LoopInv'
  BY <1>1 DEF LoopInv, Served, Polling
<1>5. TimerPerSession'
  <2>1. ~torn /\ queues <= 1 =>
          \A s \in Ids : timers[s] # NoTimer => s \in sessions_
    BY <1>1 DEF TimerPerSession
  <2>2. QED
    BY <1>1, <2>1 DEF TimerPerSession, Served
<1>6. UseInv'
  BY <1>1 DEF UseInv, Served
<1>7. QED
  BY <1>2, <1>3, <1>4, <1>5, <1>6

(* Unless the timer was set back, pop() removes the one whose session was removed. *)
LEMMA PopPreserves ==
    ASSUME IInv, Pop
    PROVE  IInv'
<1> USE SessionAssumption DEF IInv
<1>1. Served /\ UNCHANGED sessions_ /\ loop.pc = "pop"
  BY DEF Pop, Served, table, history
<1>2. CASE /\ \A s \in Ids : timers[s] = NoTimer
           /\ loop' = [loop EXCEPT !.pc = "thrown"] /\ UNCHANGED timers
  <2>1. /\ loop'.pc = "thrown" /\ loop'.expired = loop.expired
        /\ loop' \in [pc : {"poll", "top", "callback", "pop", "thrown"}, expired : Ids \cup {NoId}]
    BY <1>2 DEF TypeOK
  <2>2. TypeOK' /\ BoundsInv'
    BY <1>1, <1>2, <2>1, ServedBounds DEF TypeOK, Served
  <2>3. CreatedInv' /\ CreatorInv' /\ DeadInv' /\ UseInv'
    BY <1>1, <1>2, <2>1 DEF CreatedInv, CreatorInv, Creating, DeadInv, InvalidatedStaysInvalid, UseInv, Served
  <2>4. LoopInv'
    BY <1>1, <1>2, <2>1 DEF LoopInv, Served, Polling
  <2>5. TimerPerSession'
    BY <1>1, <1>2, <2>1 DEF TimerPerSession, Served, TypeOK
  <2>6. QED
    BY <2>2, <2>3, <2>4, <2>5
<1>3. ASSUME NEW s \in Ids, OnTop(s), timers' = [timers EXCEPT ![s] = NoTimer], loop' = NextTimer
      PROVE  IInv'
  <2>1. /\ loop'.pc = "top" /\ loop'.expired = NoId
        /\ loop' \in [pc : {"poll", "top", "callback", "pop", "thrown"}, expired : Ids \cup {NoId}]
    BY <1>3 DEF NextTimer
  <2>2. /\ timers' \in [Ids -> 0..NoTimer] /\ timers'[s] = NoTimer
        /\ \A t \in Ids \ {s} : timers'[t] = timers[t]
    BY <1>3 DEF TypeOK, NoTimer
  <2>3. TypeOK' /\ BoundsInv'
    BY <1>1, <2>1, <2>2, ServedBounds DEF TypeOK, Served
  <2>4. \A w \in Workers : Creating(w) => worker[w].session # NoId /\ worker[w].session \in Ids
    BY SessionKnown DEF Creating, Ids, NoId
  <2>5. CreatedInv' /\ CreatorInv' /\ DeadInv'
    <3>1. NoId \in 0..created
      BY DEF TypeOK, NoId
    <3>2. QED
      BY <1>1, <2>1, <2>2, <2>4, <3>1 DEF CreatedInv, CreatorInv, Creating, DeadInv, InvalidatedStaysInvalid, Served
  <2>6. LoopInv'
    <3>1. queues # 0
      BY <1>1 DEF LoopInv, Polling
    <3>2. QED
      BY <1>1, <2>1, <3>1 DEF LoopInv, Served
  <2>7. TimerPerSession'
    <3>1. SUFFICES ASSUME ~torn, queues <= 1
                   PROVE  /\ \A r \in sessions_ :
                               \/ timers'[r] # NoTimer
                               \/ \E v \in Workers : worker[v].session = r /\ Creating(v)
                          /\ \A r \in Ids : timers'[r] # NoTimer => r \in sessions_
      BY <1>1 DEF TimerPerSession, Creating, Served
    <3>2. s = loop.expired /\ loop.expired \notin sessions_
      BY <1>1, <1>3, <3>1 DEF LoopInv, OnTop
    <3>3. /\ \A r \in sessions_ : \/ timers[r] # NoTimer
                                  \/ \E v \in Workers : worker[v].session = r /\ Creating(v)
          /\ \A r \in Ids : timers[r] # NoTimer => r \in sessions_ \/ r = loop.expired
          /\ sessions_ \subseteq Ids
      BY <3>1 DEF TimerPerSession, Creating, TypeOK
    <3>4. QED
      BY <2>2, <3>2, <3>3
  <2>8. UseInv'
    <3>1. ASSUME NEW w \in Workers, worker[w].session \in Ids,
                 timers[worker[w].session] + worker[w].busy >= Interval
          PROVE  timers'[worker[w].session] + worker[w].busy >= Interval
      <4>1. worker[w].busy \in Nat
        BY DEF TypeOK
      <4>2. CASE worker[w].session = s
        BY <2>2, <4>1, <4>2 DEF NoTimer
      <4>3. CASE worker[w].session # s
        BY <2>2, <3>1, <4>3
      <4>4. QED
        BY <4>2, <4>3
    <3>2. \A w \in Workers : worker[w].pc \in {"use", "respond"} => worker[w].session \in Ids
      BY SessionKnown
    <3>3. QED
      BY <1>1, <2>1, <3>1, <3>2 DEF UseInv, Served
  <2>9. QED
    BY <2>3, <2>5, <2>6, <2>7, <2>8
<1>4. QED
  BY <1>2, <1>3 DEF Pop

(* A tick takes from a timer at most what it adds to the time of use. *)
LEMMA TickPreserves ==
    ASSUME IInv, Tick
    PROVE  IInv'
<1> USE SessionAssumption DEF IInv
<1>1. UNCHANGED <<sessions_, status_, created, queues, jar, requests, loop, torn, dead>>
  BY DEF Tick, table, history
<1>2. /\ timers' \in [Ids -> 0..NoTimer]
      /\ \A s \in Ids : /\ timers'[s] = NoTimer <=> timers[s] = NoTimer
                        /\ timers[s] = 0 => timers'[s] = 0
                        /\ timers'[s] + 1 >= timers[s]
  <2>1. timers \in [Ids -> 0..NoTimer] /\ NoTimer \in Nat
    BY DEF TypeOK, NoTimer
  <2>2. timers' = [s \in Ids |-> IF timers[s] \in {0, NoTimer} THEN timers[s] ELSE timers[s] - 1]
    BY DEF Tick
  <2>3. ASSUME NEW s \in Ids
        PROVE  /\ timers'[s] \in 0..NoTimer
               /\ timers'[s] = NoTimer <=> timers[s] = NoTimer
               /\ timers[s] = 0 => timers'[s] = 0
               /\ timers'[s] + 1 >= timers[s]
    <3>1. timers[s] \in 0..NoTimer
          /\ timers'[s] = IF timers[s] \in {0, NoTimer} THEN timers[s] ELSE timers[s] - 1
      BY <2>1, <2>2
    <3>2. QED
      BY <2>1, <3>1
  <2>4. QED
    BY <2>2, <2>3
<1>3. /\ worker' \in [Workers -> WorkerState]
      /\ \A w \in Workers : /\ worker'[w].pc = worker[w].pc /\ worker'[w].session = worker[w].session
                            /\ worker'[w].late = worker[w].late
                            /\ worker'[w].pc \in {"use", "respond"} /\ worker'[w].busy < Interval =>
                                 worker'[w].busy = worker[w].busy + 1
  <2>1. worker \in [Workers -> WorkerState]
    BY DEF TypeOK, WorkerState, Pcs
  <2>2. worker' = [w \in Workers |->
                     IF worker[w].pc = "idle" \/ worker[w].busy = Interval THEN worker[w]
                     ELSE [worker[w] EXCEPT !.busy = @ + 1]]
    BY DEF Tick, At
  <2>3. ASSUME NEW w \in Workers
        PROVE  /\ worker'[w] \in WorkerState
               /\ worker'[w].pc = worker[w].pc /\ worker'[w].session = worker[w].session
               /\ worker'[w].late = worker[w].late
               /\ worker'[w].pc \in {"use", "respond"} /\ worker'[w].busy < Interval =>
                    worker'[w].busy = worker[w].busy + 1
    <3>1. worker[w] \in WorkerState /\ worker[w].busy \in 0..Interval
      BY <2>1 DEF WorkerState
    <3>2. CASE worker[w].pc = "idle" \/ worker[w].busy = Interval
      <4>1. worker'[w] = worker[w]
        BY <2>2, <3>2
      <4>2. QED
        BY <3>1, <3>2, <4>1
    <3>3. CASE ~(worker[w].pc = "idle" \/ worker[w].busy = Interval)
      <4>1. worker'[w] = [worker[w] EXCEPT !.busy = @ + 1]
        BY <2>2, <3>3
      <4>2. worker[w].busy + 1 \in 0..Interval
        BY <3>1, <3>3
      <4>3. QED
        BY <3>1, <4>1, <4>2 DEF WorkerState
    <3>4. QED
      BY <3>2, <3>3
  <2>4. QED
    BY <2>2, <2>3
<1>4. TypeOK'
  BY <1>1, <1>2, <1>3 DEF TypeOK, WorkerState, Pcs
<1>5. BoundsInv'
  BY <1>1, <1>3, SameBounds DEF Asking, Assigning
<1>6. \A w \in Workers : Creating(w)' <=> Creating(w)
  BY <1>3 DEF Creating
<1>7. CreatedInv'
  BY <1>1, <1>2, <1>3 DEF CreatedInv
<1>8. CreatorInv'
  <2>1. \A w \in Workers : Creating(w) => worker[w].session \in Ids
    BY SessionKnown DEF Creating
  <2>2. QED
    BY <1>1, <1>2, <1>3, <1>6, <2>1 DEF CreatorInv
<1>9. LoopInv'
  <2>1. loop.pc \in {"callback", "pop"} => loop.expired \in Ids
    BY DEF TypeOK, CreatedInv
  <2>2. QED
    BY <1>1, <1>2, <2>1 DEF LoopInv
<1>10. TimerPerSession'
  BY <1>1, <1>2, <1>3, <1>6, TimersKeptWhere
<1>11. UseInv'
  <2>1. ASSUME NEW w \in Workers, worker'[w].pc \in {"use", "respond"},
               ~worker'[w].late, worker'[w].busy < Interval
        PROVE  /\ worker'[w].session \in sessions_
               /\ loop.pc = "callback" => loop.expired # worker'[w].session
               /\ timers'[worker'[w].session] + worker'[w].busy >= Interval
    <3>1. worker'[w].busy = worker[w].busy + 1 /\ worker[w].busy \in Nat /\ worker'[w].busy \in Nat
      BY <1>3, <1>4, <2>1 DEF TypeOK
    <3>2. /\ worker[w].session \in sessions_
          /\ loop.pc = "callback" => loop.expired # worker[w].session
          /\ timers[worker[w].session] + worker[w].busy >= Interval
      BY <1>3, <2>1, <3>1 DEF UseInv
    <3>3. worker[w].session \in Ids
      BY <3>2 DEF TypeOK
    <3>4. timers[worker[w].session] \in Nat /\ timers'[worker[w].session] \in Nat
          /\ timers'[worker[w].session] + 1 >= timers[worker[w].session]
      BY <1>2, <3>3 DEF TypeOK, NoTimer
    <3>5. QED
      BY <1>3, <3>1, <3>2, <3>4
  <2>2. QED
    BY <1>1, <2>1 DEF UseInv
<1>12. DeadInv'
  BY <1>1, <1>3 DEF DeadInv, InvalidatedStaysInvalid
<1>13. QED
  BY <1>4, <1>5, <1>7, <1>8, <1>9, <1>10, <1>11, <1>12
-----------------------------------------------------------------------------
LEMMA InitImpliesIInv == Init => IInv
<1> SUFFICES ASSUME Init PROVE IInv
  OBVIOUS
<1> USE SessionAssumption
<1>1. Cardinality(Workers) \in Nat
  BY FS_CardinalityType
<1>2. \A w \in Workers : worker[w] = Free /\ worker[w].pc = "idle"
  BY DEF Init, Free
<1>3. worker \in [Workers -> WorkerState]
  BY FreeType DEF Init
<1>4. TypeOK
  <2>1. worker \in [Workers -> [pc : Pcs, cookie : Ids \cup {NoId}, session : Ids \cup {NoId},
                                busy : 0..Interval, late : BOOLEAN]]
    BY <1>3 DEF WorkerState
  <2>2. timers \in [Ids -> 0..NoTimer] /\ queues \in 0..Cardinality(Workers)
    BY <1>1 DEF Init, NoTimer
  <2>3. loop \in [pc : {"poll", "top", "callback", "pop", "thrown"}, expired : Ids \cup {NoId}]
    BY DEF Init, Polling
  <2>4. status_ \in [Ids -> {"None", "New", "Accessed", "Destroy"}]
    BY DEF Init
  <2>5. /\ sessions_ \subseteq Ids /\ created \in 0..MaxSessions /\ jar \subseteq Ids
        /\ requests \in 0..MaxRequests /\ dead \subseteq Ids
    BY DEF Init
  <2>6. torn \in BOOLEAN
    BY Zenon DEF Init
  <2>7. QED
    BY <2>1, <2>2, <2>3, <2>4, <2>5, <2>6 DEF TypeOK, Pcs
<1>5. BoundsInv
  <2>1. Asking = {} /\ Assigning = {}
    BY <1>2 DEF Asking, Assigning
  <2>2. QED
    BY <1>1, <2>1, FS_EmptySet DEF BoundsInv, Init
<1>6. CreatedInv /\ CreatorInv /\ LoopInv
  BY <1>2 DEF Init, CreatedInv, CreatorInv, Creating, LoopInv, Polling, NoId
<1>7. TimerPerSession
  BY DEF Init, TimerPerSession
<1>8. UseInv /\ DeadInv
  BY <1>2 DEF Init, UseInv, DeadInv, InvalidatedStaysInvalid
<1>9. QED
  BY <1>4, <1>5, <1>6, <1>7, <1>8 DEF IInv

LEMMA NextPreservesIInv == IInv /\ [Next]_vars => IInv'
<1> SUFFICES ASSUME IInv, [Next]_vars PROVE IInv'
  OBVIOUS
<1>1. ASSUME NEW w \in Workers, Begin(w) \/ Again(w) \/ invalidate(w) \/ Request(w)
      PROVE  IInv'
  <2>1. CASE associateSession(w)
    BY <2>1, GetPreserves, CheckPreserves, MarkPreserves, AdjustPreserves, createSessionPreserves,
       CreateTestPreserves, CreateAssignPreserves, AddPreserves DEF associateSession
  <2>2. QED
    BY <1>1, <2>1, BeginPreserves, AgainPreserves, invalidatePreserves, UsePreserves,
       RespondPreserves DEF Request
<1>2. CASE handleTimeout
  BY <1>2, TimeoutPreserves, TopPreserves, SessionTimeoutPreserves, PopPreserves DEF handleTimeout
<1>3. CASE Tick
  BY <1>3, TickPreserves
<1>4. CASE UNCHANGED vars
  <2>1. UNCHANGED <<sessions_, status_, created, queues, timers, jar, requests, worker, loop, torn, dead>>
    BY <1>4 DEF vars, table, heap, history
  <2>2. Asking' = Asking /\ Assigning' = Assigning /\ \A w \in Workers : Creating(w)' = Creating(w)
    BY <2>1 DEF Asking, Assigning, Creating
  <2>3. TypeOK' /\ BoundsInv' /\ CreatedInv'
    BY <2>1, <2>2 DEF IInv, TypeOK, BoundsInv, CreatedInv
  <2>4. CreatorInv' /\ LoopInv' /\ TimerPerSession'
    BY <2>1, <2>2 DEF IInv, CreatorInv, LoopInv, TimerPerSession
  <2>5. UseInv' /\ DeadInv'
    BY <2>1 DEF IInv, UseInv, DeadInv, InvalidatedStaysInvalid
  <2>6. QED
    BY <2>3, <2>4, <2>5 DEF IInv
<1>5. QED
  BY <1>1, <1>2, <1>3, <1>4 DEF Next
-----------------------------------------------------------------------------
(* The inductive invariant holds in every behaviour: the workers of HttpServer.cc
   128-176 and the session timer of TimerQueue.cc 40-55 keep it in any interleaving. *)
THEOREM Invariance == Spec => []IInv
BY InitImpliesIInv, NextPreservesIInv, PTL DEF Spec

(* TypeOK: the table, the timers and the requests under way keep their form. *)
THEOREM TypeCorrect == Spec => []TypeOK
<1>1. IInv => TypeOK
  BY DEF IInv
<1>2. QED
  BY <1>1, Invariance, PTL

(* TimerPerSession: for any number of workers, a session in the table has a timer or its
   creator is about to add one, unless a queue was replaced in createSessionTimer() or a
   timer was set back between top() and pop() (HttpServer.cc 142-167, TimerQueue.cc 49-53). *)
THEOREM TimerPerSessionAlways == Spec => []TimerPerSession
<1>1. IInv => TimerPerSession
  BY DEF IInv
<1>2. QED
  BY <1>1, Invariance, PTL

(* SessionAliveInUse: for any lifetime, the plain pointer that HttpServer.cc 135 and 171
   hand to a service is to a session in the table until the service has had it for the
   whole lifetime, or the timeout was under way when it asked. *)
THEOREM SessionAliveInUseAlways == Spec => []SessionAliveInUse
<1>1. IInv => SessionAliveInUse
  <2>1. SUFFICES ASSUME IInv, NEW w \in Workers, worker[w].pc \in {"use", "respond"},
                        worker[w].busy # Interval, ~worker[w].late
                 PROVE  worker[w].session \in sessions_
    BY DEF SessionAliveInUse
  <2>2. worker[w].busy < Interval
    BY <2>1, SessionAssumption DEF IInv, TypeOK
  <2>3. QED
    BY <2>1, <2>2 DEF IInv, UseInv
<1>2. QED
  BY <1>1, Invariance, PTL

(* InvalidatedStaysInvalid: no interleaving of requests makes a session valid again that was
   invalidated while none was between its test and setStatus() (HttpServer.cc 136-140). *)
THEOREM InvalidatedStaysInvalidAlways == Spec => []InvalidatedStaysInvalid
<1>1. IInv => InvalidatedStaysInvalid
  BY DEF IInv, DeadInv
<1>2. QED
  BY <1>1, Invariance, PTL
=============================================================================
