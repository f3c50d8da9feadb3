-------------------------- MODULE TcpServer_proof ---------------------------
(***************************************************************************)
(* Proofs about TcpServer: for any number of descriptors, workers and      *)
(* connections, if no event is handled for longer than idle_timeout_, a    *)
(* live connection is in one place, a thread finds the channel it was      *)
(* started for, and every live connection has a timer.                     *)
(***************************************************************************)
EXTENDS TcpServer, FiniteSetTheorems, TLAPS

(* The four places a connection can be in. *)
Armed(f) == epoll[f] \in {"in", "out"}
Event(f) == \E e \in batch : e.fd = f
Queued(f) == \E k \in 1..Len(tasks_) : tasks_[k].fd = f
Held(f) == \E t \in Threads : thread[t].fd = f /\ thread[t].op # "timer"

(* Where a thread works for a connection that is not being closed, and where it closes it. *)
LivePcs == {"read", "message", "write", "rearmIn", "rearmOut", "closeTest", "closeMark"}
GonePcs == {"closeDel", "closeFree"}

Handshaking(f) == thread[Loop].pc = "handshake" /\ thread[Loop].fd = f
Expiring(f) == thread[Loop].op = "timer" /\ thread[Loop].pc \in CloseStates /\ thread[Loop].fd = f

(* What each thread can be doing, and that it has a descriptor while it does it. *)
ThreadInv ==
    /\ \A w \in Workers :
         /\ thread[w].pc \in WorkerStates /\ thread[w].op \in {"none", "read", "write"}
         /\ thread[w].fd = NoFd <=> thread[w].pc = "idle"
    /\ thread[Loop].pc \in LoopStates /\ thread[Loop].op \in {"none", "close", "timer", "accept"}
    /\ thread[Loop].fd = NoFd <=> thread[Loop].pc \in {"events", "timer", "stopped"}
    /\ thread[Loop].pc \in {"timer", "pop"} => thread[Loop].op = "timer"
    /\ thread[Loop].pc \in CloseStates => thread[Loop].op \in {"close", "timer"}
    /\ thread[Loop].pc = "handshake" => thread[Loop].op = "accept"
    /\ thread[Loop].pc \in {"events", "stopped"} => thread[Loop].op = "none"

(* The channel of a descriptor is that of the connection whose socket it is. *)
OwnerOK(f) ==
    /\ owner[f] <= accepted
    /\ Handshaking(f) => conns_[f].channel = 0 /\ owner[f] = thread[Loop].id /\ owner[f] # 0
    /\ ~Handshaking(f) => conns_[f].channel = owner[f]
    /\ conns_[f].channel = 0 => epoll[f] = "none"
    /\ Live(f) => epoll[f] # "none"

(* A connection is in one place at most, and in one if it is live. *)
Excludes(f) ==
    /\ Armed(f) => ~Event(f) /\ ~Queued(f) /\ ~Held(f)
    /\ Event(f) => ~Queued(f) /\ ~Held(f)
    /\ Queued(f) => ~Held(f)
    /\ \A d, e \in batch : d.fd = f /\ e.fd = f => d = e
    /\ \A j, k \in 1..Len(tasks_) : tasks_[j].fd = f /\ tasks_[k].fd = f => j = k
    /\ \A t, u \in Threads : thread[t].fd = f /\ thread[t].op # "timer" /\
                             thread[u].fd = f /\ thread[u].op # "timer" => t = u
HolderOK(f) == Excludes(f) /\ (Live(f) => Armed(f) \/ Event(f) \/ Queued(f) \/ Held(f))

(* An event, a task and a thread are for a live connection until the thread has marked it. *)
UserOK(t, f) ==
    /\ thread[t].pc \in LivePcs \cup GonePcs => conns_[f].channel = thread[t].id
    /\ thread[t].pc \in LivePcs => Live(f) \/ (thread[t].op = "timer" /\ thread[t].pc = "closeTest")
    /\ thread[t].pc \in GonePcs => conns_[f].disconnected /\ conns_[f].channel # 0
    /\ thread[t].pc = "closeFree" => epoll[f] = "none"
LiveOK(f) ==
    /\ Event(f) => Live(f)
    /\ \A k \in 1..Len(tasks_) : tasks_[k].fd = f => Live(f) /\ conns_[f].channel = tasks_[k].id
    /\ Armed(f) /\ conns_[f].disconnected => Expiring(f) /\ thread[Loop].pc = "closeDel"
    /\ \A t \in Threads : thread[t].fd = f => UserOK(t, f)

(* A live connection has a timer, and nobody works for it when that has expired. *)
TimerOK(f) ==
    /\ Live(f) => HasTimer(f)
    /\ Expiring(f) => ~Event(f) /\ ~Queued(f) /\ ~Held(f)
    /\ thread[Loop].pc = "pop" /\ thread[Loop].fd = f => ~Live(f)

Conn(f) == OwnerOK(f) /\ HolderOK(f) /\ LiveOK(f) /\ TimerOK(f)

(* No two descriptors have the same owner, and an accept event has room for a connection. *)
OwnerInv ==
    /\ \A f, g \in Fds : f # g /\ owner[f] = owner[g] => owner[f] = 0
    /\ ListenEvent \in batch => accepted < MaxAccepts

(* A chunk is in the socket, in the channel or consumed. *)
SocketInv ==
    /\ \A i \in Ids : channels[i].recver + sock[i].rx <= sock[i].sent
    /\ \A i \in Ids : i > accepted => channels[i].recver = 0
    /\ thread[Loop].pc = "handshake" => channels[thread[Loop].id].recver = 0

(* No descriptor has two timers; the one that has expired stays the first until it is removed. *)
TimerInv ==
    /\ \A j, k \in 1..Len(alive_timer_) : alive_timer_[j] = alive_timer_[k] => j = k
    /\ thread[Loop].op = "timer" /\ thread[Loop].pc # "timer" =>
         alive_timer_ # <<>> /\ alive_timer_[1] = thread[Loop].fd

IInv == /\ TypeOK /\ ThreadInv /\ (\A f \in Fds : Conn(f))
        /\ OwnerInv /\ SocketInv /\ TimerInv
-----------------------------------------------------------------------------
ThreadState == [pc : LoopStates \cup WorkerStates,
                op : {"none", "read", "write", "close", "timer", "accept"},
                fd : Fds \cup {NoFd}, id : 0..MaxAccepts]
Task == [op : {"read", "write"}, fd : Fds, id : Ids]

(* A step of thread t leaves the others alone. *)
Steps(t) == /\ thread' \in [Threads -> ThreadState]
            /\ \A u \in Threads \ {t} : thread'[u] = thread[u]

LEMMA Becomes ==
    ASSUME IInv, NEW t \in Threads, NEW r \in ThreadState, thread' = [thread EXCEPT ![t] = r]
    PROVE  Steps(t) /\ thread'[t] = r
BY DEF IInv, TypeOK, ThreadState, Steps

LEMMA Goes ==
    ASSUME IInv, NEW t \in Threads, NEW p \in LoopStates \cup WorkerStates, thread' = Goto(t, p)
    PROVE  /\ Steps(t) /\ thread'[t].pc = p /\ thread'[t].op = thread[t].op
           /\ thread'[t].fd = thread[t].fd /\ thread'[t].id = thread[t].id
<1> DEFINE r == [thread[t] EXCEPT !.pc = p]
<1>1. thread[t] \in ThreadState /\ thread \in [Threads -> ThreadState]
  BY DEF IInv, TypeOK, ThreadState
<1>2. /\ r \in ThreadState /\ r.pc = p /\ r.op = thread[t].op
      /\ r.fd = thread[t].fd /\ r.id = thread[t].id
  BY <1>1 DEF ThreadState
<1>3. thread' = [thread EXCEPT ![t] = r]
  BY <1>1 DEF ThreadState, Goto
<1>4. QED
  BY <1>2, <1>3, Becomes

LEMMA States ==
    ASSUME IInv
    PROVE  /\ AtEvents \in ThreadState /\ Idle \in ThreadState
           /\ \A t \in Threads : thread[t] \in ThreadState
           /\ \A t \in Threads : t \in Workers \/ t = Loop
           /\ Loop \in Threads /\ Loop \notin Workers /\ NoFd \notin Fds
           /\ \A t \in Threads : thread[t].pc \in LivePcs \cup GonePcs \cup {"pop", "handshake"} =>
                thread[t].fd \in Fds
           /\ tasks_ \in Seq(Task)
<1>1. AtEvents \in ThreadState /\ Idle \in ThreadState
  BY BoundsAssumption DEF AtEvents, Idle, ThreadState, LoopStates, WorkerStates, CloseStates
<1>2. \A t \in Threads : thread[t] \in ThreadState
  BY DEF IInv, TypeOK, ThreadState
<1>3. \A t \in Threads : t \in Workers \/ t = Loop
  BY DEF Threads
<1>4. \A t \in Threads : thread[t].pc \in LivePcs \cup GonePcs \cup {"pop", "handshake"} =>
        thread[t].fd \in Fds
  BY <1>2, <1>3 DEF IInv, ThreadInv, ThreadState, LivePcs, GonePcs
<1>5. tasks_ \in Seq(Task)
  BY DEF IInv, TypeOK, Task
<1>6. QED
  BY <1>1, <1>2, <1>3, <1>4, <1>5, ThreadsAssumption DEF Threads

(***************************************************************************)
(* A step that is not about descriptor f.                                  *)
(***************************************************************************)
SameTasks(f) ==
    /\ \A k \in 1..Len(tasks_') : tasks_'[k].fd = f =>
         \E j \in 1..Len(tasks_) : tasks_[j] = tasks_'[k]
    /\ Queued(f) => Queued(f)'
    /\ (\A j, k \in 1..Len(tasks_) : tasks_[j].fd = f /\ tasks_[k].fd = f => j = k) =>
         \A j, k \in 1..Len(tasks_') : tasks_'[j].fd = f /\ tasks_'[k].fd = f => j = k

SameEvents(f) ==
    /\ \A e \in batch : e.fd = f => e \in batch'
    /\ \A e \in batch' : e.fd = f => e \in batch

SameThreads(f) ==
    \A t \in Threads : thread'[t] = thread[t] \/ (thread[t].fd # f /\ thread'[t].fd # f)

SameConn(f) == /\ conns_'[f].channel = conns_[f].channel
               /\ conns_'[f].disconnected = conns_[f].disconnected
               /\ epoll'[f] = epoll[f] /\ owner'[f] = owner[f]
               /\ HasTimer(f)' = HasTimer(f)

LEMMA Queues ==
    ASSUME NEW f \in Fds, tasks_ \in Seq(Task),
           \/ UNCHANGED tasks_
           \/ \E x \in Task : x.fd # f /\ tasks_' = Append(tasks_, x)
           \/ tasks_ # <<>> /\ Head(tasks_).fd # f /\ tasks_' = Tail(tasks_)
    PROVE  SameTasks(f)
<1>1. CASE UNCHANGED tasks_
  BY <1>1 DEF SameTasks, Queued
<1>2. ASSUME NEW x \in Task, x.fd # f, tasks_' = Append(tasks_, x)
      PROVE  SameTasks(f)
  <2>1. /\ Len(tasks_') = Len(tasks_) + 1 /\ tasks_'[Len(tasks_) + 1] = x /\ Len(tasks_) \in Nat
        /\ \A k \in 1..Len(tasks_) : tasks_'[k] = tasks_[k]
    BY <1>2
  <2>2. \A k \in 1..Len(tasks_') : tasks_'[k].fd = f => k \in 1..Len(tasks_)
    BY <1>2, <2>1
  <2>3. QED
    BY <2>1, <2>2 DEF SameTasks, Queued
<1>3. CASE tasks_ # <<>> /\ Head(tasks_).fd # f /\ tasks_' = Tail(tasks_)
  <2>1. /\ Len(tasks_') = Len(tasks_) - 1 /\ Len(tasks_) \in Nat \ {0} /\ tasks_[1].fd # f
        /\ \A k \in 1..(Len(tasks_) - 1) : tasks_'[k] = tasks_[k + 1]
    BY <1>3
  <2>2. \A k \in 1..(Len(tasks_) - 1) : k + 1 \in 1..Len(tasks_)
    BY <2>1
  <2>3. Queued(f) => Queued(f)'
    <3>1. ASSUME NEW k \in 1..Len(tasks_), tasks_[k].fd = f PROVE Queued(f)'
      <4>1. k - 1 \in 1..(Len(tasks_) - 1) /\ tasks_'[k - 1] = tasks_[k]
        BY <2>1, <3>1
      <4>2. QED
        BY <2>1, <3>1, <4>1 DEF Queued
    <3>2. QED
      BY <3>1 DEF Queued
  <2>4. ASSUME NEW j \in 1..Len(tasks_'), NEW k \in 1..Len(tasks_'),
               \A m, n \in 1..Len(tasks_) : tasks_[m].fd = f /\ tasks_[n].fd = f => m = n,
               tasks_'[j].fd = f, tasks_'[k].fd = f
        PROVE  j = k
    <3>1. j + 1 = k + 1
      BY <2>1, <2>2, <2>4
    <3>2. QED
      BY <2>1, <3>1
  <2>5. QED
    BY <2>1, <2>2, <2>3, <2>4 DEF SameTasks
<1>4. QED
  BY <1>1, <1>2, <1>3

LEMMA Frame ==
    ASSUME IInv, NEW f \in Fds, SameTasks(f), SameEvents(f), SameThreads(f), SameConn(f),
           accepted' >= accepted, accepted' \in Nat
    PROVE  Conn(f)'
<1>1. Conn(f) /\ owner[f] \in Nat /\ accepted \in Nat
  BY DEF IInv, TypeOK
<1>2. /\ Live(f)' = Live(f) /\ Armed(f)' = Armed(f) /\ Event(f)' = Event(f)
      /\ Handshaking(f)' = Handshaking(f) /\ Expiring(f)' = Expiring(f)
  <2>1. Live(f)' = Live(f) /\ Armed(f)' = Armed(f)
    BY DEF SameConn, Live, Armed
  <2>2. Event(f)' = Event(f)
    BY DEF SameEvents, Event
  <2>3. Loop \in Threads
    BY DEF Threads
  <2>4. Handshaking(f)' = Handshaking(f) /\ Expiring(f)' = Expiring(f)
    BY <2>3 DEF SameThreads, Handshaking, Expiring
  <2>5. QED
    BY <2>1, <2>2, <2>4
<1>3. Queued(f)' = Queued(f) /\ Held(f)' = Held(f)
  <2>1. Queued(f)' = Queued(f)
    BY DEF SameTasks, Queued
  <2>2. Held(f)' = Held(f)
    BY DEF SameThreads, Held
  <2>3. QED
    BY <2>1, <2>2
<1>4. Handshaking(f) => thread'[Loop].id = thread[Loop].id
  BY DEF SameThreads, Handshaking, Threads
<1>5. OwnerOK(f)'
  BY <1>1, <1>2, <1>4 DEF Conn, OwnerOK, SameConn
<1>6. HolderOK(f)'
  <2>1. \A t, u \in Threads : thread'[t].fd = f /\ thread'[t].op # "timer" /\
                              thread'[u].fd = f /\ thread'[u].op # "timer" => t = u
    BY <1>1 DEF Conn, HolderOK, Excludes, SameThreads
  <2>2. \A d, e \in batch' : d.fd = f /\ e.fd = f => d = e
    BY <1>1 DEF Conn, HolderOK, Excludes, SameEvents
  <2>3. \A j, k \in 1..Len(tasks_') : tasks_'[j].fd = f /\ tasks_'[k].fd = f => j = k
    BY <1>1 DEF Conn, HolderOK, Excludes, SameTasks
  <2>4. QED
    BY <1>1, <1>2, <1>3, <2>1, <2>2, <2>3 DEF Conn, HolderOK, Excludes
<1>7. LiveOK(f)'
  <2>1. \A t \in Threads : thread'[t].fd = f => UserOK(t, f)'
    <3>1. ASSUME NEW t \in Threads, thread'[t].fd = f PROVE UserOK(t, f)'
      <4>1. thread'[t] = thread[t] /\ UserOK(t, f)
        BY <1>1, <3>1 DEF SameThreads, Conn, LiveOK
      <4>2. QED
        BY <1>2, <4>1 DEF UserOK, SameConn
    <3>2. QED
      BY <3>1
  <2>2. \A k \in 1..Len(tasks_') : tasks_'[k].fd = f =>
           Live(f)' /\ conns_'[f].channel = tasks_'[k].id
    BY <1>1, <1>2 DEF Conn, LiveOK, SameTasks, SameConn
  <2>3. Armed(f)' /\ conns_'[f].disconnected => Expiring(f)' /\ thread'[Loop].pc = "closeDel"
    BY <1>1, <1>2 DEF Conn, LiveOK, SameThreads, SameConn, Expiring, Threads
  <2>4. QED
    BY <1>1, <1>2, <2>1, <2>2, <2>3 DEF Conn, LiveOK
<1>8. TimerOK(f)'
  BY <1>1, <1>2, <1>3 DEF Conn, TimerOK, SameConn, SameThreads, Threads
<1>9. QED
  BY <1>5, <1>6, <1>7, <1>8 DEF Conn

(***************************************************************************)
(* A step of thread t about descriptor d (or about none).                  *)
(***************************************************************************)
LEMMA Others ==
    ASSUME IInv, NEW d \in Fds \cup {NoFd}, NEW t \in Threads, Steps(t),
           thread[t].fd \in {d, NoFd}, thread'[t].fd \in {d, NoFd},
           \A g \in Fds \ {d} : SameTasks(g) /\ SameEvents(g) /\ SameConn(g),
           accepted' >= accepted, accepted' \in Nat
    PROVE  \A g \in Fds \ {d} : Conn(g)'
<1> TAKE g \in Fds \ {d}
<1>1. SameThreads(g)
  BY ThreadsAssumption DEF SameThreads, Steps
<1>2. QED
  BY <1>1, Frame

(* Nobody but t works for descriptor d, except a loop that is about to remove an old timer. *)
Lone(d, t) == \A u \in Threads \ {t} :
    thread[u].fd = d => u = Loop /\ thread[u].pc = "pop" /\ thread[u].op = "timer"

LEMMA Alone ==
    ASSUME IInv, NEW d \in Fds, NEW t \in Threads, thread[t].fd = d, thread[t].pc # "pop"
    PROVE  /\ Lone(d, t) /\ ~Event(d) /\ ~Queued(d)
           /\ thread[t].op # "timer" => ~Armed(d)
           /\ thread[t].op = "timer" => t = Loop /\ Expiring(d)
           /\ thread[t].pc # "handshake" => ~Handshaking(d)
<1>1. ThreadInv /\ HolderOK(d) /\ TimerOK(d) /\ NoFd \notin Fds
  BY ThreadsAssumption DEF IInv, Conn
<1>2. \A u \in Threads : u \in Workers \/ u = Loop
  BY DEF Threads
<1>3. ASSUME NEW u \in Threads, thread[u].op = "timer", thread[u].fd = d, thread[u].pc # "pop"
      PROVE  u = Loop /\ Expiring(d)
  <2>1. u = Loop
    BY <1>1, <1>2, <1>3 DEF ThreadInv
  <2>2. thread[Loop].pc \in CloseStates
    BY <1>1, <1>3, <2>1 DEF ThreadInv, LoopStates
  <2>3. QED
    BY <1>3, <2>1, <2>2 DEF Expiring
<1>4. CASE thread[t].op # "timer"
  <2>1. Held(d)
    BY <1>4 DEF Held
  <2>2. ~Event(d) /\ ~Queued(d) /\ ~Armed(d) /\ ~Expiring(d)
    BY <1>1, <2>1 DEF HolderOK, Excludes, TimerOK
  <2>3. \A u \in Threads \ {t} : thread[u].fd = d => thread[u].op = "timer"
    BY <1>1, <1>4 DEF HolderOK, Excludes
  <2>4. \A u \in Threads \ {t} : thread[u].fd = d => u = Loop /\ thread[u].pc = "pop"
    BY <1>1, <1>2, <1>3, <2>2, <2>3 DEF ThreadInv
  <2>5. thread[t].pc # "handshake" => ~Handshaking(d)
    BY <2>4 DEF Handshaking, Threads
  <2>6. QED
    BY <1>4, <2>2, <2>3, <2>4, <2>5 DEF Lone
<1>5. CASE thread[t].op = "timer"
  <2>1. t = Loop /\ Expiring(d)
    BY <1>3, <1>5
  <2>2. ~Event(d) /\ ~Queued(d) /\ ~Held(d)
    BY <1>1, <2>1 DEF TimerOK
  <2>3. \A u \in Threads \ {t} : thread[u].fd # d
    BY <1>1, <1>2, <2>1, <2>2 DEF Held, ThreadInv
  <2>4. ~Handshaking(d)
    BY <2>1 DEF Handshaking, Expiring, CloseStates
  <2>5. QED
    BY <1>5, <2>1, <2>2, <2>3, <2>4 DEF Lone
<1>6. QED
  BY <1>4, <1>5

LEMMA LoneStays ==
    ASSUME NEW d \in Fds, NEW t \in Threads, Lone(d, t), Steps(t)
    PROVE  Lone(d, t)'
BY DEF Lone, Steps

(* What has to be shown of descriptor d when only thread t is about it after the step. *)
LEMMA Assemble ==
    ASSUME NEW d \in Fds, NEW t \in Threads, Lone(d, t)', ~Event(d)', ~Queued(d)', OwnerOK(d)',
           Live(d)' => Armed(d)' \/ (thread'[t].fd = d /\ thread'[t].op # "timer"),
           Armed(d)' => thread'[t].fd # d \/ thread'[t].op = "timer",
           Armed(d)' /\ conns_'[d].disconnected => Expiring(d)' /\ thread'[Loop].pc = "closeDel",
           thread'[t].fd = d => UserOK(t, d)',
           Live(d)' => HasTimer(d)',
           Expiring(d)' => t = Loop,
           thread'[Loop].pc = "pop" /\ thread'[Loop].fd = d => ~Live(d)'
    PROVE  Conn(d)'
<1>1. \A k \in 1..Len(tasks_') : tasks_'[k].fd # d
  BY DEF Queued
<1>2. \A e \in batch' : e.fd # d
  BY DEF Event
<1>3. \A u \in Threads : thread'[u].fd = d /\ thread'[u].op # "timer" => u = t
  BY DEF Lone
<1>4. Held(d)' <=> thread'[t].fd = d /\ thread'[t].op # "timer"
  BY <1>3 DEF Held
<1>5. Excludes(d)'
  BY <1>1, <1>2, <1>3, <1>4 DEF Excludes
<1>6. HolderOK(d)'
  BY <1>4, <1>5 DEF HolderOK
<1>7. \A u \in Threads : thread'[u].fd = d => UserOK(u, d)'
  BY DEF Lone, UserOK, LivePcs, GonePcs
<1>8. LiveOK(d)'
  BY <1>1, <1>7 DEF LiveOK
<1>9. TimerOK(d)'
  BY <1>4 DEF TimerOK, Expiring
<1>10. QED
  BY <1>6, <1>8, <1>9 DEF Conn

LEMMA Untouched ==
    /\ UNCHANGED tasks_ => \A g \in Fds : SameTasks(g)
    /\ UNCHANGED batch => \A g \in Fds : SameEvents(g)
    /\ UNCHANGED <<conns_, epoll, owner, alive_timer_>> => \A g \in Fds : SameConn(g)
<1>1. UNCHANGED tasks_ => \A g \in Fds : SameTasks(g)
  BY DEF SameTasks, Queued
<1>2. UNCHANGED batch => \A g \in Fds : SameEvents(g)
  BY DEF SameEvents
<1>3. UNCHANGED <<conns_, epoll, owner, alive_timer_>> => \A g \in Fds : SameConn(g)
  BY DEF SameConn, HasTimer
<1>4. QED
  BY <1>1, <1>2, <1>3

(* An event that is not about a connection leaves the batch. *)
LEMMA LoopEvent ==
    ASSUME NEW op, Handle(op, NoFd)
    PROVE  /\ \A g \in Fds : SameEvents(g)
           /\ batch' \subseteq batch /\ thread[Loop].pc = "events"
BY ThreadsAssumption DEF Handle, SameEvents

LEMMA WorkerMoves ==
    ASSUME IInv, NEW w \in Workers, Steps(w),
           thread'[w].pc \in WorkerStates, thread'[w].op \in {"none", "read", "write"},
           thread'[w].fd = NoFd <=> thread'[w].pc = "idle"
    PROVE  ThreadInv'
<1>1. Loop \in Threads \ {w} /\ \A v \in Workers : v \in Threads
  BY ThreadsAssumption DEF Threads
<1>2. thread'[Loop] = thread[Loop] /\ \A v \in Workers \ {w} : thread'[v] = thread[v]
  BY <1>1 DEF Steps
<1>3. QED
  BY <1>2 DEF IInv, ThreadInv

LEMMA LoopMoves ==
    ASSUME IInv, Steps(Loop), thread'[Loop].pc \in LoopStates,
           thread'[Loop].op \in {"none", "close", "timer", "accept"},
           thread'[Loop].fd = NoFd <=> thread'[Loop].pc \in {"events", "timer", "stopped"},
           thread'[Loop].pc \in {"timer", "pop"} => thread'[Loop].op = "timer",
           thread'[Loop].pc \in CloseStates => thread'[Loop].op \in {"close", "timer"},
           thread'[Loop].pc = "handshake" => thread'[Loop].op = "accept",
           thread'[Loop].pc \in {"events", "stopped"} => thread'[Loop].op = "none"
    PROVE  ThreadInv'
<1>1. \A v \in Workers : v \in Threads \ {Loop}
  BY ThreadsAssumption DEF Threads
<1>2. \A v \in Workers : thread'[v] = thread[v]
  BY <1>1 DEF Steps
<1>3. QED
  BY <1>2 DEF IInv, ThreadInv

(* Thread t goes on with the live connection of its descriptor. *)
LEMMA GoesOn ==
    ASSUME IInv, NEW t \in Threads, NEW p \in LivePcs, thread' = Goto(t, p),
           thread[t].pc \in LivePcs, Live(thread[t].fd), t = Loop => p \in CloseStates,
           \A g \in Fds : conns_'[g].channel = conns_[g].channel /\
                          conns_'[g].disconnected = conns_[g].disconnected,
           UNCHANGED <<epoll, owner, accepted, alive_timer_, tasks_, batch>>
    PROVE  /\ thread' \in [Threads -> ThreadState]
           /\ ThreadInv' /\ (\A f \in Fds : Conn(f)') /\ OwnerInv' /\ TimerInv'
           /\ thread'[Loop].pc = "handshake" => thread'[Loop] = thread[Loop]
<1>d. PICK d \in Fds : d = thread[t].fd
  BY States
<1>1. d = thread[t].fd /\ d \in Fds /\ (t \in Workers \/ t = Loop) /\ Loop \notin Workers /\ NoFd \notin Fds
      /\ Loop \in Threads
  BY <1>d, States
<1>2. /\ Steps(t) /\ thread'[t].pc = p /\ thread'[t].op = thread[t].op
      /\ thread'[t].fd = d /\ thread'[t].id = thread[t].id
  <2>1. p \in LoopStates \cup WorkerStates
    BY DEF LivePcs, WorkerStates, CloseStates
  <2>2. QED
    BY <1>1, <2>1, Goes
<1>3. /\ Lone(d, t) /\ ~Event(d) /\ ~Queued(d)
      /\ thread[t].op # "timer" => ~Armed(d)
      /\ thread[t].op = "timer" => t = Loop /\ Expiring(d)
      /\ ~Handshaking(d)
  <2>1. thread[t].pc # "pop" /\ thread[t].pc # "handshake"
    BY DEF LivePcs
  <2>2. QED
    BY <1>1, <2>1, Alone
<1>4. ThreadInv'
  <2>1. CASE t \in Workers
    <3>1. /\ thread'[t].pc \in WorkerStates /\ thread'[t].op \in {"none", "read", "write"}
          /\ thread'[t].fd # NoFd /\ thread'[t].pc # "idle"
      BY <1>1, <1>2, <2>1 DEF IInv, ThreadInv, LivePcs, WorkerStates, CloseStates
    <3>2. QED
      BY <1>2, <2>1, <3>1, WorkerMoves
  <2>2. CASE t = Loop
    <3>1. thread[Loop].op \in {"close", "timer"}
      BY <2>2 DEF IInv, ThreadInv, LivePcs, LoopStates, CloseStates
    <3>2. QED
      BY <1>1, <1>2, <2>2, <3>1, LoopMoves DEF LoopStates, CloseStates
  <2>3. QED
    BY <1>1, <2>1, <2>2
<1>5. \A g \in Fds : SameTasks(g) /\ SameEvents(g) /\ SameConn(g)
  BY Untouched DEF SameConn, HasTimer
<1>6. accepted' >= accepted /\ accepted' \in Nat
  BY DEF IInv, TypeOK
<1>7. \A g \in Fds \ {d} : Conn(g)'
  BY <1>1, <1>2, <1>5, <1>6, Others
<1>8. Conn(d)'
  <2>1. Live(d)' /\ Live(d) /\ Event(d)' = Event(d) /\ Queued(d)' = Queued(d) /\ Armed(d)' = Armed(d)
        /\ HasTimer(d)' = HasTimer(d)
    BY <1>1 DEF Live, Event, Queued, Armed, HasTimer
  <2>2. Lone(d, t)'
    BY <1>1, <1>2, <1>3, LoneStays
  <2>3. Conn(d) /\ conns_[d].disconnected # TRUE /\ conns_'[d].disconnected # TRUE
    BY <1>1, <2>1 DEF IInv, Live
  <2>4. t # Loop => thread'[Loop] = thread[Loop]
    BY <1>1, <1>2 DEF Steps
  <2>5. t = Loop => thread'[Loop].pc # "pop" /\ thread'[Loop].pc # "handshake"
    BY <1>2 DEF CloseStates
  <2>6. ~Handshaking(d)'
    BY <1>3, <2>4, <2>5 DEF Handshaking
  <2>7. OwnerOK(d)'
    BY <1>1, <1>3, <2>1, <2>3, <2>6 DEF Conn, OwnerOK
  <2>8. UserOK(t, d)'
    BY <1>1, <1>2, <2>1, <2>3 DEF Conn, LiveOK, UserOK, LivePcs, GonePcs
  <2>9. Expiring(d)' => t = Loop
    BY <1>1, <1>2, <1>3, <2>4 DEF Lone, Expiring, CloseStates
  <2>10. ~(thread'[Loop].pc = "pop" /\ thread'[Loop].fd = d)
    BY <2>1, <2>3, <2>4, <2>5 DEF Conn, TimerOK
  <2>11. Live(d)' => Armed(d)' \/ (thread'[t].fd = d /\ thread'[t].op # "timer")
    <3>1. CASE thread[t].op = "timer"
      BY <1>3, <2>1, <2>3, <3>1 DEF Conn, HolderOK, TimerOK
    <3>2. QED
      BY <1>2, <3>1
  <2>12. QED
    BY <1>1, <1>2, <1>3, <2>1, <2>2, <2>3, <2>7, <2>8, <2>9, <2>10, <2>11, Assemble DEF Conn, TimerOK
<1>9. OwnerInv'
  BY DEF IInv, OwnerInv
<1>10. TimerInv'
  BY <1>1, <1>2 DEF IInv, TimerInv, Steps, LivePcs
<1>11. thread'[Loop].pc = "handshake" => thread'[Loop] = thread[Loop]
  BY <1>1, <1>2 DEF Steps, CloseStates
<1>12. QED
  BY <1>2, <1>4, <1>7, <1>8, <1>9, <1>10, <1>11 DEF Steps

-----------------------------------------------------------------------------
LEMMA PeerPreserves ==
    ASSUME IInv, NEW i \in Ids, PeerSend(i) \/ PeerClose(i) \/ PeerDrain(i)
    PROVE  IInv'
<1>1. UNCHANGED <<conns_, channels, epoll, owner, accepted, closed, alive_timer_, tasks_, batch,
                  quit_, thread>>
  BY DEF PeerSend, PeerClose, PeerDrain
<1>2. /\ sock' \in [Ids -> [rx : 0..MaxSends, sent : 0..MaxSends, fin : BOOLEAN, full : BOOLEAN]]
      /\ \A j \in Ids : channels[j].recver + sock'[j].rx <= sock'[j].sent
  <2> DEFINE S == [rx : 0..MaxSends, sent : 0..MaxSends, fin : BOOLEAN, full : BOOLEAN]
  <2>1. /\ sock \in [Ids -> S] /\ MaxSends \in Nat
        /\ \A j \in Ids : channels[j].recver + sock[j].rx <= sock[j].sent
        /\ \A j \in Ids : channels[j].recver \in Nat
    BY BoundsAssumption DEF IInv, TypeOK, SocketInv
  <2>2. CASE PeerSend(i)
    <3>1. sock[i].rx + 1 \in 0..MaxSends /\ sock[i].sent + 1 \in 0..MaxSends
      BY <2>1, <2>2 DEF PeerSend
    <3> DEFINE r == [sock[i] EXCEPT !.rx = @ + 1, !.sent = @ + 1]
    <3>2. sock' = [sock EXCEPT ![i] = r]
      BY <2>1, <2>2 DEF PeerSend
    <3>r. r \in S /\ r.rx = sock[i].rx + 1 /\ r.sent = sock[i].sent + 1
      BY <2>1, <3>1
    <3> HIDE DEF r
    <3>3. sock' \in [Ids -> S]
      BY <2>1, <3>2, <3>r
    <3>4. \A j \in Ids : channels[j].recver + sock'[j].rx <= sock'[j].sent
      <4>1. channels[i].recver + r.rx <= r.sent
        BY <2>1, <3>r
      <4>2. QED
        BY <2>1, <3>2, <4>1
    <3>5. QED
      BY <3>3, <3>4
  <2>3. CASE PeerClose(i)
    <3>1. sock' = [sock EXCEPT ![i] = [@ EXCEPT !.fin = TRUE]]
      BY <2>1, <2>3 DEF PeerClose
    <3>2. QED
      BY <2>1, <3>1
  <2>4. CASE PeerDrain(i)
    <3>1. sock' = [sock EXCEPT ![i] = [@ EXCEPT !.full = FALSE]]
      BY <2>1, <2>4 DEF PeerDrain
    <3>2. QED
      BY <2>1, <3>1
  <2>5. QED
    BY <2>2, <2>3, <2>4
<1>3. TypeOK'
  BY <1>1, <1>2 DEF IInv, TypeOK
<1>4. \A f \in Fds : Conn(f)'
  <2>1. \A g \in Fds : SameTasks(g) /\ SameEvents(g) /\ SameConn(g) /\ SameThreads(g)
    BY <1>1, Untouched DEF SameThreads
  <2>2. accepted' >= accepted /\ accepted' \in Nat
    BY <1>1 DEF IInv, TypeOK
  <2>3. QED
    BY <2>1, <2>2, Frame
<1>5. ThreadInv' /\ OwnerInv' /\ TimerInv'
  BY <1>1 DEF IInv, ThreadInv, OwnerInv, TimerInv
<1>6. SocketInv'
  BY <1>1, <1>2 DEF IInv, SocketInv
<1>7. QED
  BY <1>3, <1>4, <1>5, <1>6 DEF IInv

(* A worker between onRead or onWrite and its end has a live connection with its channel. *)
LEMMA WorksFor ==
    ASSUME IInv, NEW w \in Workers, thread[w].pc \in LivePcs
    PROVE  /\ w \in Threads /\ thread[w].fd \in Fds /\ Live(thread[w].fd)
           /\ conns_[thread[w].fd].channel = thread[w].id
           /\ owner[thread[w].fd] = thread[w].id
           /\ thread[w].id \in Ids /\ thread[w].id <= accepted /\ w # Loop
<1>1. w \in Threads /\ w # Loop
  BY ThreadsAssumption DEF Threads
<1>2. PICK f \in Fds : f = thread[w].fd
  BY <1>1, States
<1>3. Conn(f) /\ thread[w].op # "timer"
  BY DEF IInv, ThreadInv
<1>4. Live(f) /\ conns_[f].channel = thread[w].id
  BY <1>1, <1>2, <1>3 DEF Conn, LiveOK, UserOK
<1>5. ~Handshaking(f)
  BY <1>3, <1>4 DEF Conn, OwnerOK, Live
<1>6. owner[f] = thread[w].id /\ owner[f] <= accepted
  BY <1>3, <1>4, <1>5 DEF Conn, OwnerOK
<1>7. thread[w].id \in 0..MaxAccepts /\ thread[w].id # 0
  BY <1>1, <1>4, States DEF ThreadState, Live
<1>8. QED
  BY <1>1, <1>2, <1>4, <1>6, <1>7, BoundsAssumption DEF Ids

LEMMA HandshakeFor ==
    ASSUME IInv, thread[Loop].pc = "handshake"
    PROVE  /\ thread[Loop].fd \in Fds /\ thread[Loop].id \in Ids /\ Loop \in Threads
           /\ Handshaking(thread[Loop].fd)
           /\ owner[thread[Loop].fd] = thread[Loop].id
           /\ conns_[thread[Loop].fd].channel = 0
           /\ channels[thread[Loop].id].recver = 0
<1>1. PICK g \in Fds : g = thread[Loop].fd
  BY States
<1>2. Handshaking(g) /\ Conn(g)
  BY <1>1 DEF Handshaking, IInv
<1>3. owner[g] = thread[Loop].id /\ conns_[g].channel = 0 /\ owner[g] # 0
  BY <1>2 DEF Conn, OwnerOK
<1>4. owner[g] \in 0..MaxAccepts
  BY DEF IInv, TypeOK
<1>5. channels[thread[Loop].id].recver = 0
  BY DEF IInv, SocketInv
<1>6. QED
  BY <1>1, <1>2, <1>3, <1>4, <1>5, BoundsAssumption DEF Ids, Threads

(* A step that leaves in each channel what was there or nothing. *)
LEMMA SocketKept ==
    ASSUME IInv, \A i \in Ids : channels'[i].recver = channels[i].recver \/ channels'[i].recver = 0,
           \A i \in Ids : channels'[i].recver + sock'[i].rx <= sock'[i].sent,
           accepted' \in Nat, accepted' >= accepted,
           thread'[Loop].pc = "handshake" => thread'[Loop] = thread[Loop]
    PROVE  SocketInv'
<1>1. accepted \in Nat
  BY DEF IInv, TypeOK
<1>2. \A j \in Ids : j > accepted' => j > accepted
  BY <1>1 DEF Ids
<1>3. \A j \in Ids : j > accepted' => channels'[j].recver = 0
  BY <1>2 DEF IInv, SocketInv
<1>4. thread'[Loop].pc = "handshake" => channels'[thread'[Loop].id].recver = 0
  BY HandshakeFor
<1>5. QED
  BY <1>3, <1>4 DEF SocketInv

LEMMA ReadAgainPreserves ==
    ASSUME IInv, NEW w \in Workers, ReadAgain(w)
    PROVE  IInv'
<1>1. thread[w].pc \in LivePcs
  BY DEF ReadAgain, LivePcs
<1>2. PICK i \in Ids : i = conns_[thread[w].fd].channel /\ i <= accepted /\ i = thread[w].id
                       /\ i = owner[thread[w].fd]
  BY <1>1, WorksFor
<1>3. /\ w \in Threads /\ w # Loop /\ thread[w].fd \in Fds /\ Live(thread[w].fd)
  BY <1>1, WorksFor
<1>4. /\ channels' = [channels EXCEPT ![i].recver = @ + sock[i].rx]
      /\ sock' = [sock EXCEPT ![i].rx = 0]
      /\ UNCHANGED <<conns_, epoll, owner, accepted, closed, alive_timer_, tasks_, batch, quit_>>
  BY <1>2 DEF ReadAgain
<1>5. PICK p \in LivePcs : thread' = Goto(w, p)
  <2>1. PICK again \in BOOLEAN :
          thread' = Goto(w, CASE ~again                                -> "closeTest"
                              [] again /\ channels'[i].recver = 0      -> "rearmIn"
                              [] again /\ channels'[i].recver # 0      -> "message")
    BY <1>2 DEF ReadAgain
  <2>2. QED
    BY <2>1 DEF LivePcs
<1>6. /\ thread' \in [Threads -> ThreadState]
      /\ ThreadInv' /\ (\A f \in Fds : Conn(f)') /\ OwnerInv' /\ TimerInv'
      /\ thread'[Loop].pc = "handshake" => thread'[Loop] = thread[Loop]
  BY <1>1, <1>3, <1>4, <1>5, GoesOn
<1> DEFINE C == [recver : 0..MaxSends, sender : 0..MaxUnits]
           S == [rx : 0..MaxSends, sent : 0..MaxSends, fin : BOOLEAN, full : BOOLEAN]
<1>7. /\ channels \in [Ids -> C] /\ sock \in [Ids -> S] /\ MaxSends \in Nat
      /\ \A j \in Ids : channels[j].recver + sock[j].rx <= sock[j].sent
  BY BoundsAssumption DEF IInv, TypeOK, SocketInv
<1>8. channels[i].recver + sock[i].rx \in 0..MaxSends
  BY <1>7
<1> DEFINE c == [channels[i] EXCEPT !.recver = @ + sock[i].rx]
           s == [sock[i] EXCEPT !.rx = 0]
<1>9. /\ c \in C /\ c.recver = channels[i].recver + sock[i].rx
      /\ s \in S /\ s.rx = 0 /\ s.sent = sock[i].sent
  BY <1>7, <1>8
<1>c. channels' = [channels EXCEPT ![i] = c]
  BY <1>4, <1>7
<1>s. sock' = [sock EXCEPT ![i] = s]
  BY <1>4, <1>7
<1> HIDE DEF c, s
<1>10. channels' \in [Ids -> C]
  BY <1>7, <1>9, <1>c
<1>11. sock' \in [Ids -> S]
  BY <1>7, <1>9, <1>s
<1>12. TypeOK'
  BY <1>4, <1>6, <1>10, <1>11 DEF IInv, TypeOK, ThreadState
<1>13. SocketInv'
  <2>1. \A j \in Ids : channels'[j].recver + sock'[j].rx <= sock'[j].sent
    <3>1. c.recver + s.rx <= s.sent
      BY <1>7, <1>9
    <3>2. QED
      BY <1>7, <1>c, <1>s, <3>1
  <2>2. \A j \in Ids : j # i => channels'[j].recver = channels[j].recver
    BY <1>7, <1>c
  <2>3. accepted \in Nat /\ i \in Nat
    BY DEF IInv, TypeOK, Ids
  <2>4. \A j \in Ids : j > accepted' => channels'[j].recver = 0
    BY <1>2, <1>4, <2>2, <2>3 DEF IInv, SocketInv, Ids
  <2>5. thread'[Loop].pc = "handshake" => thread'[Loop].id # i /\ thread'[Loop].id \in Ids
    <3>1. ASSUME thread'[Loop].pc = "handshake" PROVE thread'[Loop].id # i /\ thread'[Loop].id \in Ids
      <4>1. thread'[Loop] = thread[Loop] /\ thread[Loop].pc = "handshake"
        BY <1>6, <3>1
      <4>2. PICK g \in Fds : g = thread[Loop].fd
        BY <4>1, HandshakeFor
      <4>3. owner[g] = thread[Loop].id /\ conns_[g].channel = 0 /\ owner[g] \in Ids
        BY <4>1, <4>2, HandshakeFor
      <4>5. g # thread[w].fd
        BY <1>3, <4>3 DEF Live
      <4>6. owner[g] # i
        BY <1>2, <1>3, <4>3, <4>5 DEF IInv, OwnerInv, Ids
      <4>7. QED
        BY <4>1, <4>3, <4>6
    <3>2. QED
      BY <3>1
  <2>6. thread'[Loop].pc = "handshake" => channels'[thread'[Loop].id].recver = 0
    BY <1>6, <2>2, <2>5 DEF IInv, SocketInv
  <2>7. QED
    BY <2>1, <2>4, <2>6 DEF SocketInv
<1>14. QED
  BY <1>6, <1>12, <1>13 DEF IInv

LEMMA MessagePreserves ==
    ASSUME IInv, NEW w \in Workers, Message(w)
    PROVE  IInv'
<1>1. thread[w].pc \in LivePcs
  BY DEF Message, LivePcs
<1>2. PICK f \in Fds, i \in Ids : f = thread[w].fd /\ i = conns_[f].channel
  BY <1>1, WorksFor
<1>3. /\ w \in Threads /\ w # Loop /\ Live(thread[w].fd)
      /\ UNCHANGED <<epoll, kernel, alive_timer_, tasks_, batch, quit_>>
  BY <1>1, WorksFor DEF Message
<1> DEFINE B == [disconnected : BOOLEAN, keep_alive : BOOLEAN, channel : 0..MaxAccepts]
           C == [recver : 0..MaxSends, sender : 0..MaxUnits]
<1>4. /\ conns_ \in [Fds -> B] /\ channels \in [Ids -> C]
      /\ MaxSends \in Nat /\ MaxUnits \in Nat \ {0}
  BY BoundsAssumption DEF IInv, TypeOK
<1>5. \E p \in LivePcs :
      /\ thread' = Goto(w, p)
      /\ conns_' \in [Fds -> B] /\ channels' \in [Ids -> C]
      /\ \A g \in Fds : conns_'[g].channel = conns_[g].channel /\
                        conns_'[g].disconnected = conns_[g].disconnected
      /\ \A j \in Ids : channels'[j].recver = channels[j].recver \/ channels'[j].recver = 0
  <2>1. CASE thread' = Goto(w, "rearmIn") /\ UNCHANGED <<conns_, channels>>
    BY <1>4, <2>1 DEF LivePcs
  <2>2. ASSUME NEW on \in BOOLEAN, NEW units \in 1..MaxUnits,
               conns_' = [conns_ EXCEPT ![f].keep_alive = on],
               channels' = [channels EXCEPT ![i] = [recver |-> 0, sender |-> units]],
               thread' = Goto(w, "rearmOut")
        PROVE  \E p \in LivePcs :
                 /\ thread' = Goto(w, p)
                 /\ conns_' \in [Fds -> B] /\ channels' \in [Ids -> C]
                 /\ \A g \in Fds : conns_'[g].channel = conns_[g].channel /\
                                   conns_'[g].disconnected = conns_[g].disconnected
                 /\ \A j \in Ids : channels'[j].recver = channels[j].recver \/ channels'[j].recver = 0
    <3> DEFINE b == [conns_[f] EXCEPT !.keep_alive = on]
    <3>1. b \in B /\ b.channel = conns_[f].channel /\ b.disconnected = conns_[f].disconnected
      BY <1>4
    <3>2. conns_' = [conns_ EXCEPT ![f] = b]
      BY <1>4, <2>2
    <3> HIDE DEF b
    <3>3. /\ conns_' \in [Fds -> B]
          /\ \A g \in Fds : conns_'[g].channel = conns_[g].channel /\
                            conns_'[g].disconnected = conns_[g].disconnected
      BY <1>4, <3>1, <3>2
    <3>4. /\ channels' \in [Ids -> C]
          /\ \A j \in Ids : channels'[j].recver = channels[j].recver \/ channels'[j].recver = 0
      BY <1>4, <2>2
    <3>5. "rearmOut" \in LivePcs
      BY DEF LivePcs
    <3>6. QED
      BY <2>2, <3>3, <3>4, <3>5
  <2>3. QED
    BY <1>2, <2>1, <2>2 DEF Message
<1>6. /\ thread' \in [Threads -> ThreadState]
      /\ ThreadInv' /\ (\A g \in Fds : Conn(g)') /\ OwnerInv' /\ TimerInv'
      /\ thread'[Loop].pc = "handshake" => thread'[Loop] = thread[Loop]
  <2>1. UNCHANGED <<owner, accepted>>
    BY <1>3 DEF kernel
  <2>2. QED
    BY <1>1, <1>3, <1>5, <2>1, GoesOn
<1>7. TypeOK'
  BY <1>3, <1>5, <1>6 DEF IInv, TypeOK, ThreadState, kernel
<1>8. SocketInv'
  <2>1. UNCHANGED <<sock, accepted>> /\ accepted \in Nat
    BY <1>3 DEF kernel, IInv, TypeOK
  <2>2. \A j \in Ids : channels[j].recver \in Nat /\ sock[j].rx \in Nat /\ sock[j].sent \in Nat
    BY DEF IInv, TypeOK
  <2>3. \A j \in Ids : channels'[j].recver + sock'[j].rx <= sock'[j].sent
    BY <1>5, <2>1, <2>2 DEF IInv, SocketInv
  <2>4. QED
    BY <1>5, <1>6, <2>1, <2>3, SocketKept
<1>9. QED
  BY <1>6, <1>7, <1>8 DEF IInv

LEMMA WriteAgainPreserves ==
    ASSUME IInv, NEW w \in Workers, WriteAgain(w)
    PROVE  IInv'
<1>1. thread[w].pc \in LivePcs
  BY DEF WriteAgain, LivePcs
<1>2. PICK f \in Fds, i \in Ids : f = thread[w].fd /\ i = conns_[f].channel
  BY <1>1, WorksFor
<1>3. /\ w \in Threads /\ w # Loop /\ Live(thread[w].fd)
      /\ UNCHANGED <<conns_, epoll, owner, accepted, closed, alive_timer_, tasks_, batch, quit_>>
  BY <1>1, WorksFor DEF WriteAgain
<1> DEFINE C == [recver : 0..MaxSends, sender : 0..MaxUnits]
           S == [rx : 0..MaxSends, sent : 0..MaxSends, fin : BOOLEAN, full : BOOLEAN]
<1>4. /\ channels \in [Ids -> C] /\ sock \in [Ids -> S]
      /\ MaxSends \in Nat /\ MaxUnits \in Nat \ {0}
  BY BoundsAssumption DEF IInv, TypeOK
<1>5. PICK n \in Takes(sock[i], channels[i].sender) :
         \/ /\ n = channels[i].sender
            /\ channels' = [channels EXCEPT ![i] = NewChannel]
            /\ thread' = Goto(w, IF conns_[f].keep_alive THEN "rearmIn" ELSE "closeTest")
            /\ UNCHANGED sock
         \/ /\ n < channels[i].sender
            /\ channels' = [channels EXCEPT ![i].sender = @ - n]
            /\ sock' = [sock EXCEPT ![i].full = TRUE]
            /\ thread' = Goto(w, "rearmOut")
  BY <1>2 DEF WriteAgain
<1>6. n \in Nat
  BY <1>4, <1>5 DEF Takes
<1>7. \E p \in LivePcs :
      /\ thread' = Goto(w, p)
      /\ sock' \in [Ids -> S] /\ channels' \in [Ids -> C]
      /\ \A j \in Ids : channels'[j].recver = channels[j].recver \/ channels'[j].recver = 0
      /\ \A j \in Ids : sock'[j].rx = sock[j].rx /\ sock'[j].sent = sock[j].sent
  <2>1. CASE channels' = [channels EXCEPT ![i] = NewChannel] /\ UNCHANGED sock
             /\ thread' = Goto(w, IF conns_[f].keep_alive THEN "rearmIn" ELSE "closeTest")
    <3>1. NewChannel \in C /\ NewChannel.recver = 0
      BY <1>4 DEF NewChannel
    <3>2. /\ channels' \in [Ids -> C]
          /\ \A j \in Ids : channels'[j].recver = channels[j].recver \/ channels'[j].recver = 0
      BY <1>4, <2>1, <3>1
    <3>3. QED
      BY <1>4, <2>1, <3>2 DEF LivePcs
  <2>2. CASE /\ n < channels[i].sender
             /\ channels' = [channels EXCEPT ![i].sender = @ - n]
             /\ sock' = [sock EXCEPT ![i].full = TRUE]
             /\ thread' = Goto(w, "rearmOut")
    <3> DEFINE c == [channels[i] EXCEPT !.sender = @ - n]
               s == [sock[i] EXCEPT !.full = TRUE]
    <3>1. channels[i].sender - n \in 0..MaxUnits
      BY <1>4, <1>6, <2>2
    <3>2. c \in C /\ c.recver = channels[i].recver
      BY <1>4, <3>1
    <3>3. s \in S /\ s.rx = sock[i].rx /\ s.sent = sock[i].sent
      BY <1>4
    <3>4. channels' = [channels EXCEPT ![i] = c]
      BY <1>4, <2>2
    <3>5. sock' = [sock EXCEPT ![i] = s]
      BY <1>4, <2>2
    <3> HIDE DEF c, s
    <3>6. /\ channels' \in [Ids -> C]
          /\ \A j \in Ids : channels'[j].recver = channels[j].recver
      BY <1>4, <3>2, <3>4
    <3>7. /\ sock' \in [Ids -> S]
          /\ \A j \in Ids : sock'[j].rx = sock[j].rx /\ sock'[j].sent = sock[j].sent
      BY <1>4, <3>3, <3>5
    <3>8. "rearmOut" \in LivePcs
      BY DEF LivePcs
    <3>9. QED
      BY <2>2, <3>6, <3>7, <3>8
  <2>3. QED
    BY <1>5, <2>1, <2>2
<1>8. /\ thread' \in [Threads -> ThreadState]
      /\ ThreadInv' /\ (\A g \in Fds : Conn(g)') /\ OwnerInv' /\ TimerInv'
      /\ thread'[Loop].pc = "handshake" => thread'[Loop] = thread[Loop]
  BY <1>1, <1>3, <1>7, GoesOn
<1>9. TypeOK'
  BY <1>3, <1>7, <1>8 DEF IInv, TypeOK, ThreadState
<1>10. SocketInv'
  <2>1. UNCHANGED accepted /\ accepted \in Nat
    BY <1>3 DEF IInv, TypeOK
  <2>2. \A j \in Ids : channels[j].recver \in Nat /\ sock[j].rx \in Nat /\ sock[j].sent \in Nat
    BY <1>4
  <2>3. \A j \in Ids : channels'[j].recver + sock'[j].rx <= sock'[j].sent
    BY <1>7, <2>2 DEF IInv, SocketInv
  <2>4. QED
    BY <1>7, <1>8, <2>1, <2>3, SocketKept
<1>11. QED
  BY <1>8, <1>9, <1>10 DEF IInv

(***************************************************************************)
(* handleConnectionClose(), by the loop or by a worker.                    *)
(***************************************************************************)
(* A thread that closes descriptor d is alone with it. *)
LEMMA Closing ==
    ASSUME IInv, NEW t \in Threads, thread[t].pc \in CloseStates
    PROVE  \E d \in Fds :
             /\ d = thread[t].fd /\ Conn(d) /\ UserOK(t, d)
             /\ Lone(d, t) /\ ~Event(d) /\ ~Queued(d) /\ ~Handshaking(d)
             /\ thread[t].op # "timer" => ~Armed(d)
             /\ thread[t].op = "timer" <=> t = Loop /\ Expiring(d)
             /\ t = Loop => thread[t].op \in {"close", "timer"}
             /\ t # Loop => t \in Workers /\ thread[t].op \in {"none", "read", "write"}
<1>1. thread[t].pc \in LivePcs \cup GonePcs /\ thread[t].pc # "pop" /\ thread[t].pc # "handshake"
  BY DEF LivePcs, GonePcs, CloseStates
<1>2. PICK d \in Fds : d = thread[t].fd
  BY <1>1, States
<1>3. Conn(d) /\ UserOK(t, d)
  BY <1>2 DEF IInv, Conn, LiveOK
<1>4. /\ Lone(d, t) /\ ~Event(d) /\ ~Queued(d) /\ ~Handshaking(d)
      /\ thread[t].op # "timer" => ~Armed(d)
      /\ thread[t].op = "timer" => t = Loop /\ Expiring(d)
  BY <1>1, <1>2, Alone
<1>5. /\ t = Loop => thread[t].op \in {"close", "timer"}
      /\ t # Loop => t \in Workers /\ thread[t].op \in {"none", "read", "write"}
  BY DEF IInv, ThreadInv, Threads
<1>6. t = Loop /\ Expiring(d) => thread[t].op = "timer"
  BY DEF Expiring
<1>7. QED
  BY <1>2, <1>3, <1>4, <1>5, <1>6

LEMMA Returns ==
    ASSUME IInv, NEW t \in Threads, thread[t].pc \in CloseStates, CloseReturn(t)
    PROVE  /\ Steps(t) /\ ThreadInv'
           /\ t # Loop => thread'[t] = Idle
           /\ t = Loop /\ thread[t].op # "timer" => thread'[t] = AtEvents
           /\ t = Loop /\ thread[t].op = "timer" =>
                /\ thread'[t].pc = "pop" /\ thread'[t].op = "timer"
                /\ thread'[t].fd = thread[t].fd
<1>1. PICK d \in Fds : /\ d = thread[t].fd
                       /\ t = Loop => thread[t].op \in {"close", "timer"}
                       /\ t # Loop => t \in Workers
  BY Closing
<1>2. thread[t] \in ThreadState /\ NoFd \notin Fds /\ Idle \in ThreadState /\ AtEvents \in ThreadState
  BY States
<1>3. CASE t # Loop
  <2>1. thread' = [thread EXCEPT ![t] = Idle]
    BY <1>3 DEF CloseReturn
  <2>2. Steps(t) /\ thread'[t] = Idle
    BY <1>2, <2>1, Becomes
  <2>3. ThreadInv'
    BY <1>1, <1>3, <2>2, WorkerMoves DEF Idle, WorkerStates
  <2>4. QED
    BY <1>3, <2>2, <2>3
<1>4. CASE t = Loop /\ thread[t].op # "timer"
  <2>1. thread' = [thread EXCEPT ![t] = AtEvents]
    BY <1>4 DEF CloseReturn
  <2>2. Steps(t) /\ thread'[t] = AtEvents
    BY <1>2, <2>1, Becomes
  <2>3. ThreadInv'
    BY <1>4, <2>2, LoopMoves DEF AtEvents, LoopStates, CloseStates
  <2>4. QED
    BY <1>4, <2>2, <2>3
<1>5. CASE t = Loop /\ thread[t].op = "timer"
  <2> DEFINE r == [thread[t] EXCEPT !.pc = "pop"]
  <2>1. thread' = [thread EXCEPT ![t] = r]
    BY <1>5 DEF CloseReturn
  <2>2. r \in ThreadState /\ r.pc = "pop" /\ r.op = "timer" /\ r.fd = thread[t].fd
    BY <1>2, <1>5 DEF ThreadState, LoopStates
  <2> HIDE DEF r
  <2>3. Steps(t) /\ thread'[t] = r
    BY <2>1, <2>2, Becomes
  <2>4. ThreadInv'
    BY <1>1, <1>2, <1>5, <2>2, <2>3, LoopMoves DEF LoopStates, CloseStates
  <2>5. QED
    BY <1>5, <2>2, <2>3, <2>4
<1>6. QED
  BY <1>3, <1>4, <1>5

LEMMA CloseTestPreserves ==
    ASSUME IInv, NEW t \in Threads, CloseTest(t)
    PROVE  IInv'
<1>1. PICK d \in Fds :
             /\ d = thread[t].fd /\ Conn(d) /\ UserOK(t, d)
             /\ Lone(d, t) /\ ~Event(d) /\ ~Queued(d) /\ ~Handshaking(d)
             /\ thread[t].op = "timer" <=> t = Loop /\ Expiring(d)
  BY Closing DEF CloseTest, CloseStates
<1>2. /\ thread[t].pc = "closeTest" /\ NoFd \notin Fds
      /\ UNCHANGED <<conns_, channels, epoll, owner, sock, accepted, closed, alive_timer_,
                     tasks_, batch, quit_>>
  BY ThreadsAssumption DEF CloseTest, kernel
<1>3. /\ thread' \in [Threads -> ThreadState]
      /\ ThreadInv' /\ (\A g \in Fds : Conn(g)') /\ OwnerInv' /\ TimerInv'
      /\ thread'[Loop].pc = "handshake" => thread'[Loop] = thread[Loop]
  <2>1. CASE Live(d)
    <3>1. thread' = Goto(t, "closeMark")
      BY <1>1, <2>1 DEF CloseTest, Live
    <3>2. "closeMark" \in LivePcs /\ "closeMark" \in CloseStates /\ thread[t].pc \in LivePcs
      BY <1>2 DEF LivePcs, CloseStates
    <3>3. QED
      BY <1>1, <1>2, <2>1, <3>1, <3>2, GoesOn
  <2>2. CASE ~Live(d)
    <3>1. CloseReturn(t)
      BY <1>1, <2>2 DEF CloseTest, Live
    <3>2. t = Loop /\ thread[t].op = "timer"
      BY <1>1, <1>2, <2>2 DEF UserOK, LivePcs
    <3>3. /\ Steps(t) /\ ThreadInv' /\ thread'[Loop].pc = "pop" /\ thread'[Loop].op = "timer"
          /\ thread'[Loop].fd = d
      BY <1>1, <1>2, <3>1, <3>2, Returns DEF CloseStates
    <3>4. \A g \in Fds : SameTasks(g) /\ SameEvents(g) /\ SameConn(g)
      BY <1>2, Untouched
    <3>5. accepted' >= accepted /\ accepted' \in Nat
      BY <1>2 DEF IInv, TypeOK
    <3>6. \A g \in Fds \ {d} : Conn(g)'
      BY <1>1, <3>2, <3>3, <3>4, <3>5, Others
    <3>7. Conn(d)'
      <4>1. /\ Live(d)' = Live(d) /\ Event(d)' = Event(d) /\ Queued(d)' = Queued(d)
            /\ Armed(d)' = Armed(d)
        BY <1>2 DEF Live, Event, Queued, Armed
      <4>2. ~Handshaking(d)' /\ ~Expiring(d)'
        BY <3>3 DEF Handshaking, Expiring, CloseStates
      <4>3. OwnerOK(d)'
        BY <1>1, <1>2, <4>1, <4>2 DEF Conn, OwnerOK
      <4>4. Lone(d, t)'
        BY <1>1, <3>3, LoneStays
      <4>5. UserOK(t, d)'
        BY <3>2, <3>3 DEF UserOK, LivePcs, GonePcs
      <4>6. ~(Armed(d)' /\ conns_'[d].disconnected)
        BY <1>1, <1>2, <3>2, <4>1 DEF Conn, LiveOK
      <4>7. QED
        BY <1>1, <2>2, <3>2, <3>3, <4>1, <4>2, <4>3, <4>4, <4>5, <4>6, Assemble
    <3>8. OwnerInv'
      BY <1>2 DEF IInv, OwnerInv
    <3>9. TimerInv'
      BY <1>1, <1>2, <3>2, <3>3 DEF IInv, TimerInv
    <3>10. QED
      BY <3>3, <3>6, <3>7, <3>8, <3>9 DEF Steps
  <2>3. QED
    BY <2>1, <2>2
<1>4. TypeOK'
  BY <1>2, <1>3 DEF IInv, TypeOK, ThreadState
<1>5. SocketInv'
  BY <1>2, <1>3 DEF IInv, SocketInv
<1>6. QED
  BY <1>3, <1>4, <1>5 DEF IInv

(* A thread moves on in handleConnectionClose(). *)
LEMMA ClosesOn ==
    ASSUME IInv, NEW t \in Threads, thread[t].pc \in CloseStates,
           NEW p \in {"closeDel", "closeFree"}, thread' = Goto(t, p)
    PROVE  /\ Steps(t) /\ ThreadInv' /\ thread'[t].pc = p /\ thread'[t].op = thread[t].op
           /\ thread'[t].fd = thread[t].fd /\ thread'[t].id = thread[t].id
           /\ thread'[Loop].pc = "handshake" => thread'[Loop] = thread[Loop]
<1>1. /\ Steps(t) /\ thread'[t].pc = p /\ thread'[t].op = thread[t].op
      /\ thread'[t].fd = thread[t].fd /\ thread'[t].id = thread[t].id
  BY Goes DEF LoopStates, CloseStates
<1>2. /\ thread[t].fd \in Fds /\ NoFd \notin Fds
      /\ t = Loop => thread[t].op \in {"close", "timer"}
      /\ t # Loop => t \in Workers /\ thread[t].op \in {"none", "read", "write"}
  BY Closing, ThreadsAssumption
<1>3. ThreadInv'
  <2>1. CASE t = Loop
    BY <1>1, <1>2, <2>1, LoopMoves DEF LoopStates, CloseStates
  <2>2. CASE t # Loop
    BY <1>1, <1>2, <2>2, WorkerMoves DEF WorkerStates, CloseStates
  <2>3. QED
    BY <2>1, <2>2
<1>4. thread'[Loop].pc = "handshake" => thread'[Loop] = thread[Loop]
  BY <1>1 DEF Steps, Threads
<1>5. QED
  BY <1>1, <1>3, <1>4

LEMMA CloseMarkPreserves ==
    ASSUME IInv, NEW t \in Threads, CloseMark(t)
    PROVE  IInv'
<1>1. PICK d \in Fds :
             /\ d = thread[t].fd /\ Conn(d) /\ UserOK(t, d)
             /\ Lone(d, t) /\ ~Event(d) /\ ~Queued(d) /\ ~Handshaking(d)
             /\ thread[t].op # "timer" => ~Armed(d)
             /\ thread[t].op = "timer" <=> t = Loop /\ Expiring(d)
  BY Closing DEF CloseMark, CloseStates
<1>2. /\ thread[t].pc = "closeMark" /\ thread' = Goto(t, "closeDel")
      /\ conns_' = [conns_ EXCEPT ![d].disconnected = TRUE]
      /\ UNCHANGED <<channels, epoll, owner, sock, accepted, closed, alive_timer_, tasks_, batch, quit_>>
  BY <1>1 DEF CloseMark, kernel
<1>3. /\ Steps(t) /\ ThreadInv' /\ thread'[t].pc = "closeDel" /\ thread'[t].op = thread[t].op
      /\ thread'[t].fd = d /\ thread'[t].id = thread[t].id
      /\ thread'[Loop].pc = "handshake" => thread'[Loop] = thread[Loop]
  BY <1>1, <1>2, ClosesOn DEF CloseStates
<1> DEFINE B == [disconnected : BOOLEAN, keep_alive : BOOLEAN, channel : 0..MaxAccepts]
           b == [conns_[d] EXCEPT !.disconnected = TRUE]
<1>4. conns_ \in [Fds -> B]
  BY DEF IInv, TypeOK
<1>5. b \in B /\ b.disconnected = TRUE /\ b.channel = conns_[d].channel
  BY <1>4
<1>6. conns_' = [conns_ EXCEPT ![d] = b]
  BY <1>2, <1>4
<1> HIDE DEF b
<1>7. /\ conns_' \in [Fds -> B] /\ conns_'[d].disconnected = TRUE
      /\ conns_'[d].channel = conns_[d].channel
      /\ \A g \in Fds \ {d} : conns_'[g] = conns_[g]
  BY <1>4, <1>5, <1>6
<1>8. \A g \in Fds \ {d} : Conn(g)'
  <2>1. \A g \in Fds \ {d} : SameTasks(g) /\ SameEvents(g) /\ SameConn(g)
    BY <1>2, <1>7, Untouched DEF SameConn, HasTimer
  <2>2. accepted' >= accepted /\ accepted' \in Nat
    BY <1>2 DEF IInv, TypeOK
  <2>3. QED
    BY <1>1, <1>3, <2>1, <2>2, Others
<1>9. Conn(d)'
  <2>1. ~Live(d)' /\ Event(d)' = Event(d) /\ Queued(d)' = Queued(d) /\ Armed(d)' = Armed(d)
    BY <1>2, <1>7 DEF Live, Event, Queued, Armed
  <2>2. ~Handshaking(d)'
    BY <1>1, <1>3 DEF Handshaking
  <2>3. OwnerOK(d)'
    BY <1>1, <1>2, <1>7, <2>1, <2>2 DEF Conn, OwnerOK
  <2>4. Lone(d, t)'
    BY <1>1, <1>3, LoneStays
  <2>5. Live(d) \/ (thread[t].op = "timer" /\ thread[t].pc = "closeTest")
    BY <1>1, <1>2 DEF UserOK, LivePcs
  <2>6. UserOK(t, d)'
    BY <1>1, <1>2, <1>3, <1>7, <2>5 DEF UserOK, LivePcs, GonePcs, Live
  <2>7. Armed(d)' => Expiring(d)' /\ thread'[Loop].pc = "closeDel"
    BY <1>1, <1>3, <2>1 DEF Expiring, CloseStates
  <2>8. Expiring(d)' => t = Loop
    BY <1>1, <1>3, <2>4 DEF Lone, Expiring, CloseStates, Threads
  <2>9. QED
    BY <1>1, <1>3, <2>1, <2>3, <2>4, <2>6, <2>7, <2>8, Assemble
<1>10. OwnerInv'
  BY <1>2 DEF IInv, OwnerInv
<1>11. TimerInv'
  BY <1>1, <1>2, <1>3 DEF IInv, TimerInv, Steps, Threads
<1>12. TypeOK'
  BY <1>2, <1>3, <1>7 DEF IInv, TypeOK, ThreadState, Steps
<1>13. SocketInv'
  BY <1>2, <1>3 DEF IInv, SocketInv
<1>14. QED
  BY <1>3, <1>8, <1>9, <1>10, <1>11, <1>12, <1>13 DEF IInv

LEMMA CloseDelPreserves ==
    ASSUME IInv, NEW t \in Threads, CloseDel(t)
    PROVE  IInv'
<1>1. PICK d \in Fds :
             /\ d = thread[t].fd /\ Conn(d) /\ UserOK(t, d)
             /\ Lone(d, t) /\ ~Event(d) /\ ~Queued(d) /\ ~Handshaking(d)
             /\ thread[t].op = "timer" <=> t = Loop /\ Expiring(d)
  BY Closing DEF CloseDel, CloseStates
<1>2. /\ thread[t].pc = "closeDel" /\ thread' = Goto(t, "closeFree")
      /\ epoll' = [epoll EXCEPT ![d] = "none"]
      /\ UNCHANGED <<conns_, channels, owner, sock, accepted, closed, alive_timer_, tasks_, batch, quit_>>
  BY <1>1 DEF CloseDel, kernel
<1>3. /\ Steps(t) /\ ThreadInv' /\ thread'[t].pc = "closeFree" /\ thread'[t].op = thread[t].op
      /\ thread'[t].fd = d /\ thread'[t].id = thread[t].id
      /\ thread'[Loop].pc = "handshake" => thread'[Loop] = thread[Loop]
  BY <1>1, <1>2, ClosesOn DEF CloseStates
<1>4. /\ epoll' \in [Fds -> {"none", "off", "in", "out"}] /\ epoll'[d] = "none"
      /\ \A g \in Fds \ {d} : epoll'[g] = epoll[g]
  BY <1>2 DEF IInv, TypeOK
<1>5. \A g \in Fds \ {d} : Conn(g)'
  <2>1. \A g \in Fds \ {d} : SameTasks(g) /\ SameEvents(g) /\ SameConn(g)
    BY <1>2, <1>4, Untouched DEF SameConn, HasTimer
  <2>2. accepted' >= accepted /\ accepted' \in Nat
    BY <1>2 DEF IInv, TypeOK
  <2>3. QED
    BY <1>1, <1>3, <2>1, <2>2, Others
<1>6. Conn(d)'
  <2>1. ~Live(d)' /\ Event(d)' = Event(d) /\ Queued(d)' = Queued(d) /\ ~Armed(d)'
    BY <1>1, <1>2, <1>4 DEF Live, Event, Queued, Armed, UserOK, GonePcs
  <2>2. ~Handshaking(d)'
    BY <1>1, <1>3 DEF Handshaking
  <2>3. OwnerOK(d)'
    BY <1>1, <1>2, <1>4, <2>1, <2>2 DEF Conn, OwnerOK
  <2>4. Lone(d, t)'
    BY <1>1, <1>3, LoneStays
  <2>5. UserOK(t, d)'
    BY <1>1, <1>2, <1>3, <1>4 DEF UserOK, LivePcs, GonePcs
  <2>6. Expiring(d)' => t = Loop
    BY <1>1, <1>3, <2>4 DEF Lone, Expiring, CloseStates, Threads
  <2>7. QED
    BY <1>1, <1>3, <2>1, <2>3, <2>4, <2>5, <2>6, Assemble
<1>7. OwnerInv'
  BY <1>2 DEF IInv, OwnerInv
<1>8. TimerInv'
  BY <1>1, <1>2, <1>3 DEF IInv, TimerInv, Steps, Threads
<1>9. TypeOK'
  BY <1>2, <1>3, <1>4 DEF IInv, TypeOK, ThreadState, Steps
<1>10. SocketInv'
  BY <1>2, <1>3 DEF IInv, SocketInv
<1>11. QED
  BY <1>3, <1>5, <1>6, <1>7, <1>8, <1>9, <1>10 DEF IInv

(* The socket and the channel of connection i are gone, or only the socket if it had no channel. *)
LEMMA SocketGone ==
    ASSUME IInv, NEW i \in Ids, sock' = [sock EXCEPT ![i] = NewSocket],
           channels' = [channels EXCEPT ![i] = NewChannel]
           \/ (UNCHANGED channels /\ channels[i].recver = 0)
    PROVE  /\ sock' \in [Ids -> [rx : 0..MaxSends, sent : 0..MaxSends, fin : BOOLEAN, full : BOOLEAN]]
           /\ channels' \in [Ids -> [recver : 0..MaxSends, sender : 0..MaxUnits]]
           /\ \A j \in Ids : channels'[j].recver = channels[j].recver \/ channels'[j].recver = 0
           /\ \A j \in Ids : channels'[j].recver + sock'[j].rx <= sock'[j].sent
<1> DEFINE C == [recver : 0..MaxSends, sender : 0..MaxUnits]
           S == [rx : 0..MaxSends, sent : 0..MaxSends, fin : BOOLEAN, full : BOOLEAN]
<1>1. /\ channels \in [Ids -> C] /\ sock \in [Ids -> S]
      /\ \A j \in Ids : channels[j].recver + sock[j].rx <= sock[j].sent
      /\ MaxSends \in Nat /\ MaxUnits \in Nat \ {0}
  BY BoundsAssumption DEF IInv, TypeOK, SocketInv
<1>2. NewChannel \in C /\ NewChannel.recver = 0
  BY <1>1 DEF NewChannel
<1>3. NewSocket \in S /\ NewSocket.rx = 0 /\ NewSocket.sent = 0
  BY <1>1 DEF NewSocket
<1>4. sock' \in [Ids -> S] /\ channels' \in [Ids -> C]
  BY <1>1, <1>2, <1>3
<1>5. /\ sock'[i].rx = 0 /\ sock'[i].sent = 0 /\ channels'[i].recver = 0
      /\ \A j \in Ids \ {i} : sock'[j] = sock[j] /\ channels'[j] = channels[j]
  BY <1>1, <1>2, <1>3
<1>6. \A j \in Ids : channels'[j].recver + sock'[j].rx <= sock'[j].sent
  BY <1>1, <1>5
<1>7. QED
  BY <1>4, <1>5, <1>6

LEMMA CloseFreePreserves ==
    ASSUME IInv, NEW t \in Threads, CloseFree(t)
    PROVE  IInv'
<1>1. PICK d \in Fds :
             /\ d = thread[t].fd /\ Conn(d) /\ UserOK(t, d)
             /\ Lone(d, t) /\ ~Event(d) /\ ~Queued(d) /\ ~Handshaking(d)
             /\ thread[t].op = "timer" <=> t = Loop /\ Expiring(d)
             /\ t # Loop => thread[t].op \in {"none", "read", "write"}
  BY Closing DEF CloseFree, CloseStates
<1>2. conns_[d].channel # 0 /\ thread[t].pc = "closeFree" /\ CloseReturn(t)
  BY <1>1 DEF CloseFree, UserOK, GonePcs
<1>3. PICK i \in Ids : i = conns_[d].channel /\ i = owner[d]
  <2>1. conns_[d].channel = owner[d] /\ owner[d] \in 0..MaxAccepts
    BY <1>1 DEF Conn, OwnerOK, IInv, TypeOK
  <2>2. QED
    BY <1>2, <2>1, BoundsAssumption DEF Ids
<1>4. /\ conns_' = [conns_ EXCEPT ![d].channel = 0]
      /\ channels' = [channels EXCEPT ![i] = NewChannel]
      /\ epoll' = [epoll EXCEPT ![d] = "none"]
      /\ owner' = [owner EXCEPT ![d] = 0]
      /\ closed' = closed \cup {i}
      /\ sock' = [sock EXCEPT ![i] = NewSocket]
      /\ UNCHANGED <<accepted, alive_timer_, tasks_, batch, quit_>>
  BY <1>1, <1>2, <1>3 DEF CloseFree, CloseSocket
<1>5. /\ Steps(t) /\ ThreadInv'
      /\ t # Loop => thread'[t] = Idle
      /\ t = Loop /\ thread[t].op # "timer" => thread'[t] = AtEvents
      /\ t = Loop /\ thread[t].op = "timer" =>
           thread'[t].pc = "pop" /\ thread'[t].op = "timer" /\ thread'[t].fd = d
  BY <1>1, <1>2, Returns DEF CloseStates
<1>6. /\ thread'[t].fd \in {d, NoFd} /\ thread'[t].pc \in {"idle", "events", "pop"}
      /\ thread'[t].fd = d => thread'[t].op = "timer"
  BY <1>1, <1>5, ThreadsAssumption DEF Idle, AtEvents
<1>7. /\ epoll' \in [Fds -> {"none", "off", "in", "out"}] /\ epoll'[d] = "none"
      /\ owner' \in [Fds -> 0..MaxAccepts] /\ owner'[d] = 0
      /\ \A g \in Fds \ {d} : epoll'[g] = epoll[g] /\ owner'[g] = owner[g]
  BY <1>4, BoundsAssumption DEF IInv, TypeOK
<1> DEFINE B == [disconnected : BOOLEAN, keep_alive : BOOLEAN, channel : 0..MaxAccepts]
<1>8. /\ conns_' \in [Fds -> B] /\ conns_'[d].channel = 0
      /\ \A g \in Fds \ {d} : conns_'[g] = conns_[g]
  <2> DEFINE b == [conns_[d] EXCEPT !.channel = 0]
  <2>1. conns_ \in [Fds -> B]
    BY DEF IInv, TypeOK
  <2>2. b \in B /\ b.channel = 0
    BY <2>1, BoundsAssumption
  <2>3. conns_' = [conns_ EXCEPT ![d] = b]
    BY <1>4, <2>1
  <2> HIDE DEF b
  <2>4. QED
    BY <2>1, <2>2, <2>3
<1>9. accepted' >= accepted /\ accepted' \in Nat
  BY <1>4 DEF IInv, TypeOK
<1>10. \A g \in Fds \ {d} : Conn(g)'
  <2>1. \A g \in Fds \ {d} : SameTasks(g) /\ SameEvents(g) /\ SameConn(g)
    BY <1>4, <1>7, <1>8, Untouched DEF SameConn, HasTimer
  <2>2. QED
    BY <1>1, <1>5, <1>6, <1>9, <2>1, Others
<1>11. thread'[Loop].pc = "handshake" => thread'[Loop] = thread[Loop]
  BY <1>5, <1>6 DEF Steps, Threads
<1>12. Conn(d)'
  <2>1. ~Live(d)' /\ Event(d)' = Event(d) /\ Queued(d)' = Queued(d) /\ ~Armed(d)'
    BY <1>4, <1>7, <1>8 DEF Live, Event, Queued, Armed
  <2>2. ~Handshaking(d)'
    BY <1>1, <1>11 DEF Handshaking
  <2>3. OwnerOK(d)'
    BY <1>7, <1>8, <1>9, <2>1, <2>2 DEF OwnerOK
  <2>4. Lone(d, t)'
    BY <1>1, <1>5, LoneStays
  <2>5. UserOK(t, d)'
    BY <1>6 DEF UserOK, LivePcs, GonePcs
  <2>6. Expiring(d)' => t = Loop
    BY <1>1, <1>5, <2>4 DEF Lone, Expiring, CloseStates, Threads
  <2>7. QED
    BY <1>1, <2>1, <2>3, <2>4, <2>5, <2>6, Assemble
<1>13. OwnerInv'
  BY <1>4, <1>7 DEF IInv, OwnerInv
<1>14. TimerInv'
  BY <1>1, <1>2, <1>4, <1>5 DEF IInv, TimerInv, Steps, Threads, AtEvents
<1>15. /\ sock' \in [Ids -> [rx : 0..MaxSends, sent : 0..MaxSends, fin : BOOLEAN, full : BOOLEAN]]
       /\ channels' \in [Ids -> [recver : 0..MaxSends, sender : 0..MaxUnits]]
       /\ \A j \in Ids : channels'[j].recver = channels[j].recver \/ channels'[j].recver = 0
       /\ \A j \in Ids : channels'[j].recver + sock'[j].rx <= sock'[j].sent
  BY <1>4, SocketGone
<1>16. TypeOK'
  <2>1. closed' \subseteq Ids
    BY <1>4 DEF IInv, TypeOK
  <2>2. QED
    BY <1>4, <1>5, <1>7, <1>8, <1>15, <2>1 DEF IInv, TypeOK, ThreadState, Steps
<1>17. SocketInv'
  BY <1>9, <1>11, <1>15, SocketKept
<1>18. QED
  BY <1>5, <1>10, <1>12, <1>13, <1>14, <1>16, <1>17 DEF IInv

(***************************************************************************)
(* A task becomes the work of a thread, and a re-armed descriptor after it.*)
(***************************************************************************)
LEMMA RearmPreserves ==
    ASSUME IInv, NEW w \in Workers, Rearm(w)
    PROVE  IInv'
<1>1. thread[w].pc \in LivePcs /\ thread[w].pc # "pop" /\ thread[w].pc # "handshake"
      /\ thread[w].op # "timer"
  BY DEF Rearm, LivePcs, IInv, ThreadInv
<1>2. PICK d \in Fds : d = thread[w].fd
  BY <1>1, WorksFor
<1>3. w \in Threads /\ w # Loop /\ Live(d) /\ Conn(d) /\ NoFd \notin Fds
  BY <1>1, <1>2, WorksFor, ThreadsAssumption DEF IInv
<1>4. Lone(d, w) /\ ~Event(d) /\ ~Queued(d) /\ ~Handshaking(d)
  BY <1>1, <1>2, <1>3, Alone
<1>5. /\ epoll' \in [Fds -> {"none", "off", "in", "out"}] /\ epoll'[d] \in {"in", "out"}
      /\ \A g \in Fds \ {d} : epoll'[g] = epoll[g]
  <2>1. epoll[d] # "none" /\ epoll \in [Fds -> {"none", "off", "in", "out"}]
    BY <1>3 DEF Conn, OwnerOK, IInv, TypeOK
  <2>2. CASE thread[w].pc = "rearmIn"
    BY <1>2, <2>1, <2>2 DEF Rearm
  <2>3. CASE thread[w].pc = "rearmOut"
    BY <1>2, <2>1, <2>3 DEF Rearm
  <2>4. QED
    BY <2>2, <2>3 DEF Rearm
<1>6. UNCHANGED <<conns_, channels, owner, sock, accepted, closed, alive_timer_, tasks_, batch, quit_>>
  BY DEF Rearm, kernel
<1>7. Steps(w) /\ thread'[w] = Idle /\ thread'[Loop] = thread[Loop]
  <2>1. thread' = [thread EXCEPT ![w] = Idle]
    BY DEF Rearm
  <2>2. QED
    BY <1>3, <2>1, States, Becomes DEF Steps
<1>8. ThreadInv'
  BY <1>7, WorkerMoves DEF Idle, WorkerStates
<1>9. \A g \in Fds \ {d} : Conn(g)'
  <2>1. \A g \in Fds \ {d} : SameTasks(g) /\ SameEvents(g) /\ SameConn(g)
    BY <1>5, <1>6, Untouched DEF SameConn, HasTimer
  <2>2. accepted' >= accepted /\ accepted' \in Nat
    BY <1>6 DEF IInv, TypeOK
  <2>3. QED
    BY <1>2, <1>3, <1>7, <2>1, <2>2, Others DEF Idle
<1>10. Conn(d)'
  <2>1. /\ Live(d)' /\ ~Event(d)' /\ ~Queued(d)' /\ Armed(d)' /\ HasTimer(d)' = HasTimer(d)
        /\ ~Handshaking(d)' /\ ~conns_'[d].disconnected
    BY <1>3, <1>4, <1>5, <1>6, <1>7 DEF Live, Event, Queued, Armed, HasTimer, Handshaking
  <2>2. OwnerOK(d)'
    BY <1>3, <1>4, <1>5, <1>6, <2>1 DEF Conn, OwnerOK, Live
  <2>3. Lone(d, w)' /\ thread'[w].fd # d
    BY <1>3, <1>4, <1>7, LoneStays DEF Idle
  <2>4. ~Expiring(d)' /\ ~(thread'[Loop].pc = "pop" /\ thread'[Loop].fd = d)
    BY <1>3, <1>4, <1>7 DEF Lone, Expiring, CloseStates, Threads, Conn, TimerOK
  <2>5. QED
    BY <1>3, <2>1, <2>2, <2>3, <2>4, Assemble DEF Conn, TimerOK
<1>11. OwnerInv'
  BY <1>6 DEF IInv, OwnerInv
<1>12. TimerInv'
  BY <1>6, <1>7 DEF IInv, TimerInv
<1>13. TypeOK'
  BY <1>5, <1>6, <1>7 DEF IInv, TypeOK, ThreadState, Steps
<1>14. SocketInv'
  BY <1>6, <1>7 DEF IInv, SocketInv
<1>15. QED
  BY <1>8, <1>9, <1>10, <1>11, <1>12, <1>13, <1>14 DEF IInv

LEMMA TakePreserves ==
    ASSUME IInv, NEW w \in Workers, Take(w)
    PROVE  IInv'
<1>1. /\ tasks_ \in Seq(Task) /\ w \in Threads /\ w # Loop /\ Loop \in Threads
      /\ NoFd \notin Fds /\ Loop \notin Workers
  BY States, ThreadsAssumption DEF Threads
<1>2. /\ tasks_ # <<>> /\ tasks_' = Tail(tasks_) /\ thread[w].pc = "idle"
      /\ UNCHANGED <<conns_, channels, epoll, owner, sock, accepted, closed, alive_timer_, batch, quit_>>
  BY DEF Take, kernel
<1>3. PICK k \in Task : k = Head(tasks_) /\ k = tasks_[1]
  BY <1>1, <1>2
<1>4. PICK d \in Fds : d = k.fd
  BY DEF Task
<1>5. /\ 1 \in 1..Len(tasks_) /\ Len(tasks_) \in Nat /\ tasks_' \in Seq(Task)
      /\ Len(tasks_') = Len(tasks_) - 1
      /\ \A j \in 1..Len(tasks_') : tasks_'[j] = tasks_[j + 1] /\ j + 1 \in 1..Len(tasks_) /\ j + 1 # 1
  BY <1>1, <1>2
<1>6. Conn(d) /\ Queued(d) /\ Live(d) /\ conns_[d].channel = k.id
  BY <1>3, <1>4, <1>5 DEF IInv, Conn, LiveOK, Queued
<1>7. ~Queued(d)'
  <2>1. \A j \in 1..Len(tasks_) : tasks_[j].fd = d => j = 1
    BY <1>3, <1>4, <1>5, <1>6 DEF Conn, HolderOK, Excludes
  <2>2. QED
    BY <1>5, <2>1 DEF Queued
<1>8. ~Event(d) /\ ~Armed(d) /\ ~Held(d) /\ ~Expiring(d) /\ ~Handshaking(d)
  BY <1>6 DEF Conn, HolderOK, Excludes, TimerOK, OwnerOK, Live
<1> DEFINE r == [pc |-> k.op, op |-> k.op, fd |-> k.fd, id |-> k.id]
<1>9. /\ r \in ThreadState /\ r.pc = r.op /\ r.op \in {"read", "write"} /\ r.fd = d
      /\ r.id = conns_[d].channel
  BY <1>4, <1>6, BoundsAssumption DEF Task, ThreadState, WorkerStates, Ids
<1>10. thread' = [thread EXCEPT ![w] = r]
  BY <1>3 DEF Take
<1> HIDE DEF r
<1>11. Steps(w) /\ thread'[w] = r /\ thread'[Loop] = thread[Loop]
  BY <1>1, <1>9, <1>10, Becomes DEF Steps
<1>12. ThreadInv'
  BY <1>1, <1>9, <1>11, WorkerMoves DEF WorkerStates
<1>13. thread[w].fd = NoFd
  BY <1>2 DEF IInv, ThreadInv
<1>14. \A g \in Fds \ {d} : Conn(g)'
  <2>1. \A g \in Fds \ {d} : SameTasks(g)
    BY <1>1, <1>2, <1>3, <1>4, Queues
  <2>2. \A g \in Fds \ {d} : SameEvents(g) /\ SameConn(g)
    BY <1>2, Untouched
  <2>3. accepted' >= accepted /\ accepted' \in Nat
    BY <1>2 DEF IInv, TypeOK
  <2>4. QED
    BY <1>1, <1>9, <1>11, <1>13, <2>1, <2>2, <2>3, Others
<1>15. Conn(d)'
  <2>1. /\ Live(d)' /\ ~Event(d)' /\ ~Armed(d)' /\ HasTimer(d)' = HasTimer(d)
        /\ ~Handshaking(d)' /\ ~Expiring(d)'
    BY <1>2, <1>6, <1>8, <1>11 DEF Live, Event, Armed, HasTimer, Handshaking, Expiring
  <2>2. OwnerOK(d)'
    BY <1>2, <1>6, <1>8, <2>1 DEF Conn, OwnerOK
  <2>3. ~(thread'[Loop].pc = "pop" /\ thread'[Loop].fd = d)
    BY <1>6, <1>11 DEF Conn, TimerOK
  <2>4. \A u \in Threads \ {w} : thread[u].fd # d
    <3>1. ASSUME NEW u \in Threads \ {w}, thread[u].fd = d PROVE FALSE
      <4>1. thread[u].op = "timer" /\ u = Loop
        BY <1>8, <3>1 DEF Held, IInv, ThreadInv, Threads
      <4>2. thread[Loop].pc \in CloseStates
        BY <1>1, <1>11, <2>3, <3>1, <4>1 DEF IInv, ThreadInv, LoopStates
      <4>3. QED
        BY <1>8, <3>1, <4>1, <4>2 DEF Expiring
    <3>2. QED
      BY <3>1
  <2>5. Lone(d, w)'
    BY <1>11, <2>4 DEF Lone, Steps
  <2>6. UserOK(w, d)'
    BY <1>2, <1>9, <1>11, <2>1 DEF UserOK, LivePcs, GonePcs
  <2>7. QED
    BY <1>1, <1>6, <1>7, <1>9, <1>11, <2>1, <2>2, <2>3, <2>5, <2>6, Assemble DEF Conn, TimerOK
<1>16. OwnerInv' /\ TimerInv'
  BY <1>2, <1>11 DEF IInv, OwnerInv, TimerInv
<1>17. TypeOK'
  BY <1>2, <1>5, <1>11 DEF IInv, TypeOK, ThreadState, Steps, Task
<1>18. SocketInv'
  BY <1>2, <1>11 DEF IInv, SocketInv
<1>19. QED
  BY <1>12, <1>14, <1>15, <1>16, <1>17, <1>18 DEF IInv

(***************************************************************************)
(* The loop: events that are not about a connection.                       *)
(***************************************************************************)
LEMMA Quiet ==
    ASSUME IInv, NEW r \in ThreadState, thread[Loop].fd = NoFd,
           thread' = [thread EXCEPT ![Loop] = r] \/ (UNCHANGED thread /\ r = thread[Loop]),
           r.fd = NoFd, r.pc \in {"events", "timer"},
           r.pc = "timer" => r.op = "timer", r.pc = "events" => r.op = "none",
           \A g \in Fds : SameEvents(g), batch' \subseteq batch, quit_' \in BOOLEAN,
           UNCHANGED <<conns_, channels, epoll, owner, sock, accepted, closed, alive_timer_, tasks_>>
    PROVE  IInv'
<1>1. Steps(Loop) /\ thread'[Loop] = r /\ Loop \in Threads
  <2>1. Loop \in Threads /\ thread \in [Threads -> ThreadState]
    BY DEF Threads, IInv, TypeOK, ThreadState
  <2>2. QED
    BY <2>1 DEF Steps
<1>2. ThreadInv'
  BY <1>1, LoopMoves DEF LoopStates, CloseStates
<1>3. \A f \in Fds : Conn(f)'
  <2>1. \A g \in Fds \ {NoFd} : SameTasks(g) /\ SameEvents(g) /\ SameConn(g)
    BY Untouched
  <2>2. accepted' >= accepted /\ accepted' \in Nat
    BY DEF IInv, TypeOK
  <2>3. \A g \in Fds \ {NoFd} : Conn(g)'
    BY <1>1, <2>1, <2>2, Others
  <2>4. QED
    BY <2>3, ThreadsAssumption
<1>4. OwnerInv' /\ TimerInv' /\ SocketInv'
  <2>1. OwnerInv'
    BY DEF IInv, OwnerInv
  <2>2. TimerInv'
    BY <1>1 DEF IInv, TimerInv
  <2>3. SocketInv'
    BY <1>1 DEF IInv, SocketInv
  <2>4. QED
    BY <2>1, <2>2, <2>3
<1>5. TypeOK'
  BY <1>1 DEF IInv, TypeOK, ThreadState, Steps
<1>6. QED
  BY <1>2, <1>3, <1>4, <1>5 DEF IInv

LEMMA QuietEventsPreserve ==
    ASSUME IInv, AcceptFails \/ handleWakeup \/ handleTimeout \/ TimerBreak
    PROVE  IInv'
<1>1. thread[Loop] \in ThreadState /\ AtEvents \in ThreadState
  BY States
<1>2. thread[Loop].pc \in {"events", "timer"}
  BY LoopEvent DEF AcceptFails, handleWakeup, handleTimeout, TimerBreak
<1>3. /\ thread[Loop].fd = NoFd
      /\ thread[Loop].pc = "timer" => thread[Loop].op = "timer"
      /\ thread[Loop].pc = "events" => thread[Loop].op = "none"
  BY <1>2 DEF IInv, ThreadInv
<1>4. CASE AcceptFails \/ handleWakeup
  <2>1. (\A g \in Fds : SameEvents(g)) /\ batch' \subseteq batch
    BY <1>4, LoopEvent DEF AcceptFails, handleWakeup
  <2>2. UNCHANGED <<conns_, channels, epoll, owner, sock, accepted, closed, alive_timer_, tasks_, thread>>
        /\ quit_' \in BOOLEAN
    BY <1>4 DEF AcceptFails, handleWakeup, kernel, IInv, TypeOK
  <2>3. QED
    BY <1>1, <1>2, <1>3, <2>1, <2>2, Quiet
<1>5. CASE handleTimeout
  <2> DEFINE r == [thread[Loop] EXCEPT !.pc = "timer", !.op = "timer"]
  <2>1. (\A g \in Fds : SameEvents(g)) /\ batch' \subseteq batch
    BY <1>5, LoopEvent DEF handleTimeout
  <2>2. UNCHANGED <<conns_, channels, epoll, owner, sock, accepted, closed, alive_timer_, tasks_>>
        /\ quit_' \in BOOLEAN /\ thread' = [thread EXCEPT ![Loop] = r]
    BY <1>5 DEF handleTimeout, kernel, IInv, TypeOK
  <2>3. r \in ThreadState /\ r.fd = NoFd /\ r.pc = "timer" /\ r.op = "timer"
    BY <1>1, <1>3 DEF ThreadState, LoopStates
  <2> HIDE DEF r
  <2>4. QED
    BY <1>3, <2>1, <2>2, <2>3, Quiet
<1>6. CASE TimerBreak
  <2>1. UNCHANGED <<conns_, channels, epoll, owner, sock, accepted, closed, alive_timer_, tasks_, batch>>
        /\ quit_' \in BOOLEAN /\ thread' = [thread EXCEPT ![Loop] = AtEvents]
    BY <1>6 DEF TimerBreak, kernel, IInv, TypeOK
  <2>2. AtEvents.fd = NoFd /\ AtEvents.pc = "events" /\ AtEvents.op = "none"
    BY DEF AtEvents
  <2>3. QED
    BY <1>1, <1>3, <2>1, <2>2, Untouched, Quiet
<1>7. QED
  BY <1>4, <1>5, <1>6

(* AliveTimer: setting the timer of f. *)
LEMMA TimerAdds ==
    ASSUME IInv, NEW f \in Fds, alive_timer_' = TimerAdd(f)
    PROVE  /\ alive_timer_' \in Seq(Fds)
           /\ \A j, k \in 1..Len(alive_timer_') : alive_timer_'[j] = alive_timer_'[k] => j = k
           /\ HasTimer(f)'
           /\ \A g \in Fds \ {f} : HasTimer(g)' = HasTimer(g)
<1> DEFINE a == alive_timer_
           s == IF HasTimer(f) THEN Without(a, PlaceOf(f)) ELSE a
<1>1. a \in Seq(Fds) /\ Len(a) \in Nat /\ \A j, k \in 1..Len(a) : a[j] = a[k] => j = k
  BY DEF IInv, TypeOK, TimerInv
<1>2. /\ s \in Seq(Fds)
      /\ \A j, k \in 1..Len(s) : s[j] = s[k] => j = k
      /\ \A j \in 1..Len(s) : s[j] # f
      /\ \A j \in 1..Len(s) : \E k \in 1..Len(a) : a[k] = s[j]
      /\ \A k \in 1..Len(a) : a[k] # f => \E j \in 1..Len(s) : a[k] = s[j]
  <2>1. CASE ~HasTimer(f)
    BY <1>1, <2>1 DEF HasTimer
  <2>2. CASE HasTimer(f)
    <3>1. PICK p \in 1..Len(a) : p = PlaceOf(f) /\ a[p] = f
      BY <2>2 DEF HasTimer, PlaceOf
    <3>2. s = [j \in 1..(Len(a) - 1) |-> a[IF j < p THEN j ELSE j + 1]] /\ Len(a) - 1 \in Nat
      BY <1>1, <2>2, <3>1 DEF Without
    <3>3. \A j \in 1..(Len(a) - 1) : /\ (IF j < p THEN j ELSE j + 1) \in 1..Len(a)
                                    /\ (IF j < p THEN j ELSE j + 1) # p
      BY <1>1, <3>1
    <3>4. s \in Seq(Fds) /\ Len(s) = Len(a) - 1
      BY <1>1, <3>2, <3>3
    <3>5. \A j \in 1..Len(s) : s[j] = a[IF j < p THEN j ELSE j + 1]
      BY <3>2, <3>4
    <3> HIDE DEF s
    <3>6. \A j \in 1..Len(s) : s[j] # f
      BY <1>1, <3>1, <3>3, <3>4, <3>5
    <3>7. \A j \in 1..Len(s) : \E k \in 1..Len(a) : a[k] = s[j]
      BY <3>3, <3>4, <3>5
    <3>8. \A j, k \in 1..Len(s) : s[j] = s[k] => j = k
      <4>1. ASSUME NEW j \in 1..Len(s), NEW k \in 1..Len(s), s[j] = s[k] PROVE j = k
        <5>1. (IF j < p THEN j ELSE j + 1) = (IF k < p THEN k ELSE k + 1)
          BY <1>1, <3>3, <3>4, <3>5, <4>1
        <5>2. QED
          BY <1>1, <3>1, <3>4, <5>1
      <4>2. QED
        BY <4>1
    <3>9. \A k \in 1..Len(a) : a[k] # f => \E j \in 1..Len(s) : a[k] = s[j]
      <4>1. ASSUME NEW k \in 1..Len(a), a[k] # f PROVE \E j \in 1..Len(s) : a[k] = s[j]
        <5>1. CASE k < p
          <6>1. k \in 1..Len(s) /\ s[k] = a[k]
            BY <1>1, <3>1, <3>4, <3>5, <5>1
          <6>2. QED
            BY <6>1
        <5>2. CASE k > p
          <6>1. k - 1 \in 1..Len(s) /\ s[k - 1] = a[k]
            BY <1>1, <3>1, <3>4, <3>5, <5>2
          <6>2. QED
            BY <6>1
        <5>3. QED
          BY <3>1, <4>1, <5>1, <5>2
      <4>2. QED
        BY <4>1
    <3>10. QED
      BY <3>4, <3>6, <3>7, <3>8, <3>9
  <2>3. QED
    BY <2>1, <2>2
<1>3. alive_timer_' = Append(s, f)
  BY DEF TimerAdd
<1> HIDE DEF s
<1>4. /\ alive_timer_' \in Seq(Fds) /\ Len(s) \in Nat /\ Len(alive_timer_') = Len(s) + 1
      /\ alive_timer_'[Len(s) + 1] = f
      /\ \A j \in 1..Len(s) : alive_timer_'[j] = s[j]
  BY <1>2, <1>3
<1>5. \A j, k \in 1..Len(alive_timer_') : alive_timer_'[j] = alive_timer_'[k] => j = k
  <2>1. \A j \in 1..Len(alive_timer_') : j \in 1..Len(s) \/ j = Len(s) + 1
    BY <1>4
  <2>2. \A j \in 1..Len(s) : alive_timer_'[j] # f
    BY <1>2, <1>4
  <2>3. \A j, k \in 1..Len(s) : alive_timer_'[j] = alive_timer_'[k] => j = k
    BY <1>2, <1>4
  <2>4. QED
    BY <1>4, <2>1, <2>2, <2>3
<1>6. HasTimer(f)'
  <2>1. Len(s) + 1 \in 1..Len(alive_timer_')
    BY <1>4
  <2>2. QED
    BY <1>4, <2>1 DEF HasTimer
<1>7. ASSUME NEW g \in Fds \ {f} PROVE HasTimer(g)' = HasTimer(g)
  <2>1. HasTimer(g) => HasTimer(g)'
    <3>1. ASSUME NEW k \in 1..Len(a), a[k] = g PROVE HasTimer(g)'
      <4>1. PICK j \in 1..Len(s) : s[j] = g
        BY <1>2, <3>1
      <4>2. j \in 1..Len(alive_timer_') /\ alive_timer_'[j] = g
        BY <1>4, <4>1
      <4>3. QED
        BY <4>2 DEF HasTimer
    <3>2. QED
      BY <3>1 DEF HasTimer
  <2>2. HasTimer(g)' => HasTimer(g)
    <3>1. ASSUME NEW j \in 1..Len(alive_timer_'), alive_timer_'[j] = g PROVE HasTimer(g)
      <4>1. j \in 1..Len(s) /\ s[j] = g
        BY <1>4, <3>1
      <4>2. PICK k \in 1..Len(a) : a[k] = g
        BY <1>2, <4>1
      <4>3. QED
        BY <4>2 DEF HasTimer
    <3>2. QED
      BY <3>1 DEF HasTimer
  <2>3. QED
    BY <2>1, <2>2 DEF HasTimer
<1>8. QED
  BY <1>4, <1>5, <1>6, <1>7

(***************************************************************************)
(* The loop: a connection is accepted.                                     *)
(***************************************************************************)
(* Nothing is about a descriptor whose number is free. *)
LEMMA NobodyHas ==
    ASSUME IInv, NEW f \in Fds, owner[f] = 0, thread[Loop].pc = "events"
    PROVE  /\ conns_[f].channel = 0 /\ epoll[f] = "none" /\ ~Event(f) /\ ~Queued(f)
           /\ \A u \in Threads : thread[u].fd # f
<1>1. Conn(f) /\ ~Handshaking(f)
  BY DEF IInv, Handshaking
<1>2. conns_[f].channel = 0 /\ epoll[f] = "none" /\ ~Live(f)
  BY <1>1 DEF Conn, OwnerOK, Live
<1>3. ~Event(f) /\ ~Queued(f)
  BY <1>1, <1>2 DEF Conn, LiveOK, Queued
<1>4. \A u \in Threads : thread[u].fd # f
  <2>1. thread[Loop].fd # f
    BY ThreadsAssumption DEF IInv, ThreadInv
  <2>2. ASSUME NEW w \in Workers, thread[w].fd = f PROVE FALSE
    <3>1. thread[w].pc \in WorkerStates /\ thread[w].pc # "idle" /\ thread[w].op # "timer"
      BY <2>2, ThreadsAssumption DEF IInv, ThreadInv
    <3>2. thread[w].pc \in LivePcs \cup GonePcs
      BY <3>1 DEF WorkerStates, CloseStates, LivePcs, GonePcs
    <3>3. UserOK(w, f)
      BY <1>1, <2>2 DEF Conn, LiveOK, Threads
    <3>4. QED
      BY <1>2, <3>1, <3>2, <3>3 DEF UserOK
  <2>3. QED
    BY <2>1, <2>2 DEF Threads
<1>5. QED
  BY <1>2, <1>3, <1>4

(* handleConnected(), for a descriptor that only the loop is about. *)
LEMMA Connected ==
    ASSUME IInv, NEW f \in Fds, NEW i \in Ids, handleConnected(f, i), owner'[f] = i,
           \A u \in Threads \ {Loop} : thread[u].fd # f, ~Event(f)', ~Queued(f),
           i <= accepted', accepted' \in Nat, UNCHANGED tasks_,
           Steps(Loop), thread'[Loop].pc = "events", thread'[Loop].op = "none", thread'[Loop].fd = NoFd
    PROVE  /\ Conn(f)' /\ TimerInv' /\ alive_timer_' \in Seq(Fds)
           /\ conns_' \in [Fds -> [disconnected : BOOLEAN, keep_alive : BOOLEAN, channel : 0..MaxAccepts]]
           /\ epoll' \in [Fds -> {"none", "off", "in", "out"}]
           /\ \A g \in Fds \ {f} : /\ conns_'[g] = conns_[g] /\ epoll'[g] = epoll[g]
                                   /\ HasTimer(g)' = HasTimer(g)
<1> DEFINE B == [disconnected : BOOLEAN, keep_alive : BOOLEAN, channel : 0..MaxAccepts]
           b == [disconnected |-> FALSE, keep_alive |-> FALSE, channel |-> i]
<1>1. /\ conns_' = [conns_ EXCEPT ![f] = b] /\ epoll' = [epoll EXCEPT ![f] = "in"]
      /\ alive_timer_' = TimerAdd(f)
  BY DEF handleConnected
<1>2. b \in B /\ b.disconnected = FALSE /\ b.channel = i /\ i # 0
  BY BoundsAssumption DEF Ids
<1> HIDE DEF b
<1>3. conns_ \in [Fds -> B] /\ epoll \in [Fds -> {"none", "off", "in", "out"}]
  BY DEF IInv, TypeOK
<1>4. /\ conns_' \in [Fds -> B] /\ conns_'[f] = b
      /\ epoll' \in [Fds -> {"none", "off", "in", "out"}] /\ epoll'[f] = "in"
      /\ \A g \in Fds \ {f} : conns_'[g] = conns_[g] /\ epoll'[g] = epoll[g]
  BY <1>1, <1>2, <1>3
<1>5. /\ alive_timer_' \in Seq(Fds)
      /\ \A j, k \in 1..Len(alive_timer_') : alive_timer_'[j] = alive_timer_'[k] => j = k
      /\ HasTimer(f)'
      /\ \A g \in Fds \ {f} : HasTimer(g)' = HasTimer(g)
  BY <1>1, TimerAdds
<1>6. thread'[Loop].pc = "events" /\ thread'[Loop].op = "none" /\ thread'[Loop].fd # f
  BY ThreadsAssumption
<1>7. TimerInv'
  BY <1>5, <1>6 DEF TimerInv
<1>8. Conn(f)'
  <2>1. /\ Live(f)' /\ Armed(f)' /\ ~Queued(f)' /\ ~Handshaking(f)' /\ ~Expiring(f)'
        /\ ~conns_'[f].disconnected
    BY <1>2, <1>4, <1>6 DEF Live, Armed, Queued, Handshaking, Expiring, CloseStates
  <2>2. OwnerOK(f)'
    BY <1>2, <1>4, <2>1 DEF OwnerOK
  <2>3. Lone(f, Loop)'
    BY DEF Lone, Steps
  <2>4. Loop \in Threads
    BY DEF Threads
  <2>5. QED
    BY <1>5, <1>6, <2>1, <2>2, <2>3, <2>4, Assemble
<1>9. QED
  BY <1>4, <1>5, <1>7, <1>8

LEMMA AcceptPreserves ==
    ASSUME IInv, NEW f \in Fds, handleServerAccept(f)
    PROVE  IInv'
<1>1. /\ Handle("accept", NoFd) /\ owner[f] = 0 /\ accepted' = accepted + 1
      /\ owner' = [owner EXCEPT ![f] = accepted + 1]
      /\ UNCHANGED <<channels, sock, closed, tasks_, quit_>>
  BY DEF handleServerAccept
<1>2. /\ \A g \in Fds : SameEvents(g)
      /\ batch' \subseteq batch /\ ListenEvent \notin batch' /\ ListenEvent \in batch
      /\ thread[Loop].pc = "events" /\ thread[Loop].fd = NoFd
  <2>1. batch' = batch \ {ListenEvent} /\ ListenEvent \in batch
    BY <1>1 DEF Handle, ListenEvent
  <2>2. QED
    BY <1>1, <2>1, LoopEvent DEF IInv, ThreadInv
<1>3. PICK i \in Ids : i = accepted + 1 /\ accepted \in Nat
  BY <1>2, BoundsAssumption DEF IInv, OwnerInv, TypeOK, Ids
<1>4. /\ conns_[f].channel = 0 /\ epoll[f] = "none" /\ ~Event(f) /\ ~Queued(f)
      /\ \A u \in Threads : thread[u].fd # f
  BY <1>1, <1>2, NobodyHas
<1>5. /\ ~Event(f)' /\ accepted' \in Nat /\ accepted' >= accepted /\ i <= accepted'
      /\ accepted' \in 0..MaxAccepts
  BY <1>1, <1>2, <1>3, <1>4, BoundsAssumption DEF Event, SameEvents, Ids
<1>6. /\ owner' \in [Fds -> 0..MaxAccepts] /\ owner'[f] = i
      /\ \A g \in Fds \ {f} : owner'[g] = owner[g]
  BY <1>1, <1>3, BoundsAssumption DEF IInv, TypeOK, Ids
<1>7. OwnerInv'
  <2>1. \A g \in Fds \ {f} : owner[g] # i
    <3>1. ASSUME NEW g \in Fds \ {f} PROVE owner[g] # i
      <4>1. owner[g] <= accepted /\ owner[g] \in Nat
        BY DEF IInv, Conn, OwnerOK, TypeOK
      <4>2. QED
        BY <1>3, <4>1
    <3>2. QED
      BY <3>1
  <2>2. QED
    BY <1>2, <1>6, <2>1 DEF IInv, OwnerInv
<1>8. \A g \in Fds : SameTasks(g)
  BY <1>1, Untouched
<1>9. /\ channels[i].recver = 0
      /\ \A j \in Ids : j > accepted' => channels'[j].recver = 0
      /\ \A j \in Ids : channels'[j].recver + sock'[j].rx <= sock'[j].sent
  BY <1>1, <1>3 DEF IInv, SocketInv, Ids
<1>10. AtEvents \in ThreadState /\ thread[Loop] \in ThreadState /\ Loop \in Threads
       /\ thread \in [Threads -> ThreadState]
  BY States DEF IInv, TypeOK, ThreadState
<1>11. CASE Https
  <2> DEFINE r == [pc |-> "handshake", op |-> "accept", fd |-> f, id |-> accepted + 1]
  <2>1. thread' = [thread EXCEPT ![Loop] = r] /\ UNCHANGED <<conns_, epoll, alive_timer_>>
    BY <1>11 DEF handleServerAccept
  <2>2. r \in ThreadState /\ r.pc = "handshake" /\ r.op = "accept" /\ r.fd = f /\ r.id = i
    BY <1>3, BoundsAssumption DEF ThreadState, LoopStates, Ids
  <2> HIDE DEF r
  <2>3. Steps(Loop) /\ thread'[Loop] = r
    BY <1>10, <2>1, <2>2, Becomes
  <2>4. ThreadInv'
    BY <2>2, <2>3, LoopMoves, ThreadsAssumption DEF LoopStates, CloseStates
  <2>5. \A g \in Fds \ {f} : Conn(g)'
    <3>1. \A g \in Fds \ {f} : SameConn(g)
      BY <1>6, <2>1 DEF SameConn, HasTimer
    <3>2. QED
      BY <1>2, <1>5, <1>8, <1>10, <2>2, <2>3, <3>1, Others
  <2>6. Conn(f)'
    <3>1. /\ ~Live(f)' /\ ~Armed(f)' /\ ~Queued(f)' /\ Handshaking(f)' /\ ~Expiring(f)'
      BY <1>1, <1>4, <2>1, <2>2, <2>3 DEF Live, Armed, Queued, Handshaking, Expiring
    <3>2. OwnerOK(f)'
      BY <1>4, <1>5, <1>6, <2>1, <2>2, <2>3, <3>1 DEF OwnerOK, Ids
    <3>3. Lone(f, Loop)'
      BY <1>4, <2>3 DEF Lone, Steps
    <3>4. UserOK(Loop, f)'
      BY <2>2, <2>3 DEF UserOK, LivePcs, GonePcs
    <3>5. QED
      BY <1>5, <1>10, <2>2, <2>3, <3>1, <3>2, <3>3, <3>4, Assemble
  <2>7. TimerInv'
    BY <2>1, <2>2, <2>3 DEF IInv, TimerInv
  <2>8. SocketInv'
    BY <1>1, <1>9, <2>2, <2>3 DEF SocketInv
  <2>9. TypeOK'
    BY <1>1, <1>2, <1>5, <1>6, <2>1, <2>3 DEF IInv, TypeOK, ThreadState, Steps
  <2>10. QED
    BY <1>7, <2>4, <2>5, <2>6, <2>7, <2>8, <2>9 DEF IInv
<1>12. CASE ~Https
  <2>1. handleConnected(f, i) /\ UNCHANGED thread
    BY <1>3, <1>12 DEF handleServerAccept
  <2>2. Steps(Loop) /\ thread'[Loop] = thread[Loop]
    BY <1>10, <2>1 DEF Steps
  <2>3. ThreadInv'
    BY <2>1 DEF IInv, ThreadInv
  <2>4. thread'[Loop].pc = "events" /\ thread'[Loop].op = "none" /\ thread'[Loop].fd = NoFd
    BY <1>2, <2>1 DEF IInv, ThreadInv
  <2>5. /\ Conn(f)' /\ TimerInv' /\ alive_timer_' \in Seq(Fds)
        /\ conns_' \in [Fds -> [disconnected : BOOLEAN, keep_alive : BOOLEAN, channel : 0..MaxAccepts]]
        /\ epoll' \in [Fds -> {"none", "off", "in", "out"}]
        /\ \A g \in Fds \ {f} : /\ conns_'[g] = conns_[g] /\ epoll'[g] = epoll[g]
                                /\ HasTimer(g)' = HasTimer(g)
    BY <1>1, <1>4, <1>5, <1>6, <2>1, <2>2, <2>4, Connected
  <2>6. \A g \in Fds \ {f} : Conn(g)'
    <3>1. \A g \in Fds \ {f} : SameConn(g)
      BY <1>6, <2>5 DEF SameConn
    <3>2. QED
      BY <1>2, <1>5, <1>8, <1>10, <2>2, <2>4, <3>1, Others
  <2>7. SocketInv'
    BY <1>1, <1>9, <2>4 DEF SocketInv
  <2>8. TypeOK'
    BY <1>1, <1>2, <1>5, <1>6, <2>1, <2>5 DEF IInv, TypeOK
  <2>9. QED
    BY <1>7, <2>3, <2>5, <2>6, <2>7, <2>8 DEF IInv
<1>13. QED
  BY <1>11, <1>12

LEMMA HandshakeDonePreserves ==
    ASSUME IInv, HandshakeDone
    PROVE  IInv'
<1>1. thread[Loop].pc = "handshake" /\ thread' = [thread EXCEPT ![Loop] = AtEvents]
      /\ UNCHANGED <<channels, owner, accepted, closed, tasks_, batch, quit_>>
  BY DEF HandshakeDone
<1>2. PICK f \in Fds, i \in Ids : /\ f = thread[Loop].fd /\ i = thread[Loop].id
                                  /\ owner[f] = i /\ Loop \in Threads /\ Handshaking(f)
  BY <1>1, HandshakeFor
<1>3. handleConnected(f, i) /\ sock' = [sock EXCEPT ![i].rx = 0]
  BY <1>2 DEF HandshakeDone
<1>4. Steps(Loop) /\ thread'[Loop] = AtEvents
  BY <1>1, <1>2, States, Becomes
<1>5. thread'[Loop].pc = "events" /\ thread'[Loop].op = "none" /\ thread'[Loop].fd = NoFd
  BY <1>4 DEF AtEvents
<1>6. ThreadInv'
  BY <1>4, <1>5, LoopMoves DEF LoopStates, CloseStates
<1>7. /\ ~Event(f)' /\ ~Queued(f) /\ (\A u \in Threads \ {Loop} : thread[u].fd # f)
      /\ owner'[f] = i /\ i <= accepted' /\ accepted' \in Nat /\ accepted' >= accepted
  <2>1. Lone(f, Loop) /\ ~Event(f) /\ ~Queued(f)
    BY <1>1, <1>2, Alone
  <2>2. owner[f] <= accepted /\ accepted \in Nat
    BY DEF IInv, Conn, OwnerOK, TypeOK
  <2>3. QED
    BY <1>1, <1>2, <2>1, <2>2 DEF Lone, Event
<1>8. /\ Conn(f)' /\ TimerInv' /\ alive_timer_' \in Seq(Fds)
      /\ conns_' \in [Fds -> [disconnected : BOOLEAN, keep_alive : BOOLEAN, channel : 0..MaxAccepts]]
      /\ epoll' \in [Fds -> {"none", "off", "in", "out"}]
      /\ \A g \in Fds \ {f} : /\ conns_'[g] = conns_[g] /\ epoll'[g] = epoll[g]
                              /\ HasTimer(g)' = HasTimer(g)
  BY <1>1, <1>3, <1>4, <1>5, <1>7, Connected
<1>9. \A g \in Fds \ {f} : Conn(g)'
  <2>1. \A g \in Fds \ {f} : SameConn(g) /\ SameTasks(g) /\ SameEvents(g)
    BY <1>1, <1>8, Untouched DEF SameConn
  <2>2. QED
    BY <1>2, <1>4, <1>5, <1>7, <2>1, Others
<1>10. OwnerInv'
  BY <1>1 DEF IInv, OwnerInv
<1> DEFINE S == [rx : 0..MaxSends, sent : 0..MaxSends, fin : BOOLEAN, full : BOOLEAN]
           s == [sock[i] EXCEPT !.rx = 0]
<1>11. /\ sock \in [Ids -> S] /\ MaxSends \in Nat
       /\ \A j \in Ids : channels[j].recver \in Nat /\ channels[j].recver + sock[j].rx <= sock[j].sent
  BY BoundsAssumption DEF IInv, TypeOK, SocketInv
<1>12. s \in S /\ s.rx = 0 /\ s.sent = sock[i].sent /\ sock' = [sock EXCEPT ![i] = s]
  BY <1>3, <1>11
<1> HIDE DEF s
<1>13. /\ sock' \in [Ids -> S]
       /\ \A j \in Ids : channels'[j].recver + sock'[j].rx <= sock'[j].sent
  <2>1. sock' \in [Ids -> S] /\ sock'[i] = s /\ \A j \in Ids \ {i} : sock'[j] = sock[j]
    BY <1>11, <1>12
  <2>2. channels[i].recver + s.rx <= s.sent
    BY <1>11, <1>12
  <2>3. QED
    BY <1>1, <1>11, <2>1, <2>2
<1>14. SocketInv'
  BY <1>1, <1>5, <1>7, <1>13, SocketKept
<1>15. TypeOK'
  BY <1>1, <1>4, <1>8, <1>13 DEF IInv, TypeOK, ThreadState, Steps
<1>16. QED
  BY <1>6, <1>8, <1>9, <1>10, <1>14, <1>15 DEF IInv

LEMMA HandshakeFailedPreserves ==
    ASSUME IInv, HandshakeFailed
    PROVE  IInv'
<1>1. thread[Loop].pc = "handshake" /\ thread' = [thread EXCEPT ![Loop] = AtEvents]
      /\ UNCHANGED <<conns_, channels, epoll, accepted, alive_timer_, tasks_, batch, quit_>>
  BY DEF HandshakeFailed
<1>2. PICK f \in Fds, i \in Ids :
        /\ f = thread[Loop].fd /\ i = thread[Loop].id
        /\ owner[f] = i /\ Loop \in Threads /\ Handshaking(f) /\ conns_[f].channel = 0
        /\ channels[i].recver = 0
  BY <1>1, HandshakeFor
<1>3. /\ owner' = [owner EXCEPT ![f] = 0] /\ closed' = closed \cup {i}
      /\ sock' = [sock EXCEPT ![i] = NewSocket]
  BY <1>2 DEF HandshakeFailed, CloseSocket
<1>4. Steps(Loop) /\ thread'[Loop] = AtEvents
  BY <1>1, <1>2, States, Becomes
<1>5. thread'[Loop].pc = "events" /\ thread'[Loop].op = "none" /\ thread'[Loop].fd = NoFd
  BY <1>4 DEF AtEvents
<1>6. ThreadInv'
  BY <1>4, <1>5, LoopMoves DEF LoopStates, CloseStates
<1>7. /\ owner' \in [Fds -> 0..MaxAccepts] /\ owner'[f] = 0
      /\ \A g \in Fds \ {f} : owner'[g] = owner[g]
  BY <1>3, BoundsAssumption DEF IInv, TypeOK
<1>8. accepted' >= accepted /\ accepted' \in Nat
  BY <1>1 DEF IInv, TypeOK
<1>9. \A g \in Fds \ {f} : Conn(g)'
  <2>1. \A g \in Fds \ {f} : SameConn(g) /\ SameTasks(g) /\ SameEvents(g)
    BY <1>1, <1>7, Untouched DEF SameConn, HasTimer
  <2>2. QED
    BY <1>2, <1>4, <1>5, <1>8, <2>1, Others
<1>10. Conn(f)'
  <2>1. Lone(f, Loop)' /\ ~Event(f) /\ ~Queued(f)
    BY <1>1, <1>2, <1>4, Alone, LoneStays
  <2>2. epoll[f] = "none"
    BY <1>2 DEF IInv, Conn, OwnerOK
  <2>3. /\ ~Live(f)' /\ ~Armed(f)' /\ ~Event(f)' /\ ~Queued(f)' /\ ~Handshaking(f)' /\ ~Expiring(f)'
    BY <1>1, <1>2, <1>5, <2>1, <2>2
    DEF Live, Armed, Event, Queued, Handshaking, Expiring, CloseStates
  <2>4. OwnerOK(f)'
    BY <1>1, <1>2, <1>7, <1>8, <2>2, <2>3 DEF OwnerOK
  <2>5. QED
    BY <1>2, <1>5, <2>1, <2>3, <2>4, ThreadsAssumption, Assemble
<1>11. OwnerInv'
  BY <1>1, <1>7 DEF IInv, OwnerInv
<1>12. TimerInv'
  BY <1>1, <1>5 DEF IInv, TimerInv
<1>13. /\ sock' \in [Ids -> [rx : 0..MaxSends, sent : 0..MaxSends, fin : BOOLEAN, full : BOOLEAN]]
       /\ \A j \in Ids : channels'[j].recver + sock'[j].rx <= sock'[j].sent
  BY <1>1, <1>2, <1>3, SocketGone
<1>14. SocketInv'
  BY <1>1, <1>5, <1>8, <1>13, SocketKept
<1>15. TypeOK'
  <2>1. closed' \subseteq Ids
    BY <1>3 DEF IInv, TypeOK
  <2>2. QED
    BY <1>1, <1>4, <1>7, <1>13, <2>1 DEF IInv, TypeOK, ThreadState, Steps
<1>16. QED
  BY <1>6, <1>9, <1>10, <1>11, <1>12, <1>14, <1>15 DEF IInv

(***************************************************************************)
(* The loop: events of connections.                                        *)
(***************************************************************************)
(* An event of descriptor f is taken from the batch. *)
LEMMA EventFor ==
    ASSUME IInv, NEW op, NEW f \in Fds, Handle(op, f)
    PROVE  /\ Conn(f) /\ Live(f) /\ ~Armed(f) /\ ~Queued(f) /\ ~Handshaking(f)
           /\ ~Event(f)' /\ (\A u \in Threads : thread[u].fd # f)
           /\ \A g \in Fds \ {f} : SameEvents(g)
           /\ batch' \subseteq batch
           /\ thread[Loop].pc = "events" /\ thread[Loop].op = "none" /\ thread[Loop].fd = NoFd
<1> DEFINE e == [op |-> op, fd |-> f]
<1>1. e \in batch /\ batch' = batch \ {e} /\ e.fd = f /\ thread[Loop].pc = "events"
  BY DEF Handle
<1> HIDE DEF e
<1>2. Conn(f) /\ Event(f)
  BY <1>1 DEF IInv, Event
<1>3. Live(f) /\ ~Armed(f) /\ ~Queued(f) /\ ~Held(f)
  BY <1>2 DEF Conn, LiveOK, HolderOK, Excludes
<1>4. thread[Loop].op = "none" /\ thread[Loop].fd = NoFd
  BY <1>1 DEF IInv, ThreadInv
<1>5. ~Event(f)'
  BY <1>1, <1>2 DEF Conn, HolderOK, Excludes, Event
<1>6. \A u \in Threads : thread[u].fd # f
  <2>1. \A u \in Threads : thread[u].op # "timer"
    BY <1>4 DEF IInv, ThreadInv, Threads
  <2>2. QED
    BY <1>3, <2>1 DEF Held
<1>7. ~Handshaking(f)
  BY <1>1 DEF Handshaking
<1>8. QED
  BY <1>1, <1>2, <1>3, <1>4, <1>5, <1>6, <1>7 DEF SameEvents

LEMMA ClosePreserves ==
    ASSUME IInv, NEW f \in Fds, handleClose(f)
    PROVE  IInv'
<1>1. /\ Conn(f) /\ Live(f) /\ ~Armed(f) /\ ~Queued(f) /\ ~Handshaking(f)
      /\ ~Event(f)' /\ (\A u \in Threads : thread[u].fd # f)
      /\ \A g \in Fds \ {f} : SameEvents(g)
      /\ batch' \subseteq batch
      /\ thread[Loop].pc = "events" /\ thread[Loop].op = "none" /\ thread[Loop].fd = NoFd
  BY EventFor DEF handleClose
<1>2. UNCHANGED <<conns_, channels, epoll, owner, sock, accepted, closed, alive_timer_, tasks_, quit_>>
  BY DEF handleClose, kernel
<1> DEFINE r == [pc |-> "closeTest", op |-> "close", fd |-> f, id |-> conns_[f].channel]
<1>3. /\ r \in ThreadState /\ r.pc = "closeTest" /\ r.op = "close" /\ r.fd = f
      /\ r.id = conns_[f].channel
  <2>1. conns_[f].channel \in 0..MaxAccepts
    BY DEF IInv, TypeOK
  <2>2. QED
    BY <2>1 DEF ThreadState, LoopStates, CloseStates
<1>4. thread' = [thread EXCEPT ![Loop] = r]
  BY DEF handleClose
<1> HIDE DEF r
<1>5. Steps(Loop) /\ thread'[Loop] = r /\ Loop \in Threads
  BY <1>3, <1>4, States, Becomes
<1>6. ThreadInv'
  BY <1>3, <1>5, LoopMoves, ThreadsAssumption DEF LoopStates, CloseStates
<1>7. accepted' >= accepted /\ accepted' \in Nat
  BY <1>2 DEF IInv, TypeOK
<1>8. \A g \in Fds \ {f} : Conn(g)'
  <2>1. \A g \in Fds \ {f} : SameConn(g) /\ SameTasks(g)
    BY <1>2, Untouched
  <2>2. QED
    BY <1>1, <1>3, <1>5, <1>7, <2>1, Others
<1>9. Conn(f)'
  <2>1. /\ Live(f)' /\ ~Armed(f)' /\ ~Queued(f)' /\ ~Handshaking(f)' /\ ~Expiring(f)'
        /\ HasTimer(f)' = HasTimer(f)
    BY <1>1, <1>2, <1>3, <1>5 DEF Live, Armed, Queued, Handshaking, Expiring, HasTimer
  <2>2. OwnerOK(f)'
    BY <1>1, <1>2, <2>1 DEF Conn, OwnerOK
  <2>3. Lone(f, Loop)'
    BY <1>1, <1>5 DEF Lone, Steps
  <2>4. UserOK(Loop, f)'
    BY <1>2, <1>3, <1>5, <2>1 DEF UserOK, LivePcs, GonePcs
  <2>5. QED
    BY <1>1, <1>3, <1>5, <2>1, <2>2, <2>3, <2>4, Assemble DEF Conn, TimerOK
<1>10. OwnerInv'
  BY <1>1, <1>2 DEF IInv, OwnerInv
<1>11. TimerInv'
  BY <1>2, <1>3, <1>5 DEF IInv, TimerInv
<1>12. SocketInv'
  BY <1>2, <1>3, <1>5 DEF IInv, SocketInv
<1>13. TypeOK'
  BY <1>1, <1>2, <1>5 DEF IInv, TypeOK, ThreadState, Steps
<1>14. QED
  BY <1>6, <1>8, <1>9, <1>10, <1>11, <1>12, <1>13 DEF IInv

LEMMA ReadWritePreserves ==
    ASSUME IInv, NEW op \in {"read", "write"}, NEW f \in Fds, handleConnectionReadWrite(op, f)
    PROVE  IInv'
<1>1. /\ Conn(f) /\ Live(f) /\ ~Armed(f) /\ ~Queued(f) /\ ~Handshaking(f)
      /\ ~Event(f)' /\ (\A u \in Threads : thread[u].fd # f)
      /\ \A g \in Fds \ {f} : SameEvents(g)
      /\ batch' \subseteq batch
      /\ thread[Loop].pc = "events" /\ thread[Loop].op = "none" /\ thread[Loop].fd = NoFd
  BY EventFor DEF handleConnectionReadWrite
<1>2. UNCHANGED <<conns_, channels, epoll, owner, sock, accepted, closed, quit_, thread>>
  BY DEF handleConnectionReadWrite, kernel
<1> DEFINE k == [op |-> op, fd |-> f, id |-> conns_[f].channel]
<1>3. k \in Task /\ k.fd = f /\ k.id = conns_[f].channel
  <2>1. conns_[f].channel \in 0..MaxAccepts /\ conns_[f].channel # 0
    BY <1>1 DEF IInv, TypeOK, Live
  <2>2. conns_[f].channel \in Ids
    BY <2>1, BoundsAssumption DEF Ids
  <2>3. QED
    BY <2>2 DEF Task
<1>4. tasks_' = Append(tasks_, k) /\ alive_timer_' = TimerAdd(f)
  <2>1. HasTimer(f)
    BY <1>1 DEF Conn, TimerOK
  <2>2. tasks_' = Append(tasks_, k) /\ alive_timer_' = TimerAdjust(f)
    BY <1>1 DEF handleConnectionReadWrite, Live
  <2>3. QED
    BY <2>1, <2>2 DEF TimerAdjust
<1> HIDE DEF k
<1>5. /\ alive_timer_' \in Seq(Fds)
      /\ \A m, n \in 1..Len(alive_timer_') : alive_timer_'[m] = alive_timer_'[n] => m = n
      /\ HasTimer(f)'
      /\ \A g \in Fds \ {f} : HasTimer(g)' = HasTimer(g)
  BY <1>4, TimerAdds
<1>6. /\ tasks_ \in Seq(Task) /\ tasks_' \in Seq(Task) /\ Len(tasks_) \in Nat
      /\ Len(tasks_') = Len(tasks_) + 1 /\ tasks_'[Len(tasks_) + 1] = k
      /\ \A j \in 1..Len(tasks_) : tasks_'[j] = tasks_[j]
  BY <1>3, <1>4, States
<1>7. \A j \in 1..Len(tasks_') : tasks_'[j].fd = f => j = Len(tasks_') /\ tasks_'[j] = k
  <2>1. \A j \in 1..Len(tasks_') : j \in 1..Len(tasks_) \/ j = Len(tasks_) + 1
    BY <1>6
  <2>2. \A j \in 1..Len(tasks_) : tasks_'[j].fd # f
    BY <1>1, <1>6 DEF Queued
  <2>3. QED
    BY <1>6, <2>1, <2>2
<1>8. accepted' >= accepted /\ accepted' \in Nat
  BY <1>2 DEF IInv, TypeOK
<1>9. \A g \in Fds \ {f} : Conn(g)'
  <2>1. \A g \in Fds \ {f} : SameConn(g)
    BY <1>2, <1>5 DEF SameConn
  <2>2. \A g \in Fds \ {f} : SameTasks(g)
    BY <1>3, <1>4, <1>6, Queues
  <2>3. \A g \in Fds \ {f} : SameThreads(g)
    BY <1>2 DEF SameThreads
  <2>4. QED
    BY <1>1, <1>8, <2>1, <2>2, <2>3, Frame
<1>10. Conn(f)'
  <2>1. Queued(f)'
    <3>1. Len(tasks_) + 1 \in 1..Len(tasks_')
      BY <1>6
    <3>2. QED
      BY <1>3, <1>6, <3>1 DEF Queued
  <2>2. /\ Live(f)' /\ ~Armed(f)' /\ ~Handshaking(f)' /\ ~Held(f)'
        /\ \A u \in Threads : thread'[u].fd # f
    BY <1>1, <1>2 DEF Live, Armed, Handshaking, Held
  <2>3. OwnerOK(f)'
    BY <1>1, <1>2, <2>2 DEF Conn, OwnerOK
  <2>4. HolderOK(f)'
    <3>1. \A d, e \in batch' : d.fd = f /\ e.fd = f => d = e
      BY <1>1 DEF Event
    <3>2. \A i, j \in 1..Len(tasks_') : tasks_'[i].fd = f /\ tasks_'[j].fd = f => i = j
      BY <1>7
    <3>3. QED
      BY <1>1, <2>1, <2>2, <3>1, <3>2 DEF HolderOK, Excludes
  <2>5. LiveOK(f)'
    <3>1. \A j \in 1..Len(tasks_') : tasks_'[j].fd = f => Live(f)' /\ conns_'[f].channel = tasks_'[j].id
      BY <1>2, <1>3, <1>7, <2>2
    <3>2. QED
      BY <1>1, <2>2, <3>1 DEF LiveOK
  <2>6. TimerOK(f)'
    BY <1>1, <1>2, <1>5 DEF TimerOK, Expiring, CloseStates
  <2>7. QED
    BY <2>3, <2>4, <2>5, <2>6 DEF Conn
<1>11. ThreadInv' /\ OwnerInv' /\ SocketInv'
  BY <1>1, <1>2 DEF IInv, ThreadInv, OwnerInv, SocketInv
<1>12. TimerInv'
  BY <1>1, <1>2, <1>5 DEF TimerInv
<1>13. TypeOK'
  BY <1>1, <1>2, <1>5, <1>6 DEF IInv, TypeOK, Task
<1>14. QED
  BY <1>9, <1>10, <1>11, <1>12, <1>13 DEF IInv

(***************************************************************************)
(* The loop: an expired timer.  Here, and only here, the proof needs that  *)
(* no event is waiting or being handled for longer than idle_timeout_.     *)
(***************************************************************************)
LEMMA TimerExpiredPreserves ==
    ASSUME IInv, TimelyHandlers, TimerExpired
    PROVE  IInv'
<1>1. PICK d \in Fds : d = Head(alive_timer_) /\ d = alive_timer_[1]
  BY DEF TimerExpired, IInv, TypeOK
<1>2. /\ thread[Loop].pc = "timer" /\ alive_timer_ # <<>> /\ ~Busy(d)
      /\ UNCHANGED <<conns_, channels, epoll, owner, sock, accepted, closed, alive_timer_, tasks_, batch, quit_>>
  BY <1>1 DEF TimerExpired, kernel
<1>3. thread[Loop].op = "timer" /\ thread[Loop].fd = NoFd /\ thread[Loop] \in ThreadState
      /\ Loop \in Threads
  BY <1>2, States DEF IInv, ThreadInv
<1> DEFINE r == [thread[Loop] EXCEPT !.pc = "closeTest", !.fd = d, !.id = conns_[d].channel]
<1>4. /\ r \in ThreadState /\ r.pc = "closeTest" /\ r.op = "timer" /\ r.fd = d
      /\ r.id = conns_[d].channel
  <2>1. conns_[d].channel \in 0..MaxAccepts
    BY DEF IInv, TypeOK
  <2>2. QED
    BY <1>3, <2>1 DEF ThreadState, LoopStates, CloseStates
<1>5. thread' = [thread EXCEPT ![Loop] = r]
  BY <1>1 DEF TimerExpired
<1> HIDE DEF r
<1>6. Steps(Loop) /\ thread'[Loop] = r
  BY <1>3, <1>4, <1>5, Becomes
<1>7. ThreadInv'
  BY <1>4, <1>6, LoopMoves, ThreadsAssumption DEF LoopStates, CloseStates
<1>8. accepted' >= accepted /\ accepted' \in Nat
  BY <1>2 DEF IInv, TypeOK
<1>9. \A g \in Fds \ {d} : Conn(g)'
  <2>1. \A g \in Fds \ {d} : SameConn(g) /\ SameTasks(g) /\ SameEvents(g)
    BY <1>2, Untouched
  <2>2. QED
    BY <1>3, <1>4, <1>6, <1>8, <2>1, Others
<1>10. Conn(d)'
  <2>1. ~Event(d) /\ ~Queued(d) /\ \A w \in Workers : thread[w].fd # d
    BY <1>2 DEF Busy, Event, Queued
  <2>2. ~Held(d) /\ \A u \in Threads \ {Loop} : thread[u].fd # d
    BY <1>3, <2>1 DEF Held, Threads
  <2>3. /\ Live(d)' = Live(d) /\ Armed(d)' = Armed(d) /\ ~Event(d)' /\ ~Queued(d)'
        /\ ~Handshaking(d)' /\ HasTimer(d)' = HasTimer(d)
    BY <1>2, <1>4, <1>6, <2>1 DEF Live, Armed, Event, Queued, Handshaking, HasTimer
  <2>4. Conn(d) /\ ~Handshaking(d)
    BY <1>2 DEF IInv, Handshaking
  <2>5. OwnerOK(d)'
    BY <1>2, <2>3, <2>4 DEF Conn, OwnerOK
  <2>6. Lone(d, Loop)'
    BY <1>6, <2>2 DEF Lone, Steps
  <2>7. UserOK(Loop, d)'
    BY <1>2, <1>4, <1>6 DEF UserOK, LivePcs, GonePcs
  <2>8. ~(Armed(d)' /\ conns_'[d].disconnected)
    BY <1>2, <2>3, <2>4 DEF Conn, LiveOK
  <2>9. Live(d)' => Armed(d)'
    BY <2>1, <2>2, <2>3, <2>4 DEF Conn, HolderOK
  <2>10. QED
    BY <1>3, <1>4, <1>6, <2>3, <2>4, <2>5, <2>6, <2>7, <2>8, <2>9, Assemble DEF Conn, TimerOK
<1>11. OwnerInv'
  BY <1>2 DEF IInv, OwnerInv
<1>12. TimerInv'
  BY <1>1, <1>2, <1>4, <1>6 DEF IInv, TimerInv
<1>13. SocketInv'
  BY <1>2, <1>4, <1>6 DEF IInv, SocketInv
<1>14. TypeOK'
  BY <1>2, <1>6 DEF IInv, TypeOK, ThreadState, Steps
<1>15. QED
  BY <1>7, <1>9, <1>10, <1>11, <1>12, <1>13, <1>14 DEF IInv

LEMMA TimerPopPreserves ==
    ASSUME IInv, TimerPop
    PROVE  IInv'
<1>1. /\ thread[Loop].pc = "pop" /\ alive_timer_' = Tail(alive_timer_)
      /\ UNCHANGED <<conns_, channels, epoll, owner, sock, accepted, closed, tasks_, batch, quit_>>
  BY DEF TimerPop, kernel
<1>2. PICK d \in Fds : d = thread[Loop].fd
  BY <1>1, States
<1>3. thread[Loop].op = "timer" /\ Loop \in Threads /\ ~Live(d)
  BY <1>1, <1>2, States DEF IInv, ThreadInv, Conn, TimerOK
<1>4. /\ alive_timer_ \in Seq(Fds) /\ alive_timer_ # <<>> /\ alive_timer_[1] = d
      /\ \A j, k \in 1..Len(alive_timer_) : alive_timer_[j] = alive_timer_[k] => j = k
  BY <1>1, <1>2, <1>3 DEF IInv, TypeOK, TimerInv
<1>5. /\ alive_timer_' \in Seq(Fds) /\ Len(alive_timer_) \in Nat \ {0}
      /\ Len(alive_timer_') = Len(alive_timer_) - 1
      /\ \A j \in 1..Len(alive_timer_') : alive_timer_'[j] = alive_timer_[j + 1]
      /\ \A j \in 1..Len(alive_timer_') : j + 1 \in 1..Len(alive_timer_)
  BY <1>1, <1>4
<1> DEFINE r == [AtEvents EXCEPT !.pc = "timer", !.op = "timer"]
<1>6. r \in ThreadState /\ r.pc = "timer" /\ r.op = "timer" /\ r.fd = NoFd
  <2>1. AtEvents \in ThreadState /\ AtEvents.fd = NoFd
    BY States DEF AtEvents
  <2>2. QED
    BY <2>1 DEF ThreadState, LoopStates
<1>7. thread' = [thread EXCEPT ![Loop] = r]
  BY DEF TimerPop
<1> HIDE DEF r
<1>8. Steps(Loop) /\ thread'[Loop] = r
  BY <1>3, <1>6, <1>7, Becomes
<1>9. ThreadInv'
  BY <1>6, <1>8, LoopMoves DEF LoopStates, CloseStates
<1>10. accepted' >= accepted /\ accepted' \in Nat
  BY <1>1 DEF IInv, TypeOK
<1>11. \A g \in Fds \ {d} : Conn(g)'
  <2>1. ASSUME NEW g \in Fds \ {d} PROVE HasTimer(g)' = HasTimer(g)
    <3>1. ASSUME NEW k \in 1..Len(alive_timer_), alive_timer_[k] = g PROVE HasTimer(g)'
      <4>1. k - 1 \in 1..Len(alive_timer_') /\ alive_timer_'[k - 1] = g
        BY <1>4, <1>5, <3>1
      <4>2. QED
        BY <4>1 DEF HasTimer
    <3>2. ASSUME NEW k \in 1..Len(alive_timer_'), alive_timer_'[k] = g PROVE HasTimer(g)
      BY <1>5, <3>2 DEF HasTimer
    <3>3. QED
      BY <3>1, <3>2 DEF HasTimer
  <2>2. \A g \in Fds \ {d} : SameConn(g) /\ SameTasks(g) /\ SameEvents(g)
    BY <1>1, <2>1, Untouched DEF SameConn
  <2>3. QED
    BY <1>2, <1>3, <1>6, <1>8, <1>10, <2>2, Others
<1>12. Conn(d)'
  <2>1. Conn(d) /\ ~Event(d) /\ ~Queued(d) /\ ~Armed(d) /\ ~Handshaking(d)
    <3>1. Conn(d) /\ ~Event(d) /\ ~Queued(d) /\ ~Handshaking(d)
      BY <1>1, <1>3 DEF IInv, Conn, LiveOK, Queued, Handshaking
    <3>2. ~Armed(d)
      BY <1>1, <1>3, <3>1 DEF Conn, OwnerOK, LiveOK, Armed, Live
    <3>3. QED
      BY <3>1, <3>2
  <2>2. /\ ~Live(d)' /\ ~Event(d)' /\ ~Queued(d)' /\ ~Armed(d)' /\ ~Handshaking(d)' /\ ~Expiring(d)'
    BY <1>1, <1>3, <1>6, <1>8, <2>1
    DEF Live, Event, Queued, Armed, Handshaking, Expiring, CloseStates
  <2>3. OwnerOK(d)'
    BY <1>1, <2>1, <2>2 DEF Conn, OwnerOK
  <2>4. \A u \in Threads : thread'[u].fd = d => u # Loop /\ thread'[u] = thread[u]
    BY <1>6, <1>8, ThreadsAssumption DEF Steps
  <2>5. \A t, u \in Threads : thread'[t].fd = d /\ thread'[t].op # "timer" /\
                              thread'[u].fd = d /\ thread'[u].op # "timer" => t = u
    BY <2>1, <2>4 DEF Conn, HolderOK, Excludes
  <2>6. HolderOK(d)'
    <3>1. \A x, y \in batch' : x.fd = d /\ y.fd = d => x = y
      BY <2>2 DEF Event
    <3>2. \A j, k \in 1..Len(tasks_') : tasks_'[j].fd = d /\ tasks_'[k].fd = d => j = k
      BY <2>2 DEF Queued
    <3>3. QED
      BY <2>2, <2>5, <3>1, <3>2 DEF HolderOK, Excludes
  <2>7. LiveOK(d)'
    <3>1. \A u \in Threads : thread'[u].fd = d => UserOK(u, d)'
      <4>1. ASSUME NEW u \in Threads, thread'[u].fd = d PROVE UserOK(u, d)'
        <5>1. thread'[u] = thread[u] /\ UserOK(u, d)
          BY <2>1, <2>4, <4>1 DEF Conn, LiveOK
        <5>2. QED
          BY <1>1, <5>1 DEF UserOK, Live
      <4>2. QED
        BY <4>1
    <3>2. QED
      BY <2>2, <3>1 DEF LiveOK, Queued
  <2>8. TimerOK(d)'
    BY <2>2 DEF TimerOK
  <2>9. QED
    BY <2>3, <2>6, <2>7, <2>8 DEF Conn
<1>13. OwnerInv'
  BY <1>1 DEF IInv, OwnerInv
<1>14. TimerInv'
  <2>1. ASSUME NEW j \in 1..Len(alive_timer_'), NEW k \in 1..Len(alive_timer_'),
               alive_timer_'[j] = alive_timer_'[k]
        PROVE  j = k
    <3>1. j + 1 = k + 1
      BY <1>4, <1>5, <2>1
    <3>2. QED
      BY <1>5, <3>1
  <2>2. QED
    BY <1>6, <1>8, <2>1 DEF TimerInv
<1>15. SocketInv'
  BY <1>1, <1>6, <1>8 DEF IInv, SocketInv
<1>16. TypeOK'
  BY <1>1, <1>5, <1>8 DEF IInv, TypeOK, ThreadState, Steps
<1>17. QED
  BY <1>9, <1>11, <1>12, <1>13, <1>14, <1>15, <1>16 DEF IInv

(***************************************************************************)
(* epoll_wait(): what is reported was armed, and is not armed any more.    *)
(***************************************************************************)
LEMMA PollPreserves ==
    ASSUME IInv, NEW others \in SUBSET {ListenEvent, TimerEvent, WakeEvent}, Poll(others)
    PROVE  IInv'
<1> DEFINE ready == {e \in ConnEvents : e.op \in Reported(e.fd)}
<1>1. /\ thread[Loop].pc = "events" /\ batch = {}
      /\ ListenEvent \in others => accepted < MaxAccepts
      /\ batch' = others \cup ready
      /\ epoll' = [f \in Fds |-> IF \E e \in ready : e.fd = f THEN "off" ELSE epoll[f]]
      /\ UNCHANGED <<conns_, channels, owner, sock, accepted, closed, alive_timer_, tasks_, quit_, thread>>
  BY DEF Poll, kernel
<1>2. \A f \in Fds : Reported(f) # {} => Armed(f)
  BY DEF Reported, Armed
<1>3. \A f \in Fds : \A p, q \in Reported(f) : p = q
  BY DEF Reported
<1>4. \A e \in others : e.fd = NoFd
  BY DEF ListenEvent, TimerEvent, WakeEvent
<1>5. ASSUME NEW f \in Fds PROVE Conn(f)'
  <2>1. \A e \in batch' : e.fd = f => e \in ready
    BY <1>1, <1>4, ThreadsAssumption
  <2>2. \A e \in ready : e \in ConnEvents /\ e.op \in Reported(e.fd)
    OBVIOUS
  <2> HIDE DEF ready
  <2>3. /\ Event(f)' => Armed(f) /\ epoll'[f] = "off"
        /\ ~Event(f)' => epoll'[f] = epoll[f]
    <3>1. Event(f)' <=> \E e \in ready : e.fd = f
      BY <1>1, <2>1 DEF Event
    <3>2. (\E e \in ready : e.fd = f) => Armed(f)
      BY <1>2, <2>2
    <3>3. QED
      BY <1>1, <3>1, <3>2
  <2>4. Conn(f) /\ ~Event(f) /\ ~Expiring(f) /\ ~Handshaking(f) /\ ~Handshaking(f)' /\ ~Expiring(f)'
    BY <1>1 DEF IInv, Event, Expiring, Handshaking, CloseStates
  <2>5. Armed(f) => Live(f)
    BY <2>4 DEF Conn, OwnerOK, LiveOK, Armed, Live
  <2>6. /\ Live(f)' = Live(f) /\ Queued(f)' = Queued(f) /\ Held(f)' = Held(f)
        /\ HasTimer(f)' = HasTimer(f)
    BY <1>1 DEF Live, Queued, Held, HasTimer
  <2>7. Armed(f)' <=> Armed(f) /\ ~Event(f)'
    BY <2>3 DEF Armed
  <2>8. OwnerOK(f)'
    BY <1>1, <2>3, <2>4, <2>5, <2>6 DEF Conn, OwnerOK, Live
  <2>9. \A d, e \in batch' : d.fd = f /\ e.fd = f => d = e
    <3>1. ASSUME NEW d \in batch', NEW e \in batch', d.fd = f, e.fd = f PROVE d = e
      <4>1. d \in ConnEvents /\ e \in ConnEvents /\ d.op = e.op
        BY <1>3, <2>1, <2>2, <3>1
      <4>2. QED
        BY <3>1, <4>1 DEF ConnEvents
    <3>2. QED
      BY <3>1
  <2>10. HolderOK(f)'
    <3>1. Armed(f) => ~Queued(f) /\ ~Held(f)
      BY <2>4 DEF Conn, HolderOK, Excludes
    <3>2. \A j, k \in 1..Len(tasks_') : tasks_'[j].fd = f /\ tasks_'[k].fd = f => j = k
      BY <1>1, <2>4 DEF Conn, HolderOK, Excludes
    <3>3. \A t, u \in Threads : thread'[t].fd = f /\ thread'[t].op # "timer" /\
                                thread'[u].fd = f /\ thread'[u].op # "timer" => t = u
      BY <1>1, <2>4 DEF Conn, HolderOK, Excludes
    <3>4. Excludes(f)'
      BY <2>3, <2>4, <2>6, <2>7, <2>9, <3>1, <3>2, <3>3 DEF Conn, HolderOK, Excludes
    <3>5. QED
      BY <2>4, <2>6, <2>7, <3>4 DEF Conn, HolderOK
  <2>11. LiveOK(f)'
    <3>1. \A k \in 1..Len(tasks_') : tasks_'[k].fd = f => Live(f)' /\ conns_'[f].channel = tasks_'[k].id
      BY <1>1, <2>4, <2>6 DEF Conn, LiveOK
    <3>2. ASSUME NEW t \in Threads, thread'[t].fd = f PROVE UserOK(t, f)'
      <4>1. UserOK(t, f) /\ thread'[t] = thread[t]
        BY <1>1, <2>4, <3>2 DEF Conn, LiveOK
      <4>2. epoll[f] = "none" => epoll'[f] = "none"
        BY <2>3 DEF Armed
      <4>3. QED
        BY <1>1, <2>6, <4>1, <4>2 DEF UserOK
    <3>3. ~(Armed(f)' /\ conns_'[f].disconnected)
      BY <1>1, <2>5, <2>7 DEF Live
    <3>4. QED
      BY <2>3, <2>5, <2>6, <3>1, <3>2, <3>3 DEF LiveOK
  <2>12. TimerOK(f)'
    BY <1>1, <2>4, <2>6 DEF Conn, TimerOK
  <2>13. QED
    BY <2>8, <2>10, <2>11, <2>12 DEF Conn
<1>6. OwnerInv'
  <2>1. ListenEvent \notin ready
    BY DEF ConnEvents, ListenEvent
  <2>2. QED
    BY <1>1, <2>1 DEF IInv, OwnerInv
<1>7. ThreadInv' /\ TimerInv' /\ SocketInv'
  BY <1>1 DEF IInv, ThreadInv, TimerInv, SocketInv
<1>8. TypeOK'
  <2>1. batch' \subseteq ConnEvents \cup {ListenEvent, TimerEvent, WakeEvent}
    BY <1>1
  <2>2. epoll' \in [Fds -> {"none", "off", "in", "out"}]
    BY <1>1 DEF IInv, TypeOK
  <2>3. QED
    BY <1>1, <2>1, <2>2 DEF IInv, TypeOK
<1>9. QED
  BY <1>5, <1>6, <1>7, <1>8 DEF IInv

(***************************************************************************)
(* ~TcpServer(), and the start.                                            *)
(***************************************************************************)
(* Nothing is about a descriptor without a connection. *)
LEMMA NothingAbout ==
    ASSUME NEW f \in Fds, owner[f] = 0, conns_[f].channel = 0, epoll[f] = "none", accepted \in Nat,
           tasks_ = <<>>, batch = {}, \A t \in Threads : thread[t].fd # f
    PROVE  Conn(f)
<1>1. Loop \in Threads /\ Len(tasks_) = 0 /\ 1..0 = {}
  BY DEF Threads
<1>2. /\ ~Live(f) /\ ~Event(f) /\ ~Queued(f) /\ ~Armed(f) /\ ~Held(f)
      /\ ~Handshaking(f) /\ ~Expiring(f)
  BY <1>1 DEF Live, Event, Queued, Armed, Held, Handshaking, Expiring
<1>3. OwnerOK(f)
  BY <1>2 DEF OwnerOK
<1>4. HolderOK(f)
  BY <1>1, <1>2 DEF HolderOK, Excludes
<1>5. LiveOK(f)
  BY <1>1, <1>2 DEF LiveOK
<1>6. TimerOK(f)
  BY <1>1, <1>2 DEF TimerOK
<1>7. QED
  BY <1>3, <1>4, <1>5, <1>6 DEF Conn

LEMMA NewObjects ==
    /\ NewChannel \in [recver : 0..MaxSends, sender : 0..MaxUnits]
    /\ NewSocket \in [rx : 0..MaxSends, sent : 0..MaxSends, fin : BOOLEAN, full : BOOLEAN]
    /\ NewChannel.recver = 0 /\ NewSocket.rx = 0 /\ NewSocket.sent = 0
BY BoundsAssumption DEF NewChannel, NewSocket

LEMMA DestroyPreserves ==
    ASSUME IInv, Destroy
    PROVE  IInv'
<1>1. /\ thread[Loop].pc = "events" /\ batch = {} /\ tasks_ = <<>>
      /\ \A w \in Workers : thread[w].pc = "idle"
      /\ thread' = Goto(Loop, "stopped")
      /\ epoll' = [f \in Fds |-> "none"] /\ owner' = [f \in Fds |-> 0]
      /\ conns_' = [f \in Fds |-> [conns_[f] EXCEPT !.channel = 0]]
      /\ closed' = closed \cup ({owner[f] : f \in Fds} \ {0})
      /\ channels' = [i \in Ids |-> NewChannel] /\ sock' = [i \in Ids |-> NewSocket]
      /\ UNCHANGED <<accepted, alive_timer_, tasks_, batch, quit_>>
  BY DEF Destroy
<1>2. thread[Loop].fd = NoFd /\ thread[Loop].op = "none" /\ \A w \in Workers : thread[w].fd = NoFd
  BY <1>1 DEF IInv, ThreadInv
<1>3. /\ Steps(Loop) /\ thread'[Loop].pc = "stopped" /\ thread'[Loop].op = "none"
      /\ thread'[Loop].fd = NoFd /\ Loop \in Threads
  BY <1>1, <1>2, Goes DEF LoopStates, Threads
<1>4. ThreadInv'
  BY <1>3, LoopMoves DEF LoopStates, CloseStates
<1>5. \A t \in Threads : thread'[t].fd = NoFd
  BY <1>2, <1>3 DEF Steps, Threads
<1> DEFINE B == [disconnected : BOOLEAN, keep_alive : BOOLEAN, channel : 0..MaxAccepts]
<1>6. conns_' \in [Fds -> B] /\ \A f \in Fds : conns_'[f].channel = 0
  <2>1. conns_ \in [Fds -> B] /\ 0 \in 0..MaxAccepts
    BY BoundsAssumption DEF IInv, TypeOK
  <2>2. QED
    BY <1>1, <2>1
<1>7. accepted' \in Nat /\ accepted' >= accepted
  BY <1>1 DEF IInv, TypeOK
<1>8. ASSUME NEW f \in Fds PROVE Conn(f)'
  <2>1. /\ owner'[f] = 0 /\ conns_'[f].channel = 0 /\ epoll'[f] = "none" /\ tasks_' = <<>>
        /\ batch' = {} /\ \A t \in Threads : thread'[t].fd # f
    BY <1>1, <1>5, <1>6, ThreadsAssumption
  <2>2. /\ ~Live(f)' /\ ~Event(f)' /\ ~Queued(f)' /\ ~Armed(f)' /\ ~Handshaking(f)' /\ ~Expiring(f)'
        /\ Lone(f, Loop)'
    BY <1>3, <2>1 DEF Live, Event, Queued, Armed, Handshaking, Expiring, Lone
  <2>3. OwnerOK(f)'
    BY <1>7, <2>1, <2>2 DEF OwnerOK
  <2>4. QED
    BY <1>3, <2>1, <2>2, <2>3, Assemble
<1>9. OwnerInv'
  BY <1>1 DEF OwnerInv
<1>10. TimerInv'
  BY <1>1, <1>3 DEF IInv, TimerInv
<1>11. SocketInv'
  BY <1>1, <1>3, NewObjects DEF SocketInv
<1>12. TypeOK'
  <2>1. closed' \subseteq Ids
    BY <1>1, BoundsAssumption DEF IInv, TypeOK, Ids
  <2>2. channels' \in [Ids -> [recver : 0..MaxSends, sender : 0..MaxUnits]]
        /\ sock' \in [Ids -> [rx : 0..MaxSends, sent : 0..MaxSends, fin : BOOLEAN, full : BOOLEAN]]
    BY <1>1, NewObjects
  <2>3. /\ epoll' \in [Fds -> {"none", "off", "in", "out"}]
        /\ owner' \in [Fds -> 0..MaxAccepts]
    BY <1>1, BoundsAssumption
  <2>4. QED
    BY <1>1, <1>3, <1>6, <2>1, <2>2, <2>3 DEF IInv, TypeOK, ThreadState, Steps
<1>13. QED
  BY <1>4, <1>8, <1>9, <1>10, <1>11, <1>12 DEF IInv

LEMMA InitImpliesIInv == Init => IInv
<1> SUFFICES ASSUME Init PROVE IInv
  OBVIOUS
<1>1. /\ \A w \in Workers : thread[w] = Idle
      /\ thread[Loop] = AtEvents
      /\ \A t \in Threads : thread[t].fd = NoFd
  BY ThreadsAssumption DEF Init, Threads, Idle, AtEvents
<1>2. ThreadInv
  BY <1>1 DEF ThreadInv, Idle, AtEvents, WorkerStates, LoopStates, CloseStates
<1>3. TypeOK
  <2>1. AtEvents \in ThreadState /\ Idle \in ThreadState
    BY BoundsAssumption DEF AtEvents, Idle, ThreadState, LoopStates, WorkerStates, CloseStates
  <2>2. thread \in [Threads -> ThreadState]
    BY <2>1 DEF Init
  <2>3. channels \in [Ids -> [recver : 0..MaxSends, sender : 0..MaxUnits]]
        /\ sock \in [Ids -> [rx : 0..MaxSends, sent : 0..MaxSends, fin : BOOLEAN, full : BOOLEAN]]
    BY NewObjects DEF Init
  <2>4. conns_ \in [Fds -> [disconnected : BOOLEAN, keep_alive : BOOLEAN, channel : 0..MaxAccepts]]
    BY BoundsAssumption DEF Init
  <2>5. /\ epoll \in [Fds -> {"none", "off", "in", "out"}] /\ owner \in [Fds -> 0..MaxAccepts]
        /\ accepted \in 0..MaxAccepts /\ closed \subseteq Ids
    BY BoundsAssumption DEF Init
  <2>6. /\ alive_timer_ \in Seq(Fds) /\ tasks_ \in Seq([op : {"read", "write"}, fd : Fds, id : Ids])
        /\ batch = {} /\ quit_ \in BOOLEAN
    <3>1. alive_timer_ = <<>> /\ tasks_ = <<>> /\ batch = {} /\ quit_ = FALSE
      BY DEF Init
    <3>2. <<>> \in Seq(Fds) /\ <<>> \in Seq(Task)
      OBVIOUS
    <3>3. QED
      BY <3>1, <3>2 DEF Task
  <2>7. QED
    BY <2>2, <2>3, <2>4, <2>5, <2>6 DEF TypeOK, ThreadState
<1>4. ASSUME NEW f \in Fds PROVE Conn(f)
  <2>1. /\ owner[f] = 0 /\ conns_[f].channel = 0 /\ epoll[f] = "none" /\ accepted \in Nat
        /\ tasks_ = <<>> /\ batch = {} /\ \A t \in Threads : thread[t].fd # f
    BY <1>1, ThreadsAssumption DEF Init
  <2>2. QED
    BY <2>1, NothingAbout
<1>5. OwnerInv
  BY DEF Init, OwnerInv
<1>6. SocketInv
  BY <1>1, NewObjects DEF Init, SocketInv, AtEvents
<1>7. TimerInv
  BY <1>1 DEF Init, TimerInv, AtEvents
<1>8. QED
  BY <1>2, <1>3, <1>4, <1>5, <1>6, <1>7 DEF IInv

LEMMA NextPreservesIInv ==
    ASSUME TimelyHandlers, IInv, [Next]_vars
    PROVE  IInv'
<1>1. ASSUME UNCHANGED vars PROVE IInv'
  <2>1. \A f \in Fds : Conn(f)'
    <3>1. \A g \in Fds : SameTasks(g) /\ SameEvents(g) /\ SameConn(g) /\ SameThreads(g)
      BY <1>1, Untouched DEF vars, SameThreads
    <3>2. accepted' >= accepted /\ accepted' \in Nat
      BY <1>1 DEF vars, IInv, TypeOK
    <3>3. QED
      BY <3>1, <3>2, Frame
  <2>2. TypeOK' /\ ThreadInv'
    BY <1>1 DEF vars, IInv, TypeOK, ThreadInv
  <2>3. OwnerInv' /\ SocketInv' /\ TimerInv'
    BY <1>1 DEF vars, IInv, OwnerInv, SocketInv, TimerInv
  <2>4. QED
    BY <2>1, <2>2, <2>3 DEF IInv
<1>2. ASSUME NEW t \in Threads, handleConnectionClose(t) PROVE IInv'
  BY <1>2, CloseTestPreserves, CloseMarkPreserves, CloseDelPreserves, CloseFreePreserves
  DEF handleConnectionClose
<1>3. ASSUME LoopStep PROVE IInv'
  <2>1. CASE poll
    BY <2>1, PollPreserves DEF poll
  <2>2. CASE \E f \in Fds : handleServerAccept(f)
    BY <2>2, AcceptPreserves
  <2>3. CASE AcceptFails \/ handleWakeup \/ handleTimeout \/ TimerBreak
    BY <2>3, QuietEventsPreserve
  <2>4. CASE HandshakeDone \/ HandshakeFailed
    BY <2>4, HandshakeDonePreserves, HandshakeFailedPreserves
  <2>5. CASE \E op \in {"read", "write"}, f \in Fds : handleConnectionReadWrite(op, f)
    BY <2>5, ReadWritePreserves
  <2>6. CASE \E f \in Fds : handleClose(f)
    BY <2>6, ClosePreserves
  <2>7. CASE TimerExpired \/ TimerPop
    BY <2>7, TimerExpiredPreserves, TimerPopPreserves
  <2>8. CASE handleConnectionClose(Loop)
    BY <1>2, <2>8 DEF Threads
  <2>9. CASE Destroy
    BY <2>9, DestroyPreserves
  <2>10. QED
    BY <1>3, <2>1, <2>2, <2>3, <2>4, <2>5, <2>6, <2>7, <2>8, <2>9 DEF LoopStep
<1>4. ASSUME NEW w \in Workers, WorkerStep(w) PROVE IInv'
  <2>1. CASE Take(w) \/ ReadAgain(w) \/ Message(w) \/ Rearm(w) \/ WriteAgain(w)
    BY <2>1, TakePreserves, ReadAgainPreserves, MessagePreserves, RearmPreserves, WriteAgainPreserves
  <2>2. CASE handleConnectionClose(w)
    BY <1>2, <2>2 DEF Threads
  <2>3. QED
    BY <1>4, <2>1, <2>2 DEF WorkerStep
<1>5. ASSUME PeerStep PROVE IInv'
  BY <1>5, PeerPreserves DEF PeerStep
<1>6. QED
  BY <1>1, <1>3, <1>4, <1>5 DEF Next
-----------------------------------------------------------------------------
(* A set whose elements are all equal has one at most. *)
LEMMA AtMostOne ==
    ASSUME NEW S, \A x, y \in S : x = y
    PROVE  Cardinality(S) <= 1 /\ (S # {} => Cardinality(S) = 1)
<1>1. CASE S = {}
  BY <1>1, FS_EmptySet
<1>2. ASSUME NEW x \in S PROVE Cardinality(S) = 1
  <2>1. S = {x}
    OBVIOUS
  <2>2. QED
    BY <2>1, FS_Singleton
<1>3. QED
  BY <1>1, <1>2

LEMMA IInvImpliesOneHolder == IInv => OneHolder
<1> SUFFICES ASSUME IInv, NEW f \in Fds
             PROVE  /\ Live(f) => Cardinality(Holders(f)) = 1
                    /\ conns_[f].channel # 0 => Cardinality(Holders(f)) <= 1
  BY DEF OneHolder
<1>1. HolderOK(f)
  BY DEF IInv, Conn
<1>2. \A x \in Holders(f) :
        \/ x = <<"armed", f>> /\ Armed(f)
        \/ \E e \in batch : x = <<"event", e.op>> /\ e.fd = f
        \/ \E k \in 1..Len(tasks_) : x = <<"task", k>> /\ tasks_[k].fd = f
        \/ \E t \in Threads : x = <<"thread", t>> /\ thread[t].fd = f /\ thread[t].op # "timer"
  BY DEF Holders, Armed
<1>3. \A x, y \in Holders(f) : x = y
  <2>1. \A x \in Holders(f) :
          /\ Armed(f) => x = <<"armed", f>>
          /\ \A e \in batch : e.fd = f => x = <<"event", e.op>>
          /\ \A k \in 1..Len(tasks_) : tasks_[k].fd = f => x = <<"task", k>>
          /\ \A t \in Threads : thread[t].fd = f /\ thread[t].op # "timer" => x = <<"thread", t>>
    BY <1>1, <1>2 DEF HolderOK, Excludes, Event, Queued, Held
  <2>2. QED
    BY <1>2, <2>1
<1>4. Live(f) => Holders(f) # {}
  <2>1. Armed(f) => <<"armed", f>> \in Holders(f)
    BY DEF Armed, Holders
  <2>2. Event(f) => Holders(f) # {}
    BY DEF Event, Holders
  <2>3. Queued(f) => Holders(f) # {}
    BY DEF Queued, Holders
  <2>4. Held(f) => Holders(f) # {}
    BY DEF Held, Holders
  <2>5. QED
    BY <1>1, <2>1, <2>2, <2>3, <2>4 DEF HolderOK
<1>5. QED
  BY <1>3, <1>4, AtMostOne

LEMMA IInvImpliesChannelAlive == IInv => ChannelAlive
<1> SUFFICES ASSUME IInv PROVE ChannelAlive
  OBVIOUS
<1>1. ASSUME NEW k \in 1..Len(tasks_) PROVE conns_[tasks_[k].fd].channel = tasks_[k].id
  <2>1. PICK f \in Fds : f = tasks_[k].fd
    <3>1. tasks_[k] \in Task
      BY States
    <3>2. QED
      BY <3>1 DEF Task
  <2>2. QED
    BY <2>1 DEF IInv, Conn, LiveOK
<1>2. ASSUME NEW t \in Threads, thread[t].pc \in (WorkerStates \ {"idle", "closeTest"})
      PROVE  conns_[thread[t].fd].channel = thread[t].id /\ owner[thread[t].fd] = thread[t].id
  <2>1. thread[t].pc \in LivePcs \cup GonePcs /\ thread[t].pc # "closeTest"
    BY <1>2 DEF LivePcs, GonePcs, WorkerStates, CloseStates
  <2>2. PICK f \in Fds : f = thread[t].fd
    BY <2>1, States
  <2>3. Conn(f) /\ UserOK(t, f)
    BY <2>2 DEF IInv, Conn, LiveOK
  <2>4. conns_[f].channel = thread[t].id /\ conns_[f].channel # 0
    BY <2>1, <2>3 DEF UserOK, Live
  <2>5. owner[f] = conns_[f].channel
    BY <2>3, <2>4 DEF Conn, OwnerOK
  <2>6. QED
    BY <2>2, <2>4, <2>5
<1>3. QED
  BY <1>1, <1>2 DEF ChannelAlive

LEMMA IInvImpliesTimerCovers == IInv => TimerCovers
<1> SUFFICES ASSUME IInv, NEW f \in Fds
             PROVE  LET n == Cardinality({k \in 1..Len(alive_timer_) : alive_timer_[k] = f}) IN
                    n <= 1 /\ (Live(f) => n = 1)
  BY DEF TimerCovers
<1> DEFINE S == {k \in 1..Len(alive_timer_) : alive_timer_[k] = f}
<1>1. \A j, k \in S : j = k
  BY DEF IInv, TimerInv
<1>2. Live(f) => S # {}
  BY DEF IInv, Conn, TimerOK, HasTimer
<1> HIDE DEF S
<1>3. Cardinality(S) <= 1 /\ (S # {} => Cardinality(S) = 1)
  BY <1>1, AtMostOne
<1>4. QED
  BY <1>2, <1>3 DEF S

LEMMA IInvImpliesTimerClosesOnlyIdle == IInv => TimerClosesOnlyIdle
<1> SUFFICES ASSUME IInv, thread[Loop].op = "timer", thread[Loop].pc \in CloseStates, NEW w \in Workers
             PROVE  thread[w].fd # thread[Loop].fd
  BY DEF TimerClosesOnlyIdle
<1>1. Loop \in Threads /\ w \in Threads
  BY DEF Threads
<1>2. PICK d \in Fds : d = thread[Loop].fd /\ Conn(d) /\ Expiring(d)
  BY <1>1, Closing
<1>3. ~Held(d)
  BY <1>2 DEF Conn, TimerOK
<1>4. thread[w].op # "timer"
  BY DEF IInv, ThreadInv
<1>5. QED
  BY <1>1, <1>2, <1>3, <1>4 DEF Held
-----------------------------------------------------------------------------
(***************************************************************************)
(* Invariance: IInv holds in every state the server reaches, if no event   *)
(* waits or is handled for longer than idle_timeout_ (TcpServer.cc         *)
(* 113-228, TimerQueue.cc 44-59).                                          *)
(***************************************************************************)
THEOREM Invariance ==
    ASSUME TimelyHandlers
    PROVE  Spec => []IInv
<1>1. IInv /\ [Next]_vars => IInv'
  BY NextPreservesIInv
<1>2. QED
  BY InitImpliesIInv, <1>1, PTL DEF Spec

(* TypeCorrect: the state of the loop, the pool, the timer and the kernel stays well-formed. *)
THEOREM TypeCorrect ==
    ASSUME TimelyHandlers
    PROVE  Spec => []TypeOK
<1>1. IInv => TypeOK
  BY DEF IInv
<1>2. QED
  BY <1>1, Invariance, PTL

(***************************************************************************)
(* OneHolderAlways: the EPOLLONESHOT protocol of TcpServer.cc 142-228      *)
(* keeps every live connection in exactly one place, for any number of     *)
(* descriptors, workers and connections.                                   *)
(***************************************************************************)
THEOREM OneHolderAlways ==
    ASSUME TimelyHandlers
    PROVE  Spec => []OneHolder
BY IInvImpliesOneHolder, Invariance, PTL

(***************************************************************************)
(* ChannelAliveAlways: onRead(), onWrite() and handleConnectionClose()     *)
(* (TcpServer.cc 170-228) never work on a freed channel or on the channel  *)
(* of a later connection with the same descriptor number.                  *)
(***************************************************************************)
THEOREM ChannelAliveAlways ==
    ASSUME TimelyHandlers
    PROVE  Spec => []ChannelAlive
BY IInvImpliesChannelAlive, Invariance, PTL

(***************************************************************************)
(* TimerCoversAlways: every live connection has one alive timer, though    *)
(* the timers of closed connections stay behind and their descriptor       *)
(* numbers are used again (TcpServer.cc 137-168).                          *)
(***************************************************************************)
THEOREM TimerCoversAlways ==
    ASSUME TimelyHandlers
    PROVE  Spec => []TimerCovers
BY IInvImpliesTimerCovers, Invariance, PTL

(***************************************************************************)
(* TimerClosesOnlyIdleAlways: with timely handlers the alive timer closes  *)
(* a connection only while no worker has it (TimerQueue.cc 44-59).         *)
(***************************************************************************)
THEOREM TimerClosesOnlyIdleAlways ==
    ASSUME TimelyHandlers
    PROVE  Spec => []TimerClosesOnlyIdle
BY IInvImpliesTimerClosesOnlyIdle, Invariance, PTL
=============================================================================
