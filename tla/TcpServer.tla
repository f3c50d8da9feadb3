----------------------------- MODULE TcpServer ------------------------------
(***************************************************************************)
(* The life of connections in soc/net/src/TcpServer.cc: one event-loop     *)
(* thread (epoll, accept, idle timer) and the pool workers that run onRead *)
(* and onWrite, all of them working on the TcpConnection objects of conns_ *)
(* without a lock.  What keeps them apart is EPOLLONESHOT: a connection    *)
(* whose event was reported is silent until a worker re-arms it.           *)
(*                                                                         *)
(* A file descriptor is a number the kernel hands out again as soon as it  *)
(* is closed, so every accepted connection also has an identity 1, 2, ...  *)
(* Tasks and threads carry the identity they were started for (a history   *)
(* value: the code only has the pointer &conns_[fd]).                      *)
(*                                                                         *)
(* The pool is its FIFO queue (module ThreadPool shows that add() leads to *)
(* one execution).  The heap of TimerHeap is the sequence of its timers by *)
(* deadline: all deadlines are "now + idle_timeout_" of one clock, so a    *)
(* pushed or adjusted timer is the last one to expire.  A chunk is what    *)
(* the peer sends at a time; a unit is what the kernel takes at a time of  *)
(* a response.                                                             *)
(***************************************************************************)
EXTENDS Naturals, Sequences, FiniteSets

CONSTANTS Fds,             \* the descriptor numbers the kernel can hand out
          NoFd,            \* no descriptor
          Workers,         \* the threads of the pool
          Loop,            \* the event-loop thread
          MaxAccepts,      \* bound: connections accepted in a behaviour
          MaxSends,        \* bound: chunks each peer sends
          MaxUnits,        \* bound: units of a response
          Https,           \* the configuration value enable_https
          TimelyHandlers   \* TRUE: no event waits or is handled for longer than idle_timeout_

ASSUME ThreadsAssumption == Loop \notin Workers /\ NoFd \notin Fds
ASSUME BoundsAssumption == /\ MaxAccepts \in Nat
                           /\ MaxSends \in Nat
                           /\ MaxUnits \in Nat \ {0}
                           /\ Https \in BOOLEAN /\ TimelyHandlers \in BOOLEAN

VARIABLES conns_,        \* the TcpConnection objects, by descriptor
          channels,      \* the recver_ and sender_ of each connection's channel
          epoll,         \* the interest of the epoll instance in each descriptor
          owner,         \* kernel: the connection whose socket has the descriptor (0: free)
          sock,          \* kernel: the socket of each connection
          accepted,      \* number of connections accepted so far
          closed,        \* the connections whose descriptor was closed
          alive_timer_,  \* the descriptors with a timer, by deadline
          tasks_,        \* the queue of the pool
          batch,         \* the events of the last epoll_wait() not handled yet
          quit_,         \* the loop was told to stop
          thread         \* what each thread is doing

vars == <<conns_, channels, epoll, owner, sock, accepted, closed, alive_timer_,
          tasks_, batch, quit_, thread>>
kernel == <<owner, sock, accepted, closed>>

Threads == Workers \cup {Loop}
Ids == 1..MaxAccepts

CloseStates == {"closeTest", "closeMark", "closeDel", "closeFree"}
LoopStates == {"events", "handshake", "timer", "pop", "stopped"} \cup CloseStates
WorkerStates == {"idle", "read", "message", "write", "rearmIn", "rearmOut"} \cup CloseStates

Idle == [pc |-> "idle", op |-> "none", fd |-> NoFd, id |-> 0]
AtEvents == [pc |-> "events", op |-> "none", fd |-> NoFd, id |-> 0]

NewChannel == [recver |-> 0, sender |-> 0]
NewSocket == [rx |-> 0, sent |-> 0, fin |-> FALSE, full |-> FALSE]

Init == /\ conns_ = [f \in Fds |-> [disconnected |-> FALSE, keep_alive |-> FALSE, channel |-> 0]]
        /\ channels = [i \in Ids |-> NewChannel]
        /\ epoll = [f \in Fds |-> "none"]
        /\ owner = [f \in Fds |-> 0]
        /\ sock = [i \in Ids |-> NewSocket]
        /\ accepted = 0
        /\ closed = {}
        /\ alive_timer_ = <<>>
        /\ tasks_ = <<>>
        /\ batch = {}
        /\ quit_ = FALSE
        /\ thread = [t \in Threads |-> IF t = Loop THEN AtEvents ELSE Idle]

(* Control of thread t moves to p. *)
Goto(t, p) == [thread EXCEPT ![t].pc = p]
-----------------------------------------------------------------------------
(***************************************************************************)
(* The peers and the kernel.                                               *)
(***************************************************************************)
Open(i) == \E f \in Fds : owner[f] = i

PeerSend(i) == /\ Open(i) /\ ~sock[i].fin /\ sock[i].sent < MaxSends
               /\ sock' = [sock EXCEPT ![i].rx = @ + 1, ![i].sent = @ + 1]
               /\ UNCHANGED <<conns_, channels, epoll, owner, accepted, closed,
                              alive_timer_, tasks_, batch, quit_, thread>>

(* The peer closes its side or resets the connection. *)
PeerClose(i) == /\ Open(i) /\ ~sock[i].fin
                /\ sock' = [sock EXCEPT ![i].fin = TRUE]
                /\ UNCHANGED <<conns_, channels, epoll, owner, accepted, closed,
                               alive_timer_, tasks_, batch, quit_, thread>>

(* The peer reads, so the socket's send buffer has room again. *)
PeerDrain(i) == /\ Open(i) /\ sock[i].full
                /\ sock' = [sock EXCEPT ![i].full = FALSE]
                /\ UNCHANGED <<conns_, channels, epoll, owner, accepted, closed,
                               alive_timer_, tasks_, batch, quit_, thread>>

(* close(f): the number is free again. *)
CloseSocket(f) == /\ owner' = [owner EXCEPT ![f] = 0]
                  /\ closed' = closed \cup {owner[f]}
                  /\ sock' = [sock EXCEPT ![owner[f]] = NewSocket]

(* What epoll reports of an armed descriptor, and the callback poll() picks for it. *)
Reported(f) == LET s == sock[owner[f]] IN
    CASE epoll[f] \in {"in", "out"} /\ s.fin       -> {"close"}
      [] epoll[f] = "in" /\ ~s.fin /\ s.rx > 0     -> {"read"}
      [] epoll[f] = "out" /\ ~s.fin /\ ~s.full     -> {"write"}
      [] OTHER                                     -> {}

ConnEvents == [op : {"read", "write", "close"}, fd : Fds]
ListenEvent == [op |-> "accept", fd |-> NoFd]
TimerEvent == [op |-> "timer", fd |-> NoFd]
WakeEvent == [op |-> "wakeup", fd |-> NoFd]

(* A faulty variant of Poll, not used by Next: epoll without EPOLLONESHOT. *)
PollWithoutOneshot(others) ==
    LET ready == {e \in ConnEvents : e.op \in Reported(e.fd)} IN
    /\ thread[Loop].pc = "events" /\ batch = {} /\ ~quit_
    /\ ListenEvent \in others => accepted < MaxAccepts
    /\ others \cup ready # {}
    /\ batch' = others \cup ready
    /\ UNCHANGED <<conns_, channels, epoll, kernel, alive_timer_, tasks_, quit_, thread>>

(***************************************************************************)
(* epoll_wait(): the listening socket, the timer and the event descriptor  *)
(* may be ready at any time; EPOLLONESHOT disarms what is reported.        *)
(***************************************************************************)
Poll(others) ==
    LET ready == {e \in ConnEvents : e.op \in Reported(e.fd)} IN
    /\ thread[Loop].pc = "events" /\ batch = {} /\ ~quit_
    /\ ListenEvent \in others => accepted < MaxAccepts
    /\ others \cup ready # {}
    /\ batch' = others \cup ready
    /\ epoll' = [f \in Fds |-> IF \E e \in ready : e.fd = f THEN "off" ELSE epoll[f]]
    /\ UNCHANGED <<conns_, channels, kernel, alive_timer_, tasks_, quit_, thread>>

poll == \E others \in SUBSET {ListenEvent, TimerEvent, WakeEvent} : Poll(others)
PollTimer == \E others \in SUBSET {ListenEvent, WakeEvent} : Poll(others \cup {TimerEvent})

(* The loop takes the next event of the batch. *)
Handle(op, f) == /\ thread[Loop].pc = "events"
                 /\ [op |-> op, fd |-> f] \in batch
                 /\ batch' = batch \ {[op |-> op, fd |-> f]}
-----------------------------------------------------------------------------
(***************************************************************************)
(* The alive timer as a sequence ordered by deadline: a timer that is set  *)
(* goes to the end, and leaves the place it had.                           *)
(***************************************************************************)
HasTimer(f) == \E k \in 1..Len(alive_timer_) : alive_timer_[k] = f
PlaceOf(f) == CHOOSE k \in 1..Len(alive_timer_) : alive_timer_[k] = f
Without(s, k) == [j \in 1..(Len(s) - 1) |-> s[IF j < k THEN j ELSE j + 1]]

TimerAdd(f) == Append(IF HasTimer(f) THEN Without(alive_timer_, PlaceOf(f)) ELSE alive_timer_, f)
TimerAdjust(f) == IF HasTimer(f) THEN TimerAdd(f) ELSE alive_timer_

(* Work that was started for the connection of descriptor f and not finished. *)
Busy(f) == \/ \E k \in 1..Len(tasks_) : tasks_[k].fd = f
           \/ \E w \in Workers : thread[w].fd = f
           \/ \E e \in batch : e.fd = f

-----------------------------------------------------------------------------
(***************************************************************************)
(* Faulty variants of actions defined below.  Next does not use them: each *)
(* is a plausible mistake in the code that a property must reject.         *)
(***************************************************************************)
ConnectedWithoutTimer(f, i) ==
    /\ conns_' = [conns_ EXCEPT ![f] = [disconnected |-> FALSE, keep_alive |-> FALSE, channel |-> i]]
    /\ epoll' = [epoll EXCEPT ![f] = "in"]
    /\ UNCHANGED alive_timer_

PopNothing == /\ thread[Loop].pc = "pop"
              /\ thread' = Goto(Loop, "timer")
              /\ UNCHANGED <<conns_, channels, epoll, kernel, alive_timer_, tasks_, batch, quit_>>

FreeAndKeepRunning(t) ==
    LET f == thread[t].fd IN
    /\ thread[t].pc = "closeFree"
    /\ thread' = Goto(t, IF t = Loop THEN "events" ELSE "rearmIn")
    /\ conns_' = [conns_ EXCEPT ![f].channel = 0]
    /\ epoll' = [epoll EXCEPT ![f] = "none"]
    /\ CloseSocket(f)
    /\ UNCHANGED <<channels, accepted, alive_timer_, tasks_, batch, quit_>>
-----------------------------------------------------------------------------
(***************************************************************************)
(* handleServerAccept() and handleConnected(): one connection per event.   *)
(* With https the handshake comes first, on the loop thread and on a       *)
(* descriptor that is still blocking; when it fails the channel is deleted.*)
(***************************************************************************)
handleConnected(f, i) ==
    /\ conns_' = [conns_ EXCEPT ![f] = [disconnected |-> FALSE, keep_alive |-> FALSE, channel |-> i]]
    /\ epoll' = [epoll EXCEPT ![f] = "in"]
    /\ alive_timer_' = TimerAdd(f)

handleServerAccept(f) ==
    /\ Handle("accept", NoFd)
    /\ owner[f] = 0
    /\ accepted' = accepted + 1
    /\ owner' = [owner EXCEPT ![f] = accepted + 1]
    /\ IF Https
       THEN /\ thread' = [thread EXCEPT ![Loop] =
                            [pc |-> "handshake", op |-> "accept", fd |-> f, id |-> accepted + 1]]
            /\ UNCHANGED <<conns_, epoll, alive_timer_>>
       ELSE handleConnected(f, accepted + 1) /\ UNCHANGED thread
    /\ UNCHANGED <<channels, sock, closed, tasks_, quit_>>

(* accept() returns no descriptor: every number is in use. *)
AcceptFails == /\ Handle("accept", NoFd)
               /\ \A f \in Fds : owner[f] # 0
               /\ UNCHANGED <<conns_, channels, epoll, kernel, alive_timer_, tasks_, quit_, thread>>

(* ssl_->accept() returns when the peer has answered or is gone. *)
HandshakeDone == LET f == thread[Loop].fd  i == thread[Loop].id IN
    /\ thread[Loop].pc = "handshake"
    /\ sock[i].rx > 0
    /\ handleConnected(f, i)
    /\ sock' = [sock EXCEPT ![i].rx = 0]
    /\ thread' = [thread EXCEPT ![Loop] = AtEvents]
    /\ UNCHANGED <<channels, owner, accepted, closed, tasks_, batch, quit_>>

HandshakeFailed == LET f == thread[Loop].fd  i == thread[Loop].id IN
    /\ thread[Loop].pc = "handshake"
    /\ sock[i].fin
    /\ CloseSocket(f)
    /\ thread' = [thread EXCEPT ![Loop] = AtEvents]
    /\ UNCHANGED <<conns_, channels, epoll, accepted, alive_timer_, tasks_, batch, quit_>>

(***************************************************************************)
(* handleConnectionRead() and handleConnectionWrite(): postpone the idle   *)
(* timer and give the connection to the pool.                              *)
(***************************************************************************)
handleConnectionReadWrite(op, f) ==
    /\ Handle(op, f)
    /\ IF conns_[f].disconnected \/ conns_[f].channel = 0
       THEN UNCHANGED <<tasks_, alive_timer_>>
       ELSE /\ tasks_' = Append(tasks_, [op |-> op, fd |-> f, id |-> conns_[f].channel])
            /\ alive_timer_' = TimerAdjust(f)
    /\ UNCHANGED <<conns_, channels, epoll, kernel, quit_, thread>>

handleClose(f) ==
    /\ Handle("close", f)
    /\ thread' = [thread EXCEPT ![Loop] =
                    [pc |-> "closeTest", op |-> "close", fd |-> f, id |-> conns_[f].channel]]
    /\ UNCHANGED <<conns_, channels, epoll, kernel, alive_timer_, tasks_, quit_>>

handleWakeup == /\ Handle("wakeup", NoFd)
                /\ quit_' = TRUE
                /\ UNCHANGED <<conns_, channels, epoll, kernel, alive_timer_, tasks_, thread>>

(***************************************************************************)
(* TimerQueue::handleTimeout(): while the first timer has expired, run its *)
(* callback (handleConnectionClose) and pop.  How much time has passed is  *)
(* not known to the model, except that it exceeds the handling of an event *)
(* if TimelyHandlers.                                                      *)
(***************************************************************************)
handleTimeout == /\ Handle("timer", NoFd)
                 /\ thread' = [thread EXCEPT ![Loop] = [@ EXCEPT !.pc = "timer", !.op = "timer"]]
                 /\ UNCHANGED <<conns_, channels, epoll, kernel, alive_timer_, tasks_, quit_>>

TimerExpired ==
    /\ thread[Loop].pc = "timer"
    /\ alive_timer_ # <<>>
    /\ LET f == Head(alive_timer_) IN
       /\ TimelyHandlers => ~Busy(f)
       /\ thread' = [thread EXCEPT ![Loop] =
                       [@ EXCEPT !.pc = "closeTest", !.fd = f, !.id = conns_[f].channel]]
    /\ UNCHANGED <<conns_, channels, epoll, kernel, alive_timer_, tasks_, batch, quit_>>

TimerPop == /\ thread[Loop].pc = "pop"
            /\ alive_timer_' = Tail(alive_timer_)
            /\ thread' = [thread EXCEPT ![Loop] = [AtEvents EXCEPT !.pc = "timer", !.op = "timer"]]
            /\ UNCHANGED <<conns_, channels, epoll, kernel, tasks_, batch, quit_>>

TimerBreak == /\ thread[Loop].pc = "timer"
              /\ thread' = [thread EXCEPT ![Loop] = AtEvents]
              /\ UNCHANGED <<conns_, channels, epoll, kernel, alive_timer_, tasks_, batch, quit_>>

(***************************************************************************)
(* handleConnectionClose(), executed by the loop for a close event or an   *)
(* expired timer and by a worker at the end of onRead or onWrite.          *)
(***************************************************************************)
CloseReturn(t) == thread' = [thread EXCEPT ![t] =
                     CASE t # Loop                    -> Idle
                       [] t = Loop /\ @.op = "timer"  -> [@ EXCEPT !.pc = "pop"]
                       [] t = Loop /\ @.op # "timer"  -> AtEvents]

CloseTest(t) == LET c == conns_[thread[t].fd] IN
    /\ thread[t].pc = "closeTest"
    /\ IF c.disconnected \/ c.channel = 0 THEN CloseReturn(t)
                                          ELSE thread' = Goto(t, "closeMark")
    /\ UNCHANGED <<conns_, channels, epoll, kernel, alive_timer_, tasks_, batch, quit_>>

CloseMark(t) == /\ thread[t].pc = "closeMark"
                /\ conns_' = [conns_ EXCEPT ![thread[t].fd].disconnected = TRUE]
                /\ thread' = Goto(t, "closeDel")
                /\ UNCHANGED <<channels, epoll, kernel, alive_timer_, tasks_, batch, quit_>>

CloseDel(t) == /\ thread[t].pc = "closeDel"
               /\ epoll' = [epoll EXCEPT ![thread[t].fd] = "none"]
               /\ thread' = Goto(t, "closeFree")
               /\ UNCHANGED <<conns_, channels, kernel, alive_timer_, tasks_, batch, quit_>>

(* setChannel(nullptr) destroys the channel, and with it closes the descriptor. *)
CloseFree(t) == LET f == thread[t].fd IN
    /\ thread[t].pc = "closeFree"
    /\ CloseReturn(t)
    /\ IF conns_[f].channel = 0
       THEN UNCHANGED <<conns_, channels, owner, sock, closed, epoll>>
       ELSE /\ conns_' = [conns_ EXCEPT ![f].channel = 0]
            /\ channels' = [channels EXCEPT ![conns_[f].channel] = NewChannel]
            /\ epoll' = [epoll EXCEPT ![f] = "none"]
            /\ CloseSocket(f)
    /\ UNCHANGED <<accepted, alive_timer_, tasks_, batch, quit_>>

handleConnectionClose(t) == CloseTest(t) \/ CloseMark(t) \/ CloseDel(t) \/ CloseFree(t)
-----------------------------------------------------------------------------
(***************************************************************************)
(* The workers.  A step that uses the channel is possible only while there *)
(* is one: ChannelAlive is what makes the code never dereference a freed   *)
(* channel.                                                                *)
(***************************************************************************)
Take(w) == /\ thread[w].pc = "idle"
           /\ tasks_ # <<>>
           /\ LET k == Head(tasks_) IN
              thread' = [thread EXCEPT ![w] = [pc |-> k.op, op |-> k.op, fd |-> k.fd, id |-> k.id]]
           /\ tasks_' = Tail(tasks_)
           /\ UNCHANGED <<conns_, channels, epoll, kernel, alive_timer_, batch, quit_>>

(***************************************************************************)
(* onRead(), first part: read until nothing is left.  At the end of the    *)
(* stream read() returns 0 and leaves errno as it was, so the test for     *)
(* EAGAIN has either outcome.                                              *)
(***************************************************************************)
ReadAgain(w) == LET i == conns_[thread[w].fd].channel IN
    /\ thread[w].pc = "read"
    /\ i # 0
    /\ channels' = [channels EXCEPT ![i].recver = @ + sock[i].rx]
    /\ sock' = [sock EXCEPT ![i].rx = 0]
    /\ \E again \in IF sock[i].fin THEN BOOLEAN ELSE {TRUE} :
         thread' = Goto(w, CASE ~again                                -> "closeTest"
                             [] again /\ channels'[i].recver = 0      -> "rearmIn"
                             [] again /\ channels'[i].recver # 0      -> "message")
    /\ UNCHANGED <<conns_, epoll, owner, accepted, closed, alive_timer_, tasks_, batch, quit_>>

(***************************************************************************)
(* onRead(), second part: msg_cb_ asks for more data, or has consumed the  *)
(* request and left a response in the channel, after setting keep_alive_.  *)
(***************************************************************************)
Message(w) == LET f == thread[w].fd  i == conns_[f].channel IN
    /\ thread[w].pc = "message"
    /\ i # 0
    /\ \/ thread' = Goto(w, "rearmIn") /\ UNCHANGED <<conns_, channels>>
       \/ \E on \in BOOLEAN, units \in 1..MaxUnits :
            /\ conns_' = [conns_ EXCEPT ![f].keep_alive = on]
            /\ channels' = [channels EXCEPT ![i] = [recver |-> 0, sender |-> units]]
            /\ thread' = Goto(w, "rearmOut")
    /\ UNCHANGED <<epoll, kernel, alive_timer_, tasks_, batch, quit_>>

(* updateEvent(): EPOLL_CTL_MOD, which fails if the descriptor is not registered. *)
Rearm(w) == LET f == thread[w].fd IN
    /\ thread[w].pc \in {"rearmIn", "rearmOut"}
    /\ epoll' = [epoll EXCEPT ![f] = CASE epoll[f] = "none" -> "none"
                                       [] epoll[f] # "none" /\ thread[w].pc = "rearmIn" -> "in"
                                       [] epoll[f] # "none" /\ thread[w].pc = "rearmOut" -> "out"]
    /\ thread' = [thread EXCEPT ![w] = Idle]
    /\ UNCHANGED <<conns_, channels, kernel, alive_timer_, tasks_, batch, quit_>>

(* How many of n units the kernel takes from one pass of TcpConnection::write(). *)
Takes(s, n) == CASE n = 0 \/ s.full               -> {0}
                 [] n > 0 /\ ~s.full /\ s.fin     -> 0..n
                 [] n > 0 /\ ~s.full /\ ~s.fin    -> 1..n

(***************************************************************************)
(* onWrite(): when all is sent, reset the channel and wait for the next    *)
(* request or close; every failed write is tried again on EPOLLOUT, since  *)
(* writeAgain() hands out the error code in the place of "again".          *)
(***************************************************************************)
WriteAgain(w) == LET f == thread[w].fd  i == conns_[f].channel IN
    /\ thread[w].pc = "write"
    /\ i # 0
    /\ \E n \in Takes(sock[i], channels[i].sender) :
         \/ /\ n = channels[i].sender
            /\ channels' = [channels EXCEPT ![i] = NewChannel]
            /\ thread' = Goto(w, IF conns_[f].keep_alive THEN "rearmIn" ELSE "closeTest")
            /\ UNCHANGED sock
         \/ /\ n < channels[i].sender
            /\ channels' = [channels EXCEPT ![i].sender = @ - n]
            /\ sock' = [sock EXCEPT ![i].full = TRUE]
            /\ thread' = Goto(w, "rearmOut")
    /\ UNCHANGED <<conns_, epoll, owner, accepted, closed, alive_timer_, tasks_, batch, quit_>>
-----------------------------------------------------------------------------
(***************************************************************************)
(* start() returns; the static pool is destroyed first, which drains the   *)
(* queue and joins the workers; then ~TcpServer() destroys the channels.   *)
(***************************************************************************)
Destroy == /\ thread[Loop].pc = "events" /\ batch = {} /\ quit_
           /\ tasks_ = <<>> /\ \A w \in Workers : thread[w].pc = "idle"
           /\ thread' = Goto(Loop, "stopped")
           /\ epoll' = [f \in Fds |-> "none"]
           /\ conns_' = [f \in Fds |-> [conns_[f] EXCEPT !.channel = 0]]
           /\ owner' = [f \in Fds |-> 0]
           /\ closed' = closed \cup ({owner[f] : f \in Fds} \ {0})
           /\ channels' = [i \in Ids |-> NewChannel]
           /\ sock' = [i \in Ids |-> NewSocket]
           /\ UNCHANGED <<accepted, alive_timer_, tasks_, batch, quit_>>

LoopStep == \/ poll
            \/ \E f \in Fds : handleServerAccept(f)
            \/ AcceptFails \/ HandshakeDone \/ HandshakeFailed
            \/ \E op \in {"read", "write"}, f \in Fds : handleConnectionReadWrite(op, f)
            \/ \E f \in Fds : handleClose(f)
            \/ handleWakeup
            \/ handleTimeout \/ TimerExpired \/ TimerPop \/ TimerBreak
            \/ handleConnectionClose(Loop)
            \/ Destroy

WorkerStep(w) == \/ Take(w)
                 \/ ReadAgain(w) \/ Message(w) \/ Rearm(w) \/ WriteAgain(w)
                 \/ handleConnectionClose(w)

PeerStep == \E i \in Ids : PeerSend(i) \/ PeerClose(i) \/ PeerDrain(i)

Next == LoopStep \/ (\E w \in Workers : WorkerStep(w)) \/ PeerStep

Spec == Init /\ [][Next]_vars

(***************************************************************************)
(* The threads keep running, the timer descriptor keeps becoming readable  *)
(* (it is periodic), and a timer that is never postponed expires, because  *)
(* the clock advances.  Nothing is assumed of the peers.                   *)
(***************************************************************************)
Fairness == /\ WF_vars(LoopStep)
            /\ SF_vars(PollTimer)
            /\ SF_vars(TimerExpired)
            /\ \A w \in Workers : WF_vars(WorkerStep(w))

FairSpec == Spec /\ Fairness
-----------------------------------------------------------------------------
TypeOK ==
    /\ conns_ \in [Fds -> [disconnected : BOOLEAN, keep_alive : BOOLEAN, channel : 0..MaxAccepts]]
    /\ channels \in [Ids -> [recver : 0..MaxSends, sender : 0..MaxUnits]]
    /\ epoll \in [Fds -> {"none", "off", "in", "out"}]
    /\ owner \in [Fds -> 0..MaxAccepts]
    /\ sock \in [Ids -> [rx : 0..MaxSends, sent : 0..MaxSends, fin : BOOLEAN, full : BOOLEAN]]
    /\ accepted \in 0..MaxAccepts
    /\ closed \subseteq Ids
    /\ alive_timer_ \in Seq(Fds)
    /\ tasks_ \in Seq([op : {"read", "write"}, fd : Fds, id : Ids])
    /\ batch \subseteq ConnEvents \cup {ListenEvent, TimerEvent, WakeEvent}
    /\ quit_ \in BOOLEAN
    /\ thread \in [Threads -> [pc : LoopStates \cup WorkerStates,
                               op : {"none", "read", "write", "close", "timer", "accept"},
                               fd : Fds \cup {NoFd}, id : 0..MaxAccepts]]

Live(f) == conns_[f].channel # 0 /\ ~conns_[f].disconnected

(* Everything that can lead a thread into the connection of descriptor f. *)
Holders(f) ==
    ({<<"armed", f>>} \cap {<<"armed", g>> : g \in {h \in Fds : epoll[h] \in {"in", "out"}}})
    \cup {<<"event", e.op>> : e \in {x \in batch : x.fd = f}}
    \cup {<<"task", k>> : k \in {j \in 1..Len(tasks_) : tasks_[j].fd = f}}
    \cup {<<"thread", t>> : t \in {u \in Threads : thread[u].fd = f /\ thread[u].op # "timer"}}

(***************************************************************************)
(* OneHolder: a live connection is in exactly one place: armed in epoll,   *)
(* reported in the current batch, queued as a task, or in the hands of one *)
(* thread.  Two places would let two threads use it at once; none would    *)
(* leave it unserved (the EPOLLONESHOT protocol of TcpServer.cc 142-228).  *)
(***************************************************************************)
OneHolder == \A f \in Fds :
    /\ Live(f) => Cardinality(Holders(f)) = 1
    /\ conns_[f].channel # 0 => Cardinality(Holders(f)) <= 1

(***************************************************************************)
(* ChannelAlive: whoever is about to use or close a connection finds the   *)
(* channel it was started for: not freed, and not the channel of a later   *)
(* connection that was given the same descriptor (TcpServer.cc 170-228).   *)
(***************************************************************************)
ChannelAlive ==
    /\ \A k \in 1..Len(tasks_) : conns_[tasks_[k].fd].channel = tasks_[k].id
    /\ \A t \in Threads :
         thread[t].pc \in (WorkerStates \ {"idle", "closeTest"}) =>
            conns_[thread[t].fd].channel = thread[t].id /\ owner[thread[t].fd] = thread[t].id

(***************************************************************************)
(* TimerCovers: every live connection has exactly one alive timer, also    *)
(* when its descriptor still had the timer of an earlier connection; stale *)
(* timers of closed connections are allowed (TcpServer.cc 144-146).        *)
(***************************************************************************)
TimerCovers == \A f \in Fds :
    LET n == Cardinality({k \in 1..Len(alive_timer_) : alive_timer_[k] = f}) IN
    /\ n <= 1
    /\ Live(f) => n = 1

(***************************************************************************)
(* EveryConnectionCloses: a connection that was accepted is closed in the  *)
(* end, whether the peer goes on, stops half-way through a request, does   *)
(* not read its response, or the server is told to quit.                   *)
(***************************************************************************)
EveryConnectionCloses == \A i \in Ids : accepted >= i ~> i \in closed

(***************************************************************************)
(* LoopReturns: the loop thread always gets back to epoll_wait(), until    *)
(* the server is destroyed.  The README's second feature says epoll in ET  *)
(* mode with non-blocking descriptors.                                     *)
(***************************************************************************)
LoopReturns == []<>(thread[Loop].pc \in {"events", "stopped"} /\ batch = {})

(***************************************************************************)
(* TimerClosesOnlyIdle: the alive timer closes a connection only while no  *)
(* thread works for it (README: the timer is for closing idle connections).*)
(***************************************************************************)
TimerClosesOnlyIdle ==
    thread[Loop].op = "timer" /\ thread[Loop].pc \in CloseStates
        => \A w \in Workers : thread[w].fd # thread[Loop].fd
=============================================================================
