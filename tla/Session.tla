------------------------------ MODULE Session -------------------------------
(***************************************************************************)
(* The sessions of HttpServer: the table sessions_, which the workers look *)
(* up and extend inside onMessage(), and the session timer, from which the *)
(* loop thread removes them.  The table, a session and the heap each have  *)
(* a lock of their own, held for one call, so a request is a sequence of   *)
(* such calls and everything may happen in between.                        *)
(*                                                                         *)
(* A session is the number of its creation: identifiers and the hash that  *)
(* is the timer's key are taken to be distinct.  Timers count down, so     *)
(* that "now" need not be a state; the heap is a timer per session, as     *)
(* module Timers promises.                                                 *)
(***************************************************************************)
EXTENDS Naturals, FiniteSets

CONSTANTS Workers,
          Interval,      \* session_lifetime, in ticks
          MaxSessions,   \* bound: sessions created
          MaxRequests    \* bound: calls of getSession()

ASSUME SessionAssumption == /\ IsFiniteSet(Workers) /\ Interval \in Nat \ {0}
                            /\ MaxSessions \in Nat /\ MaxRequests \in Nat

NoId == 0
Ids == 1..MaxSessions
NoTimer == Interval + 1
Free == [pc |-> "idle", cookie |-> NoId, session |-> NoId, busy |-> 0, late |-> FALSE]
Polling == [pc |-> "poll", expired |-> NoId]

VARIABLES sessions_,   \* the sessions in the table
          status_,     \* of each session
          created,     \* number of sessions created
          queues,      \* number of TimerQueue objects that session_timer_ has pointed to
          timers,      \* ticks left for each session in the heap of session_timer_
          jar,         \* the session cookies that were sent to clients
          requests,    \* calls of getSession() so far
          worker,      \* what each worker does; busy: ticks since it was given the session;
                       \* late: the timeout of the session was under way by then
          loop,        \* what the loop thread does, and the timer it has copied
          torn,        \* a timer was set back while the loop was handling it
          dead         \* sessions invalidated while no request was about to mark them

table == <<sessions_, status_, created>>
heap == <<queues, timers>>
history == <<torn, dead>>
vars == <<table, heap, jar, requests, worker, loop, history>>

Init == /\ sessions_ = {} /\ created = 0 /\ status_ = [s \in Ids |-> "None"]
        /\ queues = 0 /\ timers = [s \in Ids |-> NoTimer]
        /\ jar = {} /\ requests = 0
        /\ worker = [w \in Workers |-> Free]
        /\ loop = Polling
        /\ torn = FALSE /\ dead = {}

At(w, p) == worker[w].pc = p
Goto(w, p) == worker' = [worker EXCEPT ![w].pc = p]

(* Bound: every request under way may still create a session. *)
Room == created + Cardinality({w \in Workers : worker[w].pc \in {"get", "check", "create"}})
          < MaxSessions
-----------------------------------------------------------------------------
(***************************************************************************)
(* Faulty variants of definitions below.  Next does not use them: each is  *)
(* a plausible mistake in the code that a property must reject.            *)
(***************************************************************************)
MarkAnyway(w) == Goto(w, "mark")

SetBackNothing(s) == UNCHANGED timers

AdjustInstead(s) == timers' = [timers EXCEPT ![s] = IF @ = NoTimer THEN @ ELSE Interval]

RemoveInvalidated == {s \in sessions_ : s # loop.expired \/ status_[s] # "Destroy"}
-----------------------------------------------------------------------------
(***************************************************************************)
(* associateSession(), called by a service through req.getSession().  The  *)
(* shared pointer that sessions_.get() returns is held until the timer was *)
(* set back; from then on the request has a plain pointer.                 *)
(***************************************************************************)
Begin(w) == /\ At(w, "idle") /\ requests < MaxRequests /\ Room
            /\ requests' = requests + 1
            /\ \E c \in jar \cup {NoId} :
                 worker' = [worker EXCEPT ![w] = [Free EXCEPT !.pc = "get", !.cookie = c]]
            /\ UNCHANGED <<table, heap, jar, loop, history>>

Get(w) == LET c == worker[w].cookie IN
    /\ At(w, "get")
    /\ worker' = [worker EXCEPT ![w].pc = IF c \in sessions_ THEN "check" ELSE "create",
                                ![w].session = IF c \in sessions_ THEN c ELSE NoId]
    /\ UNCHANGED <<table, heap, jar, requests, loop, history>>

(* An invalidated session is left to its timer, and a new one is created. *)
Refuse(w) == worker' = [worker EXCEPT ![w].pc = "create", ![w].session = NoId]
TestStatus(w) == IF status_[worker[w].session] = "Destroy" THEN Refuse(w) ELSE Goto(w, "mark")

Check(w) == /\ At(w, "check")
            /\ TestStatus(w)
            /\ UNCHANGED <<table, heap, jar, requests, loop, history>>

Mark(w) == /\ At(w, "mark")
           /\ status_' = [status_ EXCEPT ![worker[w].session] = "Accessed"]
           /\ Goto(w, "adjust")
           /\ UNCHANGED <<sessions_, created, heap, jar, requests, loop, history>>

(* TimerQueue::adjust(): a timer that is not there any more stays away. *)
SetBack(s) == timers' = [timers EXCEPT ![s] = IF @ = NoTimer THEN @ ELSE Interval]

Adjust(w) == LET s == worker[w].session IN
    /\ At(w, "adjust")
    /\ SetBack(s)
    /\ worker' = [worker EXCEPT ![w].pc = "use", ![w].busy = 0,
                                ![w].late = s \notin sessions_ \/ loop.expired = s]
    /\ torn' = (torn \/ loop.expired = s)
    /\ UNCHANGED <<table, queues, jar, requests, loop, dead>>

createSession(w) == LET s == created + 1 IN
    /\ At(w, "create")
    /\ created' = s
    /\ sessions_' = sessions_ \cup {s}
    /\ status_' = [status_ EXCEPT ![s] = "New"]
    /\ worker' = [worker EXCEPT ![w].pc = "test", ![w].session = s]
    /\ UNCHANGED <<heap, jar, requests, loop, history>>

(***************************************************************************)
(* createSessionTimer(), which has no lock: two workers may both find no   *)
(* queue, and the second assignment destroys the first queue with its      *)
(* timers.                                                                 *)
(***************************************************************************)
TestQueue(w) == At(w, "test") /\ Goto(w, IF queues = 0 THEN "assign" ELSE "add")

CreateTest(w) == /\ TestQueue(w)
                 /\ UNCHANGED <<table, heap, jar, requests, loop, history>>

CreateAssign(w) == /\ At(w, "assign")
                   /\ queues' = queues + 1
                   /\ timers' = [s \in Ids |-> NoTimer]
                   /\ Goto(w, "add")
                   /\ UNCHANGED <<table, jar, requests, loop, history>>

AddTimer(s) == timers' = [timers EXCEPT ![s] = Interval]

Add(w) == /\ At(w, "add")
          /\ AddTimer(worker[w].session)
          /\ worker' = [worker EXCEPT ![w].pc = "use", ![w].busy = 0, ![w].late = FALSE]
          /\ UNCHANGED <<table, queues, jar, requests, loop, history>>

associateSession(w) == \/ Get(w) \/ Check(w) \/ Mark(w) \/ Adjust(w)
                       \/ createSession(w) \/ CreateTest(w) \/ CreateAssign(w) \/ Add(w)

(* The service calls getSession() again, with the same cookie. *)
Again(w) == /\ At(w, "use") /\ requests < MaxRequests /\ Room
            /\ requests' = requests + 1
            /\ worker' = [worker EXCEPT ![w].pc = "get"]
            /\ UNCHANGED <<table, heap, jar, loop, history>>

(* The service works with the session, or calls invalidate(). *)
Use(w) == /\ At(w, "use") /\ Goto(w, "respond")
          /\ UNCHANGED <<table, heap, jar, requests, loop, history>>

invalidate(w) == LET s == worker[w].session IN
    /\ At(w, "use")
    /\ status_' = [status_ EXCEPT ![s] = "Destroy"]
    /\ dead' = IF \E v \in Workers : At(v, "mark") /\ worker[v].session = s
               THEN dead ELSE dead \cup {s}
    /\ Goto(w, "respond")
    /\ UNCHANGED <<sessions_, created, heap, jar, requests, loop, torn>>

(* A cookie is sent for a new session. *)
associateRequestSession(w) == LET s == worker[w].session IN
    /\ At(w, "respond")
    /\ jar' = IF status_[s] = "New" THEN jar \cup {s} ELSE jar
    /\ worker' = [worker EXCEPT ![w] = Free]
    /\ UNCHANGED <<table, heap, requests, loop, history>>
-----------------------------------------------------------------------------
(***************************************************************************)
(* TimerQueue::handleTimeout() on the loop thread: top() is copied, its    *)
(* callback is called and pop() removes whatever is on top by then.  The   *)
(* copied timer still is, unless it was set back meanwhile: what is added  *)
(* or set back elsewhere goes below it.  pop() of an empty heap throws.    *)
(* Top is one step, although top() returns a reference and the copy is     *)
(* made after the mutex was released (TimerHeap.h 59-64, TimerQueue.cc     *)
(* 50): a push() or a sift during the copy, which the code does not keep   *)
(* out and whose effect is undefined, is left out.                         *)
(***************************************************************************)
Timeout == /\ loop.pc = "poll" /\ queues > 0
           /\ loop' = [loop EXCEPT !.pc = "top"]
           /\ UNCHANGED <<table, heap, jar, requests, worker, history>>

Top == /\ loop.pc = "top"
       /\ IF \E s \in Ids : timers[s] = 0
          THEN \E s \in Ids : timers[s] = 0 /\ loop' = [pc |-> "callback", expired |-> s]
          ELSE loop' = Polling
       /\ UNCHANGED <<table, heap, jar, requests, worker, history>>

WithoutExpired == sessions_ \ {loop.expired}

handleSessionTimeout == /\ loop.pc = "callback"
                        /\ sessions_' = WithoutExpired
                        /\ loop' = [loop EXCEPT !.pc = "pop"]
                        /\ UNCHANGED <<status_, created, heap, jar, requests, worker, history>>

NextTimer == [pc |-> "top", expired |-> NoId]
OnTop(s) == /\ timers[s] # NoTimer
            /\ IF timers[loop.expired] = 0 THEN s = loop.expired
               ELSE \A t \in Ids : timers[s] <= timers[t]

Pop == /\ loop.pc = "pop"
       /\ IF \A s \in Ids : timers[s] = NoTimer
          THEN loop' = [loop EXCEPT !.pc = "thrown"] /\ UNCHANGED timers
          ELSE /\ \E s \in Ids : OnTop(s) /\ timers' = [timers EXCEPT ![s] = NoTimer]
               /\ loop' = NextTimer
       /\ UNCHANGED <<table, queues, jar, requests, worker, history>>

handleTimeout == Timeout \/ Top \/ handleSessionTimeout \/ Pop

Tick == /\ timers' = [s \in Ids |-> IF timers[s] \in {0, NoTimer} THEN timers[s] ELSE timers[s] - 1]
        /\ worker' = [w \in Workers |->
                        IF At(w, "idle") \/ worker[w].busy = Interval THEN worker[w]
                        ELSE [worker[w] EXCEPT !.busy = @ + 1]]
        /\ UNCHANGED <<table, queues, jar, requests, loop, history>>

Request(w) == associateSession(w) \/ Use(w) \/ associateRequestSession(w)

Next == \/ \E w \in Workers : Begin(w) \/ Again(w) \/ invalidate(w) \/ Request(w)
        \/ handleTimeout
        \/ Tick

Spec == Init /\ [][Next]_vars

(* The clock advances, the loop polls a periodic timer, and services return. *)
FairSpec == /\ Spec
            /\ WF_vars(Tick) /\ WF_vars(handleTimeout)
            /\ \A w \in Workers : WF_vars(Request(w))
-----------------------------------------------------------------------------
TypeOK == /\ sessions_ \subseteq Ids /\ created \in 0..MaxSessions
          /\ status_ \in [Ids -> {"None", "New", "Accessed", "Destroy"}]
          /\ queues \in 0..Cardinality(Workers) /\ timers \in [Ids -> 0..NoTimer]
          /\ jar \subseteq Ids /\ requests \in 0..MaxRequests
          /\ worker \in [Workers -> [pc : {"idle", "get", "check", "mark", "adjust", "create",
                                           "test", "assign", "add", "use", "respond"},
                                     cookie : Ids \cup {NoId}, session : Ids \cup {NoId},
                                     busy : 0..Interval, late : BOOLEAN]]
          /\ loop \in [pc : {"poll", "top", "callback", "pop", "thrown"}, expired : Ids \cup {NoId}]
          /\ torn \in BOOLEAN /\ dead \subseteq Ids

(***************************************************************************)
(* TimerPerSession: a session in the table has a timer, or the request     *)
(* that created it is about to add one; a timer is for a session in the    *)
(* table, so that its callback finds the session alive.  Two things break  *)
(* this: a second queue made in createSessionTimer(), and a timer set back *)
(* between top() and pop() (HttpServer.cc 142-167, TimerQueue.cc 49-53).   *)
(***************************************************************************)
TimerPerSession ==
    ~torn /\ queues <= 1 =>
       /\ \A s \in sessions_ :
            \/ timers[s] # NoTimer
            \/ \E w \in Workers : worker[w].session = s /\ worker[w].pc \in {"test", "assign", "add"}
       /\ \A s \in Ids : timers[s] # NoTimer => s \in sessions_ \/ loop = [pc |-> "pop", expired |-> s]

(***************************************************************************)
(* SessionAliveInUse: the session that a service uses is in the table, and *)
(* so not freed, unless the service has had it for the whole lifetime of a *)
(* session, or the timeout was under way when the request asked for it.    *)
(* The pointer of HttpServer.cc 135 and 171 is used without a reference.   *)
(***************************************************************************)
SessionAliveInUse ==
    \A w \in Workers : worker[w].pc \in {"use", "respond"} =>
       worker[w].session \in sessions_ \/ worker[w].busy = Interval \/ worker[w].late

(***************************************************************************)
(* InvalidatedStaysInvalid: once a session was invalidated, and no request *)
(* was between its test of the status and setStatus(Accessed) at that      *)
(* moment, no request makes it valid again (HttpServer.cc 136-140).        *)
(***************************************************************************)
InvalidatedStaysInvalid == \A s \in dead : status_[s] = "Destroy"

(***************************************************************************)
(* SessionsExpire: a session is removed in the end when requests for it    *)
(* stop, whatever was going on, except after the two events that lose      *)
(* timers ("automatically deleted by the timer", HttpServer.cc 137).       *)
(***************************************************************************)
SessionsExpire ==
    \A s \in Ids : s \in sessions_ ~> (s \notin sessions_ \/ torn \/ queues > 1)
=============================================================================
