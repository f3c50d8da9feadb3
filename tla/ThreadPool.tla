----------------------------- MODULE ThreadPool -----------------------------
(***************************************************************************)
(* The worker pool of soc/net/include/ThreadPool.h.                        *)
(*                                                                         *)
(* One caller (the main thread, which is also the event loop) adds tasks   *)
(* and finally destroys the pool; the threads in Workers execute run().    *)
(* A program counter per thread exposes every point at which another       *)
(* thread can interleave: the atomic running_ is read and written outside  *)
(* the mutex, tasks_ only under it, and the condition variable is the set  *)
(* of threads blocked in cond_.wait().                                     *)
(***************************************************************************)
EXTENDS Naturals, Sequences, FiniteSets

CONSTANTS Workers,    \* the threads created by the constructor: hardware_concurrency() > 0
          MaxAdds,    \* bound: calls of add() before the pool is destroyed
          NoOne       \* "no thread": the mutex is free

ASSUME WorkersAssumption == /\ Workers # {}
                            /\ NoOne \notin Workers /\ "main" \notin Workers
                            /\ NoOne # "main"
ASSUME MaxAddsAssumption == MaxAdds \in Nat

VARIABLES tasks_,     \* the queue; a task is the ordinal of the add() that made it
          running_,   \* the atomic flag
          locker_,    \* the owner of the mutex, or NoOne
          cond_,      \* the workers blocked in cond_.wait()
          main,       \* the control point of the caller
          pc,         \* the control point of each worker
          task,       \* each worker's local variable task (0: empty)
          added,      \* number of tasks put into the queue so far
          executed    \* the tasks whose execution has begun, in that order

vars == <<tasks_, running_, locker_, cond_, main, pc, task, added, executed>>

MainStates == {"idle", "lock", "emplace", "notify", "notifyAll", "join", "gone"}
WorkerStates == {"lock", "check", "wait", "front", "pop", "call", "returned"}

Init == /\ tasks_ = <<>>
        /\ running_ = TRUE
        /\ locker_ = NoOne
        /\ cond_ = {}
        /\ main = "idle"
        /\ pc = [w \in Workers |-> "lock"]
        /\ task = [w \in Workers |-> 0]
        /\ added = 0
        /\ executed = <<>>

(***************************************************************************)
(* Faulty variants of actions defined below.  Next does not use them: each *)
(* is a plausible mistake in the code that a property must reject.         *)
(***************************************************************************)
NotifyNobody == /\ main = "notify"
                /\ main' = "idle"
                /\ UNCHANGED <<cond_, pc, tasks_, running_, locker_, task, added, executed>>

LeaveWithoutDraining(w) ==
    /\ pc[w] = "check"
    /\ \/ /\ tasks_ # <<>> /\ running_
          /\ pc' = [pc EXCEPT ![w] = "front"]
          /\ UNCHANGED locker_
       \/ /\ tasks_ = <<>> /\ running_
          /\ pc' = [pc EXCEPT ![w] = "wait"]
          /\ UNCHANGED locker_
       \/ /\ ~running_
          /\ pc' = [pc EXCEPT ![w] = "returned"]
          /\ locker_' = NoOne
    /\ UNCHANGED <<tasks_, running_, cond_, main, task, added, executed>>

ForgetPop(w) == /\ pc[w] = "pop"
                /\ locker_' = NoOne
                /\ pc' = [pc EXCEPT ![w] = "call"]
                /\ UNCHANGED <<tasks_, running_, cond_, main, task, added, executed>>

UnlockBeforePop(w) == /\ pc[w] = "front"
                      /\ task' = [task EXCEPT ![w] = Head(tasks_)]
                      /\ pc' = [pc EXCEPT ![w] = "pop"]
                      /\ locker_' = NoOne
                      /\ UNCHANGED <<tasks_, running_, cond_, main, added, executed>>
-----------------------------------------------------------------------------
(***************************************************************************)
(* add(): the unlocked test of running_, then the queue under the mutex,   *)
(* then the notification after the mutex is released.                      *)
(***************************************************************************)
AddBegin == /\ main = "idle"
            /\ added < MaxAdds
            /\ main' = IF running_ THEN "lock" ELSE "idle"
            /\ UNCHANGED <<tasks_, running_, locker_, cond_, pc, task, added, executed>>

AddLock == /\ main = "lock"
           /\ locker_ = NoOne
           /\ locker_' = "main"
           /\ main' = "emplace"
           /\ UNCHANGED <<tasks_, running_, cond_, pc, task, added, executed>>

AddEmplace == /\ main = "emplace"
              /\ added' = added + 1
              /\ tasks_' = Append(tasks_, added + 1)
              /\ locker_' = NoOne
              /\ main' = "notify"
              /\ UNCHANGED <<running_, cond_, pc, task, executed>>

(* cond_.notify_one(): some blocked worker, if there is one. *)
AddNotify == /\ main = "notify"
             /\ main' = "idle"
             /\ \/ cond_ = {} /\ UNCHANGED <<cond_, pc>>
                \/ \E w \in cond_ : /\ cond_' = cond_ \ {w}
                                    /\ pc' = [pc EXCEPT ![w] = "lock"]
             /\ UNCHANGED <<tasks_, running_, locker_, task, added, executed>>

(***************************************************************************)
(* ~ThreadPool() and shutdownAll(): neither step takes the mutex.          *)
(***************************************************************************)
ShutdownFlag == /\ main = "idle"
                /\ running_
                /\ running_' = FALSE
                /\ main' = "notifyAll"
                /\ UNCHANGED <<tasks_, locker_, cond_, pc, task, added, executed>>

ShutdownNotifyAll == /\ main = "notifyAll"
                     /\ pc' = [w \in Workers |-> IF w \in cond_ THEN "lock" ELSE pc[w]]
                     /\ cond_' = {}
                     /\ main' = "join"
                     /\ UNCHANGED <<tasks_, running_, locker_, task, added, executed>>

ShutdownJoin == /\ main = "join"
                /\ \A w \in Workers : pc[w] = "returned"
                /\ main' = "gone"
                /\ UNCHANGED <<tasks_, running_, locker_, cond_, pc, task, added, executed>>

(***************************************************************************)
(* run().  The tests of lines 62 and 65 are one step: the mutex fixes      *)
(* tasks_ between them and running_ never becomes true again.              *)
(***************************************************************************)
RunLock(w) == /\ pc[w] = "lock"
              /\ locker_ = NoOne
              /\ locker_' = w
              /\ pc' = [pc EXCEPT ![w] = "check"]
              /\ UNCHANGED <<tasks_, running_, cond_, main, task, added, executed>>

RunCheck(w) == /\ pc[w] = "check"
               /\ \/ /\ tasks_ # <<>>
                     /\ pc' = [pc EXCEPT ![w] = "front"]
                     /\ UNCHANGED locker_
                  \/ /\ tasks_ = <<>> /\ running_
                     /\ pc' = [pc EXCEPT ![w] = "wait"]
                     /\ UNCHANGED locker_
                  \/ /\ tasks_ = <<>> /\ ~running_
                     /\ pc' = [pc EXCEPT ![w] = "returned"]
                     /\ locker_' = NoOne
               /\ UNCHANGED <<tasks_, running_, cond_, main, task, added, executed>>

(* cond_.wait(lock) releases the mutex and blocks in one atomic step. *)
RunWait(w) == /\ pc[w] = "wait"
              /\ w \notin cond_
              /\ cond_' = cond_ \cup {w}
              /\ locker_' = NoOne
              /\ UNCHANGED <<tasks_, running_, main, pc, task, added, executed>>

(* The wake-up without a notification that cond_.wait() permits. *)
SpuriousWakeup(w) == /\ w \in cond_
                     /\ cond_' = cond_ \ {w}
                     /\ pc' = [pc EXCEPT ![w] = "lock"]
                     /\ UNCHANGED <<tasks_, running_, locker_, main, task, added, executed>>

RunFront(w) == /\ pc[w] = "front"
               /\ task' = [task EXCEPT ![w] = Head(tasks_)]
               /\ pc' = [pc EXCEPT ![w] = "pop"]
               /\ UNCHANGED <<tasks_, running_, locker_, cond_, main, added, executed>>

RunPop(w) == /\ pc[w] = "pop"
             /\ tasks_' = Tail(tasks_)
             /\ locker_' = NoOne
             /\ pc' = [pc EXCEPT ![w] = "call"]
             /\ UNCHANGED <<running_, cond_, main, task, added, executed>>

RunCall(w) == /\ pc[w] = "call"
              /\ executed' = Append(executed, task[w])
              /\ task' = [task EXCEPT ![w] = 0]
              /\ pc' = [pc EXCEPT ![w] = "lock"]
              /\ UNCHANGED <<tasks_, running_, locker_, cond_, main, added>>

run(w) == \/ RunLock(w) \/ RunCheck(w) \/ RunWait(w)
          \/ RunFront(w) \/ RunPop(w) \/ RunCall(w)

add == AddBegin \/ AddLock \/ AddEmplace \/ AddNotify
shutdownAll == ShutdownFlag \/ ShutdownNotifyAll \/ ShutdownJoin

Next == \/ add
        \/ shutdownAll
        \/ \E w \in Workers : run(w) \/ SpuriousWakeup(w)

Spec == Init /\ [][Next]_vars

(***************************************************************************)
(* Every thread that can move does; a mutex that is free again and again   *)
(* is obtained in the end.  The decision to add or to destroy the pool is  *)
(* the program's, so the idle caller is under no fairness.                 *)
(***************************************************************************)
Fairness == /\ SF_vars(AddLock)
            /\ WF_vars(AddEmplace \/ AddNotify \/ ShutdownNotifyAll \/ ShutdownJoin)
            /\ \A w \in Workers :
                 /\ SF_vars(RunLock(w))
                 /\ WF_vars(RunCheck(w) \/ RunWait(w) \/ RunFront(w)
                            \/ RunPop(w) \/ RunCall(w))

FairSpec == Spec /\ Fairness
-----------------------------------------------------------------------------
TypeOK == /\ tasks_ \in Seq(1..MaxAdds)
          /\ running_ \in BOOLEAN
          /\ locker_ \in Workers \cup {"main", NoOne}
          /\ cond_ \subseteq Workers
          /\ main \in MainStates
          /\ pc \in [Workers -> WorkerStates]
          /\ task \in [Workers -> 0..MaxAdds]
          /\ added \in 0..MaxAdds
          /\ executed \in Seq(1..MaxAdds)

(* The workers that hold a task they took from the queue and not yet ran.  *)
Holding == {w \in Workers : pc[w] = "call"}

(***************************************************************************)
(* ExactlyOnce: every task that add() queued is in exactly one place: the  *)
(* queue, one worker's hands, or the list of executed tasks, and the queue *)
(* is in the order of the calls of add().  It depends on front() and pop() *)
(* being one critical section (ThreadPool.h 61-69).                        *)
(***************************************************************************)
ExactlyOnce ==
    /\ \A i \in 1..Len(tasks_) : tasks_[i] = added - Len(tasks_) + i
    /\ \A t \in 1..(added - Len(tasks_)) :
         \/ \E w \in Holding : task[w] = t
         \/ \E i \in 1..Len(executed) : executed[i] = t
    /\ \A v, w \in Holding : v # w => task[v] # task[w]
    /\ \A w \in Holding, i \in 1..Len(executed) : executed[i] # task[w]
    /\ \A i, j \in 1..Len(executed) : i # j => executed[i] # executed[j]

(***************************************************************************)
(* PoolInv: the inductive invariant behind ExactlyOnce and ShutdownDrains. *)
(* Exactly the thread inside a critical section owns the mutex, so a       *)
(* worker between the test of the queue and pop() finds the queue as it    *)
(* tested it; a worker that has returned left an empty queue behind and    *)
(* nothing can be added any more; and no task is handed out that was not   *)
(* added (ThreadPool.h 28-44, 57-72).                                      *)
(***************************************************************************)
InsideLock(w) == pc[w] \in {"check", "front", "pop"} \/ (pc[w] = "wait" /\ w \notin cond_)

PoolInv ==
    /\ \A w \in Workers : locker_ = w <=> InsideLock(w)
    /\ locker_ = "main" <=> main = "emplace"
    /\ \A w \in cond_ : pc[w] = "wait"
    /\ running_ <=> main \in {"idle", "lock", "emplace", "notify"}
    /\ main \in {"lock", "emplace"} => added < MaxAdds
    /\ main = "gone" => \A w \in Workers : pc[w] = "returned"
    /\ \A w \in Workers : /\ pc[w] \in {"front", "pop"} => tasks_ # <<>>
                          /\ pc[w] = "pop" => task[w] = Head(tasks_)
                          /\ pc[w] = "returned" => ~running_ /\ tasks_ = <<>>
    /\ Len(tasks_) <= added
    /\ \A w \in Holding : task[w] \in 1..(added - Len(tasks_))
    /\ \A i \in 1..Len(executed) : executed[i] \in 1..(added - Len(tasks_))

(***************************************************************************)
(* ShutdownDrains: when shutdownAll() has joined the workers, everything   *)
(* that was added has been executed (run() leaves only on an empty queue,  *)
(* ThreadPool.h 65).                                                       *)
(***************************************************************************)
ShutdownDrains ==
    main = "gone" => \A t \in 1..added : \E i \in 1..Len(executed) : executed[i] = t

(***************************************************************************)
(* EveryTaskRuns: a queued task is executed in the end, whatever the       *)
(* workers and a shutdown do (the notification of ThreadPool.h 35 is not   *)
(* lost although it is sent without the mutex).                            *)
(***************************************************************************)
EveryTaskRuns ==
    \A t \in 1..MaxAdds :
        (\E i \in 1..Len(tasks_) : tasks_[i] = t)
          ~> (\E i \in 1..Len(executed) : executed[i] = t)

(***************************************************************************)
(* ShutdownReturns: once shutdownAll() has been called it returns.  The    *)
(* SIGINT handler of test/simple-server-test2.cc relies on it to end the   *)
(* process; a worker between the test of running_ and cond_.wait() misses  *)
(* the only notification, and th.join() waits for it for ever.             *)
(***************************************************************************)
ShutdownReturns == ~running_ ~> main = "gone"
=============================================================================
