-------------------------- MODULE ThreadPool_proof --------------------------
(***************************************************************************)
(* Proofs about ThreadPool: for any number of workers and of tasks, every  *)
(* task that add() queued is executed once, and a pool that has been       *)
(* joined has executed all of them.                                        *)
(***************************************************************************)
EXTENDS ThreadPool, TLAPS

IInv == TypeOK /\ PoolInv /\ ExactlyOnce

(* The tasks, wherever they are, stay where they are. *)
SameTasks == UNCHANGED <<tasks_, task, added, executed, Holding>>

(***************************************************************************)
(* A step that only moves a thread or the mutex disturbs no task.          *)
(***************************************************************************)
LEMMA TasksStay ==
    ASSUME ExactlyOnce, SameTasks
    PROVE  ExactlyOnce'
BY DEF ExactlyOnce, SameTasks

LEMMA InitImpliesIInv == Init => IInv
<1> SUFFICES ASSUME Init PROVE IInv
  OBVIOUS
<1> USE WorkersAssumption, MaxAddsAssumption
<1>1. TypeOK
  BY DEF Init, TypeOK, MainStates, WorkerStates
<1>2. Holding = {}
  BY DEF Init, Holding
<1>3. PoolInv
  BY <1>2 DEF Init, PoolInv, InsideLock
<1>4. ExactlyOnce
  BY <1>2 DEF Init, ExactlyOnce
<1>5. QED
  BY <1>1, <1>3, <1>4 DEF IInv

(***************************************************************************)
(* add(): ThreadPool.h 28-36.                                              *)
(***************************************************************************)
LEMMA AddPreserves ==
    ASSUME IInv, add
    PROVE  IInv'
<1> USE WorkersAssumption, MaxAddsAssumption DEF IInv
<1>1. CASE AddBegin
  <2>1. TypeOK'
    BY <1>1 DEF AddBegin, TypeOK, MainStates, WorkerStates
  <2>2. SameTasks
    BY <1>1 DEF AddBegin, SameTasks, Holding
  <2>3. PoolInv'
    BY <1>1, <2>2 DEF AddBegin, TypeOK, PoolInv, InsideLock, SameTasks
  <2>4. QED
    BY <2>1, <2>2, <2>3, TasksStay
<1>2. CASE AddLock
  <2>1. TypeOK'
    BY <1>2 DEF AddLock, TypeOK, MainStates, WorkerStates
  <2>2. SameTasks
    BY <1>2 DEF AddLock, SameTasks, Holding
  <2>3. PoolInv'
    BY <1>2, <2>2 DEF AddLock, TypeOK, PoolInv, InsideLock, SameTasks
  <2>4. QED
    BY <2>1, <2>2, <2>3, TasksStay
<1>3. CASE AddEmplace
  <2>1. TypeOK'
    BY <1>3 DEF AddEmplace, TypeOK, PoolInv, MainStates, WorkerStates
  <2>2. /\ Holding' = Holding /\ task' = task /\ executed' = executed
        /\ Len(tasks_') = Len(tasks_) + 1 /\ added' = added + 1
        /\ tasks_' = Append(tasks_, added + 1)
        /\ Len(tasks_) \in Nat /\ added \in Nat
    BY <1>3 DEF AddEmplace, TypeOK, Holding
  <2>3. \A w \in Workers : ~(pc'[w] \in {"front", "pop", "returned"})
    BY <1>3 DEF AddEmplace, TypeOK, PoolInv, InsideLock
  <2>4. PoolInv'
    <3>1. /\ \A w \in Workers : locker_' = w <=> InsideLock(w)'
          /\ locker_' = "main" <=> main' = "emplace"
          /\ \A w \in cond_' : pc'[w] = "wait"
          /\ running_' <=> main' \in {"idle", "lock", "emplace", "notify"}
          /\ main' \notin {"lock", "emplace", "gone"}
      BY <1>3 DEF AddEmplace, TypeOK, PoolInv, InsideLock
    <3>2. /\ Len(tasks_') <= added'
          /\ \A w \in Holding' : task'[w] \in 1..(added' - Len(tasks_'))
          /\ \A i \in 1..Len(executed') : executed'[i] \in 1..(added' - Len(tasks_'))
      BY <2>2 DEF PoolInv
    <3>3. QED
      BY <2>3, <3>1, <3>2 DEF PoolInv
  <2>5. \A i \in 1..Len(tasks_') : tasks_'[i] = added' - Len(tasks_') + i
    <3>1. tasks_ \in Seq(1..MaxAdds)
      BY DEF TypeOK
    <3>2. SUFFICES ASSUME NEW i \in 1..(Len(tasks_) + 1)
                   PROVE  Append(tasks_, added + 1)[i] = added - Len(tasks_) + i
      BY <2>2
    <3>3. CASE i = Len(tasks_) + 1
      BY <2>2, <3>1, <3>3
    <3>4. CASE i \in 1..Len(tasks_)
      <4>1. tasks_[i] = added - Len(tasks_) + i
        BY <3>4 DEF ExactlyOnce
      <4>2. Append(tasks_, added + 1)[i] = tasks_[i]
        BY <3>1, <3>4
      <4>3. QED
        BY <4>1, <4>2
    <3>5. QED
      BY <2>2, <3>3, <3>4
  <2>6. ExactlyOnce'
    BY <2>2, <2>5 DEF ExactlyOnce
  <2>7. QED
    BY <2>1, <2>4, <2>6
<1>4. CASE AddNotify
  <2>1. TypeOK'
    BY <1>4 DEF AddNotify, TypeOK, MainStates, WorkerStates
  <2>2. SameTasks
    BY <1>4 DEF AddNotify, SameTasks, Holding, TypeOK, PoolInv
  <2>3. PoolInv'
    BY <1>4, <2>2 DEF AddNotify, TypeOK, PoolInv, InsideLock, SameTasks
  <2>4. QED
    BY <2>1, <2>2, <2>3, TasksStay
<1>5. QED
  BY <1>1, <1>2, <1>3, <1>4 DEF add

(***************************************************************************)
(* shutdownAll(): ThreadPool.h 37-44.                                      *)
(***************************************************************************)
LEMMA ShutdownPreserves ==
    ASSUME IInv, shutdownAll
    PROVE  IInv'
<1> USE WorkersAssumption, MaxAddsAssumption DEF IInv
<1>1. CASE ShutdownFlag
  <2>1. TypeOK'
    BY <1>1 DEF ShutdownFlag, TypeOK, MainStates, WorkerStates
  <2>2. SameTasks
    BY <1>1 DEF ShutdownFlag, SameTasks, Holding
  <2>3. PoolInv'
    BY <1>1, <2>2 DEF ShutdownFlag, TypeOK, PoolInv, InsideLock, SameTasks
  <2>4. QED
    BY <2>1, <2>2, <2>3, TasksStay
<1>2. CASE ShutdownNotifyAll
  <2>1. TypeOK'
    BY <1>2 DEF ShutdownNotifyAll, TypeOK, MainStates, WorkerStates
  <2>2. SameTasks
    BY <1>2 DEF ShutdownNotifyAll, SameTasks, Holding, TypeOK, PoolInv
  <2>3. PoolInv'
    BY <1>2, <2>2 DEF ShutdownNotifyAll, TypeOK, PoolInv, InsideLock, SameTasks
  <2>4. QED
    BY <2>1, <2>2, <2>3, TasksStay
<1>3. CASE ShutdownJoin
  <2>1. TypeOK'
    BY <1>3 DEF ShutdownJoin, TypeOK, MainStates, WorkerStates
  <2>2. SameTasks
    BY <1>3 DEF ShutdownJoin, SameTasks, Holding
  <2>3. PoolInv'
    BY <1>3, <2>2 DEF ShutdownJoin, TypeOK, PoolInv, InsideLock, SameTasks
  <2>4. QED
    BY <2>1, <2>2, <2>3, TasksStay
<1>4. QED
  BY <1>1, <1>2, <1>3 DEF shutdownAll

(***************************************************************************)
(* run(), up to the choice of a task, and the wake-up without a            *)
(* notification: ThreadPool.h 61-66.                                       *)
(***************************************************************************)
LEMMA ScanPreserves ==
    ASSUME IInv, NEW w \in Workers,
           RunLock(w) \/ RunCheck(w) \/ RunWait(w) \/ SpuriousWakeup(w)
    PROVE  IInv'
<1> USE WorkersAssumption, MaxAddsAssumption DEF IInv
<1>1. TypeOK'
  BY DEF RunLock, RunCheck, RunWait, SpuriousWakeup, TypeOK, MainStates, WorkerStates
<1>2. SameTasks
  BY DEF RunLock, RunCheck, RunWait, SpuriousWakeup, SameTasks, Holding, TypeOK, PoolInv
<1>3. PoolInv'
  <2>1. CASE RunLock(w)
    BY <2>1, <1>2 DEF RunLock, TypeOK, PoolInv, InsideLock, SameTasks
  <2>2. CASE RunCheck(w)
    BY <2>2, <1>2 DEF RunCheck, TypeOK, PoolInv, InsideLock, SameTasks
  <2>3. CASE RunWait(w)
    BY <2>3, <1>2 DEF RunWait, TypeOK, PoolInv, InsideLock, SameTasks
  <2>4. CASE SpuriousWakeup(w)
    BY <2>4, <1>2 DEF SpuriousWakeup, TypeOK, PoolInv, InsideLock, SameTasks
  <2>5. QED
    BY <2>1, <2>2, <2>3, <2>4
<1>4. QED
  BY <1>1, <1>2, <1>3, TasksStay

(***************************************************************************)
(* tasks_.front(): the mutex keeps every other worker away from the front. *)
(***************************************************************************)
LEMMA FrontPreserves ==
    ASSUME IInv, NEW w \in Workers, RunFront(w)
    PROVE  IInv'
<1> USE WorkersAssumption, MaxAddsAssumption DEF IInv
<1>1. /\ tasks_ # <<>> /\ Head(tasks_) \in 1..MaxAdds
      /\ w \notin Holding /\ w \notin Holding'
      /\ Holding' = Holding
      /\ task' = [task EXCEPT ![w] = Head(tasks_)]
      /\ tasks_' = tasks_ /\ added' = added /\ executed' = executed
  BY DEF RunFront, PoolInv, TypeOK, Holding
<1>2. TypeOK'
  BY <1>1 DEF RunFront, TypeOK, MainStates, WorkerStates
<1>3. \A v \in Holding : v \in Workers /\ task'[v] = task[v]
  BY <1>1 DEF TypeOK, Holding
<1>4. PoolInv'
  <2>1. \A v \in Workers : v # w => pc'[v] = pc[v] /\ pc[v] # "pop"
    BY DEF RunFront, TypeOK, PoolInv, InsideLock
  <2>2. /\ \A v \in Workers : locker_' = v <=> InsideLock(v)'
        /\ locker_' = "main" <=> main' = "emplace"
        /\ \A v \in cond_' : pc'[v] = "wait"
        /\ running_' <=> main' \in {"idle", "lock", "emplace", "notify"}
        /\ main' \in {"lock", "emplace"} => added' < MaxAdds
        /\ main' = "gone" => \A v \in Workers : pc'[v] = "returned"
    BY DEF RunFront, TypeOK, PoolInv, InsideLock
  <2>3. \A v \in Workers : /\ pc'[v] \in {"front", "pop"} => tasks_' # <<>>
                           /\ pc'[v] = "pop" => task'[v] = Head(tasks_')
                           /\ pc'[v] = "returned" => ~running_' /\ tasks_' = <<>>
    BY <1>1, <2>1 DEF RunFront, TypeOK, PoolInv
  <2>4. /\ Len(tasks_') <= added'
        /\ \A v \in Holding' : task'[v] \in 1..(added' - Len(tasks_'))
        /\ \A i \in 1..Len(executed') : executed'[i] \in 1..(added' - Len(tasks_'))
    BY <1>1, <1>3 DEF PoolInv
  <2>5. QED
    BY <2>2, <2>3, <2>4 DEF PoolInv
<1>5. ExactlyOnce'
  BY <1>1, <1>3 DEF ExactlyOnce
<1>6. QED
  BY <1>2, <1>4, <1>5

(***************************************************************************)
(* tasks_.pop(): the task that leaves the queue is the one w has copied,   *)
(* the first that nobody held or ran before.                               *)
(***************************************************************************)
LEMMA PopPreserves ==
    ASSUME IInv, NEW w \in Workers, RunPop(w)
    PROVE  IInv'
<1> USE WorkersAssumption, MaxAddsAssumption DEF IInv
<1> DEFINE last == added - Len(tasks_)
<1>1. /\ tasks_ \in Seq(1..MaxAdds) /\ tasks_ # <<>> /\ added \in Nat
      /\ Len(tasks_) \in Nat \ {0} /\ Len(tasks_) <= added
      /\ tasks_' = Tail(tasks_) /\ added' = added /\ executed' = executed /\ task' = task
  BY DEF RunPop, PoolInv, TypeOK
<1>2. Tail(tasks_) \in Seq(1..MaxAdds) /\ Len(Tail(tasks_)) = Len(tasks_) - 1
  BY <1>1
<1>3. /\ \A i \in 1..Len(tasks_') : tasks_'[i] = tasks_[i + 1]
      /\ Head(tasks_) = tasks_[1]
  BY <1>1, <1>2
<1>4. task[w] = last + 1
  <2>1. task[w] = Head(tasks_)
    BY DEF RunPop, PoolInv
  <2>2. tasks_[1] = added - Len(tasks_) + 1
    BY <1>1 DEF ExactlyOnce
  <2>3. QED
    BY <1>3, <2>1, <2>2
<1>5. Holding' = Holding \cup {w} /\ w \notin Holding /\ Holding \subseteq Workers
  BY DEF RunPop, Holding, TypeOK
<1>6. TypeOK'
  BY <1>1, <1>2 DEF RunPop, TypeOK, MainStates, WorkerStates
<1>7. added' - Len(tasks_') = last + 1 /\ last \in Nat
  BY <1>1, <1>2
<1> HIDE DEF last
<1>8. PoolInv'
  <2>1. \A v \in Workers : v # w => pc'[v] = pc[v] /\ pc[v] \notin {"front", "pop"}
    BY DEF RunPop, TypeOK, PoolInv, InsideLock
  <2>2. /\ \A v \in Workers : locker_' = v <=> InsideLock(v)'
        /\ locker_' = "main" <=> main' = "emplace"
        /\ \A v \in cond_' : pc'[v] = "wait"
        /\ running_' <=> main' \in {"idle", "lock", "emplace", "notify"}
        /\ main' \in {"lock", "emplace"} => added' < MaxAdds
        /\ main' = "gone" => \A v \in Workers : pc'[v] = "returned"
    BY DEF RunPop, TypeOK, PoolInv, InsideLock
  <2>3. /\ pc'[w] = "call"
        /\ \A v \in Workers : v # w => pc[v] # "returned"
    BY <1>1 DEF RunPop, TypeOK, PoolInv
  <2>4. \A v \in Workers : pc'[v] \notin {"front", "pop", "returned"}
    BY <2>1, <2>3
  <2>5. /\ Len(tasks_') <= added'
        /\ \A v \in Holding' : task'[v] \in 1..(added' - Len(tasks_'))
        /\ \A i \in 1..Len(executed') : executed'[i] \in 1..(added' - Len(tasks_'))
    <3>1. /\ \A v \in Holding : task[v] \in 1..last
          /\ \A i \in 1..Len(executed) : executed[i] \in 1..last
      BY DEF PoolInv, last
    <3>2. Len(tasks_') <= added'
      BY <1>1, <1>2
    <3>3. QED
      BY <1>1, <1>4, <1>5, <1>7, <3>1, <3>2
  <2>6. QED
    BY <2>2, <2>4, <2>5 DEF PoolInv
<1>9. ExactlyOnce'
  <2>1. \A i \in 1..Len(tasks_') : tasks_'[i] = added' - Len(tasks_') + i
    <3>1. SUFFICES ASSUME NEW i \in 1..(Len(tasks_) - 1)
                   PROVE  tasks_[i + 1] = last + 1 + i
      BY <1>1, <1>2, <1>3, <1>7
    <3>2. i + 1 \in 1..Len(tasks_)
      BY <1>1
    <3>3. tasks_[i + 1] = added - Len(tasks_) + (i + 1)
      BY <3>2 DEF ExactlyOnce
    <3>4. QED
      BY <1>1, <3>3 DEF last
  <2>2. \A t \in 1..(last + 1) : \/ \E v \in Holding' : task'[v] = t
                                 \/ \E i \in 1..Len(executed') : executed'[i] = t
    <3>1. \A t \in 1..last : \/ \E v \in Holding : task[v] = t
                             \/ \E i \in 1..Len(executed) : executed[i] = t
      BY DEF ExactlyOnce, last
    <3>2. \A t \in 1..(last + 1) : t \in 1..last \/ t = task[w]
      BY <1>4, <1>7
    <3>3. QED
      BY <1>1, <1>5, <3>1, <3>2
  <2>3. \A v \in Holding : task[v] # task[w]
    BY <1>4, <1>7 DEF PoolInv, last
  <2>4. \A i \in 1..Len(executed) : executed[i] # task[w]
    BY <1>4, <1>7 DEF PoolInv, last
  <2>5. /\ \A u, v \in Holding' : u # v => task'[u] # task'[v]
        /\ \A v \in Holding', i \in 1..Len(executed') : executed'[i] # task'[v]
    BY <1>1, <1>5, <2>3, <2>4 DEF ExactlyOnce
  <2>6. \A i, j \in 1..Len(executed') : i # j => executed'[i] # executed'[j]
    BY <1>1 DEF ExactlyOnce
  <2>7. QED
    BY <1>7, <2>1, <2>2, <2>5, <2>6 DEF ExactlyOnce
<1>10. QED
  BY <1>6, <1>8, <1>9

(***************************************************************************)
(* task(): what w held becomes the latest of the executed tasks.           *)
(***************************************************************************)
LEMMA CallPreserves ==
    ASSUME IInv, NEW w \in Workers, RunCall(w)
    PROVE  IInv'
<1> USE WorkersAssumption, MaxAddsAssumption DEF IInv
<1>1. /\ w \in Holding /\ Holding' = Holding \ {w} /\ Holding \subseteq Workers
      /\ tasks_' = tasks_ /\ added' = added
      /\ tasks_ \in Seq(1..MaxAdds) /\ executed \in Seq(1..MaxAdds)
      /\ added \in 0..MaxAdds
  BY DEF RunCall, Holding, TypeOK
<1>2. \A v \in Holding' : v \in Holding /\ task'[v] = task[v]
  BY <1>1 DEF RunCall, TypeOK
<1>3. task[w] \in 1..(added - Len(tasks_)) /\ task[w] \in 1..MaxAdds
  BY <1>1 DEF PoolInv
<1>4. /\ executed' = Append(executed, task[w])
      /\ executed' \in Seq(1..MaxAdds)
      /\ Len(executed') = Len(executed) + 1 /\ Len(executed) \in Nat
  BY <1>1, <1>3 DEF RunCall
<1>5. /\ \A i \in 1..Len(executed) : executed'[i] = executed[i]
      /\ executed'[Len(executed) + 1] = task[w]
  BY <1>1, <1>3, <1>4
<1>6. TypeOK'
  BY <1>4 DEF RunCall, TypeOK, MainStates, WorkerStates
<1>7. PoolInv'
  <2>1. /\ \A v \in Workers : locker_' = v <=> InsideLock(v)'
        /\ locker_' = "main" <=> main' = "emplace"
        /\ \A v \in cond_' : pc'[v] = "wait"
        /\ running_' <=> main' \in {"idle", "lock", "emplace", "notify"}
        /\ main' \in {"lock", "emplace"} => added' < MaxAdds
        /\ main' = "gone" => \A v \in Workers : pc'[v] = "returned"
    BY DEF RunCall, TypeOK, PoolInv, InsideLock
  <2>2. \A v \in Workers : /\ pc'[v] \in {"front", "pop"} => tasks_' # <<>>
                           /\ pc'[v] = "pop" => task'[v] = Head(tasks_')
                           /\ pc'[v] = "returned" => ~running_' /\ tasks_' = <<>>
    BY DEF RunCall, TypeOK, PoolInv
  <2>3. Len(tasks_') <= added' /\ \A v \in Holding' : task'[v] \in 1..(added' - Len(tasks_'))
    BY <1>1, <1>2 DEF PoolInv
  <2>4. \A i \in 1..Len(executed') : executed'[i] \in 1..(added' - Len(tasks_'))
    <3>1. \A i \in 1..Len(executed) : executed[i] \in 1..(added - Len(tasks_))
      BY DEF PoolInv
    <3>2. \A i \in 1..Len(executed') : i \in 1..Len(executed) \/ i = Len(executed) + 1
      BY <1>4
    <3>3. QED
      BY <1>1, <1>3, <1>5, <3>1, <3>2
  <2>5. QED
    BY <2>1, <2>2, <2>3, <2>4 DEF PoolInv
<1>8. ExactlyOnce'
  <2>1. /\ \A i \in 1..Len(executed') : i \in 1..Len(executed) \/ i = Len(executed) + 1
        /\ \A i \in 1..Len(executed) : i \in 1..Len(executed') /\ i # Len(executed) + 1
        /\ Len(executed) + 1 \in 1..Len(executed')
    BY <1>4
  <2>2. \A i \in 1..Len(tasks_') : tasks_'[i] = added' - Len(tasks_') + i
    BY <1>1 DEF ExactlyOnce
  <2>3. \A t \in 1..(added' - Len(tasks_')) : \/ \E v \in Holding' : task'[v] = t
                                              \/ \E i \in 1..Len(executed') : executed'[i] = t
    <3>1. SUFFICES ASSUME NEW t \in 1..(added - Len(tasks_)),
                          ~(\E v \in Holding' : task'[v] = t)
                   PROVE  \E i \in 1..Len(executed') : executed'[i] = t
      BY <1>1
    <3>2. \A v \in Holding : v # w => task[v] # t
      BY <1>1, <1>2, <3>1
    <3>3. CASE task[w] = t
      BY <1>5, <2>1, <3>3
    <3>4. CASE task[w] # t
      <4>1. PICK i \in 1..Len(executed) : executed[i] = t
        BY <3>2, <3>4 DEF ExactlyOnce
      <4>2. QED
        BY <1>5, <2>1, <4>1
    <3>5. QED
      BY <3>3, <3>4
  <2>4. /\ \A u, v \in Holding' : u # v => task'[u] # task'[v]
        /\ \A v \in Holding' : task'[v] # task[w]
    BY <1>1, <1>2 DEF ExactlyOnce
  <2>5. \A v \in Holding', i \in 1..Len(executed') : executed'[i] # task'[v]
    <3>1. \A v \in Holding', i \in 1..Len(executed) : executed[i] # task'[v]
      BY <1>2 DEF ExactlyOnce
    <3>2. QED
      BY <1>5, <2>1, <2>4, <3>1
  <2>6. \A i, j \in 1..Len(executed') : i # j => executed'[i] # executed'[j]
    <3>1. /\ \A i, j \in 1..Len(executed) : i # j => executed[i] # executed[j]
          /\ \A i \in 1..Len(executed) : executed[i] # task[w]
      BY <1>1 DEF ExactlyOnce
    <3>2. QED
      BY <1>5, <2>1, <3>1
  <2>7. QED
    BY <2>2, <2>3, <2>4, <2>5, <2>6 DEF ExactlyOnce
<1>9. QED
  BY <1>6, <1>7, <1>8

LEMMA NextPreservesIInv == IInv /\ [Next]_vars => IInv'
<1> SUFFICES ASSUME IInv, [Next]_vars PROVE IInv'
  OBVIOUS
<1>1. CASE add
  BY <1>1, AddPreserves
<1>2. CASE shutdownAll
  BY <1>2, ShutdownPreserves
<1>3. ASSUME NEW w \in Workers, run(w) \/ SpuriousWakeup(w)
      PROVE  IInv'
  BY <1>3, ScanPreserves, FrontPreserves, PopPreserves, CallPreserves DEF run
<1>4. CASE UNCHANGED vars
  BY <1>4 DEF vars, IInv, TypeOK, PoolInv, InsideLock, ExactlyOnce, Holding
<1>5. QED
  BY <1>1, <1>2, <1>3, <1>4 DEF Next

(***************************************************************************)
(* The strengthened invariant holds in every reachable state.              *)
(***************************************************************************)
THEOREM Invariance == Spec => []IInv
<1>1. QED
  BY InitImpliesIInv, NextPreservesIInv, PTL DEF Spec

(***************************************************************************)
(* Type correctness: in particular Head and pop are never applied to an    *)
(* empty queue (ThreadPool.h 67-68).                                       *)
(***************************************************************************)
THEOREM TypeCorrect == Spec => []TypeOK
<1>1. IInv => TypeOK
  BY DEF IInv
<1>2. QED
  BY <1>1, Invariance, PTL

(***************************************************************************)
(* Mutual exclusion and the discipline of the queue, for any number of     *)
(* workers (ThreadPool.h 28-44, 57-72).                                    *)
(***************************************************************************)
THEOREM PoolDiscipline == Spec => []PoolInv
<1>1. IInv => PoolInv
  BY DEF IInv
<1>2. QED
  BY <1>1, Invariance, PTL

(***************************************************************************)
(* No task is lost, none is executed twice, for any number of workers and  *)
(* of calls of add().                                                      *)
(***************************************************************************)
THEOREM ExactlyOnceAlways == Spec => []ExactlyOnce
<1>1. IInv => ExactlyOnce
  BY DEF IInv
<1>2. QED
  BY <1>1, Invariance, PTL

(***************************************************************************)
(* When shutdownAll() has joined the workers, every task that was added    *)
(* has been executed.                                                      *)
(***************************************************************************)
THEOREM ShutdownDrainsAlways == Spec => []ShutdownDrains
<1>1. IInv => ShutdownDrains
  <2> SUFFICES ASSUME IInv, main = "gone"
               PROVE  \A t \in 1..added : \E i \in 1..Len(executed) : executed[i] = t
    BY DEF ShutdownDrains
  <2>1. tasks_ = <<>> /\ Holding = {}
    BY WorkersAssumption DEF IInv, PoolInv, Holding
  <2>2. added \in Nat /\ added - Len(tasks_) = added
    BY <2>1, MaxAddsAssumption DEF IInv, TypeOK
  <2>3. QED
    BY <2>1, <2>2 DEF IInv, ExactlyOnce
<1>2. QED
  BY <1>1, Invariance, PTL
=============================================================================
