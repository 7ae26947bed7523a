------------------------ MODULE ConcurrencyTestProofs ------------------------
(***************************************************************************)
(* Theorems about ConcurrencyTest, for any callers, threads and counts:    *)
(* the lock is owned as the code means it to be, and the requests of a     *)
(* batch leave together.                                                   *)
(***************************************************************************)
EXTENDS ConcurrencyTest, FiniteSetTheorems, TLAPS

(* The latch of a call against its loop variable: it is at 0 only when all *)
(* tasks were handed over (or none will be).                               *)
Counted ==
  \A c \in Calls :
    /\ pc[c] \in {"new", "body"} => submitted[c] = 0
    /\ pc[c] = "loop" => latch[c] = param[c].count - submitted[c]
    /\ pc[c] = "count" => latch[c] = param[c].count - submitted[c] + 1 /\ submitted[c] \in 1..param[c].count
    /\ pc[c] \in {"finally", "done"} => submitted[c] \in {0, param[c].count}

(* Whatever waits in the queue or is held by a thread was handed over.     *)
Queued == \A i \in DOMAIN queue : submitted[queue[i][1]] > 0
Held ==
  \A w \in Workers : stage[w] \in {"await", "go", "sending"} =>
    task[w] \in Tasks /\ submitted[task[w][1]] > 0

Complete(t) == submitted[t[1]] = param[t[1]].count \/ t \in late

(* A thread that no longer waits holds a task of a complete batch.         *)
Ready == \A w \in Workers : stage[w] \in {"go", "sending"} => Complete(task[w])

IInv == TypeOK /\ LockOwned /\ Counted /\ Queued /\ Held /\ Ready /\ SentTogether

-------------------------------------------------------------------------------
LEMMA InitIInv == Init => IInv
<1> SUFFICES ASSUME Init PROVE IInv
  OBVIOUS
<1> USE CallsAssumption DEF Init
<1>1. TypeOK
  BY DEF TypeOK, Params, NoTask
<1>2. LockOwned
  BY DEF LockOwned, Submitting
<1>3. Counted /\ Queued /\ Held /\ Ready /\ SentTogether
  BY DEF Counted, Queued, Held, Ready, SentTogether
<1> QED BY <1>1, <1>2, <1>3 DEF IInv

(* A task that is handed over goes to a new thread or to the end of the    *)
(* queue, and nothing else moves (lines 28-29).                            *)
LEMMA PoolStep ==
  ASSUME TypeOK, NEW t \in Tasks, PoolExecute(t)
  PROVE  /\ queue' \in Seq(Tasks)
         /\ task' \in [Workers -> Tasks \cup {NoTask}]
         /\ stage' \in [Workers -> {"unborn", "idle", "await", "go", "sending"}]
         /\ \A i \in DOMAIN queue' : (i \in DOMAIN queue /\ queue'[i] = queue[i]) \/ queue'[i] = t
         /\ \A w \in Workers : \/ task'[w] = task[w] /\ stage'[w] = stage[w]
                               \/ task'[w] = t /\ stage'[w] = "await"
<1>1. CASE \E w \in Workers :
             /\ stage[w] = "unborn"
             /\ task' = [task EXCEPT ![w] = t] /\ stage' = [stage EXCEPT ![w] = "await"]
             /\ UNCHANGED queue
  BY <1>1 DEF TypeOK
<1>2. CASE queue' = Append(queue, t) /\ UNCHANGED <<task, stage>>
  BY <1>2 DEF TypeOK
<1> QED BY <1>1, <1>2 DEF PoolExecute

(* The calls: what each line of ToolController.get does to the invariant.  *)
LEMMA CallStep ==
  ASSUME IInv, NEW c \in Calls, Call(c)
  PROVE  IInv'
<1> USE CallsAssumption
<1>0. TypeOK /\ LockOwned /\ Counted /\ Queued /\ Held /\ Ready /\ SentTogether
  BY DEF IInv
<1>1. CASE TryLock(c)
  <2> USE <1>0, <1>1 DEF TryLock, Goto
  <2>1. TypeOK'
    BY DEF TypeOK, Params, Counted, poolVars
  <2>2. LockOwned'
    BY DEF LockOwned, Submitting, TypeOK
  <2>3. Counted'
    BY DEF Counted, TypeOK, Params
  <2>4. Queued' /\ Held'
    BY DEF Queued, Held, poolVars
  <2>5. Ready' /\ SentTogether'
    BY DEF Ready, SentTogether, Complete, poolVars
  <2> QED BY <2>1, <2>2, <2>3, <2>4, <2>5 DEF IInv
<1>2. CASE Prepare(c)
  <2> USE <1>0, <1>2 DEF Prepare, Goto
  <2>1. TypeOK'
    <3>1. CASE /\ result' = [result EXCEPT ![c] = "exception"]
               /\ pc' = [pc EXCEPT ![c] = "finally"] /\ UNCHANGED latch
      BY <3>1 DEF TypeOK, poolVars
    <3>2. CASE /\ param[c].count >= 0
               /\ latch' = [latch EXCEPT ![c] = param[c].count]
               /\ pc' = [pc EXCEPT ![c] = "loop"] /\ UNCHANGED result
      <4>1. param[c].count \in 0..MaxCount
        BY <3>2 DEF TypeOK, Params
      <4> QED BY <3>2, <4>1 DEF TypeOK, poolVars
    <3> QED BY <3>1, <3>2
  <2>2. LockOwned'
    BY DEF LockOwned, Submitting, TypeOK
  <2>3. Counted'
    BY DEF Counted, TypeOK, Params
  <2>4. Queued' /\ Held'
    BY DEF Queued, Held, poolVars
  <2>5. Ready' /\ SentTogether'
    BY DEF Ready, SentTogether, Complete, poolVars
  <2> QED BY <2>1, <2>2, <2>3, <2>4, <2>5 DEF IInv
<1>3. CASE CountDown(c)
  <2> USE <1>0, <1>3 DEF CountDown, Goto
  <2>1. TypeOK'
    BY DEF TypeOK, Params, Counted, poolVars
  <2>2. LockOwned'
    BY DEF LockOwned, Submitting, TypeOK
  <2>3. Counted'
    BY DEF Counted, TypeOK, Params
  <2>4. Queued' /\ Held'
    BY DEF Queued, Held, poolVars
  <2>5. Ready' /\ SentTogether'
    BY DEF Ready, SentTogether, Complete, poolVars
  <2> QED BY <2>1, <2>2, <2>3, <2>4, <2>5 DEF IInv
<1>4. CASE LoopEnds(c)
  <2> USE <1>0, <1>4 DEF LoopEnds, Goto
  <2>1. TypeOK'
    BY DEF TypeOK, Params, Counted, poolVars
  <2>2. LockOwned'
    BY DEF LockOwned, Submitting, TypeOK
  <2>3. Counted'
    BY DEF Counted, TypeOK, Params
  <2>4. Queued' /\ Held'
    BY DEF Queued, Held, poolVars
  <2>5. Ready' /\ SentTogether'
    BY DEF Ready, SentTogether, Complete, poolVars
  <2> QED BY <2>1, <2>2, <2>3, <2>4, <2>5 DEF IInv
<1>5. CASE Unlock(c)
  <2> USE <1>0, <1>5 DEF Unlock, Goto
  <2>1. TypeOK'
    <3>1. result[c] \in {"none", "busy", "exception", "success"}
      BY DEF TypeOK
    <3>2. holder' \in Calls \cup {NoCall}
      BY DEF TypeOK
    <3>3. reply' \in [Calls -> {"none", "busy", "exception", "success", "nullMessage"}]
      BY <3>1 DEF TypeOK
    <3>4. pc' \in [Calls -> {"new", "body", "loop", "count", "finally", "done"}]
      BY DEF TypeOK
    <3> QED BY <3>2, <3>3, <3>4 DEF TypeOK, poolVars
  <2>2. LockOwned'
    BY DEF LockOwned, Submitting, TypeOK
  <2>3. Counted'
    BY DEF Counted, TypeOK, Params
  <2>4. Queued' /\ Held'
    BY DEF Queued, Held, poolVars
  <2>5. Ready' /\ SentTogether'
    BY DEF Ready, SentTogether, Complete, poolVars
  <2> QED BY <2>1, <2>2, <2>3, <2>4, <2>5 DEF IInv
<1>6. CASE Execute(c)
  <2> DEFINE t == <<c, submitted[c] + 1>>
  <2>1. PICK n \in 1..MaxCount : n = submitted[c] + 1 /\ n <= param[c].count
    BY <1>0, <1>6 DEF Execute, TypeOK, Params
  <2>2. t \in Tasks /\ t[1] = c
    BY <2>1 DEF Tasks
  <2>3. /\ queue' \in Seq(Tasks)
        /\ task' \in [Workers -> Tasks \cup {NoTask}]
        /\ stage' \in [Workers -> {"unborn", "idle", "await", "go", "sending"}]
        /\ \A i \in DOMAIN queue' : (i \in DOMAIN queue /\ queue'[i] = queue[i]) \/ queue'[i] = t
        /\ \A w \in Workers : \/ task'[w] = task[w] /\ stage'[w] = stage[w]
                              \/ task'[w] = t /\ stage'[w] = "await"
    BY <1>0, <1>6, <2>2, PoolStep DEF Execute
  <2>4. \A d \in Calls : submitted'[d] = IF d = c THEN n ELSE submitted[d]
    BY <1>0, <1>6, <2>1 DEF Execute, TypeOK
  <2>5. TypeOK'
    BY <1>0, <1>6, <2>1, <2>3 DEF TypeOK, Execute, Goto
  <2>6. LockOwned'
    BY <1>0, <1>6 DEF Execute, Goto, LockOwned, Submitting, TypeOK
  <2>7. Counted'
    BY <1>0, <1>6, <2>1, <2>4 DEF Execute, Goto, Counted, TypeOK, Params
  <2>8. Queued'
    <3> SUFFICES ASSUME NEW i \in DOMAIN queue' PROVE submitted'[queue'[i][1]] > 0
      BY DEF Queued
    <3>1. CASE queue'[i] = t
      BY <3>1, <2>1, <2>2, <2>4
    <3>2. CASE i \in DOMAIN queue /\ queue'[i] = queue[i]
      <4>1. queue[i][1] \in Calls
        BY <3>2, <1>0 DEF TypeOK, Tasks
      <4> QED BY <4>1, <3>2, <1>0, <2>1, <2>4 DEF Queued
    <3> QED BY <3>1, <3>2, <2>3
  <2>9. Held'
    <3> SUFFICES ASSUME NEW w \in Workers, stage'[w] \in {"await", "go", "sending"}
                 PROVE  task'[w] \in Tasks /\ submitted'[task'[w][1]] > 0
      BY DEF Held
    <3>1. CASE task'[w] = t
      BY <3>1, <2>1, <2>2, <2>4
    <3>2. CASE task'[w] = task[w] /\ stage'[w] = stage[w]
      <4>1. task[w] \in Tasks /\ submitted[task[w][1]] > 0
        BY <3>2, <1>0 DEF Held
      <4>2. task[w][1] \in Calls
        BY <4>1 DEF Tasks
      <4> QED BY <4>1, <4>2, <3>2, <2>1, <2>4
    <3> QED BY <3>1, <3>2, <2>3
  <2>10. \A u \in Tasks : Complete(u) => Complete(u)'
    <3> SUFFICES ASSUME NEW u \in Tasks, Complete(u) PROVE Complete(u)'
      OBVIOUS
    <3>1. u[1] \in Calls
      BY DEF Tasks
    <3>2. submitted[c] # param[c].count
      BY <1>0, <1>6 DEF Execute, TypeOK, Params
    <3> QED BY <3>1, <3>2, <2>4, <1>6 DEF Execute, Complete
  <2>11. Ready'
    BY <1>0, <2>3, <2>10 DEF Ready, Held
  <2>12. SentTogether'
    <3>1. sent' = sent /\ sent \subseteq Tasks
      BY <1>0, <1>6 DEF Execute, TypeOK
    <3> QED BY <1>0, <2>10, <3>1 DEF SentTogether, Complete
  <2> QED BY <2>5, <2>6, <2>7, <2>8, <2>9, <2>11, <2>12 DEF IInv
<1> QED BY <1>1, <1>2, <1>3, <1>4, <1>5, <1>6 DEF Call

(* The threads of the executor                                             *)
LEMMA WorkerStep ==
  ASSUME IInv, NEW w \in Workers, Worker(w)
  PROVE  IInv'
<1> USE CallsAssumption
<1>0. TypeOK /\ LockOwned /\ Counted /\ Queued /\ Held /\ Ready /\ SentTogether
  BY DEF IInv
<1>1. UNCHANGED callVars
  BY DEF Worker, Take, Awaited, Send, Answered
<1>2. LockOwned' /\ Counted'
  BY <1>0, <1>1 DEF callVars, LockOwned, Submitting, Counted
<1>3. CASE Take(w)
  <2> USE <1>0, <1>3 DEF Take
  <2>1. Head(queue) \in Tasks /\ Tail(queue) \in Seq(Tasks)
    BY DEF TypeOK
  <2>2. submitted[Head(queue)[1]] > 0
    BY DEF TypeOK, Queued
  <2>3. TypeOK'
    BY <2>1, <1>1 DEF TypeOK, callVars
  <2>4. \A i \in DOMAIN Tail(queue) : i + 1 \in DOMAIN queue /\ Tail(queue)[i] = queue[i + 1]
    BY DEF TypeOK
  <2>5. Queued'
    BY <2>4, <1>1 DEF Queued, callVars
  <2>6. Held'
    BY <2>1, <2>2, <1>1 DEF Held, callVars, TypeOK
  <2>7. Ready' /\ SentTogether'
    BY <1>1 DEF Ready, SentTogether, Complete, callVars, TypeOK
  <2> QED BY <1>2, <2>3, <2>5, <2>6, <2>7 DEF IInv
<1>4. CASE Awaited(w)
  <2> USE <1>0, <1>4 DEF Awaited
  <2>1. task[w] \in Tasks /\ submitted[task[w][1]] > 0
    BY DEF Held
  <2>2. task[w][1] \in Calls
    BY <2>1 DEF Tasks
  <2>3. TypeOK'
    BY <2>1, <1>1 DEF TypeOK, callVars
  <2>4. Complete(task[w])'
    <3>1. CASE latch[task[w][1]] = 0
      <4> DEFINE c == task[w][1]
      <4>1. c \in Calls /\ submitted[c] > 0 /\ latch[c] = 0
        BY <2>1, <2>2, <3>1
      <4>2. pc[c] \in {"new", "body", "loop", "count", "finally", "done"}
            /\ param[c].count \in Int /\ submitted[c] \in Int
        BY <4>1 DEF TypeOK, Params
      <4>3. submitted[c] = param[c].count
        BY <4>1, <4>2 DEF Counted
      <4> QED BY <4>3, <1>1 DEF Complete, callVars
    <3>2. CASE latch[task[w][1]] > 0 /\ late' = late \cup {task[w]}
      BY <3>2 DEF Complete
    <3> QED BY <3>1, <3>2
  <2>5. \A u \in Tasks : Complete(u) => Complete(u)'
    BY <1>1 DEF Complete, callVars
  <2>6. Queued' /\ Held'
    BY <1>1 DEF Queued, Held, callVars, TypeOK
  <2>7. Ready'
    <3> SUFFICES ASSUME NEW v \in Workers, stage'[v] \in {"go", "sending"} PROVE Complete(task[v])'
      BY DEF Ready
    <3>1. CASE v = w
      BY <3>1, <2>4
    <3>2. CASE v # w
      <4>1. stage[v] \in {"go", "sending"}
        BY <3>2 DEF TypeOK
      <4> QED BY <4>1, <2>5 DEF Ready, Held
    <3> QED BY <3>1, <3>2
  <2>8. SentTogether'
    BY <1>1 DEF SentTogether, callVars
  <2> QED BY <1>2, <2>3, <2>6, <2>7, <2>8 DEF IInv
<1>5. CASE Send(w)
  <2> USE <1>0, <1>5 DEF Send
  <2>1. task[w] \in Tasks /\ Complete(task[w])
    BY DEF Held, Ready
  <2>2. TypeOK'
    BY <2>1, <1>1, ZenonT(60) DEF TypeOK, callVars
  <2>3. Queued' /\ Held'
    BY <1>1, ZenonT(60) DEF Queued, Held, callVars, TypeOK
  <2>4. Ready'
    BY <1>1, ZenonT(60) DEF Ready, Complete, callVars, TypeOK
  <2>5. SentTogether'
    BY <2>1, <1>1 DEF SentTogether, Complete, callVars
  <2> QED BY <1>2, <2>2, <2>3, <2>4, <2>5 DEF IInv
<1>6. CASE Answered(w)
  <2> USE <1>0, <1>6 DEF Answered
  <2>1. TypeOK'
    BY <1>1 DEF TypeOK, callVars
  <2>2. Queued' /\ Held'
    BY <1>1 DEF Queued, Held, callVars, TypeOK
  <2>3. Ready' /\ SentTogether'
    BY <1>1 DEF Ready, SentTogether, Complete, callVars, TypeOK
  <2> QED BY <1>2, <2>1, <2>2, <2>3 DEF IInv
<1> QED BY <1>3, <1>4, <1>5, <1>6 DEF Worker

LEMMA Stutter == IInv /\ UNCHANGED vars => IInv'
BY DEF vars, IInv, TypeOK, LockOwned, Submitting, Counted, Queued, Held, Ready, SentTogether, Complete

(* The inductive invariant *)
THEOREM Invariance == Spec => []IInv
<1>1. Init => IInv
  BY InitIInv
<1>2. IInv /\ [Next]_vars => IInv'
  BY CallStep, WorkerStep, Stutter DEF Next
<1> QED BY <1>1, <1>2, PTL DEF Spec

-------------------------------------------------------------------------------
(* The variables keep their types: in particular the latch of a call is    *)
(* counted down as often as it was set to, never more (lines 108, 122).    *)
THEOREM TypeCorrect == Spec => []TypeOK
<1>1. IInv => TypeOK
  BY DEF IInv
<1> QED BY <1>1, Invariance, PTL

(* The static lock of ToolController is owned exactly by the call that is  *)
(* submitting or about to unlock: every way out of the try block gives it  *)
(* back, and a refused call's unlock takes it from nobody.                 *)
THEOREM LockCorrect == Spec => []LockOwned
<1>1. IInv => LockOwned
  BY DEF IInv
<1> QED BY <1>1, Invariance, PTL

(* No request of a batch leaves before all of its tasks were handed over,  *)
(* but one that waited for 5 seconds, with any number of threads and       *)
(* whatever other batches do.                                              *)
THEOREM BatchLeavesTogether == Spec => []SentTogether
<1>1. IInv => SentTogether
  BY DEF IInv
<1> QED BY <1>1, Invariance, PTL
-------------------------------------------------------------------------------
(* The batches *)

Busy(w) == stage[w] \in {"await", "go"}

(* No two places hold the same task: a task that was handed over is in the *)
(* queue, with a thread that has not sent it yet, or over.                 *)
Placed ==
  /\ \A i, j \in DOMAIN queue : queue[i] = queue[j] => i = j
  /\ \A v, w \in Workers : Busy(v) /\ Busy(w) /\ task[v] = task[w] => v = w
  /\ \A i \in DOMAIN queue, w \in Workers : Busy(w) => queue[i] # task[w]
  /\ \A i \in DOMAIN queue : queue[i] \notin sent \cup dead
  /\ \A w \in Workers : Busy(w) => task[w] \notin sent \cup dead

InQueue(t) == \E i \in DOMAIN queue : queue[i] = t
WithThread(t) == \E w \in Workers : Busy(w) /\ task[w] = t
Somewhere(t) == InQueue(t) \/ WithThread(t) \/ t \in sent \cup dead

(* The tasks that are somewhere are those the loops have handed over.      *)
Accounted == \A t \in Tasks : t[2] <= submitted[t[1]] <=> Somewhere(t)

(* Behind a task of a call that may still hand over more there are only    *)
(* tasks of the same call.                                                 *)
OpenAtEnd ==
  \A c \in Calls : pc[c] \in {"new", "body", "loop", "count"} =>
    \A i, j \in DOMAIN queue : i < j /\ queue[i][1] = c => queue[j][1] = c

BInv == IInv /\ Placed /\ Accounted /\ OpenAtEnd /\ BatchesUnmixed
LEMMA InitBInv == Init => BInv
<1> SUFFICES ASSUME Init PROVE Placed /\ Accounted /\ OpenAtEnd /\ BatchesUnmixed
  BY InitIInv DEF BInv
<1>1. Accounted
  BY DEF Init, Accounted, Somewhere, InQueue, WithThread, Busy, Tasks
<1> QED BY <1>1 DEF Init, Placed, Busy, OpenAtEnd, BatchesUnmixed

(* A step that leaves the pool and the loop variables alone moves nothing, *)
(* unless it brings a call back to its loop.                               *)
LEMMA NothingMoves ==
  ASSUME BInv, UNCHANGED <<poolVars, submitted>>,
         \A c \in Calls : pc'[c] \in {"new", "body", "loop", "count"}
                           => pc[c] \in {"new", "body", "loop", "count"}
  PROVE  Placed' /\ Accounted' /\ OpenAtEnd' /\ BatchesUnmixed'
<1>1. Placed' /\ Accounted' /\ BatchesUnmixed'
  BY DEF BInv, Placed, Accounted, Somewhere, InQueue, WithThread, Busy, BatchesUnmixed, poolVars
<1>2. OpenAtEnd'
  BY DEF BInv, OpenAtEnd, poolVars
<1> QED BY <1>1, <1>2

(* Handing a task over: it was nowhere before, and its call is the only    *)
(* one that may still hand over tasks of which some are in the queue.      *)
LEMMA ExecuteStep ==
  ASSUME BInv, IInv', NEW c \in Calls, Execute(c)
  PROVE  Placed' /\ Accounted' /\ OpenAtEnd' /\ BatchesUnmixed'
<1> DEFINE t == <<c, submitted[c] + 1>>
<1>0. TypeOK /\ LockOwned /\ Counted /\ Queued /\ Placed /\ Accounted /\ OpenAtEnd /\ BatchesUnmixed
  BY DEF BInv, IInv
<1>1. submitted[c] \in Nat /\ submitted[c] + 1 \in 1..MaxCount
  BY <1>0, CallsAssumption DEF Execute, TypeOK, Params
<1>2. t \in Tasks /\ t[1] = c /\ t[2] = submitted[c] + 1
  BY <1>1 DEF Tasks
<1>3. ~Somewhere(t)
  BY <1>0, <1>1, <1>2 DEF Accounted
<1>4. \A u \in Tasks : u[2] <= submitted'[u[1]] <=> u[2] <= submitted[u[1]] \/ u = t
  <2> TAKE u \in Tasks
  <2>1. PICK d \in Calls, k \in 1..MaxCount : u = <<d, k>>
    BY DEF Tasks
  <2>2. u[1] = d /\ u[2] = k /\ (u = t <=> d = c /\ k = submitted[c] + 1)
    BY <2>1
  <2>3. submitted'[d] = IF d = c THEN submitted[c] + 1 ELSE submitted[d]
    BY <1>0 DEF Execute, TypeOK
  <2> QED BY <2>2, <2>3, <1>1
<1>5. sent' = sent /\ dead' = dead
  BY DEF Execute
<1>6. CASE \E w \in Workers :
             /\ stage[w] = "unborn"
             /\ task' = [task EXCEPT ![w] = t] /\ stage' = [stage EXCEPT ![w] = "await"]
             /\ UNCHANGED queue
  <2>1. PICK w \in Workers :
             /\ stage[w] = "unborn"
             /\ task' = [task EXCEPT ![w] = t] /\ stage' = [stage EXCEPT ![w] = "await"]
             /\ UNCHANGED queue
    BY <1>6
  <2>2. \A v \in Workers : /\ Busy(v)' <=> Busy(v) \/ v = w
                           /\ v # w => task'[v] = task[v]
    BY <2>1, <1>0 DEF Busy, TypeOK
  <2>3. task'[w] = t /\ ~Busy(w)
    BY <2>1, <1>0 DEF Busy, TypeOK
  <2>4. Placed'
    BY <1>0, <1>3, <1>5, <2>1, <2>2, <2>3 DEF Placed, Somewhere, InQueue, WithThread
  <2>5. \A u : Somewhere(u)' <=> Somewhere(u) \/ u = t
    BY <1>5, <2>1, <2>2, <2>3 DEF Somewhere, InQueue, WithThread
  <2>6. Accounted'
    BY <1>0, <1>4, <2>5 DEF Accounted
  <2>7. OpenAtEnd' /\ BatchesUnmixed'
    BY <1>0, <2>1 DEF OpenAtEnd, BatchesUnmixed, Execute, Goto, TypeOK
  <2> QED BY <2>4, <2>6, <2>7
<1>7. CASE queue' = Append(queue, t) /\ UNCHANGED <<task, stage>>
  <2>1. /\ Len(queue) \in Nat /\ DOMAIN queue = 1..Len(queue)
        /\ DOMAIN queue' = 1..Len(queue) + 1
        /\ \A i \in DOMAIN queue : i \in DOMAIN queue' /\ queue'[i] = queue[i]
        /\ queue'[Len(queue) + 1] = t
    BY <1>0, <1>7, <1>2 DEF TypeOK
  <2>2. \A i \in DOMAIN queue' : i \in DOMAIN queue \/ i = Len(queue) + 1
    BY <2>1
  <2>3. \A w : Busy(w)' <=> Busy(w)
    BY <1>7 DEF Busy
  <2>4. Placed'
    <3>1. \A i, j \in DOMAIN queue' : queue'[i] = queue'[j] => i = j
      BY <1>0, <1>3, <2>1, <2>2 DEF Placed, Somewhere, InQueue
    <3>2. \A i \in DOMAIN queue', w \in Workers : Busy(w)' => queue'[i] # task'[w]
      BY <1>0, <1>3, <1>7, <2>1, <2>2, <2>3 DEF Placed, Somewhere, WithThread
    <3>3. \A i \in DOMAIN queue' : queue'[i] \notin sent' \cup dead'
      BY <1>0, <1>3, <1>5, <2>1, <2>2 DEF Placed, Somewhere
    <3> QED BY <1>0, <1>5, <1>7, <2>3, <3>1, <3>2, <3>3 DEF Placed
  <2>5. \A u : Somewhere(u)' <=> Somewhere(u) \/ u = t
    <3>1. ASSUME NEW u PROVE InQueue(u)' <=> InQueue(u) \/ u = t
      <4>1. InQueue(u) => InQueue(u)'
        BY <2>1 DEF InQueue
      <4>2. u = t => InQueue(u)'
        <5>1. Len(queue) + 1 \in DOMAIN queue'
          BY <2>1
        <5> QED BY <2>1, <5>1 DEF InQueue
      <4>3. InQueue(u)' => InQueue(u) \/ u = t
        <5> SUFFICES ASSUME NEW i \in DOMAIN queue', queue'[i] = u
                     PROVE  InQueue(u) \/ u = t
          BY DEF InQueue
        <5>1. i \in DOMAIN queue => InQueue(u)
          BY <2>1 DEF InQueue
        <5> QED BY <2>1, <2>2, <5>1
      <4> QED BY <4>1, <4>2, <4>3
    <3> QED BY <1>5, <1>7, <2>3, <3>1 DEF Somewhere, WithThread
  <2>6. Accounted'
    BY <1>0, <1>4, <2>5 DEF Accounted
  <2>7. pc[c] = "loop" /\ pc'[c] = "count" /\ \A d \in Calls : d # c => pc'[d] = pc[d]
    BY <1>0 DEF Execute, Goto, TypeOK
  <2>8. OpenAtEnd'
    <3> SUFFICES ASSUME NEW d \in Calls, pc'[d] \in {"new", "body", "loop", "count"},
                        NEW i \in DOMAIN queue', NEW j \in DOMAIN queue',
                        i < j, queue'[i][1] = d
                 PROVE  queue'[j][1] = d
      BY DEF OpenAtEnd
    <3>1. CASE d = c
      BY <1>0, <1>2, <2>1, <2>2, <2>7, <3>1 DEF OpenAtEnd
    <3>2. CASE pc'[d] = "new"
      BY <3>2, CallsAssumption DEF IInv, Counted, Queued
    <3>3. CASE d # c /\ pc[d] \in {"body", "loop", "count"}
      BY <1>0, <2>7, <3>3 DEF LockOwned, Submitting
    <3> QED BY <2>7, <3>1, <3>2, <3>3
  <2>9. BatchesUnmixed'
    <3> SUFFICES ASSUME NEW i \in DOMAIN queue', NEW j \in DOMAIN queue', NEW k \in DOMAIN queue',
                        i < j, j < k, queue'[i][1] = queue'[k][1]
                 PROVE  queue'[j][1] = queue'[i][1]
      BY DEF BatchesUnmixed
    <3>1. i \in DOMAIN queue /\ j \in DOMAIN queue
      BY <2>1
    <3>2. CASE k \in DOMAIN queue
      BY <1>0, <2>1, <3>1, <3>2 DEF BatchesUnmixed
    <3>3. CASE k = Len(queue) + 1
      BY <1>0, <1>2, <2>1, <2>7, <3>1, <3>3 DEF OpenAtEnd
    <3> QED BY <2>2, <3>2, <3>3
  <2> QED BY <2>4, <2>6, <2>8, <2>9
<1> QED BY <1>6, <1>7 DEF Execute, PoolExecute

(* A thread takes the head of the queue, which is then nowhere else.       *)
LEMMA TakeStep ==
  ASSUME BInv, NEW w \in Workers, Take(w)
  PROVE  Placed' /\ Accounted' /\ OpenAtEnd' /\ BatchesUnmixed'
<1>0. TypeOK /\ Placed /\ Accounted /\ OpenAtEnd /\ BatchesUnmixed
  BY DEF BInv, IInv
<1>1. /\ 1 \in DOMAIN queue /\ task'[w] = queue[1]
      /\ DOMAIN queue = 1..Len(queue) /\ Len(queue) \in Nat /\ DOMAIN queue' = 1..Len(queue) - 1
      /\ \A i \in DOMAIN queue' : i + 1 \in DOMAIN queue /\ queue'[i] = queue[i + 1]
  BY <1>0 DEF Take, TypeOK
<1>2. \A v \in Workers : /\ Busy(v)' <=> Busy(v) \/ v = w
                         /\ v # w => task'[v] = task[v]
  BY <1>0 DEF Take, Busy, TypeOK
<1>3. ~Busy(w) /\ sent' = sent /\ dead' = dead /\ submitted' = submitted /\ pc' = pc
  BY DEF Take, Busy, callVars
<1>4. Placed'
  <2>1. \A i, j \in DOMAIN queue' : queue'[i] = queue'[j] => i = j
    BY <1>0, <1>1 DEF Placed
  <2>2. \A v, u \in Workers : Busy(v)' /\ Busy(u)' /\ task'[v] = task'[u] => v = u
    BY <1>0, <1>1, <1>2 DEF Placed
  <2>3. \A i \in DOMAIN queue', v \in Workers : Busy(v)' => queue'[i] # task'[v]
    BY <1>0, <1>1, <1>2 DEF Placed
  <2>4. /\ \A i \in DOMAIN queue' : queue'[i] \notin sent' \cup dead'
        /\ \A v \in Workers : Busy(v)' => task'[v] \notin sent' \cup dead'
    BY <1>0, <1>1, <1>2, <1>3 DEF Placed
  <2> QED BY <2>1, <2>2, <2>3, <2>4 DEF Placed
<1>5. \A u : Somewhere(u)' <=> Somewhere(u)
  <2> TAKE u
  <2>1. InQueue(u) <=> InQueue(u)' \/ u = queue[1]
    <3>1. \A i \in DOMAIN queue : i = 1 \/ (i - 1 \in DOMAIN queue' /\ queue'[i - 1] = queue[i])
      BY <1>1
    <3> QED BY <1>1, <3>1 DEF InQueue
  <2>2. WithThread(u)' <=> WithThread(u) \/ u = queue[1]
    BY <1>1, <1>2, <1>3 DEF WithThread
  <2> QED BY <1>3, <2>1, <2>2 DEF Somewhere
<1>6. Accounted'
  BY <1>0, <1>3, <1>5 DEF Accounted
<1>7. OpenAtEnd' /\ BatchesUnmixed'
  <2>1. \A i, j \in DOMAIN queue' : i < j <=> i + 1 < j + 1
    BY <1>1
  <2>2. OpenAtEnd'
    BY <1>0, <1>1, <1>3, <2>1 DEF OpenAtEnd
  <2>3. BatchesUnmixed'
    BY <1>0, <1>1, <2>1 DEF BatchesUnmixed
  <2> QED BY <2>2, <2>3
<1> QED BY <1>4, <1>6, <1>7

LEMMA SendStep ==
  ASSUME BInv, NEW w \in Workers, Send(w)
  PROVE  Placed' /\ Accounted' /\ OpenAtEnd' /\ BatchesUnmixed'
<1>0. TypeOK /\ Placed /\ Accounted /\ OpenAtEnd /\ BatchesUnmixed
  BY DEF BInv, IInv
<1>1. queue' = queue /\ submitted' = submitted /\ pc' = pc
  BY DEF Send, callVars
<1>2. sent' \cup dead' = (sent \cup dead) \cup {task[w]}
  BY DEF Send
<1>3. \A v \in Workers : /\ Busy(v)' <=> Busy(v) /\ v # w
                         /\ v # w => task'[v] = task[v]
  BY <1>0 DEF Send, Busy, TypeOK
<1>4. Busy(w)
  BY DEF Send, Busy
<1>5. Placed'
  BY <1>0, <1>1, <1>2, <1>3, <1>4 DEF Placed
<1>6. \A u : Somewhere(u)' <=> Somewhere(u)
  BY <1>1, <1>2, <1>3, <1>4 DEF Somewhere, InQueue, WithThread
<1>7. Accounted'
  BY <1>0, <1>1, <1>6 DEF Accounted
<1> QED BY <1>0, <1>1, <1>5, <1>7 DEF OpenAtEnd, BatchesUnmixed

LEMMA BatchesStep == BInv /\ [Next]_vars => BInv'
<1> SUFFICES ASSUME BInv, [Next]_vars PROVE BInv'
  OBVIOUS
<1>1. IInv'
  BY CallStep, WorkerStep, Stutter DEF Next, BInv
<1>2. ASSUME NEW c \in Calls, Call(c)
      PROVE  Placed' /\ Accounted' /\ OpenAtEnd' /\ BatchesUnmixed'
  <2>1. CASE Execute(c)
    BY <1>1, <2>1, ExecuteStep
  <2>2. CASE TryLock(c) \/ Prepare(c) \/ CountDown(c) \/ LoopEnds(c) \/ Unlock(c)
    <3>1. UNCHANGED <<poolVars, submitted>>
      BY <2>2 DEF TryLock, Prepare, CountDown, LoopEnds, Unlock
    <3>2. \A d \in Calls : pc'[d] \in {"new", "body", "loop", "count"}
                           => pc[d] \in {"new", "body", "loop", "count"}
      BY <2>2 DEF TryLock, Prepare, CountDown, LoopEnds, Unlock, Goto, BInv, IInv, TypeOK
    <3> QED BY <3>1, <3>2, NothingMoves
  <2> QED BY <1>2, <2>1, <2>2 DEF Call
<1>3. ASSUME NEW w \in Workers, Worker(w)
      PROVE  Placed' /\ Accounted' /\ OpenAtEnd' /\ BatchesUnmixed'
  <2>1. CASE Awaited(w) \/ Answered(w)
    <3>0. TypeOK /\ Placed /\ Accounted /\ OpenAtEnd /\ BatchesUnmixed
      BY DEF BInv, IInv
    <3>1. queue' = queue /\ submitted' = submitted /\ pc' = pc /\ sent' = sent /\ dead' = dead
      BY <2>1 DEF Awaited, Answered, callVars
    <3>2. \A v \in Workers : (Busy(v)' <=> Busy(v)) /\ (Busy(v) => task'[v] = task[v])
      BY <2>1, <3>0 DEF Awaited, Answered, Busy, TypeOK
    <3> QED BY <3>0, <3>1, <3>2
            DEF Placed, Accounted, OpenAtEnd, BatchesUnmixed, Somewhere, InQueue, WithThread
  <2> QED BY <1>3, <2>1, TakeStep, SendStep DEF Worker
<1>4. ASSUME UNCHANGED vars
      PROVE  Placed' /\ Accounted' /\ OpenAtEnd' /\ BatchesUnmixed'
  <2>1. UNCHANGED <<poolVars, submitted>>
    BY <1>4 DEF vars, poolVars
  <2>2. \A d \in Calls : pc'[d] \in {"new", "body", "loop", "count"}
                         => pc[d] \in {"new", "body", "loop", "count"}
    BY <1>4 DEF vars
  <2> QED BY <2>1, <2>2, NothingMoves
<1> QED BY <1>1, <1>2, <1>3, <1>4 DEF Next, BInv

(* Places that hold one task each, counted.                                *)
LEMMA PlacedOnce ==
  ASSUME Placed, Accounted
  PROVE  HandledOnce
<1> SUFFICES ASSUME NEW t \in Tasks
             PROVE  Cardinality(Positions(t)) + Cardinality(Holding(t)) + Cardinality(Over(t))
                      = IF t[2] <= submitted[t[1]] THEN 1 ELSE 0
  BY DEF HandledOnce
<1>1. Cardinality(Positions(t)) = IF InQueue(t) THEN 1 ELSE 0
  <2>1. CASE InQueue(t)
    <3>1. PICK i \in DOMAIN queue : queue[i] = t
      BY <2>1 DEF InQueue
    <3>2. Positions(t) = {i}
      BY <3>1 DEF Placed, Positions
    <3> QED BY <2>1, <3>2, FS_Singleton
  <2>2. CASE ~InQueue(t)
    BY <2>2, FS_EmptySet DEF Positions, InQueue
  <2> QED BY <2>1, <2>2
<1>2. Cardinality(Holding(t)) = IF WithThread(t) THEN 1 ELSE 0
  <2>1. CASE WithThread(t)
    <3>1. PICK w \in Workers : Busy(w) /\ task[w] = t
      BY <2>1 DEF WithThread
    <3>2. Holding(t) = {w}
      BY <3>1 DEF Placed, Holding, Busy
    <3> QED BY <2>1, <3>2, FS_Singleton
  <2>2. CASE ~WithThread(t)
    BY <2>2, FS_EmptySet DEF Holding, WithThread, Busy
  <2> QED BY <2>1, <2>2
<1>3. Cardinality(Over(t)) = IF t \in sent \cup dead THEN 1 ELSE 0
  BY FS_Singleton, FS_EmptySet DEF Over
<1>4. /\ ~(InQueue(t) /\ WithThread(t)) /\ ~(InQueue(t) /\ t \in sent \cup dead)
      /\ ~(WithThread(t) /\ t \in sent \cup dead)
  BY DEF Placed, InQueue, WithThread
<1> QED BY <1>1, <1>2, <1>3, <1>4 DEF Accounted, Somewhere

(* The executor gets the tasks of one batch after those of another, and    *)
(* every task that was handed over is in the queue, with one thread or     *)
(* over, for good: whatever calls overlap, none is lost, doubled or mixed  *)
(* in (lines 98-129).                                                      *)
THEOREM BatchesStayIntact == Spec => []BatchesIntact
<1>1. Spec => []BInv
  BY InitBInv, BatchesStep, PTL DEF Spec
<1>2. BInv => BatchesIntact
  BY PlacedOnce DEF BInv, BatchesIntact
<1> QED BY <1>1, <1>2, PTL
===============================================================================
