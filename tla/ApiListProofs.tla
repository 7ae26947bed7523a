---------------------------- MODULE ApiListProofs ----------------------------
(***************************************************************************)
(* Theorems about the listing of RPC interfaces, for any number of         *)
(* requests and pool threads: what is still to come is accounted for at    *)
(* every step, and an answer that did not wait out its minute is complete. *)
(***************************************************************************)
EXTENDS ApiList, FiniteSetTheorems, TLAPS

InQueue(t) == \E i \in DOMAIN queue : queue[i].task = t
WithThread(t) == \E w \in Workers : task[w] = t
BeingLoaded(t) == \E w \in Workers : task[w] = t /\ stage[w] \in {"load", "add"}

(* The task of the jar may still add to the answer.                        *)
Waiting(t) == t[2] > submitted[t[1]] \/ InQueue(t) \/ BeingLoaded(t)

KilledOf(r) == {t \in killed : t[1] = r}

(* A submitted task is in one place at most; one an Error ended is in none.*)
Placed ==
  /\ \A r \in Requests : submitted[r] <= Len(jars[r])
  /\ \A i, j \in DOMAIN queue : queue[i].task = queue[j].task => i = j
  /\ \A i \in DOMAIN queue, w \in Workers : queue[i].task # task[w]
  /\ \A v, w \in Workers : task[v] = task[w] /\ task[v] # NoTask => v = w
  /\ \A i \in DOMAIN queue : /\ queue[i].task[2] <= submitted[queue[i].task[1]]
                             /\ queue[i].traceId = queue[i].task[1]
  /\ \A w \in Workers : task[w] # NoTask => task[w][2] <= submitted[task[w][1]]
  /\ \A w \in Workers : stage[w] = "idle" <=> task[w] = NoTask
  /\ \A t \in killed : /\ t[2] <= submitted[t[1]] /\ Breaks(Jar(t))
                       /\ ~ InQueue(t) /\ ~ WithThread(t)

(* A jar that should be shown was found or is still waited for, never      *)
(* both; and nothing else is found.                                        *)
Settled ==
  /\ \A r \in Requests : \A k \in found[r] : k \in Loadable(r) /\ ~ Waiting(<<r, k>>)
  /\ \A r \in Requests : \A k \in Loadable(r) : k \in found[r] \/ Waiting(<<r, k>>)
  /\ \A t \in failed : ~ Waiting(t)
  /\ \A w \in Workers : stage[w] = "add" => ~ Breaks(Jar(task[w]))

(* A request that went on before its minute was over saw its latch at 0.   *)
Answered ==
  \A r \in Requests :
    /\ pc[r] \in {"answer", "done"} => timedOut[r] \/ latch[r] = 0
    /\ pc[r] = "done" => reply[r] \subseteq found[r] /\ (timedOut[r] \/ reply[r] = found[r])

IInv ==
  /\ TypeOK /\ Placed /\ LatchCounts /\ TraceFollowsTask /\ Settled /\ Answered
  /\ \A r \in Requests : IsFiniteSet(KilledOf(r))

-------------------------------------------------------------------------------
(* NoTask is not a task, and a task is a pair. *)
LEMMA TaskIsPair ==
  /\ NoTask \notin Tasks
  /\ \A t \in Tasks : t[1] \in Requests /\ t[2] \in 1..MaxJars /\ t = <<t[1], t[2]>>
BY DEF NoTask, Tasks

LEMMA JarsOfRequest ==
  ASSUME TypeOK, NEW r \in Requests
  PROVE  /\ Len(jars[r]) \in Nat /\ DOMAIN jars[r] = 1..Len(jars[r])
         /\ Len(jars[r]) <= MaxJars
         /\ \A k \in DOMAIN jars[r] : <<r, k>> \in Tasks
BY RequestsAssumption DEF TypeOK, Tasks

LEMMA QueueOfTasks ==
  ASSUME TypeOK
  PROVE  /\ Len(queue) \in Nat /\ DOMAIN queue = 1..Len(queue)
         /\ \A i \in DOMAIN queue : queue[i].task \in Tasks /\ queue[i].traceId \in Requests
<1> DEFINE S == [task : Tasks, traceId : Requests]
<1>1. queue \in Seq(S)
  BY DEF TypeOK
<1>2. \A e \in S : e.task \in Tasks /\ e.traceId \in Requests
  OBVIOUS
<1> HIDE DEF S
<1>3. Len(queue) \in Nat /\ DOMAIN queue = 1..Len(queue) /\ \A i \in DOMAIN queue : queue[i] \in S
  BY <1>1
<1> QED BY <1>2, <1>3

LEMMA PendingFinite ==
  ASSUME TypeOK, NEW r \in Requests
  PROVE  IsFiniteSet(Pending(r))
<1>1. Len(jars[r]) \in Nat /\ DOMAIN jars[r] = 1..Len(jars[r])
  BY JarsOfRequest
<1>2. IsFiniteSet(1..Len(jars[r]))
  BY <1>1, FS_Interval
<1>3. Pending(r) \subseteq 1..Len(jars[r])
  BY <1>1 DEF Pending
<1> QED BY <1>2, <1>3, FS_Subset

LEMMA PendingAre ==
  ASSUME NEW r \in Requests
  PROVE  Pending(r) = {k \in DOMAIN jars[r] : \/ k > submitted[r] \/ InQueue(<<r, k>>)
                                              \/ WithThread(<<r, k>>)}
<1>1. \A k : (\E i \in DOMAIN queue : queue[i].task = <<r, k>>) <=> InQueue(<<r, k>>)
  BY DEF InQueue
<1>2. \A k : (\E w \in Workers : task[w] = <<r, k>>) <=> WithThread(<<r, k>>)
  BY DEF WithThread
<1> QED BY <1>1, <1>2, Zenon DEF Pending

(* A pool thread that is not idle has a task no other place holds.         *)
LEMMA BusyThread ==
  ASSUME TypeOK, Placed, NEW w \in Workers, stage[w] # "idle"
  PROVE  /\ task[w] \in Tasks /\ task[w][1] \in Requests
         /\ task[w][2] \in DOMAIN jars[task[w][1]] /\ task[w][2] \in Pending(task[w][1])
         /\ task[w] \notin killed /\ ~ InQueue(task[w])
         /\ \A v \in Workers : task[v] = task[w] => v = w
         /\ task[w] = <<task[w][1], task[w][2]>>
         /\ task[w][2] <= submitted[task[w][1]]
<1>1. task[w] \in Tasks /\ task[w] # NoTask
  BY DEF TypeOK, Placed
<1>2. task[w][1] \in Requests /\ task[w][2] \in 1..MaxJars /\ task[w] = <<task[w][1], task[w][2]>>
  BY <1>1, TaskIsPair
<1>3. task[w][2] <= submitted[task[w][1]] /\ submitted[task[w][1]] <= Len(jars[task[w][1]])
      /\ submitted[task[w][1]] \in Int
  BY <1>1, <1>2 DEF Placed, TypeOK
<1>4. task[w][2] \in DOMAIN jars[task[w][1]]
  BY <1>2, <1>3, JarsOfRequest
<1>5. task[w][2] \in Pending(task[w][1])
  BY <1>2, <1>4 DEF Pending
<1>6. task[w] \notin killed /\ ~ InQueue(task[w])
  BY DEF Placed, WithThread, InQueue
<1> QED BY <1>1, <1>2, <1>3, <1>4, <1>5, <1>6 DEF Placed

LEMMA InitIInv == Init => IInv
<1> SUFFICES ASSUME Init PROVE IInv
  OBVIOUS
<1>1. TypeOK
  <2>1. \A r \in Requests : jars[r] \in Seq(JarKinds) /\ Len(jars[r]) <= MaxJars
                            /\ Len(jars[r]) \in Nat
    <3> TAKE r \in Requests
    <3>0. jars[r] \in UNION {[1..n -> JarKinds] : n \in 0..MaxJars}
      BY DEF Init
    <3>1. PICK n \in 0..MaxJars : jars[r] \in [1..n -> JarKinds]
      BY <3>0, Zenon
    <3>2. n \in Nat
      BY RequestsAssumption
    <3>3. jars[r] \in Seq(JarKinds)
      BY <3>1, <3>2
    <3>4. Len(jars[r]) = n
      BY <3>1, <3>2, <3>3
    <3> QED BY <3>2, <3>3, <3>4, RequestsAssumption
  <2>2. latch \in [Requests -> 0..MaxJars]
    BY <2>1, RequestsAssumption DEF Init
  <2>3. queue \in Seq([task : Tasks, traceId : Requests])
    BY DEF Init
  <2> QED BY <2>1, <2>2, <2>3, RequestsAssumption DEF Init, TypeOK
<1>2. ~ \E t : InQueue(t)
  BY DEF Init, InQueue
<1>3. Placed
  BY <1>1, JarsOfRequest DEF Init, Placed
<1>4. \A r \in Requests : KilledOf(r) = {}
  BY DEF Init, KilledOf
<1>5. LatchCounts
  <2> SUFFICES ASSUME NEW r \in Requests
               PROVE  latch[r] = Cardinality(Pending(r)) + Cardinality(KilledOf(r))
    BY DEF LatchCounts, KilledOf
  <2>0. submitted[r] = 0 /\ Len(jars[r]) \in Nat
    BY <1>1, JarsOfRequest DEF Init
  <2>1. Pending(r) = 1..Len(jars[r])
    BY <1>1, <2>0, JarsOfRequest DEF Pending
  <2>2. Cardinality(Pending(r)) = Len(jars[r])
    BY <1>1, <2>1, JarsOfRequest, FS_Interval
  <2>3. Cardinality(KilledOf(r)) = 0
    BY <1>4, FS_EmptySet
  <2>4. latch[r] = Len(jars[r])
    BY DEF Init
  <2> QED BY <2>0, <2>2, <2>3, <2>4
<1>6. Settled
  <2>1. ASSUME NEW r \in Requests, NEW k \in Loadable(r) PROVE Waiting(<<r, k>>)
    <3>1. k \in 1..Len(jars[r]) /\ submitted[r] = 0
      BY <1>1, JarsOfRequest DEF Init, Loadable
    <3>2. k > submitted[r]
      BY <1>1, <3>1, JarsOfRequest
    <3> QED BY <3>2 DEF Waiting
  <2> QED BY <2>1 DEF Init, Settled
<1>7. Answered /\ TraceFollowsTask
  BY DEF Init, Answered, TraceFollowsTask
<1> QED BY <1>1, <1>3, <1>4, <1>5, <1>6, <1>7, FS_EmptySet DEF IInv

-------------------------------------------------------------------------------
(* What most steps leave as it was *)

(* The task of the jar is still to end.                                    *)
Open(t) == t[2] > submitted[t[1]] \/ InQueue(t) \/ WithThread(t)

LEMMA CountsKept ==
  ASSUME TypeOK, LatchCounts, \A r \in Requests : IsFiniteSet(KilledOf(r)),
         jars' = jars, latch' = latch, killed' = killed,
         \A u \in Tasks : Open(u)' <=> Open(u)
  PROVE  LatchCounts' /\ \A r \in Requests : IsFiniteSet(KilledOf(r))'
<1> SUFFICES ASSUME NEW r \in Requests
             PROVE  /\ latch'[r] = Cardinality(Pending(r)') + Cardinality(KilledOf(r)')
                    /\ IsFiniteSet(KilledOf(r)')
  BY DEF LatchCounts, KilledOf
<1>1. KilledOf(r)' = KilledOf(r)
  BY DEF KilledOf
<1>2. \A k \in DOMAIN jars[r] : /\ k \in Pending(r) <=> Open(<<r, k>>)
                                /\ k \in Pending(r)' <=> Open(<<r, k>>)'
  BY DEF Pending, Open, InQueue, WithThread
<1>3. Pending(r) \subseteq DOMAIN jars[r] /\ Pending(r)' \subseteq DOMAIN jars[r]
  BY DEF Pending
<1>4. Pending(r)' = Pending(r)
  BY <1>2, <1>3, JarsOfRequest
<1> QED BY <1>1, <1>4 DEF LatchCounts, KilledOf

LEMMA FoundKept ==
  ASSUME TypeOK, Settled, jars' = jars, found' = found, failed' = failed,
         \A u \in Tasks : Waiting(u)' <=> Waiting(u),
         \A w \in Workers : stage'[w] = "add" => ~ Breaks(Jar(task[w])) /\ task'[w] = task[w]
  PROVE  Settled'
<1>1. \A r \in Requests : Loadable(r)' = Loadable(r)
  BY DEF Loadable
<1>2. \A r \in Requests : \A k \in Loadable(r) : <<r, k>> \in Tasks
  BY JarsOfRequest DEF Loadable
<1>3. \A r \in Requests : \A k \in found'[r] : k \in Loadable(r)' /\ ~ Waiting(<<r, k>>)'
  BY <1>1, <1>2 DEF Settled
<1>4. \A r \in Requests : \A k \in Loadable(r)' : k \in found'[r] \/ Waiting(<<r, k>>)'
  BY <1>1, <1>2 DEF Settled
<1>5. \A t \in failed' : ~ Waiting(t)'
  BY DEF Settled, TypeOK
<1>6. \A w \in Workers : stage'[w] = "add" => ~ Breaks(Jar(task[w]))'
  BY DEF Jar
<1> QED BY <1>3, <1>4, <1>5, <1>6 DEF Settled

LEMMA AnswersKept ==
  ASSUME Answered, pc' = pc, timedOut' = timedOut, reply' = reply,
         \A r \in Requests : found[r] \subseteq found'[r],
         \A r \in Requests : latch[r] = 0 => latch'[r] = 0 /\ found'[r] = found[r],
         \A r \in Requests : pc[r] = "done" => timedOut[r] \/ latch[r] = 0
  PROVE  Answered'
BY DEF Answered

(* A latch at 0 leaves nothing to come. *)
LEMMA LatchAtZero ==
  ASSUME TypeOK, LatchCounts, \A r \in Requests : IsFiniteSet(KilledOf(r)),
         NEW r \in Requests
  PROVE  /\ latch[r] = 0 => Pending(r) = {}
         /\ Pending(r) # {} => latch[r] - 1 \in 0..MaxJars
<1>1. IsFiniteSet(Pending(r)) /\ IsFiniteSet(KilledOf(r))
  BY PendingFinite
<1>2. latch[r] = Cardinality(Pending(r)) + Cardinality(KilledOf(r))
  BY DEF LatchCounts, KilledOf
<1>3. Cardinality(Pending(r)) \in Nat /\ Cardinality(KilledOf(r)) \in Nat
  BY <1>1, FS_CardinalityType
<1>4. Cardinality(Pending(r)) = 0 <=> Pending(r) = {}
  BY <1>1, FS_EmptySet
<1>5. latch[r] \in 0..MaxJars /\ MaxJars \in Nat
  BY RequestsAssumption DEF TypeOK
<1> QED BY <1>2, <1>3, <1>4, <1>5

-------------------------------------------------------------------------------
(* The steps of a request *)

LEMMA SubmitStep ==
  ASSUME IInv, NEW r \in Requests, Submit(r)
  PROVE  IInv'
<1>0. TypeOK /\ Placed /\ LatchCounts /\ TraceFollowsTask /\ Settled /\ Answered
  BY DEF IInv
<1>1. PICK t \in Tasks : t = <<r, submitted[r] + 1>> /\ t[1] = r /\ t[2] = submitted[r] + 1
  <2>1. submitted[r] \in Nat /\ submitted[r] + 1 <= Len(jars[r])
    BY <1>0, JarsOfRequest DEF TypeOK, Submit
  <2>2. submitted[r] + 1 \in 1..MaxJars
    BY <1>0, <2>1, JarsOfRequest, RequestsAssumption
  <2>3. <<r, submitted[r] + 1>> \in Tasks
    BY <2>2 DEF Tasks
  <2> QED BY <2>3
<1>2. /\ Len(queue) \in Nat /\ DOMAIN queue = 1..Len(queue)
      /\ DOMAIN queue' = 1..Len(queue) + 1
      /\ \A i \in DOMAIN queue : queue'[i] = queue[i]
      /\ queue'[Len(queue) + 1] = [task |-> t, traceId |-> r]
  BY <1>0, <1>1 DEF Submit, TypeOK
<1>3. \A i \in DOMAIN queue' : i \in DOMAIN queue \/ i = Len(queue) + 1
  BY <1>2
<1>4. \A q \in Requests : /\ submitted[q] \in Int
                          /\ submitted'[q] = IF q = r THEN submitted[r] + 1 ELSE submitted[q]
  BY <1>0 DEF Submit, TypeOK
<1>5. /\ jars' = jars /\ pc' = pc /\ latch' = latch /\ found' = found /\ timedOut' = timedOut
      /\ reply' = reply /\ task' = task /\ stage' = stage /\ traceId' = traceId
      /\ failed' = failed /\ killed' = killed
  BY DEF Submit
<1>6. ~ InQueue(t) /\ ~ WithThread(t) /\ t \notin killed
  <2>1. ~ InQueue(t)
    BY <1>0, <1>1, <1>4 DEF Placed, InQueue
  <2>2. ~ WithThread(t)
    BY <1>0, <1>1, <1>4, TaskIsPair DEF Placed, WithThread
  <2>3. t \notin killed
    BY <1>0, <1>1, <1>4 DEF Placed
  <2> QED BY <2>1, <2>2, <2>3
<1>7. \A u \in Tasks : InQueue(u)' <=> InQueue(u) \/ u = t
  <2> TAKE u \in Tasks
  <2>1. InQueue(u) => InQueue(u)'
    BY <1>2 DEF InQueue
  <2>2. u = t => InQueue(u)'
    <3>1. Len(queue) + 1 \in DOMAIN queue'
      BY <1>2
    <3> QED BY <1>2, <3>1 DEF InQueue
  <2>3. ASSUME NEW i \in DOMAIN queue', queue'[i].task = u
        PROVE  InQueue(u) \/ u = t
    BY <1>2, <1>3, <2>3 DEF InQueue
  <2> QED BY <2>1, <2>2, <2>3 DEF InQueue
<1>8. \A u \in Tasks : u[2] > submitted'[u[1]] <=> u[2] > submitted[u[1]] /\ u # t
  <2> TAKE u \in Tasks
  <2>1. u[1] \in Requests /\ u[2] \in Int /\ u = <<u[1], u[2]>>
    BY TaskIsPair
  <2>2. u = t <=> u[1] = r /\ u[2] = submitted[r] + 1
    BY <1>1, <2>1
  <2> QED BY <1>4, <2>1, <2>2
<1>9. \A u \in Tasks : /\ WithThread(u)' <=> WithThread(u) 
                       /\ BeingLoaded(u)' <=> BeingLoaded(u)
  BY <1>5 DEF WithThread, BeingLoaded
<1>10. t[2] > submitted[t[1]]
  BY <1>1, <1>4
<1>11. TypeOK'
  <2>1. queue' \in Seq([task : Tasks, traceId : Requests])
    BY <1>0, <1>1 DEF Submit, TypeOK
  <2>2. submitted' \in [Requests -> 0..MaxJars]
    BY <1>0, <1>1, TaskIsPair DEF Submit, TypeOK
  <2> QED BY <1>0, <1>5, <2>1, <2>2 DEF TypeOK
<1>12. LatchCounts' /\ \A q \in Requests : IsFiniteSet(KilledOf(q))'
  <2>1. \A u \in Tasks : Open(u)' <=> Open(u)
    BY <1>7, <1>8, <1>9, <1>10 DEF Open
  <2> QED BY <1>0, <1>5, <2>1, CountsKept DEF IInv
<1>13. Settled'
  <2>1. \A u \in Tasks : Waiting(u)' <=> Waiting(u)
    BY <1>7, <1>8, <1>9, <1>10 DEF Waiting
  <2> QED BY <1>0, <1>5, <2>1, FoundKept DEF Settled
<1>14. Answered' /\ TraceFollowsTask'
  BY <1>0, <1>5 DEF Answered, TraceFollowsTask
<1>15. Placed'
  <2>1. \A q \in Requests : submitted'[q] <= Len(jars'[q])
    BY <1>0, <1>4, <1>5, JarsOfRequest DEF Placed, Submit
  <2>2. \A i, j \in DOMAIN queue' : queue'[i].task = queue'[j].task => i = j
    BY <1>0, <1>2, <1>3, <1>6 DEF Placed, InQueue
  <2>3. \A i \in DOMAIN queue', w \in Workers : queue'[i].task # task'[w]
    BY <1>0, <1>2, <1>3, <1>5, <1>6 DEF Placed, WithThread
  <2>4. \A i \in DOMAIN queue' : /\ queue'[i].task[2] <= submitted'[queue'[i].task[1]]
                                 /\ queue'[i].traceId = queue'[i].task[1]
    <3> TAKE i \in DOMAIN queue'
    <3>1. CASE i \in DOMAIN queue
      <4>1. queue[i].task \in Tasks /\ queue'[i] = queue[i]
        BY <1>0, <1>2, <3>1, QueueOfTasks
      <4>2. queue[i].task[1] \in Requests /\ queue[i].task[2] \in Int
        BY <4>1, TaskIsPair
      <4> QED BY <1>0, <1>4, <3>1, <4>1, <4>2 DEF Placed
    <3>2. CASE i = Len(queue) + 1
      BY <1>1, <1>2, <1>4, <3>2
    <3> QED BY <1>3, <3>1, <3>2
  <2>5. \A w \in Workers : task'[w] # NoTask => task'[w][2] <= submitted'[task'[w][1]]
    <3> TAKE w \in Workers
    <3>1. task[w] # NoTask => task[w][1] \in Requests /\ task[w][2] \in Int
      BY <1>0, TaskIsPair DEF TypeOK
    <3> QED BY <1>0, <1>4, <1>5, <3>1 DEF Placed
  <2>6. \A u \in killed' : /\ u[2] <= submitted'[u[1]] /\ Breaks(Jar(u))'
                           /\ ~ InQueue(u)' /\ ~ WithThread(u)'
    <3> TAKE u \in killed'
    <3>1. u \in killed /\ u \in Tasks /\ u[1] \in Requests /\ u[2] \in Int
      BY <1>0, <1>5, TaskIsPair DEF TypeOK
    <3>2. u[2] <= submitted'[u[1]]
      BY <1>0, <1>4, <3>1 DEF Placed
    <3>3. ~ InQueue(u)' /\ ~ WithThread(u)'
      BY <1>0, <1>6, <1>7, <1>9, <3>1 DEF Placed
    <3>4. Breaks(Jar(u))'
      BY <1>0, <1>5, <3>1 DEF Placed, Jar, Breaks
    <3> QED BY <3>2, <3>3, <3>4
  <2>7. \A v, w \in Workers : task'[v] = task'[w] /\ task'[v] # NoTask => v = w
    BY <1>0, <1>5 DEF Placed
  <2>8. \A w \in Workers : stage'[w] = "idle" <=> task'[w] = NoTask
    BY <1>0, <1>5 DEF Placed
  <2> QED BY <2>1, <2>2, <2>3, <2>4, <2>5, <2>6, <2>7, <2>8 DEF Placed
<1> QED BY <1>11, <1>12, <1>13, <1>14, <1>15 DEF IInv

(* The other steps of a request leave the tasks where they are.            *)
LEMMA TasksStay ==
  ASSUME IInv, TypeOK', Answered',
         UNCHANGED <<jars, submitted, latch, found, queue, task, stage, traceId, failed, killed>>
  PROVE  IInv'
<1>1. Placed' /\ TraceFollowsTask'
  BY DEF IInv, Placed, TraceFollowsTask, Jar, InQueue, WithThread
<1>2. \A u \in Tasks : /\ Open(u)' <=> Open(u)
                       /\ Waiting(u)' <=> Waiting(u)
  BY DEF Open, Waiting, InQueue, WithThread, BeingLoaded
<1>3. LatchCounts' /\ \A q \in Requests : IsFiniteSet(KilledOf(q))'
  BY <1>2, CountsKept DEF IInv
<1>4. Settled'
  BY <1>2, FoundKept DEF IInv, Settled
<1> QED BY <1>1, <1>3, <1>4 DEF IInv

LEMMA WaitStep ==
  ASSUME IInv, NEW r \in Requests, StartWaiting(r) \/ StopWaiting(r) \/ Answer(r)
  PROVE  IInv'
<1>0. TypeOK /\ Answered
  BY DEF IInv
<1>1. UNCHANGED <<jars, submitted, latch, found, queue, task, stage, traceId, failed, killed>>
  BY DEF StartWaiting, StopWaiting, Answer
<1>2. TypeOK'
  <2>1. CASE StartWaiting(r)
    BY <1>0, <1>1, <2>1 DEF TypeOK, StartWaiting
  <2>2. CASE StopWaiting(r)
    BY <1>0, <1>1, <2>2 DEF TypeOK, StopWaiting
  <2>3. CASE Answer(r)
    BY <1>0, <1>1, <2>3 DEF TypeOK, Answer
  <2> QED BY <2>1, <2>2, <2>3
<1>3. Answered'
  <2>1. CASE StartWaiting(r)
    BY <1>0, <2>1 DEF Answered, StartWaiting, TypeOK
  <2>2. CASE StopWaiting(r)
    BY <1>0, <2>2 DEF Answered, StopWaiting, TypeOK
  <2>3. CASE Answer(r)
    BY <1>0, <2>3 DEF Answered, Answer, TypeOK
  <2> QED BY <2>1, <2>2, <2>3
<1> QED BY <1>1, <1>2, <1>3, TasksStay

-------------------------------------------------------------------------------
(* The steps of a pool thread *)

(* No request's own variables change, nor what a request that saw its      *)
(* latch at 0 has found.                                                   *)
LEMMA AnswersStay ==
  ASSUME IInv, UNCHANGED requestVars,
         \A r \in Requests : found[r] \subseteq found'[r],
         \A r \in Requests : Pending(r) = {} => latch'[r] = latch[r] /\ found'[r] = found[r]
  PROVE  Answered'
<1> SUFFICES ASSUME NEW r \in Requests
             PROVE  /\ pc'[r] \in {"answer", "done"} => timedOut'[r] \/ latch'[r] = 0
                    /\ pc'[r] = "done" => /\ reply'[r] \subseteq found'[r]
                                          /\ timedOut'[r] \/ reply'[r] = found'[r]
  BY DEF Answered
<1>1. latch[r] = 0 => latch'[r] = 0 /\ found'[r] = found[r]
  BY LatchAtZero DEF IInv
<1>2. pc' = pc /\ timedOut' = timedOut /\ reply' = reply
  BY DEF requestVars
<1>3. pc[r] = "done" => pc[r] \in {"answer", "done"}
  OBVIOUS
<1> QED BY <1>1, <1>2, <1>3 DEF IInv, Answered

LEMMA TakeStep ==
  ASSUME IInv, NEW w \in Workers, Take(w)
  PROVE  IInv'
<1>0. TypeOK /\ Placed /\ LatchCounts /\ TraceFollowsTask /\ Settled /\ Answered
  BY DEF IInv
<1>1. /\ Len(queue) \in Nat /\ Len(queue) > 0
      /\ DOMAIN queue = 1..Len(queue)
      /\ DOMAIN queue' = 1..Len(queue) - 1
      /\ \A i \in DOMAIN queue' : i + 1 \in DOMAIN queue /\ queue'[i] = queue[i + 1]
      /\ Head(queue) = queue[1] /\ 1 \in DOMAIN queue
      /\ \A i \in DOMAIN queue : i # 1 => i - 1 \in DOMAIN queue' /\ queue'[i - 1] = queue[i]
  <2>1. queue # <<>> /\ queue' = Tail(queue) /\ Len(queue) \in Nat /\ DOMAIN queue = 1..Len(queue)
    BY <1>0, QueueOfTasks DEF Take
  <2>2. queue \in Seq([task : Tasks, traceId : Requests])
    BY <1>0 DEF TypeOK
  <2>3. Len(queue) > 0 /\ Len(queue') = Len(queue) - 1 /\ DOMAIN queue' = 1..Len(queue) - 1
        /\ Head(queue) = queue[1]
    BY <2>1, <2>2
  <2>4. \A i \in 1..Len(queue) - 1 : queue'[i] = queue[i + 1]
    BY <2>1, <2>2, <2>3
  <2> QED BY <2>1, <2>3, <2>4
<1>2. PICK t \in Tasks : t = queue[1].task
  BY <1>0, <1>1, QueueOfTasks
<1>3. /\ UNCHANGED requestVars /\ latch' = latch /\ found' = found /\ failed' = failed
      /\ killed' = killed /\ jars' = jars /\ submitted' = submitted
      /\ task[w] = NoTask /\ task'[w] = t /\ stage[w] = "idle" /\ stage'[w] = "load"
      /\ traceId'[w] = t[1]
      /\ \A v \in Workers : v # w => /\ task'[v] = task[v] /\ stage'[v] = stage[v]
                                     /\ traceId'[v] = traceId[v]
  BY <1>0, <1>1, <1>2, QueueOfTasks DEF Take, At, TypeOK, Placed, requestVars
<1>4. t # NoTask /\ ~ WithThread(t) /\ InQueue(t) /\ t \notin killed /\ t[2] <= submitted[t[1]]
  BY <1>0, <1>1, <1>2, TaskIsPair DEF Placed, WithThread, InQueue
<1>5. \A u \in Tasks : InQueue(u)' <=> InQueue(u) /\ u # t
  <2> TAKE u \in Tasks
  <2>1. ASSUME NEW i \in DOMAIN queue', queue'[i].task = u
        PROVE  InQueue(u) /\ u # t
    <3>1. i + 1 \in DOMAIN queue /\ queue[i + 1].task = u /\ i + 1 # 1
      BY <1>1, <2>1
    <3> QED BY <1>0, <1>1, <1>2, <3>1 DEF Placed, InQueue
  <2>2. ASSUME NEW i \in DOMAIN queue, queue[i].task = u, u # t
        PROVE  InQueue(u)'
    <3>1. i - 1 \in DOMAIN queue' /\ queue'[i - 1].task = u
      BY <1>1, <1>2, <2>2
    <3> QED BY <3>1 DEF InQueue
  <2> QED BY <2>1, <2>2 DEF InQueue
<1>6. \A u \in Tasks : /\ WithThread(u)' <=> WithThread(u) \/ u = t
                       /\ BeingLoaded(u)' <=> BeingLoaded(u) \/ u = t
  <2> TAKE u \in Tasks
  <2>1. u # NoTask
    BY TaskIsPair
  <2> QED BY <1>3, <2>1 DEF WithThread, BeingLoaded
<1>7. TypeOK'
  <2>1. queue' \in Seq([task : Tasks, traceId : Requests])
    BY <1>0 DEF Take, TypeOK
  <2>2. task' \in [Workers -> Tasks \cup {NoTask}] /\ traceId' \in [Workers -> Requests \cup {NoTrace}]
    BY <1>0, <1>1, <1>2, QueueOfTasks DEF Take, TypeOK
  <2>3. stage' \in [Workers -> {"idle", "load", "add", "count"}]
    BY <1>0 DEF Take, TypeOK, At
  <2> QED BY <1>0, <1>3, <2>1, <2>2, <2>3 DEF TypeOK, requestVars
<1>8. LatchCounts' /\ \A q \in Requests : IsFiniteSet(KilledOf(q))'
  <2>1. \A u \in Tasks : Open(u)' <=> Open(u)
    BY <1>3, <1>4, <1>5, <1>6 DEF Open
  <2> QED BY <1>0, <1>3, <2>1, CountsKept DEF IInv
<1>9. Settled'
  <2>1. \A u \in Tasks : Waiting(u)' <=> Waiting(u)
    BY <1>3, <1>4, <1>5, <1>6 DEF Waiting
  <2>2. \A v \in Workers : stage'[v] = "add" => ~ Breaks(Jar(task[v])) /\ task'[v] = task[v]
    BY <1>0, <1>3 DEF Settled
  <2> QED BY <1>0, <1>3, <2>1, <2>2, FoundKept
<1>10. Answered'
  BY <1>3, AnswersStay
<1>11. TraceFollowsTask'
  BY <1>0, <1>3 DEF TraceFollowsTask
<1>12. Placed'
  <2>1. \A i, j \in DOMAIN queue' : queue'[i].task = queue'[j].task => i = j
    <3> TAKE i, j \in DOMAIN queue'
    <3>1. i + 1 = j + 1 => i = j
      BY <1>1
    <3> QED BY <1>0, <1>1, <3>1 DEF Placed
  <2>2. \A i \in DOMAIN queue' : queue'[i].task # t
    <3> TAKE i \in DOMAIN queue'
    <3>1. i + 1 # 1
      BY <1>1
    <3> QED BY <1>0, <1>1, <1>2, <3>1 DEF Placed
  <2>3. \A i \in DOMAIN queue', v \in Workers : queue'[i].task # task'[v]
    BY <1>0, <1>1, <1>3, <2>2 DEF Placed
  <2>4. \A u, v \in Workers : task'[u] = task'[v] /\ task'[u] # NoTask => u = v
    BY <1>0, <1>3, <1>4 DEF Placed, WithThread
  <2>5. \A i \in DOMAIN queue' : /\ queue'[i].task[2] <= submitted'[queue'[i].task[1]]
                                 /\ queue'[i].traceId = queue'[i].task[1]
    BY <1>0, <1>1, <1>3 DEF Placed
  <2>6. \A v \in Workers : task'[v] # NoTask => task'[v][2] <= submitted'[task'[v][1]]
    BY <1>0, <1>3, <1>4 DEF Placed
  <2>7. \A v \in Workers : stage'[v] = "idle" <=> task'[v] = NoTask
    BY <1>0, <1>3, <1>4 DEF Placed
  <2>8. \A u \in killed' : /\ u[2] <= submitted'[u[1]] /\ Breaks(Jar(u))'
                           /\ ~ InQueue(u)' /\ ~ WithThread(u)'
    <3> TAKE u \in killed'
    <3>1. u \in killed /\ u \in Tasks
      BY <1>0, <1>3 DEF TypeOK
    <3>2. Breaks(Jar(u))'
      BY <1>0, <1>3, <3>1 DEF Placed, Jar, Breaks
    <3> QED BY <1>0, <1>3, <1>4, <1>5, <1>6, <3>1, <3>2 DEF Placed
  <2> QED BY <1>0, <1>3, <2>1, <2>3, <2>4, <2>5, <2>6, <2>7, <2>8 DEF Placed
<1> QED BY <1>7, <1>8, <1>9, <1>10, <1>11, <1>12 DEF IInv

(* A thread goes on with its task or lets go of it. *)
LEMMA ThreadGoesOn ==
  ASSUME TypeOK, Placed, TraceFollowsTask, jars' = jars, submitted' = submitted, queue' = queue,
         \A v \in Workers : \/ task'[v] = task[v] /\ traceId'[v] = traceId[v]
                            \/ task'[v] = NoTask,
         \A v \in Workers : stage'[v] = "idle" <=> task'[v] = NoTask,
         \A t \in killed' : \/ t \in killed
                            \/ /\ t \in Tasks /\ t[2] <= submitted[t[1]] /\ Breaks(Jar(t))
                               /\ ~ InQueue(t) /\ ~ WithThread(t)'
  PROVE  Placed' /\ TraceFollowsTask'
<1>1. \A v \in Workers : task'[v] # NoTask => task'[v] = task[v]
  OBVIOUS
<1>2. \A t \in Tasks : WithThread(t)' => WithThread(t)
  BY <1>1, TaskIsPair DEF WithThread
<1>3. \A t : InQueue(t)' <=> InQueue(t)
  BY DEF InQueue
<1>4. \A t \in killed' : /\ t[2] <= submitted'[t[1]] /\ Breaks(Jar(t))'
                         /\ ~ InQueue(t)' /\ ~ WithThread(t)'
  <2> TAKE t \in killed'
  <2>1. Breaks(Jar(t))' <=> Breaks(Jar(t))
    BY DEF Jar, Breaks
  <2>2. CASE t \in killed
    BY <1>2, <1>3, <2>1, <2>2 DEF Placed, TypeOK
  <2>3. CASE t \notin killed
    BY <1>3, <2>1, <2>3
  <2> QED BY <2>2, <2>3
<1>5. \A i \in DOMAIN queue', v \in Workers : queue'[i].task # task'[v]
  BY <1>1, QueueOfTasks, TaskIsPair DEF Placed
<1>6. \A u, v \in Workers : task'[u] = task'[v] /\ task'[u] # NoTask => u = v
  BY <1>1 DEF Placed
<1>7. \A v \in Workers : task'[v] # NoTask => task'[v][2] <= submitted'[task'[v][1]]
  BY <1>1 DEF Placed
<1>8. TraceFollowsTask'
  BY DEF TraceFollowsTask
<1> QED BY <1>4, <1>5, <1>6, <1>7, <1>8 DEF Placed

(* One task less is open. *)
LEMMA PendingLoses ==
  ASSUME TypeOK, jars' = jars, NEW t \in Tasks,
         \A u \in Tasks : Open(u)' <=> Open(u) /\ u # t,
         NEW r \in Requests
  PROVE  Pending(r)' = IF r = t[1] THEN Pending(r) \ {t[2]} ELSE Pending(r)
<1>1. \A k \in DOMAIN jars[r] : /\ k \in Pending(r) <=> Open(<<r, k>>)
                                /\ k \in Pending(r)' <=> Open(<<r, k>>)'
  BY DEF Pending, Open, InQueue, WithThread
<1>2. Pending(r) \subseteq DOMAIN jars[r] /\ Pending(r)' \subseteq DOMAIN jars[r]
  BY DEF Pending
<1>3. \A k \in DOMAIN jars[r] : <<r, k>> \in Tasks /\ (<<r, k>> = t <=> r = t[1] /\ k = t[2])
  BY JarsOfRequest, TaskIsPair
<1>4. \A k \in DOMAIN jars[r] : k \in Pending(r)' <=> k \in Pending(r) /\ ~ (r = t[1] /\ k = t[2])
  BY <1>1, <1>3
<1> QED BY <1>2, <1>4

(* The task that was waited for is settled, by what the step says of it.   *)
LEMMA TaskSettles ==
  ASSUME TypeOK, Settled, jars' = jars, NEW t \in Tasks, Waiting(t),
         t[2] \in DOMAIN jars[t[1]],
         \A u \in Tasks : Waiting(u)' <=> Waiting(u) /\ u # t,
         \A u \in Tasks : u # t => /\ u \in failed' <=> u \in failed
                                   /\ u[2] \in found'[u[1]] <=> u[2] \in found[u[1]],
         failed' \subseteq Tasks,
         \A r \in Requests : \A k \in found'[r] : k \in found[r] \/ <<r, k>> = t,
         t[2] \in found'[t[1]] <=> /\ ~ Breaks(Jar(t)) /\ HasInterfaces(Jar(t))
                                   /\ t \notin failed',
         \A v \in Workers : stage'[v] = "add" => task'[v] = task[v] /\ stage[v] = "add"
  PROVE  Settled'
<1>1. \A r \in Requests : \A k : k \in Loadable(r)' <=>
        /\ k \in DOMAIN jars[r] /\ ~ Breaks(Jar(<<r, k>>)) /\ HasInterfaces(Jar(<<r, k>>))
        /\ <<r, k>> \notin failed'
  BY DEF Loadable, Jar
<1>2. \A r \in Requests : \A k : k \in Loadable(r) <=>
        /\ k \in DOMAIN jars[r] /\ ~ Breaks(Jar(<<r, k>>)) /\ HasInterfaces(Jar(<<r, k>>))
        /\ <<r, k>> \notin failed
  BY DEF Loadable, Jar
<1>3. t[1] \in Requests /\ t = <<t[1], t[2]>>
  BY TaskIsPair
<1>4. \A r \in Requests : \A k \in DOMAIN jars[r] : /\ <<r, k>> \in Tasks
                                                    /\ <<r, k>>[1] = r /\ <<r, k>>[2] = k
  BY JarsOfRequest
<1>5. ASSUME NEW r \in Requests, NEW k \in found'[r]
      PROVE  k \in Loadable(r)' /\ ~ Waiting(<<r, k>>)'
  <2>1. CASE <<r, k>> = t
    BY <1>1, <1>3, <1>5, <2>1
  <2>2. CASE <<r, k>> # t
    <3>1. k \in found[r]
      BY <1>5, <2>2
    <3>2. k \in Loadable(r) /\ ~ Waiting(<<r, k>>)
      BY <3>1 DEF Settled
    <3>3. <<r, k>> \in Tasks
      BY <1>2, <1>4, <3>2
    <3> QED BY <1>1, <1>2, <2>2, <3>2, <3>3
  <2> QED BY <2>1, <2>2
<1>6. ASSUME NEW r \in Requests, NEW k \in Loadable(r)'
      PROVE  k \in found'[r] \/ Waiting(<<r, k>>)'
  <2>1. k \in DOMAIN jars[r] /\ <<r, k>> \in Tasks /\ <<r, k>>[1] = r /\ <<r, k>>[2] = k
    BY <1>1, <1>4, <1>6
  <2>2. CASE <<r, k>> = t
    BY <1>1, <1>6, <2>1, <2>2
  <2>3. CASE <<r, k>> # t
    <3>1. k \in Loadable(r)
      BY <1>1, <1>2, <1>6, <2>1, <2>3
    <3>2. k \in found[r] \/ Waiting(<<r, k>>)
      BY <3>1 DEF Settled
    <3> QED BY <2>1, <2>3, <3>2
  <2> QED BY <2>2, <2>3
<1>7. \A u \in failed' : ~ Waiting(u)'
  BY DEF Settled
<1>8. \A v \in Workers : stage'[v] = "add" => ~ Breaks(Jar(task[v]))'
  BY DEF Settled, Jar
<1> QED BY <1>5, <1>6, <1>7, <1>8 DEF Settled

LEMMA LoadStep ==
  ASSUME IInv, NEW w \in Workers, Load(w)
  PROVE  IInv'
<1>0. TypeOK /\ Placed /\ LatchCounts /\ TraceFollowsTask /\ Settled /\ Answered
  BY DEF IInv
<1>1. /\ UNCHANGED requestVars /\ latch' = latch /\ found' = found /\ failed' = failed
      /\ killed' = killed /\ jars' = jars /\ submitted' = submitted /\ queue' = queue
      /\ task' = task /\ traceId' = traceId /\ stage[w] = "load" /\ stage'[w] = "add"
      /\ ~ Breaks(Jar(task[w]))
      /\ \A v \in Workers : v # w => stage'[v] = stage[v]
  BY <1>0 DEF Load, At, TypeOK, requestVars
<1>2. TypeOK'
  BY <1>0, <1>1 DEF TypeOK, Load, At, requestVars
<1>3. Placed' /\ TraceFollowsTask'
  <2>1. \A v \in Workers : stage'[v] = "idle" <=> task'[v] = NoTask
    BY <1>0, <1>1 DEF Placed
  <2> QED BY <1>0, <1>1, <2>1, ThreadGoesOn
<1>4. \A u \in Tasks : /\ Open(u)' <=> Open(u)
                       /\ Waiting(u)' <=> Waiting(u)
  BY <1>1 DEF Open, Waiting, InQueue, WithThread, BeingLoaded
<1>5. LatchCounts' /\ \A q \in Requests : IsFiniteSet(KilledOf(q))'
  BY <1>0, <1>1, <1>4, CountsKept DEF IInv
<1>6. Settled'
  <2>1. \A v \in Workers : stage'[v] = "add" => ~ Breaks(Jar(task[v])) /\ task'[v] = task[v]
    BY <1>0, <1>1 DEF Settled
  <2> QED BY <1>0, <1>1, <1>4, <2>1, FoundKept
<1>7. Answered'
  BY <1>1, AnswersStay
<1> QED BY <1>2, <1>3, <1>5, <1>6, <1>7 DEF IInv

LEMMA LoadFailsStep ==
  ASSUME IInv, NEW w \in Workers, LoadFails(w)
  PROVE  IInv'
<1>0. TypeOK /\ Placed /\ LatchCounts /\ TraceFollowsTask /\ Settled /\ Answered
  BY DEF IInv
<1>1. /\ UNCHANGED requestVars /\ latch' = latch /\ found' = found
      /\ killed' = killed /\ jars' = jars /\ submitted' = submitted /\ queue' = queue
      /\ task' = task /\ traceId' = traceId /\ stage[w] = "load" /\ stage'[w] = "count"
      /\ failed' = failed \cup {task[w]}
      /\ \A v \in Workers : v # w => stage'[v] = stage[v]
  BY <1>0 DEF LoadFails, At, TypeOK, requestVars
<1>2. PICK t \in Tasks : /\ t = task[w] /\ t[2] \in DOMAIN jars[t[1]] /\ t[2] <= submitted[t[1]]
                         /\ ~ InQueue(t) /\ \A v \in Workers : task[v] = t => v = w
                         /\ t[1] \in Requests /\ t = <<t[1], t[2]>>
  BY <1>0, <1>1, BusyThread
<1>3. TypeOK'
  BY <1>0, <1>1, <1>2 DEF TypeOK, LoadFails, At, requestVars
<1>4. Placed' /\ TraceFollowsTask'
  <2>1. \A v \in Workers : stage'[v] = "idle" <=> task'[v] = NoTask
    BY <1>0, <1>1 DEF Placed
  <2> QED BY <1>0, <1>1, <2>1, ThreadGoesOn
<1>5. \A u \in Tasks : Open(u)' <=> Open(u)
  BY <1>1 DEF Open, InQueue, WithThread
<1>6. LatchCounts' /\ \A q \in Requests : IsFiniteSet(KilledOf(q))'
  BY <1>0, <1>1, <1>5, CountsKept DEF IInv
<1>7. Settled'
  <2>1. Waiting(t)
    BY <1>1, <1>2 DEF Waiting, BeingLoaded
  <2>2. ~ (t[2] > submitted[t[1]])
    BY <1>0, <1>2, TaskIsPair DEF TypeOK
  <2>3. \A u \in Tasks : Waiting(u)' <=> Waiting(u) /\ u # t
    BY <1>1, <1>2, <2>2 DEF Waiting, InQueue, BeingLoaded
  <2>4. t[2] \notin found[t[1]]
    BY <1>0, <1>2, <2>1 DEF Settled
  <2>5. \A v \in Workers : stage'[v] = "add" => task'[v] = task[v] /\ stage[v] = "add"
    BY <1>1
  <2>6. failed' \subseteq Tasks
    BY <1>3 DEF TypeOK
  <2> QED BY <1>0, <1>1, <1>2, <2>1, <2>3, <2>4, <2>5, <2>6, TaskSettles
<1>8. Answered'
  BY <1>1, AnswersStay
<1> QED BY <1>3, <1>4, <1>6, <1>7, <1>8 DEF IInv

LEMMA LoadDiesStep ==
  ASSUME IInv, NEW w \in Workers, LoadDies(w)
  PROVE  IInv'
<1>0. TypeOK /\ Placed /\ LatchCounts /\ TraceFollowsTask /\ Settled /\ Answered
  BY DEF IInv
<1>1. /\ UNCHANGED requestVars /\ latch' = latch /\ found' = found /\ failed' = failed
      /\ jars' = jars /\ submitted' = submitted /\ queue' = queue
      /\ stage[w] = "load" /\ stage'[w] = "idle" /\ task'[w] = NoTask
      /\ killed' = killed \cup {task[w]} /\ Breaks(Jar(task[w]))
      /\ \A v \in Workers : v # w => /\ stage'[v] = stage[v] /\ task'[v] = task[v]
                                     /\ traceId'[v] = traceId[v]
  BY <1>0 DEF LoadDies, At, TypeOK, requestVars
<1>2. PICK t \in Tasks : /\ t = task[w] /\ t[2] \in DOMAIN jars[t[1]] /\ t[2] <= submitted[t[1]]
                         /\ ~ InQueue(t) /\ \A v \in Workers : task[v] = t => v = w
                         /\ t[1] \in Requests /\ t = <<t[1], t[2]>>
                         /\ t[2] \in Pending(t[1]) /\ t \notin killed /\ t # NoTask
  BY <1>0, <1>1, BusyThread, TaskIsPair
<1>3. TypeOK'
  BY <1>0, <1>1, <1>2 DEF TypeOK, LoadDies, At, requestVars
<1>4. ~ (t[2] > submitted[t[1]])
  BY <1>0, <1>2, TaskIsPair DEF TypeOK
<1>5. \A u \in Tasks : /\ WithThread(u)' <=> WithThread(u) /\ u # t
                       /\ BeingLoaded(u)' <=> BeingLoaded(u) /\ u # t
  <2> TAKE u \in Tasks
  <2>1. u # NoTask
    BY TaskIsPair
  <2> QED BY <1>1, <1>2, <2>1 DEF WithThread, BeingLoaded
<1>6. \A u \in Tasks : /\ Open(u)' <=> Open(u) /\ u # t
                       /\ Waiting(u)' <=> Waiting(u) /\ u # t
  BY <1>1, <1>2, <1>4, <1>5 DEF Open, Waiting, InQueue
<1>7. Placed' /\ TraceFollowsTask'
  <2>1. \A v \in Workers : stage'[v] = "idle" <=> task'[v] = NoTask
    BY <1>0, <1>1 DEF Placed
  <2>2. \A v \in Workers : \/ task'[v] = task[v] /\ traceId'[v] = traceId[v]
                           \/ task'[v] = NoTask
    BY <1>1
  <2>3. \A u \in killed' : u \in killed \/ u = t
    BY <1>1, <1>2
  <2>4. t[2] <= submitted[t[1]] /\ Breaks(Jar(t)) /\ ~ InQueue(t) /\ ~ WithThread(t)'
    BY <1>1, <1>2, <1>5
  <2>5. \A u \in killed' : \/ u \in killed
                           \/ /\ u \in Tasks /\ u[2] <= submitted[u[1]] /\ Breaks(Jar(u))
                              /\ ~ InQueue(u) /\ ~ WithThread(u)'
    BY <2>3, <2>4
  <2> QED BY <1>0, <1>1, <2>1, <2>2, <2>5, ThreadGoesOn
<1>8. LatchCounts' /\ \A q \in Requests : IsFiniteSet(KilledOf(q))'
  <2> SUFFICES ASSUME NEW r \in Requests
               PROVE  /\ latch'[r] = Cardinality(Pending(r)') + Cardinality(KilledOf(r)')
                      /\ IsFiniteSet(KilledOf(r)')
    BY DEF LatchCounts, KilledOf
  <2>1. Pending(r)' = IF r = t[1] THEN Pending(r) \ {t[2]} ELSE Pending(r)
    BY <1>0, <1>1, <1>6, PendingLoses
  <2>2. KilledOf(r)' = IF r = t[1] THEN KilledOf(r) \cup {t} ELSE KilledOf(r)
    BY <1>1, <1>2 DEF KilledOf
  <2>3. IsFiniteSet(Pending(r)) /\ IsFiniteSet(KilledOf(r))
    BY <1>0, PendingFinite DEF IInv
  <2>4. latch'[r] = Cardinality(Pending(r)) + Cardinality(KilledOf(r))
    BY <1>0, <1>1 DEF LatchCounts, KilledOf
  <2>5. CASE r = t[1]
    <3>1. Cardinality(Pending(r) \ {t[2]}) = Cardinality(Pending(r)) - 1
      BY <1>2, <2>3, <2>5, FS_RemoveElement
    <3>2. t \notin KilledOf(r)
      BY <1>2 DEF KilledOf
    <3>3. /\ IsFiniteSet(KilledOf(r) \cup {t})
          /\ Cardinality(KilledOf(r) \cup {t}) = Cardinality(KilledOf(r)) + 1
      BY <2>3, <3>2, FS_AddElement
    <3>4. Cardinality(Pending(r)) \in Nat /\ Cardinality(KilledOf(r)) \in Nat
      BY <2>3, FS_CardinalityType
    <3> QED BY <2>1, <2>2, <2>4, <2>5, <3>1, <3>3, <3>4
  <2> QED BY <2>1, <2>2, <2>3, <2>4, <2>5
<1>9. Settled'
  <2>1. Waiting(t)
    BY <1>1, <1>2 DEF Waiting, BeingLoaded
  <2>2. t[2] \notin found[t[1]]
    BY <1>0, <1>2, <2>1 DEF Settled
  <2>3. \A v \in Workers : stage'[v] = "add" => task'[v] = task[v] /\ stage[v] = "add"
    BY <1>1
  <2>4. failed' \subseteq Tasks
    BY <1>3 DEF TypeOK
  <2> QED BY <1>0, <1>1, <1>2, <1>6, <2>1, <2>2, <2>3, <2>4, TaskSettles
<1>10. Answered'
  BY <1>1, AnswersStay
<1> QED BY <1>3, <1>7, <1>8, <1>9, <1>10 DEF IInv

LEMMA AddStep ==
  ASSUME IInv, NEW w \in Workers, Add(w)
  PROVE  IInv'
<1>0. TypeOK /\ Placed /\ LatchCounts /\ TraceFollowsTask /\ Settled /\ Answered
  BY DEF IInv
<1>1. /\ UNCHANGED requestVars /\ latch' = latch /\ failed' = failed
      /\ killed' = killed /\ jars' = jars /\ submitted' = submitted /\ queue' = queue
      /\ task' = task /\ traceId' = traceId /\ stage[w] = "add" /\ stage'[w] = "count"
      /\ \A v \in Workers : v # w => stage'[v] = stage[v]
  BY <1>0 DEF Add, At, TypeOK, requestVars
<1>2. PICK t \in Tasks : /\ t = task[w] /\ t[2] \in DOMAIN jars[t[1]] /\ t[2] <= submitted[t[1]]
                         /\ ~ InQueue(t) /\ \A v \in Workers : task[v] = t => v = w
                         /\ t[1] \in Requests /\ t = <<t[1], t[2]>>
                         /\ t[2] \in Pending(t[1]) /\ t[2] \in 1..MaxJars
  BY <1>0, <1>1, BusyThread, TaskIsPair
<1>3. \A r \in Requests :
        found'[r] = IF r = t[1] /\ HasInterfaces(Jar(t)) THEN found[r] \cup {t[2]} ELSE found[r]
  BY <1>0, <1>2 DEF Add, TypeOK
<1>4. TypeOK'
  <2>1. found' \in [Requests -> SUBSET (1..MaxJars)]
    BY <1>0, <1>2 DEF TypeOK, Add
  <2> QED BY <1>0, <1>1, <2>1 DEF TypeOK, Add, At, requestVars
<1>5. Placed' /\ TraceFollowsTask'
  <2>1. \A v \in Workers : stage'[v] = "idle" <=> task'[v] = NoTask
    BY <1>0, <1>1 DEF Placed
  <2> QED BY <1>0, <1>1, <2>1, ThreadGoesOn
<1>6. \A u \in Tasks : Open(u)' <=> Open(u)
  BY <1>1 DEF Open, InQueue, WithThread
<1>7. LatchCounts' /\ \A q \in Requests : IsFiniteSet(KilledOf(q))'
  BY <1>0, <1>1, <1>6, CountsKept DEF IInv
<1>8. Settled'
  <2>1. Waiting(t)
    BY <1>1, <1>2 DEF Waiting, BeingLoaded
  <2>2. ~ (t[2] > submitted[t[1]])
    BY <1>0, <1>2, TaskIsPair DEF TypeOK
  <2>3. \A u \in Tasks : Waiting(u)' <=> Waiting(u) /\ u # t
    BY <1>1, <1>2, <2>2 DEF Waiting, InQueue, BeingLoaded
  <2>4. t[2] \notin found[t[1]] /\ t \notin failed /\ ~ Breaks(Jar(t))
    <3>1. t[2] \notin found[t[1]]
      BY <1>0, <1>2, <2>1 DEF Settled
    <3>2. t \notin failed
      BY <1>0, <2>1 DEF Settled
    <3>3. ~ Breaks(Jar(task[w]))
      BY <1>0, <1>1 DEF Settled
    <3> QED BY <1>2, <3>1, <3>2, <3>3
  <2>5. \A v \in Workers : stage'[v] = "add" => task'[v] = task[v] /\ stage[v] = "add"
    BY <1>1
  <2>6. \A u \in Tasks : u # t => (u[2] \in found'[u[1]] <=> u[2] \in found[u[1]])
    <3> TAKE u \in Tasks
    <3>1. u[1] \in Requests /\ u = <<u[1], u[2]>>
      BY TaskIsPair
    <3>2. u[1] = t[1] /\ u[2] = t[2] => u = t
      BY <1>2, <3>1
    <3>3. u[1] # t[1] => found'[u[1]] = found[u[1]]
      BY <1>3, <3>1
    <3>4. found'[t[1]] = found[t[1]] \/ found'[t[1]] = found[t[1]] \cup {t[2]}
      BY <1>2, <1>3
    <3> QED BY <3>2, <3>3, <3>4
  <2>7. t[2] \in found'[t[1]] <=> HasInterfaces(Jar(t))
    BY <1>2, <1>3, <2>4
  <2>8. \A r \in Requests : \A k \in found'[r] : k \in found[r] \/ <<r, k>> = t
    BY <1>2, <1>3
  <2>9. failed' \subseteq Tasks
    BY <1>4 DEF TypeOK
  <2> QED BY <1>0, <1>1, <1>2, <2>1, <2>3, <2>4, <2>5, <2>6, <2>7, <2>8, <2>9, TaskSettles
<1>9. Answered'
  <2>1. \A r \in Requests : found[r] \subseteq found'[r]
    BY <1>3
  <2>2. \A r \in Requests : Pending(r) = {} => found'[r] = found[r]
    BY <1>2, <1>3
  <2> QED BY <1>1, <2>1, <2>2, AnswersStay
<1> QED BY <1>4, <1>5, <1>7, <1>8, <1>9 DEF IInv

LEMMA CountDownStep ==
  ASSUME IInv, NEW w \in Workers, CountDown(w)
  PROVE  IInv'
<1>0. TypeOK /\ Placed /\ LatchCounts /\ TraceFollowsTask /\ Settled /\ Answered
  BY DEF IInv
<1>1. /\ UNCHANGED requestVars /\ found' = found /\ failed' = failed
      /\ killed' = killed /\ jars' = jars /\ submitted' = submitted /\ queue' = queue
      /\ traceId' = traceId /\ stage[w] = "count" /\ stage'[w] = "idle" /\ task'[w] = NoTask
      /\ \A v \in Workers : v # w => stage'[v] = stage[v] /\ task'[v] = task[v]
  BY <1>0 DEF CountDown, At, TypeOK, requestVars
<1>2. PICK t \in Tasks : /\ t = task[w] /\ t[2] \in DOMAIN jars[t[1]] /\ t[2] <= submitted[t[1]]
                         /\ ~ InQueue(t) /\ \A v \in Workers : task[v] = t => v = w
                         /\ t[1] \in Requests /\ t = <<t[1], t[2]>>
                         /\ t[2] \in Pending(t[1]) /\ t # NoTask
  BY <1>0, <1>1, BusyThread, TaskIsPair
<1>3. \A r \in Requests : latch'[r] = IF r = t[1] THEN latch[r] - 1 ELSE latch[r]
  BY <1>0, <1>2 DEF CountDown, TypeOK
<1>4. TypeOK'
  <2>1. latch[t[1]] - 1 \in 0..MaxJars
    BY <1>0, <1>2, LatchAtZero DEF IInv
  <2>2. latch' \in [Requests -> 0..MaxJars]
    BY <1>0, <1>2, <2>1 DEF TypeOK, CountDown
  <2> QED BY <1>0, <1>1, <2>2 DEF TypeOK, CountDown, At, requestVars
<1>5. Placed' /\ TraceFollowsTask'
  <2>1. \A v \in Workers : stage'[v] = "idle" <=> task'[v] = NoTask
    BY <1>0, <1>1 DEF Placed
  <2>2. \A v \in Workers : \/ task'[v] = task[v] /\ traceId'[v] = traceId[v]
                           \/ task'[v] = NoTask
    BY <1>1
  <2> QED BY <1>0, <1>1, <2>1, <2>2, ThreadGoesOn
<1>6. ~ (t[2] > submitted[t[1]])
  BY <1>0, <1>2, TaskIsPair DEF TypeOK
<1>7. \A u \in Tasks : /\ WithThread(u)' <=> WithThread(u) /\ u # t
                       /\ BeingLoaded(u)' <=> BeingLoaded(u)
  <2> TAKE u \in Tasks
  <2>1. u # NoTask
    BY TaskIsPair
  <2> QED BY <1>1, <1>2, <2>1 DEF WithThread, BeingLoaded
<1>8. \A u \in Tasks : /\ Open(u)' <=> Open(u) /\ u # t
                       /\ Waiting(u)' <=> Waiting(u)
  BY <1>1, <1>2, <1>6, <1>7 DEF Open, Waiting, InQueue
<1>9. LatchCounts' /\ \A q \in Requests : IsFiniteSet(KilledOf(q))'
  <2> SUFFICES ASSUME NEW r \in Requests
               PROVE  /\ latch'[r] = Cardinality(Pending(r)') + Cardinality(KilledOf(r)')
                      /\ IsFiniteSet(KilledOf(r)')
    BY DEF LatchCounts, KilledOf
  <2>1. Pending(r)' = IF r = t[1] THEN Pending(r) \ {t[2]} ELSE Pending(r)
    BY <1>0, <1>1, <1>8, PendingLoses
  <2>2. KilledOf(r)' = KilledOf(r)
    BY <1>1 DEF KilledOf
  <2>3. IsFiniteSet(Pending(r)) /\ IsFiniteSet(KilledOf(r))
    BY <1>0, PendingFinite DEF IInv
  <2>4. latch[r] = Cardinality(Pending(r)) + Cardinality(KilledOf(r))
    BY <1>0 DEF LatchCounts, KilledOf
  <2>5. CASE r = t[1]
    <3>1. Cardinality(Pending(r) \ {t[2]}) = Cardinality(Pending(r)) - 1
      BY <1>2, <2>3, <2>5, FS_RemoveElement
    <3>2. Cardinality(Pending(r)) \in Nat /\ Cardinality(KilledOf(r)) \in Nat
      BY <2>3, FS_CardinalityType
    <3> QED BY <1>3, <2>1, <2>2, <2>3, <2>4, <2>5, <3>1, <3>2
  <2> QED BY <1>3, <2>1, <2>2, <2>3, <2>4, <2>5
<1>10. Settled'
  <2>1. \A v \in Workers : stage'[v] = "add" => ~ Breaks(Jar(task[v])) /\ task'[v] = task[v]
    BY <1>0, <1>1 DEF Settled
  <2> QED BY <1>0, <1>1, <1>8, <2>1, FoundKept
<1>11. Answered'
  <2>1. \A r \in Requests : Pending(r) = {} => latch'[r] = latch[r]
    BY <1>2, <1>3
  <2> QED BY <1>1, <2>1, AnswersStay
<1> QED BY <1>4, <1>5, <1>9, <1>10, <1>11 DEF IInv

-------------------------------------------------------------------------------
(* The theorems *)

LEMMA NextIInv == IInv /\ [Next]_vars => IInv'
<1> SUFFICES ASSUME IInv, [Next]_vars PROVE IInv'
  OBVIOUS
<1>1. ASSUME NEW r \in Requests, Request(r) PROVE IInv'
  BY <1>1, SubmitStep, WaitStep DEF Request
<1>2. ASSUME NEW w \in Workers, Worker(w) PROVE IInv'
  BY <1>2, TakeStep, LoadStep, LoadFailsStep, LoadDiesStep, AddStep, CountDownStep DEF Worker
<1>3. ASSUME UNCHANGED vars PROVE IInv'
  <2>1. UNCHANGED <<jars, submitted, latch, found, queue, task, stage, traceId, failed, killed>>
    BY <1>3 DEF vars
  <2>2. TypeOK' /\ Answered'
    BY <1>3 DEF vars, IInv, TypeOK, Answered
  <2> QED BY <2>1, <2>2, TasksStay
<1> QED BY <1>1, <1>2, <1>3 DEF Next

(* What is still to come is known at every step: the latch counts the      *)
(* tasks that may still add to the answer and those an Error ended, and    *)
(* each works under the traceId of its own request.                        *)
THEOREM EveryTaskAccounted == Spec => []TasksAccounted
<1>1. IInv => TasksAccounted
  BY DEF IInv, TasksAccounted
<1> QED BY <1>1, InitIInv, NextIInv, PTL DEF Spec

(* An answer that did not wait out the minute shows every jar that could   *)
(* be loaded, whatever the order of the tasks of all requests; and no      *)
(* answer shows anything else.                                             *)
THEOREM EveryAnswerComplete == Spec => []AnswerComplete
<1>1. IInv => AnswerComplete
  <2> SUFFICES ASSUME IInv, NEW r \in Requests, pc[r] = "done"
               PROVE  reply[r] \subseteq Loadable(r) /\ (timedOut[r] \/ reply[r] = Loadable(r))
    BY DEF AnswerComplete
  <2>1. /\ reply[r] \subseteq found[r] /\ (timedOut[r] \/ reply[r] = found[r])
        /\ timedOut[r] \/ latch[r] = 0
    BY DEF IInv, Answered
  <2>2. found[r] \subseteq Loadable(r)
    BY DEF IInv, Settled
  <2>3. ASSUME latch[r] = 0 PROVE Loadable(r) \subseteq found[r]
    <3>1. Pending(r) = {}
      BY <2>3, LatchAtZero DEF IInv
    <3>2. \A k \in Loadable(r) : k \in DOMAIN jars[r] /\ ~ Open(<<r, k>>)
      BY <3>1 DEF Loadable, Pending, Open, InQueue, WithThread
    <3>3. \A k \in Loadable(r) : ~ Waiting(<<r, k>>)
      BY <3>2 DEF Open, Waiting, WithThread, BeingLoaded
    <3> QED BY <3>3 DEF IInv, Settled
  <2> QED BY <2>1, <2>2, <2>3
<1> QED BY <1>1, InitIInv, NextIInv, PTL DEF Spec
==============================================================================
