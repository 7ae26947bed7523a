--------------------------- MODULE ConcurrencyTest ---------------------------
(***************************************************************************)
(* The concurrency test of the developer tools: ToolController.get.        *)
(*                                                                         *)
(* Every HTTP call runs on its own servlet thread.  It tries a static      *)
(* lock, hands count tasks to one ThreadPoolExecutor and unlocks in its    *)
(* finally block; it does not wait for the tasks.  A task first waits, for *)
(* at most 5 seconds, on the latch of its batch, which the submitting      *)
(* thread counts down once per task, so that the requests of a batch leave *)
(* together; then it sends one request to the tested address.              *)
(***************************************************************************)
EXTENDS Integers, Sequences, FiniteSets

CONSTANTS
  Calls,          \* the HTTP calls of /tool/get, one thread each
  NoCall,         \* the holder of a free lock
  Workers,        \* the core threads of the executor
  MaxCount,       \* bound: the largest count a caller asks for
  Counts          \* bound: the counts callers ask for

ASSUME CallsAssumption ==
  Counts \subseteq -1..MaxCount /\ NoCall \notin Calls /\ MaxCount \in Nat /\ IsFiniteSet(Workers) /\ Workers # {}

(* The parameters of a call: a count, where -1 stands for every parameter  *)
(* the body rejects with an exception (a missing or negative count, no     *)
(* postData), and whether method came at all (a null Boolean is unboxed    *)
(* only inside the task, line 116).                                        *)
Params == [count : -1..MaxCount, method : BOOLEAN]

Tasks == Calls \X (1..MaxCount)
NoTask == <<>>

VARIABLES
  param,          \* the parameters of every call
  holder,         \* the call that owns LOCK, or NoCall
  pc,             \* where the thread of a call is
  result,         \* what its try block returned or threw
  reply,          \* what the browser got
  submitted,      \* its loop variable i
  latch,          \* the count of its latch
  queue,          \* the executor's unbounded queue
  task,           \* what each core thread works on
  stage,          \* and how far it is ("unborn": not started yet)
  sent,           \* tasks whose request has left
  late,           \* tasks that stopped waiting after 5 seconds
  dead            \* tasks that died of the missing method

callVars == <<param, holder, pc, result, reply, submitted, latch>>
poolVars == <<queue, task, stage, sent, late, dead>>
vars == <<param, holder, pc, result, reply, submitted, latch, queue, task, stage, sent, late, dead>>

Init ==
  /\ param \in [Calls -> {p \in Params : p.count \in Counts}]
  /\ holder = NoCall
  /\ pc = [c \in Calls |-> "new"]
  /\ result = [c \in Calls |-> "none"]
  /\ reply = [c \in Calls |-> "none"]
  /\ submitted = [c \in Calls |-> 0]
  /\ latch = [c \in Calls |-> 0]
  /\ queue = <<>>
  /\ task = [w \in Workers |-> NoTask]
  /\ stage = [w \in Workers |-> "unborn"]
  /\ sent = {} /\ late = {} /\ dead = {}

-------------------------------------------------------------------------------
(* The thread of a call *)

Goto(c, here) == pc' = [pc EXCEPT ![c] = here]

(* Mutant: the lock keeps nobody out. *)
TryLockInVain(c) ==
  /\ pc[c] = "new"
  /\ holder' = c /\ Goto(c, "body")
  /\ UNCHANGED <<param, result, reply, submitted, latch, poolVars>>

TryLock(c) ==
  /\ pc[c] = "new"
  /\ \/ /\ holder = NoCall
        /\ holder' = c /\ Goto(c, "body")
        /\ UNCHANGED result
     \/ /\ holder # NoCall
        /\ result' = [result EXCEPT ![c] = "busy"]      \* "正在发送请求，请稍后再试"
        /\ Goto(c, "finally")
        /\ UNCHANGED holder
  /\ UNCHANGED <<param, reply, submitted, latch, poolVars>>

(* Decode the parameters and create the latch. *)
Prepare(c) ==
  /\ pc[c] = "body"
  /\ \/ /\ param[c].count < 0
        /\ result' = [result EXCEPT ![c] = "exception"] /\ Goto(c, "finally")
        /\ UNCHANGED latch
     \/ /\ param[c].count >= 0
        /\ latch' = [latch EXCEPT ![c] = param[c].count] /\ Goto(c, "loop")
        /\ UNCHANGED result
  /\ UNCHANGED <<param, holder, reply, submitted, poolVars>>

(* Mutant: a pool without a queue, whose handler drops what it cannot run. *)
PoolDiscards(t) ==
  \/ \E w \in Workers :
       /\ stage[w] = "unborn"
       /\ task' = [task EXCEPT ![w] = t] /\ stage' = [stage EXCEPT ![w] = "await"]
       /\ UNCHANGED queue
  \/ /\ \A w \in Workers : stage[w] # "unborn"
     /\ UNCHANGED <<queue, task, stage>>

(* ThreadPoolExecutor.execute: a new core thread starts with the task as   *)
(* long as there are fewer than corePoolSize; afterwards the queue takes   *)
(* every task, so maximumPoolSize is never used.                           *)
PoolExecute(t) ==
  \/ \E w \in Workers :
       /\ stage[w] = "unborn"
       /\ task' = [task EXCEPT ![w] = t] /\ stage' = [stage EXCEPT ![w] = "await"]
       /\ UNCHANGED queue
  \/ /\ \A w \in Workers : stage[w] # "unborn"
     /\ queue' = Append(queue, t)
     /\ UNCHANGED <<task, stage>>

(* Mutant: i <= count. *)
ExecuteOneMore(c) ==
  /\ pc[c] = "loop" /\ submitted[c] <= param[c].count
  /\ PoolExecute(<<c, submitted[c] + 1>>)
  /\ submitted' = [submitted EXCEPT ![c] = @ + 1]
  /\ Goto(c, "count")
  /\ UNCHANGED <<param, holder, result, reply, latch, sent, late, dead>>

Execute(c) ==
  /\ pc[c] = "loop" /\ submitted[c] < param[c].count
  /\ PoolExecute(<<c, submitted[c] + 1>>)
  /\ submitted' = [submitted EXCEPT ![c] = @ + 1]
  /\ Goto(c, "count")
  /\ UNCHANGED <<param, holder, result, reply, latch, sent, late, dead>>

CountDown(c) ==
  /\ pc[c] = "count"
  /\ latch' = [latch EXCEPT ![c] = @ - 1]
  /\ Goto(c, "loop")
  /\ UNCHANGED <<param, holder, result, reply, submitted, poolVars>>

LoopEnds(c) ==
  /\ pc[c] = "loop" /\ submitted[c] >= param[c].count
  /\ result' = [result EXCEPT ![c] = "success"]
  /\ Goto(c, "finally")
  /\ UNCHANGED <<param, holder, reply, submitted, latch, poolVars>>

(* Mutant: the unlock stands at the end of the try block, not in finally. *)
UnlockAfterSuccess(c) ==
  /\ pc[c] = "finally"
  /\ holder' = IF holder = c /\ result[c] = "success" THEN NoCall ELSE holder
  /\ reply' = [reply EXCEPT ![c] = result[c]]
  /\ Goto(c, "done")
  /\ UNCHANGED <<param, result, submitted, latch, poolVars>>

(* LOCK.unlock() by a thread that does not own the lock throws an          *)
(* IllegalMonitorStateException, which takes the place of the return value *)
(* and reaches the browser, with its null message, by way of               *)
(* GlobalExceptionHandler.                                                 *)
Unlock(c) ==
  /\ pc[c] = "finally"
  /\ \/ /\ holder = c
        /\ holder' = NoCall
        /\ reply' = [reply EXCEPT ![c] = result[c]]
     \/ /\ holder # c
        /\ reply' = [reply EXCEPT ![c] = "nullMessage"]
        /\ UNCHANGED holder
  /\ Goto(c, "done")
  /\ UNCHANGED <<param, result, submitted, latch, poolVars>>

Call(c) ==
  TryLock(c) \/ Prepare(c) \/ Execute(c) \/ CountDown(c) \/ LoopEnds(c) \/ Unlock(c)

-------------------------------------------------------------------------------
(* The threads of the executor *)

Take(w) ==
  /\ stage[w] = "idle" /\ queue # <<>>
  /\ task' = [task EXCEPT ![w] = Head(queue)]
  /\ queue' = Tail(queue)
  /\ stage' = [stage EXCEPT ![w] = "await"]
  /\ UNCHANGED <<callVars, sent, late, dead>>

(* Mutant: no task waits for its batch. *)
AwaitedNothing(w) ==
  /\ stage[w] = "await"
  /\ stage' = [stage EXCEPT ![w] = "go"]
  /\ UNCHANGED <<callVars, queue, task, sent, late, dead>>

(* cdl.await returns, because the latch is at 0 or after 5 seconds.        *)
Awaited(w) ==
  LET t == task[w]
  IN  /\ stage[w] = "await"
      /\ \/ latch[t[1]] = 0 /\ UNCHANGED late
         \/ latch[t[1]] > 0 /\ late' = late \cup {t}
      /\ stage' = [stage EXCEPT ![w] = "go"]
      /\ UNCHANGED <<callVars, queue, task, sent, dead>>

(* The request leaves, or the missing method ends the task and its thread, *)
(* which the executor replaces.                                            *)
Send(w) ==
  LET t == task[w]
  IN  /\ stage[w] = "go"
      /\ \/ /\ param[t[1]].method
            /\ sent' = sent \cup {t} /\ stage' = [stage EXCEPT ![w] = "sending"]
            /\ UNCHANGED <<task, dead>>
         \/ /\ ~ param[t[1]].method
            /\ dead' = dead \cup {t}
            /\ task' = [task EXCEPT ![w] = NoTask] /\ stage' = [stage EXCEPT ![w] = "idle"]
            /\ UNCHANGED sent
      /\ UNCHANGED <<callVars, queue, late>>

(* doGet or doPost returns: an answer, or null after any exception.        *)
Answered(w) ==
  /\ stage[w] = "sending"
  /\ task' = [task EXCEPT ![w] = NoTask] /\ stage' = [stage EXCEPT ![w] = "idle"]
  /\ UNCHANGED <<callVars, queue, sent, late, dead>>

Worker(w) == Take(w) \/ Awaited(w) \/ Send(w) \/ Answered(w)

Next ==
  \/ \E c \in Calls : Call(c)
  \/ \E w \in Workers : Worker(w)

(* A running thread keeps running, and the tested address answers, refuses *)
(* or breaks the connection in the end.                                    *)
Fairness ==
  /\ \A c \in Calls : WF_vars(Call(c))
  /\ \A w \in Workers : WF_vars(Worker(w))

Spec == Init /\ [][Next]_vars

FairSpec == Spec /\ Fairness

-------------------------------------------------------------------------------
(* Properties *)

TypeOK ==
  /\ param \in [Calls -> {p \in Params : p.count \in Counts}]
  /\ holder \in Calls \cup {NoCall}
  /\ pc \in [Calls -> {"new", "body", "loop", "count", "finally", "done"}]
  /\ result \in [Calls -> {"none", "busy", "exception", "success"}]
  /\ reply \in [Calls -> {"none", "busy", "exception", "success", "nullMessage"}]
  /\ submitted \in [Calls -> 0..MaxCount]
  /\ latch \in [Calls -> 0..MaxCount]
  /\ queue \in Seq(Tasks)
  /\ task \in [Workers -> Tasks \cup {NoTask}]
  /\ stage \in [Workers -> {"unborn", "idle", "await", "go", "sending"}]
  /\ sent \subseteq Tasks /\ late \subseteq Tasks /\ dead \subseteq Tasks

Submitting(c) == pc[c] \in {"body", "loop", "count"}

(* The lock is owned exactly while its owner prepares and submits a batch  *)
(* or is about to unlock: every way out of the try block gives it back,    *)
(* and the unlock of a refused call takes it from nobody else.             *)
LockOwned ==
  \A c \in Calls :
    holder = c <=> Submitting(c) \/ (pc[c] = "finally" /\ result[c] # "busy")

(* The executor gets the tasks of one batch after those of another, never  *)
(* mixed with them: the lock covers the whole submission.                  *)
BatchesUnmixed ==
  \A i, j, k \in DOMAIN queue :
    i < j /\ j < k /\ queue[i][1] = queue[k][1] => queue[j][1] = queue[i][1]

(* The requests of a batch leave together: none before the last task of    *)
(* its batch was handed over, unless it has waited for 5 seconds.          *)
SentTogether ==
  \A t \in sent : submitted[t[1]] = param[t[1]].count \/ t \in late

Positions(t) == {i \in DOMAIN queue : queue[i] = t}
Holding(t) == {w \in Workers : task[w] = t /\ stage[w] \in {"await", "go"}}
Over(t) == IF t \in sent \cup dead THEN {t} ELSE {}

(* A task that was handed over is at one place only: in the queue, with    *)
(* the one thread that has yet to send it, or over, for good; nothing else *)
(* is anywhere.                                                            *)
HandledOnce ==
  \A t \in Tasks :
    Cardinality(Positions(t)) + Cardinality(Holding(t)) + Cardinality(Over(t))
      = IF t[2] <= submitted[t[1]] THEN 1 ELSE 0

(* No task of a batch is lost, doubled or mixed with those of another      *)
(* between the loop that hands it over and the thread that sends it.       *)
BatchesIntact == BatchesUnmixed /\ HandledOnce

(* What a caller asked for is done in the end, also beyond the number of   *)
(* core threads: once the reply says "success" every request leaves,       *)
(* unless the method was missing.                                          *)
AcceptedAreSent ==
  \A c \in Calls : \A k \in 1..MaxCount :
    (reply[c] = "success" /\ param[c].method /\ k <= param[c].count) ~> <<c, k>> \in sent

(* The tool never stays locked: no batch of bad parameters, and no number  *)
(* of requests under way, keeps later calls out.                           *)
LockIsFreed == \A c \in Calls : holder = c ~> holder # c

(* Whatever was accepted is sent and whoever locked unlocks, in the end.   *)
CallsFinish == AcceptedAreSent /\ LockIsFreed

(* Line 101: a call that finds the lock taken is told                      *)
(* "正在发送请求，请稍后再试" (requests are being sent, try again later).  *)
RefusedIsTold ==
  \A c \in Calls : pc[c] = "done" /\ result[c] = "busy" => reply[c] = "busy"
===============================================================================
