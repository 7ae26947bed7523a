------------------------------- MODULE ApiList -------------------------------
(***************************************************************************)
(* The documentation of RPC interfaces: ApiController.list, with the       *)
(* wrapper ExecutorServiceUtil around its pool, JarUtil.downLoad and       *)
(* ApiDocService.getInterfaceList.                                         *)
(*                                                                         *)
(* A request names some jars.  Its thread submits one task per jar to the  *)
(* pool all requests share, waits for a latch for at most one minute and   *)
(* answers with whatever the tasks have added to the result by then.  A    *)
(* task downloads its jar, loads every class in it, adds what it found and *)
(* counts the latch down, unless an Error ends it first: the catch clause  *)
(* takes Exceptions only and the count down is not in a finally block.     *)
(***************************************************************************)
EXTENDS Integers, Sequences, FiniteSets

CONSTANTS
  Requests,       \* calls of /api/list, one servlet thread each
  NoTrace,        \* the traceId of a thread that never ran a task
  Workers,        \* the core threads of the pool
  MaxJars,        \* bound: the most dependencies of a request
  JarKinds        \* what jars may contain: sets of the kinds below

(* Of the classes of a jar it matters whether one is an interface; one     *)
(* cannot be loaded for want of another class ("missing", which is skipped *)
(* with a warning); or one cannot be loaded for any other reason, such as  *)
(* the class file version of a module-info ("broken", a LinkageError).     *)
ClassKinds == {"interface", "missing", "broken"}

ASSUME RequestsAssumption ==
  /\ NoTrace \notin Requests /\ MaxJars \in Nat /\ JarKinds \subseteq SUBSET ClassKinds
  /\ IsFiniteSet(Workers) /\ Workers # {}

Tasks == Requests \X (1..MaxJars)
NoTask == <<>>

VARIABLES
  jars,           \* the jars each request names
  pc,             \* where the request's thread is
  submitted,      \* tasks it has submitted
  latch,
  found,          \* the shared result: jars whose interfaces were added
  timedOut,       \* the request stopped waiting after a minute
  reply,          \* the jars its answer shows
  queue,          \* tasks with the traceId captured when they were submitted
  task, stage,    \* what each pool thread works on, and how far it is
  traceId,        \* the traceId in the MDC of each pool thread
  failed,         \* tasks whose download ended in an exception
  killed          \* tasks an Error ended before their count down

requestVars == <<jars, pc, submitted, timedOut, reply>>
vars == <<jars, pc, submitted, latch, found, timedOut, reply, queue, task, stage, traceId,
          failed, killed>>

Init ==
  /\ jars \in [Requests -> UNION {[1..n -> JarKinds] : n \in 0..MaxJars}]
  /\ pc = [r \in Requests |-> "submit"]
  /\ submitted = [r \in Requests |-> 0]
  /\ latch = [r \in Requests |-> Len(jars[r])]
  /\ found = [r \in Requests |-> {}]
  /\ timedOut = [r \in Requests |-> FALSE]
  /\ reply = [r \in Requests |-> {}]
  /\ queue = <<>>
  /\ task = [w \in Workers |-> NoTask]
  /\ stage = [w \in Workers |-> "idle"]
  /\ traceId = [w \in Workers |-> NoTrace]
  /\ failed = {} /\ killed = {}

Jar(t) == jars[t[1]][t[2]]

(* getInterfaceList: the loop over the classes returns nothing of a jar    *)
(* that has a broken one, since the error leaves the method; the missing   *)
(* ones only leave themselves out.                                         *)
Breaks(jar) == "broken" \in jar
HasInterfaces(jar) == "interface" \in jar

-------------------------------------------------------------------------------
(* The thread of a request.  Its MDC carries the request's own traceId,    *)
(* written here as the request itself.                                     *)

Submit(r) ==
  /\ pc[r] = "submit" /\ submitted[r] < Len(jars[r])
  /\ submitted' = [submitted EXCEPT ![r] = @ + 1]
  /\ queue' = Append(queue, [task |-> <<r, submitted[r] + 1>>, traceId |-> r])
  /\ UNCHANGED <<jars, pc, latch, found, timedOut, reply, task, stage, traceId, failed, killed>>

StartWaiting(r) ==
  /\ pc[r] = "submit" /\ submitted[r] = Len(jars[r])
  /\ pc' = [pc EXCEPT ![r] = "await"]
  /\ UNCHANGED <<jars, submitted, latch, found, timedOut, reply, queue, task, stage, traceId,
                 failed, killed>>

(* Mutant: the request does not wait for its tasks. *)
WaitForNothing(r) ==
  /\ pc[r] = "await"
  /\ pc' = [pc EXCEPT ![r] = "answer"]
  /\ UNCHANGED <<jars, submitted, latch, found, timedOut, reply, queue, task, stage, traceId,
                 failed, killed>>

(* Mutant: await() without a timeout. *)
WaitForAll(r) ==
  /\ pc[r] = "await" /\ latch[r] = 0
  /\ pc' = [pc EXCEPT ![r] = "answer"]
  /\ UNCHANGED <<jars, submitted, latch, found, timedOut, reply, queue, task, stage, traceId,
                 failed, killed>>

(* cdl.await(1, MINUTES) returns at 0, or after the minute. *)
StopWaiting(r) ==
  /\ pc[r] = "await"
  /\ \/ latch[r] = 0 /\ UNCHANGED timedOut
     \/ latch[r] > 0 /\ timedOut' = [timedOut EXCEPT ![r] = TRUE]
  /\ pc' = [pc EXCEPT ![r] = "answer"]
  /\ UNCHANGED <<jars, submitted, latch, found, reply, queue, task, stage, traceId, failed, killed>>

(* The stream works on a snapshot of the CopyOnWriteArraySet. *)
Answer(r) ==
  /\ pc[r] = "answer"
  /\ reply' = [reply EXCEPT ![r] = found[r]]
  /\ pc' = [pc EXCEPT ![r] = "done"]
  /\ UNCHANGED <<jars, submitted, latch, found, timedOut, queue, task, stage, traceId, failed, killed>>

Request(r) == Submit(r) \/ StartWaiting(r) \/ StopWaiting(r) \/ Answer(r)

-------------------------------------------------------------------------------
(* The threads of the pool *)

At(w, here) == stage' = [stage EXCEPT ![w] = here]

(* Start a task by way of the wrapper, which puts its traceId into the MDC *)
(* and never takes it out.                                                 *)
Take(w) ==
  /\ stage[w] = "idle" /\ queue # <<>>
  /\ task' = [task EXCEPT ![w] = Head(queue).task]
  /\ traceId' = [traceId EXCEPT ![w] = Head(queue).traceId]
  /\ queue' = Tail(queue)
  /\ At(w, "load")
  /\ UNCHANGED <<requestVars, latch, found, failed, killed>>

(* The jar was downloaded and its classes were loaded. *)
Load(w) ==
  /\ stage[w] = "load" /\ ~ Breaks(Jar(task[w]))
  /\ At(w, "add")
  /\ UNCHANGED <<requestVars, latch, found, queue, task, traceId, failed, killed>>

(* Mutant: after a failed download the task returns at once. *)
LoadFailsUncounted(w) ==
  /\ stage[w] = "load"
  /\ failed' = failed \cup {task[w]}
  /\ task' = [task EXCEPT ![w] = NoTask]
  /\ At(w, "idle")
  /\ UNCHANGED <<requestVars, latch, found, queue, traceId, killed>>

(* The repository, the coordinates or the files are no good.               *)
LoadFails(w) ==
  /\ stage[w] = "load"
  /\ failed' = failed \cup {task[w]}
  /\ At(w, "count")
  /\ UNCHANGED <<requestVars, latch, found, queue, task, traceId, killed>>

(* An Error ends the thread; the pool starts another one in its place,     *)
(* with an MDC of its own.                                                 *)
LoadDies(w) ==
  /\ stage[w] = "load" /\ Breaks(Jar(task[w]))
  /\ killed' = killed \cup {task[w]}
  /\ task' = [task EXCEPT ![w] = NoTask]
  /\ traceId' = [traceId EXCEPT ![w] = NoTrace]
  /\ At(w, "idle")
  /\ UNCHANGED <<requestVars, latch, found, queue, failed>>

(* result.addAll(getInterfaceList(...)) *)
Add(w) ==
  LET t == task[w]
  IN  /\ stage[w] = "add"
      /\ found' = [found EXCEPT ![t[1]] = IF HasInterfaces(Jar(t)) THEN @ \cup {t[2]} ELSE @]
      /\ At(w, "count")
      /\ UNCHANGED <<requestVars, latch, queue, task, traceId, failed, killed>>

CountDown(w) ==
  /\ stage[w] = "count"
  /\ latch' = [latch EXCEPT ![task[w][1]] = @ - 1]
  /\ task' = [task EXCEPT ![w] = NoTask]
  /\ At(w, "idle")
  /\ UNCHANGED <<requestVars, found, queue, traceId, failed, killed>>

Worker(w) == Take(w) \/ Load(w) \/ LoadFails(w) \/ LoadDies(w) \/ Add(w) \/ CountDown(w)

Next ==
  \/ \E r \in Requests : Request(r)
  \/ \E w \in Workers : Worker(w)

(* Threads run.  A download may last forever: the pool's threads are not   *)
(* required to leave the stage "load".                                     *)
Fairness ==
  /\ \A r \in Requests : WF_vars(Request(r))
  /\ \A w \in Workers : WF_vars(Take(w) \/ Add(w) \/ CountDown(w))

Spec == Init /\ [][Next]_vars

FairSpec == Spec /\ Fairness

-------------------------------------------------------------------------------
(* Properties *)

TypeOK ==
  /\ \A r \in Requests : jars[r] \in Seq(JarKinds) /\ Len(jars[r]) <= MaxJars
  /\ pc \in [Requests -> {"submit", "await", "answer", "done"}]
  /\ submitted \in [Requests -> 0..MaxJars]
  /\ latch \in [Requests -> 0..MaxJars]
  /\ found \in [Requests -> SUBSET (1..MaxJars)]
  /\ timedOut \in [Requests -> BOOLEAN]
  /\ reply \in [Requests -> SUBSET (1..MaxJars)]
  /\ queue \in Seq([task : Tasks, traceId : Requests])
  /\ task \in [Workers -> Tasks \cup {NoTask}]
  /\ stage \in [Workers -> {"idle", "load", "add", "count"}]
  /\ traceId \in [Workers -> Requests \cup {NoTrace}]
  /\ failed \subseteq Tasks /\ killed \subseteq Tasks

(* The jars of a request that an answer should show *)
Loadable(r) ==
  {k \in DOMAIN jars[r] : ~ Breaks(jars[r][k]) /\ HasInterfaces(jars[r][k]) /\ <<r, k>> \notin failed}

(* An answer that did not wait out the minute shows every jar that could   *)
(* be loaded, though the tasks ran in any order beside those of other      *)
(* requests; and no answer shows anything else.                            *)
AnswerComplete ==
  \A r \in Requests :
    pc[r] = "done" => /\ reply[r] \subseteq Loadable(r)
                      /\ timedOut[r] \/ reply[r] = Loadable(r)

Pending(r) ==
  {k \in DOMAIN jars[r] :
     \/ k > submitted[r]
     \/ \E i \in DOMAIN queue : queue[i].task = <<r, k>>
     \/ \E w \in Workers : task[w] = <<r, k>>}

(* The latch counts the jars whose tasks are still to end, and those an    *)
(* Error ended: it never reaches 0 early, and after an Error never at all, *)
(* so that the request always waits out its minute.                        *)
LatchCounts ==
  \A r \in Requests :
    latch[r] = Cardinality(Pending(r)) + Cardinality({t \in killed : t[1] = r})

(* What a task logs carries the traceId of the request it works for,       *)
(* although threads are reused and their MDC is never cleared.             *)
TraceFollowsTask ==
  \A w \in Workers : task[w] # NoTask => traceId[w] = task[w][1]

(* What is still to come is known at every step: the latch counts the      *)
(* tasks that may still add to the answer, and each works under the        *)
(* traceId of its own request.                                             *)
TasksAccounted == TypeOK /\ LatchCounts /\ TraceFollowsTask

(* Every request is answered, also when a download hangs, a task dies or   *)
(* the pool is taken up by other requests.                                 *)
EveryRequestAnswered == \A r \in Requests : <>(pc[r] = "done")
===============================================================================
