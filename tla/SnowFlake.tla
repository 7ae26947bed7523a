------------------------------ MODULE SnowFlake -------------------------------
(***************************************************************************)
(* kanglab-utils' SnowFlake: a 64-bit identifier made of a 42-bit time     *)
(* field (milliseconds since START_STMP, the top bit being the sign), a    *)
(* datacenter, a machine and a sequence number that restarts at 0 every    *)
(* millisecond.                                                            *)
(*                                                                         *)
(* A site is a process that holds one SnowFlake object.  Threads of a site *)
(* call nextId, whose monitor ("synchronized") is the variable owner.  The *)
(* clock of a site is System.currentTimeMillis: it moves forward, and now  *)
(* and then an operator or NTP sets it back.  A site may restart at any    *)
(* time; the new object starts from the initial field values again.        *)
(*                                                                         *)
(* The word is kept as the tuple of its four disjoint bit fields, which is *)
(* what the shifts and the bitwise or of the code build: the left shift    *)
(* keeps the time modulo TIME_RANGE (2^42 in the code).                    *)
(***************************************************************************)
EXTENDS Integers, Sequences

CONSTANTS
  Sites,          \* processes that hold a SnowFlake object
  Threads,        \* threads that call nextId, shared out among the sites
  NoThread,       \* the owner of a free monitor
  SiteOf,         \* the site every thread belongs to
  datacenterId,   \* the first constructor argument at each site
  machineId,      \* the second one
  MAX_DATACENTER_NUM, MAX_MACHINE_NUM, MAX_SEQUENCE,
  START_STMP,
  TIME_RANGE,     \* number of values of the time field
  Unsteady,       \* bound: sites whose clock is set back and that restart
  MaxClock,       \* bound: no clock shows more than this
  MaxSetBacks,    \* bound: times each clock is set back
  MaxRestarts,    \* bound: objects created at a site
  MaxIds          \* bound: calls that may begin once so many ids are out

(* The constructor's range checks. *)
Accepts(datacenter, machine) ==
  /\ datacenter \in 0..MAX_DATACENTER_NUM
  /\ machine \in 0..MAX_MACHINE_NUM

ASSUME SitesAssumption ==
  /\ NoThread \notin Threads
  /\ SiteOf \in [Threads -> Sites]
  /\ datacenterId \in [Sites -> Int]
  /\ machineId \in [Sites -> Int]

(* Sites are deployed with different numbers: nothing in the code checks   *)
(* it, and without it two sites share every identifier.                    *)
ASSUME DistinctSites ==
  \A g, h \in Sites : g # h => <<datacenterId[g], machineId[g]>> # <<datacenterId[h], machineId[h]>>

(* The clocks stay within the 2^42 ms (139 years) the time field can tell  *)
(* apart.                                                                  *)
ASSUME BitsAssumption ==
  /\ MAX_DATACENTER_NUM \in Nat /\ MAX_MACHINE_NUM \in Nat /\ MAX_SEQUENCE \in Nat
  /\ START_STMP \in Nat /\ MaxClock \in Nat
  /\ TIME_RANGE \in Nat /\ START_STMP < TIME_RANGE /\ MaxClock < TIME_RANGE

ASSUME BoundsAssumption ==
  MaxSetBacks \in Nat /\ MaxRestarts \in Nat /\ MaxIds \in Nat

VARIABLES
  clock,          \* what currentTimeMillis shows at each site
  setBacks,       \* times that clock was set back
  incarnation,    \* objects created at each site (0: none yet)
  lastStmp, sequence,   \* the fields of the object
  owner,          \* the thread inside nextId, or NoThread
  pc,             \* where each thread is
  currStmp,       \* its local variable
  issued          \* every return value so far, with where it came from

objects == <<incarnation, lastStmp, sequence, owner>>
vars == <<clock, setBacks, incarnation, lastStmp, sequence, owner, pc, currStmp, issued>>

(* The two's complement pattern of a number of milliseconds: the bits the  *)
(* shift by TIMESTMP_LEFT keeps.                                           *)
TimeField(ms) == ms % TIME_RANGE

Id(r) ==
  <<TimeField(r.stmp - START_STMP), datacenterId[r.site], machineId[r.site], r.sequence>>

Result == [site : Sites, incarnation : Nat, stmp : Int, sequence : Nat]

Init ==
  /\ clock \in [Sites -> 0..MaxClock]
  /\ setBacks = [g \in Sites |-> 0]
  /\ incarnation = [g \in Sites |-> 0]
  /\ lastStmp = [g \in Sites |-> -1]
  /\ sequence = [g \in Sites |-> 0]
  /\ owner = [g \in Sites |-> NoThread]
  /\ pc = [t \in Threads |-> "idle"]
  /\ currStmp = [t \in Threads |-> 0]
  /\ issued = <<>>

-------------------------------------------------------------------------------
(* The environment *)

Tick(g) ==
  /\ clock[g] < MaxClock
  /\ clock' = [clock EXCEPT ![g] = @ + 1]
  /\ UNCHANGED <<setBacks, incarnation, lastStmp, sequence, owner, pc, currStmp, issued>>

SetBack(g) ==
  /\ g \in Unsteady /\ setBacks[g] < MaxSetBacks
  /\ setBacks' = [setBacks EXCEPT ![g] = @ + 1]
  /\ \E c \in 0..(clock[g] - 1) : clock' = [clock EXCEPT ![g] = c]
  /\ UNCHANGED <<incarnation, lastStmp, sequence, owner, pc, currStmp, issued>>

(* new SnowFlake(datacenterId, machineId), at first or after a restart of  *)
(* the process, which ends the threads that were inside the old object.    *)
Construct(g) ==
  /\ incarnation[g] < MaxRestarts /\ (incarnation[g] > 0 => g \in Unsteady)
  /\ Accepts(datacenterId[g], machineId[g])
  /\ incarnation' = [incarnation EXCEPT ![g] = @ + 1]
  /\ lastStmp' = [lastStmp EXCEPT ![g] = -1]
  /\ sequence' = [sequence EXCEPT ![g] = 0]
  /\ owner' = [owner EXCEPT ![g] = NoThread]
  /\ pc' = [t \in Threads |-> IF SiteOf[t] = g THEN "idle" ELSE pc[t]]
  /\ UNCHANGED <<clock, setBacks, currStmp, issued>>

-------------------------------------------------------------------------------
(* nextId.  The monitor is held from Enter to Refuse or Return. *)

Release(t) ==
  /\ owner' = [owner EXCEPT ![SiteOf[t]] = NoThread]
  /\ pc' = [pc EXCEPT ![t] = "idle"]

(* lastStmp = currStmp, and the return of the four fields *)
Return(t, stmp, seq) ==
  LET g == SiteOf[t]
  IN  /\ lastStmp' = [lastStmp EXCEPT ![g] = stmp]
      /\ sequence' = [sequence EXCEPT ![g] = seq]
      /\ issued' = Append(issued, [site |-> g, incarnation |-> incarnation[g],
                                   stmp |-> stmp, sequence |-> seq])
      /\ Release(t)
      /\ UNCHANGED <<clock, setBacks, incarnation>>

(* Take the monitor and read the clock. *)
Enter(t) ==
  LET g == SiteOf[t]
  IN  /\ pc[t] = "idle" /\ incarnation[g] > 0 /\ owner[g] = NoThread
      /\ Len(issued) < MaxIds /\ clock[g] < MaxClock
      /\ owner' = [owner EXCEPT ![g] = t]
      /\ currStmp' = [currStmp EXCEPT ![t] = clock[g]]
      /\ pc' = [pc EXCEPT ![t] = "read"]
      /\ UNCHANGED <<clock, setBacks, incarnation, lastStmp, sequence, issued>>

(* "Clock moved backwards.  Refusing to generate id" *)
Refuse(t) ==
  /\ pc[t] = "read" /\ currStmp[t] < lastStmp[SiteOf[t]]
  /\ Release(t)
  /\ UNCHANGED <<clock, setBacks, incarnation, lastStmp, sequence, currStmp, issued>>

(* Mutant: a clock that went back is not refused. *)
AnyOtherMillisecond(t) ==
  /\ pc[t] = "read" /\ currStmp[t] # lastStmp[SiteOf[t]]
  /\ Return(t, currStmp[t], 0)
  /\ UNCHANGED currStmp

(* Mutant: the sequence goes on into the new millisecond. *)
NewMillisecondGoesOn(t) ==
  /\ pc[t] = "read" /\ currStmp[t] > lastStmp[SiteOf[t]]
  /\ Return(t, currStmp[t], sequence[SiteOf[t]])
  /\ UNCHANGED currStmp

NewMillisecond(t) ==
  /\ pc[t] = "read" /\ currStmp[t] > lastStmp[SiteOf[t]]
  /\ Return(t, currStmp[t], 0)
  /\ UNCHANGED currStmp

(* Mutant: the sequence is not masked. *)
NextUnmasked(t) ==
  /\ pc[t] = "read" /\ currStmp[t] = lastStmp[SiteOf[t]]
  /\ Return(t, currStmp[t], sequence[SiteOf[t]] + 1)
  /\ UNCHANGED currStmp

NextInMillisecond(t) ==
  LET seq == (sequence[SiteOf[t]] + 1) % (MAX_SEQUENCE + 1)
  IN  /\ pc[t] = "read" /\ currStmp[t] = lastStmp[SiteOf[t]]
      /\ seq # 0
      /\ Return(t, currStmp[t], seq)
      /\ UNCHANGED currStmp

(* Mutant: nobody waits for the next millisecond when the sequence wraps. *)
ExhaustedReturns(t) ==
  /\ pc[t] = "read" /\ currStmp[t] = lastStmp[SiteOf[t]]
  /\ (sequence[SiteOf[t]] + 1) % (MAX_SEQUENCE + 1) = 0
  /\ Return(t, currStmp[t], 0)
  /\ UNCHANGED currStmp

(* The sequence wrapped: the thread starts to spin in getNextMill. *)
Exhausted(t) ==
  LET g == SiteOf[t]
      seq == (sequence[g] + 1) % (MAX_SEQUENCE + 1)
  IN  /\ pc[t] = "read" /\ currStmp[t] = lastStmp[g]
      /\ seq = 0
      /\ sequence' = [sequence EXCEPT ![g] = seq]
      /\ pc' = [pc EXCEPT ![t] = "spin"]
      /\ UNCHANGED <<clock, setBacks, incarnation, lastStmp, owner, currStmp, issued>>

(* Mutant: getNextMill does not read the clock again in its loop. *)
SpinOnOldTime(t) ==
  LET g == SiteOf[t]
  IN  /\ pc[t] = "spin" /\ currStmp[t] > lastStmp[g]
      /\ Return(t, currStmp[t], sequence[g])
      /\ UNCHANGED currStmp

(* getNextMill leaves its loop; iterations that read an old millisecond    *)
(* change nothing.                                                         *)
SpinReturn(t) ==
  LET g == SiteOf[t]
  IN  /\ pc[t] = "spin" /\ clock[g] > lastStmp[g]
      /\ currStmp' = [currStmp EXCEPT ![t] = clock[g]]
      /\ Return(t, clock[g], sequence[g])

Inside(t) ==
  Refuse(t) \/ NewMillisecond(t) \/ NextInMillisecond(t) \/ Exhausted(t) \/ SpinReturn(t)

Next ==
  \/ \E g \in Sites : Tick(g) \/ SetBack(g) \/ Construct(g)
  \/ \E t \in Threads : Enter(t) \/ Inside(t)

(* A thread inside nextId keeps running and the clocks do not stop; no     *)
(* thread is obliged to call, nor promised the monitor.                    *)
Fairness ==
  /\ \A g \in Sites : WF_vars(Tick(g))
  /\ \A t \in Threads : WF_vars(Inside(t))

Spec == Init /\ [][Next]_vars

FairSpec == Spec /\ Fairness

-------------------------------------------------------------------------------
(* Properties *)

(* Types, and the monitor: a thread is inside nextId exactly while it owns *)
(* the object of its site.                                                 *)
TypeOK ==
  /\ clock \in [Sites -> 0..MaxClock]
  /\ setBacks \in [Sites -> 0..MaxSetBacks]
  /\ incarnation \in [Sites -> 0..MaxRestarts]
  /\ lastStmp \in [Sites -> -1..MaxClock]
  /\ sequence \in [Sites -> 0..MAX_SEQUENCE]
  /\ owner \in [Sites -> Threads \cup {NoThread}]
  /\ pc \in [Threads -> {"idle", "read", "spin"}]
  /\ currStmp \in [Threads -> 0..MaxClock]
  /\ issued \in Seq(Result)

SameObject(r, s) == r.site = s.site /\ r.incarnation = s.incarnation

(* No two calls of nextId return the same word, at any two sites and       *)
(* however their clocks differ or are set back; only an object that a      *)
(* restart replaced may have handed the word out before, because lastStmp  *)
(* and sequence are lost (lines 36-37).                                    *)
UniqueIds ==
  \A i, j \in DOMAIN issued :
    i # j /\ Id(issued[i]) = Id(issued[j])
      => /\ issued[i].site = issued[j].site
         /\ issued[i].incarnation # issued[j].incarnation

(* The word read as a signed number: the top bit of the time field is the  *)
(* sign bit of the long.                                                   *)
SignedTime(r) ==
  LET f == TimeField(r.stmp - START_STMP)
  IN  IF 2 * f < TIME_RANGE THEN f ELSE f - TIME_RANGE

FitsSigned(r) == /\ -TIME_RANGE <= 2 * (r.stmp - START_STMP)
                 /\ 2 * (r.stmp - START_STMP) < TIME_RANGE

(* The words of one object increase as longs from call to call, whoever    *)
(* calls and also across the spin of an exhausted millisecond, until the   *)
(* time outgrows its 41 bits and the word turns negative.                  *)
IdsIncrease ==
  \A i, j \in DOMAIN issued :
    i < j /\ SameObject(issued[i], issued[j]) /\ FitsSigned(issued[i]) /\ FitsSigned(issued[j])
      => \/ SignedTime(issued[i]) < SignedTime(issued[j])
         \/ /\ SignedTime(issued[i]) = SignedTime(issued[j])
            /\ issued[i].sequence < issued[j].sequence

(* A call that has the monitor ends, by returning or by throwing: also the *)
(* one that spins for the next millisecond, however far its clock was set  *)
(* back meanwhile, so the callers behind it are not shut out.              *)
CallsEnd == \A t \in Threads : pc[t] # "idle" ~> pc[t] = "idle"

(* A thread that spins has the number after the last one before it.       *)
Wrapped(g) == \E t \in Threads : SiteOf[t] = g /\ pc[t] = "spin"

(* With its monitor, its masked sequence and its spin, nextId is the one   *)
(* step of IdIssuer for every caller (lines 55-92): no number is left out  *)
(* or given twice, a new millisecond starts at 0, the time is one that the *)
(* clock showed during the call, and a call is refused only when its clock *)
(* is behind.                                                              *)
Issuer ==
  INSTANCE IdIssuer
  WITH last    <- [g \in Sites |-> [stmp |-> lastStmp[g],
                                   sequence |-> IF Wrapped(g) THEN MAX_SEQUENCE ELSE sequence[g]]],
       reading <- [t \in Threads |-> IF pc[t] = "idle" THEN -1 ELSE currStmp[t]]

IssuesInTurn == Issuer!Spec
===============================================================================
