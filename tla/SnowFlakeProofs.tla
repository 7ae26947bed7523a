--------------------------- MODULE SnowFlakeProofs ----------------------------
(***************************************************************************)
(* Why SnowFlake never repeats itself, for any number of sites, threads,   *)
(* clock set-backs and restarts: what an object has handed out is always   *)
(* behind the pair (lastStmp, sequence) of its fields, except while the    *)
(* thread that wrapped the sequence spins.                                 *)
(***************************************************************************)
EXTENDS SnowFlake, TLAPS

Busy(g) == owner[g] # NoThread

Spinning(g) == Busy(g) /\ pc[owner[g]] = "spin"

(* A thread that is not idle owns the object of its site. *)
Monitor ==
  /\ \A t \in Threads : pc[t] # "idle" => owner[SiteOf[t]] = t /\ incarnation[SiteOf[t]] > 0
  /\ \A g \in Sites : Busy(g) => SiteOf[owner[g]] = g

(* What the results say of themselves *)
Recorded ==
  \A i \in DOMAIN issued :
    LET r == issued[i]
    IN  /\ r.stmp \in 0..MaxClock /\ r.sequence \in 0..MAX_SEQUENCE
        /\ r.incarnation \in 1..incarnation[r.site]

(* Results of the present object of a site are behind its fields.          *)
Current(r) == r.incarnation = incarnation[r.site]

BehindFields(r) ==
  \/ r.stmp < lastStmp[r.site]
  \/ r.stmp = lastStmp[r.site] /\ r.sequence <= sequence[r.site]
  \/ r.stmp = lastStmp[r.site] /\ Spinning(r.site)

Behind == \A i \in DOMAIN issued : Current(issued[i]) => BehindFields(issued[i])

Before(r, s) == r.stmp < s.stmp \/ (r.stmp = s.stmp /\ r.sequence < s.sequence)

Ordered ==
  \A i, j \in DOMAIN issued :
    i < j /\ SameObject(issued[i], issued[j]) => Before(issued[i], issued[j])

IInv == TypeOK /\ Monitor /\ Recorded /\ Behind /\ Ordered

-------------------------------------------------------------------------------
(* The sequence number wraps exactly after MAX_SEQUENCE. *)
LEMMA SequenceStep ==
  ASSUME NEW s \in 0..MAX_SEQUENCE
  PROVE  (s + 1) % (MAX_SEQUENCE + 1) = IF s = MAX_SEQUENCE THEN 0 ELSE s + 1
<1>1. CASE s = MAX_SEQUENCE
  BY <1>1, BitsAssumption
<1>2. CASE s # MAX_SEQUENCE
  BY <1>2, BitsAssumption
<1> QED BY <1>1, <1>2

(* A call that returns a pair which the results of its object are before   *)
(* leaves the invariant true: lines 73-78.                                 *)
LEMMA ReturnStep ==
  ASSUME IInv, NEW t \in Threads, pc[t] # "idle",
         NEW stmp \in 0..MaxClock, NEW seq \in 0..MAX_SEQUENCE,
         \A i \in DOMAIN issued :
            /\ issued[i].site = SiteOf[t]
            /\ issued[i].incarnation = incarnation[SiteOf[t]]
            => Before(issued[i], [stmp |-> stmp, sequence |-> seq]),
         Return(t, stmp, seq), currStmp' \in [Threads -> 0..MaxClock]
  PROVE  IInv'
<1> DEFINE g == SiteOf[t]
           r == [site |-> g, incarnation |-> incarnation[g], stmp |-> stmp, sequence |-> seq]
<1>0. /\ g \in Sites /\ owner[g] = t /\ incarnation[g] \in 1..MaxRestarts /\ r \in Result
      /\ issued \in Seq(Result) /\ TypeOK
  <2>1. g \in Sites /\ TypeOK /\ issued \in Seq(Result)
    BY SitesAssumption DEF IInv, TypeOK
  <2>2. owner[g] = t /\ incarnation[g] \in 1..MaxRestarts
    BY <2>1, BoundsAssumption DEF IInv, TypeOK, Monitor
  <2>3. r \in Result
    BY <2>1, <2>2 DEF Result
  <2> QED BY <2>1, <2>2, <2>3
<1>1. /\ issued' = Append(issued, r)
      /\ owner' = [owner EXCEPT ![g] = NoThread] /\ pc' = [pc EXCEPT ![t] = "idle"]
      /\ lastStmp' = [lastStmp EXCEPT ![g] = stmp] /\ sequence' = [sequence EXCEPT ![g] = seq]
      /\ UNCHANGED <<clock, setBacks, incarnation>>
  BY DEF Return, Release
<1>2. /\ DOMAIN issued' = 1..(Len(issued) + 1) /\ DOMAIN issued = 1..Len(issued) /\ Len(issued) \in Nat
      /\ \A i \in DOMAIN issued : issued'[i] = issued[i] /\ issued[i] \in Result
      /\ issued'[Len(issued) + 1] = r
  BY <1>0, <1>1
<1>3. TypeOK'
  <2>1. lastStmp' \in [Sites -> -1..MaxClock] /\ sequence' \in [Sites -> 0..MAX_SEQUENCE]
    BY <1>0, <1>1, BitsAssumption DEF TypeOK
  <2>2. owner' \in [Sites -> Threads \cup {NoThread}] /\ pc' \in [Threads -> {"idle", "read", "spin"}]
    BY <1>0, <1>1 DEF TypeOK
  <2>3. issued' \in Seq(Result)
    BY <1>0, <1>1
  <2> QED BY <2>1, <2>2, <2>3, <1>0, <1>1 DEF TypeOK
<1>4. Monitor'
  <2>1. ASSUME NEW u \in Threads, pc'[u] # "idle"
        PROVE  owner'[SiteOf[u]] = u /\ incarnation'[SiteOf[u]] > 0
    <3>1. u # t /\ pc[u] # "idle"
      BY <1>0, <1>1, <2>1 DEF TypeOK
    <3>2. owner[SiteOf[u]] = u /\ incarnation[SiteOf[u]] > 0
      BY <2>1, <3>1 DEF IInv, Monitor
    <3>3. SiteOf[u] # g
      BY <1>0, <3>1, <3>2
    <3> QED BY <1>0, <1>1, <3>2, <3>3, SitesAssumption DEF TypeOK
  <2>2. ASSUME NEW h \in Sites, owner'[h] # NoThread PROVE SiteOf[owner'[h]] = h
    <3>1. h # g /\ owner'[h] = owner[h]
      BY <1>0, <1>1, <2>2 DEF TypeOK
    <3> QED BY <2>2, <3>1 DEF IInv, Monitor, Busy
  <2> QED BY <2>1, <2>2 DEF Monitor, Busy
<1>5. Recorded'
  <2>1. ASSUME NEW i \in DOMAIN issued'
        PROVE  /\ issued'[i].stmp \in 0..MaxClock /\ issued'[i].sequence \in 0..MAX_SEQUENCE
               /\ issued'[i].incarnation \in 1..incarnation[issued'[i].site]
    <3>1. CASE i \in DOMAIN issued
      BY <1>2, <3>1 DEF IInv, Recorded
    <3>2. CASE i = Len(issued) + 1
      <4>1. issued'[i] = r
        BY <1>2, <3>2
      <4> QED BY <1>0, <4>1
    <3> QED BY <1>2, <2>1, <3>1, <3>2
  <2> QED BY <1>1, <2>1 DEF Recorded
<1>6. Behind'
  <2> SUFFICES ASSUME NEW i \in DOMAIN issued', issued'[i].incarnation = incarnation'[issued'[i].site]
               PROVE  \/ issued'[i].stmp < lastStmp'[issued'[i].site]
                      \/ /\ issued'[i].stmp = lastStmp'[issued'[i].site]
                         /\ issued'[i].sequence <= sequence'[issued'[i].site]
                      \/ /\ issued'[i].stmp = lastStmp'[issued'[i].site]
                         /\ owner'[issued'[i].site] # NoThread
                         /\ pc'[owner'[issued'[i].site]] = "spin"
    BY DEF Behind, Current, BehindFields, Spinning, Busy
  <2>1. CASE i = Len(issued) + 1
    BY <2>1, <1>0, <1>1, <1>2, BitsAssumption DEF TypeOK
  <2>2. CASE i \in DOMAIN issued /\ issued[i].site = g
    <3>1. issued'[i] = issued[i] /\ issued[i] \in Result /\ issued[i].incarnation = incarnation[g]
      BY <2>2, <1>1, <1>2
    <3>2. Before(issued[i], [stmp |-> stmp, sequence |-> seq])
      BY <2>2, <3>1
    <3>3. lastStmp'[g] = stmp /\ sequence'[g] = seq
      BY <1>0, <1>1 DEF TypeOK
    <3> QED BY <2>2, <3>1, <3>2, <3>3, BitsAssumption DEF Before, Result
  <2>3. CASE i \in DOMAIN issued /\ issued[i].site # g
    <3> DEFINE h == issued[i].site
    <3>1. h \in Sites /\ h # g /\ issued'[i] = issued[i] /\ BehindFields(issued[i])
      BY <2>3, <1>1, <1>2 DEF Result, IInv, Behind, Current
    <3>2. lastStmp'[h] = lastStmp[h] /\ sequence'[h] = sequence[h] /\ owner'[h] = owner[h]
      BY <3>1, <1>0, <1>1 DEF TypeOK
    <3>3. ASSUME owner[h] # NoThread, pc[owner[h]] = "spin"
          PROVE  pc'[owner[h]] = "spin"
      <4>1. owner[h] \in Threads /\ owner[h] # t
        BY <3>1, <3>3, <1>0 DEF Busy, IInv, Monitor, TypeOK
      <4> QED BY <4>1, <3>3, <1>0, <1>1 DEF TypeOK
    <3> QED BY <3>1, <3>2, <3>3, <1>1 DEF BehindFields, Spinning, Busy
  <2> QED BY <1>2, <2>1, <2>2, <2>3
<1>7. Ordered'
  <2> SUFFICES ASSUME NEW i \in DOMAIN issued', NEW j \in DOMAIN issued',
                      i < j, SameObject(issued'[i], issued'[j])
               PROVE  Before(issued'[i], issued'[j])
    BY DEF Ordered
  <2>1. CASE j \in DOMAIN issued
    BY <2>1, <1>2 DEF IInv, Ordered
  <2>2. CASE j = Len(issued) + 1
    BY <2>2, <1>2 DEF SameObject, Before
  <2> QED BY <1>2, <2>1, <2>2
<1> QED BY <1>3, <1>4, <1>5, <1>6, <1>7 DEF IInv

-------------------------------------------------------------------------------
LEMMA Initially == Init => IInv
<1> SUFFICES ASSUME Init PROVE IInv
  OBVIOUS
<1>1. TypeOK
  BY BitsAssumption, BoundsAssumption DEF Init, TypeOK
<1>2. Monitor
  BY SitesAssumption DEF Init, Monitor, Busy
<1>3. Recorded /\ Behind /\ Ordered
  BY DEF Init, Recorded, Behind, Ordered
<1> QED BY <1>1, <1>2, <1>3 DEF IInv

LEMMA Stutter == IInv /\ UNCHANGED vars => IInv'
BY DEF IInv, TypeOK, Monitor, Busy, Recorded, Behind, Ordered, Current, BehindFields, Spinning, vars,
       SameObject, Before

(* The clock and the count of its set-backs are in no part of the          *)
(* invariant but the types.                                                *)
LEMMA ClockStep ==
  ASSUME IInv, NEW g \in Sites, Tick(g) \/ SetBack(g)
  PROVE  IInv'
<1>1. TypeOK'
  <2>1. CASE Tick(g)
    BY <2>1, BitsAssumption DEF IInv, TypeOK, Tick
  <2>2. CASE SetBack(g)
    <3>1. PICK c \in 0..(clock[g] - 1) : clock' = [clock EXCEPT ![g] = c]
      BY <2>2 DEF SetBack
    <3>2. clock' \in [Sites -> 0..MaxClock]
      BY <3>1, BitsAssumption DEF IInv, TypeOK
    <3>3. setBacks' \in [Sites -> 0..MaxSetBacks]
      BY <2>2, BoundsAssumption DEF IInv, TypeOK, SetBack
    <3> QED BY <2>2, <3>2, <3>3 DEF IInv, TypeOK, SetBack
  <2> QED BY <2>1, <2>2
<1>2. UNCHANGED <<incarnation, lastStmp, sequence, owner, pc, currStmp, issued>>
  BY DEF Tick, SetBack
<1>3. Monitor' /\ Recorded' /\ Ordered'
  BY <1>2 DEF IInv, Monitor, Busy, Recorded, Ordered, SameObject, Before
<1>4. Behind'
  BY <1>2 DEF IInv, Behind, Current, BehindFields, Spinning, Busy
<1> QED BY <1>1, <1>3, <1>4 DEF IInv

(* A new object has no results yet, and its fields forget those of the old *)
(* one.                                                                    *)
LEMMA ConstructStep ==
  ASSUME IInv, NEW g \in Sites, Construct(g)
  PROVE  IInv'
<1>0. /\ incarnation' = [incarnation EXCEPT ![g] = @ + 1] /\ lastStmp' = [lastStmp EXCEPT ![g] = -1]
      /\ sequence' = [sequence EXCEPT ![g] = 0] /\ owner' = [owner EXCEPT ![g] = NoThread]
      /\ pc' = [t \in Threads |-> IF SiteOf[t] = g THEN "idle" ELSE pc[t]]
      /\ UNCHANGED <<clock, setBacks, currStmp, issued>> /\ incarnation[g] < MaxRestarts /\ TypeOK
  BY DEF Construct, IInv
<1>1. TypeOK'
  BY <1>0, BitsAssumption, BoundsAssumption DEF TypeOK
<1>2. Monitor'
  BY <1>0, SitesAssumption, BoundsAssumption DEF IInv, Monitor, Busy, TypeOK
<1>3. \A i \in DOMAIN issued : issued[i] \in Result
  BY <1>0 DEF TypeOK
<1>4. Recorded'
  <2> SUFFICES ASSUME NEW i \in DOMAIN issued PROVE issued[i].incarnation \in 1..incarnation'[issued[i].site]
    BY <1>0 DEF IInv, Recorded
  <2>1. issued[i].incarnation \in 1..incarnation[issued[i].site] /\ issued[i].site \in Sites
    BY <1>3 DEF IInv, Recorded, Result
  <2> QED BY <2>1, <1>0, BoundsAssumption DEF TypeOK
<1>5. Ordered'
  BY <1>0 DEF IInv, Ordered, SameObject, Before
<1>6. Behind'
  <2> SUFFICES ASSUME NEW i \in DOMAIN issued, issued[i].incarnation = incarnation'[issued[i].site]
               PROVE  \/ issued[i].stmp < lastStmp'[issued[i].site]
                      \/ /\ issued[i].stmp = lastStmp'[issued[i].site]
                         /\ issued[i].sequence <= sequence'[issued[i].site]
                      \/ /\ issued[i].stmp = lastStmp'[issued[i].site]
                         /\ owner'[issued[i].site] # NoThread
                         /\ pc'[owner'[issued[i].site]] = "spin"
    BY <1>0 DEF Behind, Current, BehindFields, Spinning, Busy
  <2> DEFINE h == issued[i].site
  <2>1. h \in Sites /\ issued[i].incarnation <= incarnation[h] /\ incarnation[g] \in Nat
    BY <1>0, <1>3, BoundsAssumption DEF Result, IInv, Recorded, TypeOK
  <2>2. h # g
    BY <1>0, <2>1 DEF TypeOK
  <2>3. BehindFields(issued[i])
    BY <1>0, <2>1, <2>2 DEF IInv, Behind, Current, TypeOK
  <2>4. lastStmp'[h] = lastStmp[h] /\ sequence'[h] = sequence[h] /\ owner'[h] = owner[h]
    BY <1>0, <2>1, <2>2 DEF TypeOK
  <2>5. ASSUME owner[h] # NoThread, pc[owner[h]] = "spin"
        PROVE  pc'[owner[h]] = "spin"
    <3>1. owner[h] \in Threads /\ SiteOf[owner[h]] = h
      BY <2>1, <2>5, <1>0 DEF Busy, IInv, Monitor, TypeOK
    <3> QED BY <3>1, <2>2, <2>5, <1>0 DEF TypeOK
  <2> QED BY <2>3, <2>4, <2>5 DEF BehindFields, Spinning, Busy
<1> QED BY <1>1, <1>2, <1>4, <1>5, <1>6 DEF IInv

LEMMA EnterStep ==
  ASSUME IInv, NEW t \in Threads, Enter(t)
  PROVE  IInv'
<1> DEFINE g == SiteOf[t]
<1>0. /\ owner[g] = NoThread /\ incarnation[g] > 0 /\ g \in Sites /\ pc[t] = "idle"
      /\ owner' = [owner EXCEPT ![g] = t] /\ pc' = [pc EXCEPT ![t] = "read"]
      /\ currStmp' = [currStmp EXCEPT ![t] = clock[g]]
      /\ UNCHANGED <<clock, setBacks, incarnation, lastStmp, sequence, issued>> /\ TypeOK
  BY SitesAssumption DEF Enter, IInv
<1>1. TypeOK'
  BY <1>0 DEF TypeOK
<1>2. Monitor'
  BY <1>0, SitesAssumption DEF IInv, Monitor, Busy, TypeOK
<1>3. Recorded' /\ Ordered'
  BY <1>0 DEF IInv, Recorded, Ordered, SameObject, Before
<1>4. UNCHANGED <<incarnation, lastStmp, sequence, issued>>
  BY <1>0
<1>5. Behind'
  <2> SUFFICES ASSUME NEW i \in DOMAIN issued, issued[i].incarnation = incarnation[issued[i].site]
               PROVE  \/ issued[i].stmp < lastStmp[issued[i].site]
                      \/ /\ issued[i].stmp = lastStmp[issued[i].site]
                         /\ issued[i].sequence <= sequence[issued[i].site]
                      \/ /\ issued[i].stmp = lastStmp[issued[i].site]
                         /\ owner'[issued[i].site] # NoThread
                         /\ pc'[owner'[issued[i].site]] = "spin"
    BY <1>4 DEF Behind, Current, BehindFields, Spinning, Busy
  <2> DEFINE h == issued[i].site
  <2>1. h \in Sites /\ BehindFields(issued[i])
    <3>1. issued[i] \in Result
      BY <1>0 DEF TypeOK
    <3>2. BehindFields(issued[i])
      BY DEF IInv, Behind, Current
    <3> QED BY <3>1, <3>2 DEF Result
  <2>2. ASSUME owner[h] # NoThread, pc[owner[h]] = "spin"
        PROVE  owner'[h] = owner[h] /\ pc'[owner[h]] = "spin"
    BY <2>1, <2>2, <1>0 DEF TypeOK
  <2> QED BY <2>1, <2>2 DEF BehindFields, Spinning, Busy
<1> QED BY <1>1, <1>2, <1>3, <1>5 DEF IInv

(* A refusal happens before any field changes, and not in the spin. *)
LEMMA RefuseStep ==
  ASSUME IInv, NEW t \in Threads, Refuse(t)
  PROVE  IInv'
<1> DEFINE g == SiteOf[t]
<1>0. /\ owner[g] = t /\ g \in Sites /\ pc[t] = "read"
      /\ owner' = [owner EXCEPT ![g] = NoThread] /\ pc' = [pc EXCEPT ![t] = "idle"]
      /\ UNCHANGED <<clock, setBacks, incarnation, lastStmp, sequence, currStmp, issued>> /\ TypeOK
  BY SitesAssumption DEF Refuse, Release, IInv, Monitor
<1>1. TypeOK'
  BY <1>0 DEF TypeOK
<1>2. Monitor'
  BY <1>0, SitesAssumption DEF IInv, Monitor, Busy, TypeOK
<1>3. Recorded' /\ Ordered'
  BY <1>0 DEF IInv, Recorded, Ordered, SameObject, Before
<1>4. UNCHANGED <<incarnation, lastStmp, sequence, issued>>
  BY <1>0
<1>5. Behind'
  <2> SUFFICES ASSUME NEW i \in DOMAIN issued, issued[i].incarnation = incarnation[issued[i].site]
               PROVE  \/ issued[i].stmp < lastStmp[issued[i].site]
                      \/ /\ issued[i].stmp = lastStmp[issued[i].site]
                         /\ issued[i].sequence <= sequence[issued[i].site]
                      \/ /\ issued[i].stmp = lastStmp[issued[i].site]
                         /\ owner'[issued[i].site] # NoThread
                         /\ pc'[owner'[issued[i].site]] = "spin"
    BY <1>4 DEF Behind, Current, BehindFields, Spinning, Busy
  <2> DEFINE h == issued[i].site
  <2>1. h \in Sites /\ BehindFields(issued[i])
    <3>1. issued[i] \in Result
      BY <1>0 DEF TypeOK
    <3>2. BehindFields(issued[i])
      BY DEF IInv, Behind, Current
    <3> QED BY <3>1, <3>2 DEF Result
  <2>2. ASSUME owner[h] # NoThread, pc[owner[h]] = "spin"
        PROVE  owner'[h] = owner[h] /\ pc'[owner[h]] = "spin"
    <3>1. owner[h] \in Threads /\ SiteOf[owner[h]] = h /\ h # g
      BY <2>1, <2>2, <1>0 DEF Busy, IInv, Monitor, TypeOK
    <3> QED BY <2>1, <2>2, <3>1, <1>0 DEF TypeOK
  <2> QED BY <2>1, <2>2 DEF BehindFields, Spinning, Busy
<1> QED BY <1>1, <1>2, <1>3, <1>5 DEF IInv

(* The wrap to 0 puts sequence behind the results of the millisecond; the  *)
(* spin that starts in the same step says so.                              *)
LEMMA ExhaustedStep ==
  ASSUME IInv, NEW t \in Threads, Exhausted(t)
  PROVE  IInv'
<1> DEFINE g == SiteOf[t]
<1>0. /\ owner[g] = t /\ g \in Sites /\ pc[t] = "read" /\ t # NoThread
      /\ sequence' = [sequence EXCEPT ![g] = 0] /\ pc' = [pc EXCEPT ![t] = "spin"]
      /\ UNCHANGED <<clock, setBacks, incarnation, lastStmp, owner, currStmp, issued>> /\ TypeOK
  BY SitesAssumption DEF Exhausted, IInv, Monitor
<1>1. TypeOK'
  BY <1>0, BitsAssumption DEF TypeOK
<1>2. Monitor'
  BY <1>0, SitesAssumption DEF IInv, Monitor, Busy, TypeOK
<1>3. Recorded' /\ Ordered'
  BY <1>0 DEF IInv, Recorded, Ordered, SameObject, Before
<1>4. UNCHANGED <<incarnation, lastStmp, owner, issued>>
  BY <1>0
<1>5. Behind'
  <2> SUFFICES ASSUME NEW i \in DOMAIN issued, issued[i].incarnation = incarnation[issued[i].site]
               PROVE  \/ issued[i].stmp < lastStmp[issued[i].site]
                      \/ /\ issued[i].stmp = lastStmp[issued[i].site]
                         /\ issued[i].sequence <= sequence'[issued[i].site]
                      \/ /\ issued[i].stmp = lastStmp[issued[i].site]
                         /\ owner[issued[i].site] # NoThread
                         /\ pc'[owner[issued[i].site]] = "spin"
    BY <1>4 DEF Behind, Current, BehindFields, Spinning, Busy
  <2> DEFINE h == issued[i].site
  <2>1. h \in Sites /\ BehindFields(issued[i])
    <3>1. issued[i] \in Result
      BY <1>0 DEF TypeOK
    <3>2. BehindFields(issued[i])
      BY DEF IInv, Behind, Current
    <3> QED BY <3>1, <3>2 DEF Result
  <2>2. CASE h = g
    <3>1. owner[h] # NoThread /\ pc'[owner[h]] = "spin"
      BY <2>2, <1>0 DEF TypeOK
    <3> QED BY <2>1, <3>1 DEF BehindFields
  <2>3. CASE h # g
    <3>1. sequence'[h] = sequence[h]
      BY <2>1, <2>3, <1>0 DEF TypeOK
    <3>2. ASSUME owner[h] # NoThread, pc[owner[h]] = "spin"
          PROVE  pc'[owner[h]] = "spin"
      BY <2>1, <3>2, <1>0 DEF TypeOK
    <3> QED BY <2>1, <3>1, <3>2 DEF BehindFields, Spinning, Busy
  <2> QED BY <2>2, <2>3
<1> QED BY <1>1, <1>2, <1>3, <1>5 DEF IInv

(* The three ways to return: in each the pair that goes out is after every *)
(* result of the object.                                                   *)
LEMMA NewMillisecondStep ==
  ASSUME IInv, NEW t \in Threads, NewMillisecond(t)
  PROVE  IInv'
<1> DEFINE g == SiteOf[t]
<1>1. /\ g \in Sites /\ currStmp[t] \in 0..MaxClock /\ lastStmp[g] \in -1..MaxClock
      /\ currStmp[t] > lastStmp[g] /\ pc[t] # "idle" /\ Return(t, currStmp[t], 0)
      /\ currStmp' \in [Threads -> 0..MaxClock]
  BY SitesAssumption DEF NewMillisecond, IInv, TypeOK
<1>2. ASSUME NEW i \in DOMAIN issued, issued[i].site = g, issued[i].incarnation = incarnation[g]
      PROVE  Before(issued[i], [stmp |-> currStmp[t], sequence |-> 0])
  <2>1. BehindFields(issued[i]) /\ issued[i].stmp \in 0..MaxClock
    BY <1>2 DEF IInv, Behind, Current, Recorded
  <2>2. issued[i].stmp <= lastStmp[g]
    BY <2>1, <1>1, <1>2, BitsAssumption DEF BehindFields
  <2> QED BY <2>1, <2>2, <1>1, BitsAssumption DEF Before
<1>3. 0 \in 0..MAX_SEQUENCE
  BY BitsAssumption
<1> QED BY <1>1, <1>2, <1>3, ReturnStep

LEMMA NextInMillisecondStep ==
  ASSUME IInv, NEW t \in Threads, NextInMillisecond(t)
  PROVE  IInv'
<1> DEFINE g == SiteOf[t]
           seq == (sequence[g] + 1) % (MAX_SEQUENCE + 1)
<1>1. /\ g \in Sites /\ currStmp[t] \in 0..MaxClock /\ sequence[g] \in 0..MAX_SEQUENCE
      /\ currStmp[t] = lastStmp[g] /\ pc[t] = "read" /\ seq # 0 /\ Return(t, currStmp[t], seq)
      /\ currStmp' \in [Threads -> 0..MaxClock]
  BY SitesAssumption DEF NextInMillisecond, IInv, TypeOK
<1>2. seq = sequence[g] + 1 /\ seq \in 0..MAX_SEQUENCE
  <2>1. seq = IF sequence[g] = MAX_SEQUENCE THEN 0 ELSE sequence[g] + 1
    BY <1>1, SequenceStep
  <2> HIDE DEF seq
  <2> QED BY <1>1, <2>1, BitsAssumption
<1>3. ~ Spinning(g)
  BY <1>1 DEF Spinning, IInv, Monitor
<1>4. ASSUME NEW i \in DOMAIN issued, issued[i].site = g, issued[i].incarnation = incarnation[g]
      PROVE  Before(issued[i], [stmp |-> currStmp[t], sequence |-> seq])
  <2>1. /\ BehindFields(issued[i]) /\ issued[i].stmp \in 0..MaxClock
        /\ issued[i].sequence \in 0..MAX_SEQUENCE
    BY <1>4 DEF IInv, Behind, Current, Recorded
  <2>2. issued[i].stmp < lastStmp[g] \/ (issued[i].stmp = lastStmp[g] /\ issued[i].sequence <= sequence[g])
    BY <2>1, <1>3, <1>4 DEF BehindFields
  <2>3. issued[i].sequence <= sequence[g] => issued[i].sequence < seq
    <3> HIDE DEF seq
    <3> QED BY <2>1, <1>1, <1>2, BitsAssumption
  <2> HIDE DEF seq
  <2> QED BY <2>2, <2>3, <1>1 DEF Before
<1> HIDE DEF seq
<1> QED BY <1>1, <1>2, <1>4, ReturnStep

LEMMA SpinReturnStep ==
  ASSUME IInv, NEW t \in Threads, SpinReturn(t)
  PROVE  IInv'
<1> DEFINE g == SiteOf[t]
<1>1. /\ g \in Sites /\ clock[g] \in 0..MaxClock /\ lastStmp[g] \in -1..MaxClock
      /\ sequence[g] \in 0..MAX_SEQUENCE
      /\ clock[g] > lastStmp[g] /\ pc[t] # "idle" /\ Return(t, clock[g], sequence[g])
      /\ currStmp' \in [Threads -> 0..MaxClock]
  BY SitesAssumption DEF SpinReturn, IInv, TypeOK
<1>2. ASSUME NEW i \in DOMAIN issued, issued[i].site = g, issued[i].incarnation = incarnation[g]
      PROVE  Before(issued[i], [stmp |-> clock[g], sequence |-> sequence[g]])
  <2>1. BehindFields(issued[i]) /\ issued[i].stmp \in 0..MaxClock
    BY <1>2 DEF IInv, Behind, Current, Recorded
  <2>2. issued[i].stmp <= lastStmp[g]
    BY <2>1, <1>1, <1>2, BitsAssumption DEF BehindFields
  <2> QED BY <2>1, <2>2, <1>1, BitsAssumption DEF Before
<1> QED BY <1>1, <1>2, ReturnStep

(* The inductive invariant holds of every reachable state. *)
LEMMA Inductive == Spec => []IInv
<1>1. IInv /\ [Next]_vars => IInv'
  <2> SUFFICES ASSUME IInv, [Next]_vars PROVE IInv'
    OBVIOUS
  <2>1. ASSUME NEW g \in Sites, Tick(g) \/ SetBack(g) PROVE IInv'
    BY <2>1, ClockStep
  <2>2. ASSUME NEW g \in Sites, Construct(g) PROVE IInv'
    BY <2>2, ConstructStep
  <2>3. ASSUME NEW t \in Threads, Enter(t) PROVE IInv'
    BY <2>3, EnterStep
  <2>4. ASSUME NEW t \in Threads, Refuse(t) PROVE IInv'
    BY <2>4, RefuseStep
  <2>5. ASSUME NEW t \in Threads, Exhausted(t) PROVE IInv'
    BY <2>5, ExhaustedStep
  <2>6. ASSUME NEW t \in Threads, NewMillisecond(t) PROVE IInv'
    BY <2>6, NewMillisecondStep
  <2>7. ASSUME NEW t \in Threads, NextInMillisecond(t) PROVE IInv'
    BY <2>7, NextInMillisecondStep
  <2>8. ASSUME NEW t \in Threads, SpinReturn(t) PROVE IInv'
    BY <2>8, SpinReturnStep
  <2>9. CASE UNCHANGED vars
    BY <2>9, Stutter
  <2> QED BY <2>1, <2>2, <2>3, <2>4, <2>5, <2>6, <2>7, <2>8, <2>9 DEF Next, Inside
<1> QED BY <1>1, Initially, PTL DEF Spec

(* TypeOK: fields and results stay in range for any number of sites,       *)
(* threads, restarts and set-backs.                                        *)
THEOREM TypeCorrect == Spec => []TypeOK
<1>1. IInv => TypeOK
  BY DEF IInv
<1> QED BY <1>1, Inductive, PTL

(* The time field tells all milliseconds of the clocks apart, also those   *)
(* before START_STMP.                                                      *)
LEMMA TimeFieldOf ==
  ASSUME NEW x \in Int, -TIME_RANGE <= x, x < TIME_RANGE
  PROVE  TimeField(x) = IF x < 0 THEN x + TIME_RANGE ELSE x
<1>1. CASE x < 0
  BY <1>1, BitsAssumption DEF TimeField
<1>2. CASE ~(x < 0)
  BY <1>2, BitsAssumption DEF TimeField
<1> QED BY <1>1, <1>2

LEMMA TimeFieldInjective ==
  ASSUME NEW a \in 0..MaxClock, NEW b \in 0..MaxClock,
         TimeField(a - START_STMP) = TimeField(b - START_STMP)
  PROVE  a = b
<1> DEFINE x == a - START_STMP
           y == b - START_STMP
<1>1. /\ x \in Int /\ -TIME_RANGE <= x /\ x < TIME_RANGE
      /\ y \in Int /\ -TIME_RANGE <= y /\ y < TIME_RANGE
      /\ x - y < TIME_RANGE /\ y - x < TIME_RANGE
  BY BitsAssumption
<1>2. /\ TimeField(x) = IF x < 0 THEN x + TIME_RANGE ELSE x
      /\ TimeField(y) = IF y < 0 THEN y + TIME_RANGE ELSE y
  BY <1>1, TimeFieldOf
<1>3. x = y
  <2> HIDE DEF x, y
  <2>1. TimeField(x) = TimeField(y)
    BY DEF x, y
  <2> QED BY <1>1, <1>2, <2>1, BitsAssumption
<1> QED BY <1>3, BitsAssumption

LEMMA Uniqueness == IInv => UniqueIds
<1> SUFFICES ASSUME IInv, NEW i \in DOMAIN issued, NEW j \in DOMAIN issued,
                    i # j, Id(issued[i]) = Id(issued[j])
             PROVE  /\ issued[i].site = issued[j].site
                    /\ issued[i].incarnation # issued[j].incarnation
  BY DEF UniqueIds
<1>1. /\ issued[i] \in Result /\ issued[j] \in Result /\ i \in Int /\ j \in Int
      /\ issued[i].stmp \in 0..MaxClock /\ issued[j].stmp \in 0..MaxClock
  BY DEF IInv, TypeOK, Recorded
<1>2. /\ TimeField(issued[i].stmp - START_STMP) = TimeField(issued[j].stmp - START_STMP)
      /\ datacenterId[issued[i].site] = datacenterId[issued[j].site]
      /\ machineId[issued[i].site] = machineId[issued[j].site]
      /\ issued[i].sequence = issued[j].sequence
  BY DEF Id
<1>3. issued[i].site = issued[j].site
  BY <1>1, <1>2, DistinctSites DEF Result
<1>4. issued[i].stmp = issued[j].stmp
  BY <1>1, <1>2, TimeFieldInjective
<1>5. ~ Before(issued[i], issued[j]) /\ ~ Before(issued[j], issued[i])
  BY <1>1, <1>2, <1>4 DEF Before, Result
<1>6. i < j \/ j < i
  BY <1>1
<1> QED BY <1>3, <1>5, <1>6 DEF IInv, Ordered, SameObject

(* UniqueIds: no word is returned twice, except by the objects before and  *)
(* after a restart of one site.                                            *)
THEOREM NoDuplicates == Spec => []UniqueIds
BY Inductive, Uniqueness, PTL

LEMMA SignedTimeOf ==
  ASSUME NEW r, r.stmp \in 0..MaxClock, FitsSigned(r)
  PROVE  SignedTime(r) = r.stmp - START_STMP
<1> DEFINE x == r.stmp - START_STMP
<1>1. x \in Int /\ -TIME_RANGE <= 2 * x /\ 2 * x < TIME_RANGE /\ TIME_RANGE \in Nat
  BY BitsAssumption DEF FitsSigned
<1> HIDE DEF x
<1>2. -TIME_RANGE <= x /\ x < TIME_RANGE
  BY <1>1
<1>3. TimeField(x) = IF x < 0 THEN x + TIME_RANGE ELSE x
  BY <1>1, <1>2, TimeFieldOf
<1>4. SignedTime(r) = IF 2 * TimeField(x) < TIME_RANGE THEN TimeField(x) ELSE TimeField(x) - TIME_RANGE
  BY DEF SignedTime, x
<1>5. SignedTime(r) = x
  BY <1>1, <1>3, <1>4
<1> QED BY <1>5 DEF x

LEMMA Increasing == IInv => IdsIncrease
<1> SUFFICES ASSUME IInv, NEW i \in DOMAIN issued, NEW j \in DOMAIN issued,
                    i < j, SameObject(issued[i], issued[j]),
                    FitsSigned(issued[i]), FitsSigned(issued[j])
             PROVE  \/ SignedTime(issued[i]) < SignedTime(issued[j])
                    \/ /\ SignedTime(issued[i]) = SignedTime(issued[j])
                       /\ issued[i].sequence < issued[j].sequence
  BY DEF IdsIncrease
<1>1. /\ issued[i].stmp \in 0..MaxClock /\ issued[j].stmp \in 0..MaxClock
      /\ Before(issued[i], issued[j])
  BY DEF IInv, Recorded, Ordered
<1>2. /\ SignedTime(issued[i]) = issued[i].stmp - START_STMP
      /\ SignedTime(issued[j]) = issued[j].stmp - START_STMP
  BY <1>1, SignedTimeOf
<1> QED BY <1>1, <1>2, BitsAssumption DEF Before

(* IdsIncrease: the words of one object grow as longs while the time fits  *)
(* its 41 bits.                                                            *)
THEOREM Monotonic == Spec => []IdsIncrease
BY Inductive, Increasing, PTL

-------------------------------------------------------------------------------
(* The refinement of IdIssuer: what the issuer knows of a state.           *)
Numbered(g) == [stmp |-> lastStmp[g], sequence |-> IF Wrapped(g) THEN MAX_SEQUENCE ELSE sequence[g]]

AllNumbered == [g \in Sites |-> Numbered(g)]

Readings == [t \in Threads |-> IF pc[t] = "idle" THEN -1 ELSE currStmp[t]]

(* While a thread spins the sequence stays where it wrapped to. *)
SpinsAtZero == \A t \in Threads : pc[t] = "spin" => sequence[SiteOf[t]] = 0

LEMMA SpinsAtZeroStep ==
  ASSUME IInv, SpinsAtZero, [Next]_vars
  PROVE  SpinsAtZero'
<1> USE DEF SpinsAtZero
<1>0. /\ TypeOK /\ \A t \in Threads : pc[t] # "idle" => owner[SiteOf[t]] = t
      /\ \A t \in Threads : SiteOf[t] \in Sites
  BY SitesAssumption DEF IInv, Monitor
<1>1. CASE UNCHANGED <<sequence, pc>>
  BY <1>1
<1>2. ASSUME NEW g \in Sites, Construct(g) PROVE SpinsAtZero'
  BY <1>0, <1>2 DEF Construct, TypeOK
<1>3. ASSUME NEW t \in Threads, Enter(t) \/ Refuse(t) PROVE SpinsAtZero'
  BY <1>0, <1>3 DEF Enter, Refuse, Release, TypeOK
<1>4. ASSUME NEW t \in Threads, Exhausted(t) PROVE SpinsAtZero'
  BY <1>0, <1>4 DEF Exhausted, TypeOK
<1>5. ASSUME NEW t \in Threads, pc[t] # "idle", NEW stmp, NEW seq, Return(t, stmp, seq)
      PROVE  SpinsAtZero'
  <2> SUFFICES ASSUME NEW u \in Threads, pc'[u] = "spin" PROVE sequence'[SiteOf[u]] = 0
    OBVIOUS
  <2>1. /\ u # t /\ pc[u] = "spin"
    BY <1>0, <1>5 DEF Return, Release, TypeOK
  <2>2. SiteOf[u] # SiteOf[t]
    BY <1>0, <1>5, <2>1
  <2>3. sequence'[SiteOf[u]] = sequence[SiteOf[u]]
    BY <1>0, <1>5, <2>2 DEF Return, TypeOK
  <2> QED BY <2>1, <2>3
<1> QED BY <1>1, <1>2, <1>3, <1>4, <1>5 DEF Next, vars, Tick, SetBack, Inside, NewMillisecond,
                                            NextInMillisecond, SpinReturn

LEMMA SpinsAtZeroInvariant == Spec => []SpinsAtZero
<1>1. Init => SpinsAtZero
  BY DEF Init, SpinsAtZero
<1> QED BY <1>1, SpinsAtZeroStep, Inductive, PTL DEF Spec

(* The spinning thread of a site is the one that has its monitor. *)
LEMMA WrappedAt ==
  ASSUME IInv, NEW t \in Threads, pc[t] # "idle"
  PROVE  Wrapped(SiteOf[t]) <=> pc[t] = "spin"
BY DEF Wrapped, IInv, Monitor

LEMMA WrappedElsewhere ==
  ASSUME TypeOK, NEW t \in Threads, NEW x, pc' = [pc EXCEPT ![t] = x], NEW h \in Sites, h # SiteOf[t]
  PROVE  Wrapped(h)' <=> Wrapped(h)
BY DEF Wrapped, TypeOK

(* A return is a Take of the issuer. *)
LEMMA ReturnIsTake ==
  ASSUME IInv, NEW t \in Threads, pc[t] # "idle",
         NEW stmp \in {currStmp[t], clock[SiteOf[t]]}, NEW seq \in 0..MAX_SEQUENCE,
         Return(t, stmp, seq), currStmp' = currStmp \/ currStmp' = [currStmp EXCEPT ![t] = stmp],
         Issuer!Follows([stmp |-> stmp, sequence |-> seq], Numbered(SiteOf[t]))
  PROVE  Issuer!Next
<1> DEFINE g == SiteOf[t]
           r == [stmp |-> stmp, sequence |-> seq]
<1>0. /\ TypeOK /\ g \in Sites /\ owner[g] = t /\ currStmp[t] \in 0..MaxClock
      /\ lastStmp' = [lastStmp EXCEPT ![g] = stmp] /\ sequence' = [sequence EXCEPT ![g] = seq]
      /\ pc' = [pc EXCEPT ![t] = "idle"] /\ UNCHANGED <<clock, setBacks, incarnation>>
  BY SitesAssumption DEF IInv, Monitor, TypeOK, Return, Release
<1>1. Readings[t] = currStmp[t] /\ Readings[t] # -1
  BY <1>0, BitsAssumption DEF Readings
<1>2. Readings' = [Readings EXCEPT ![t] = -1]
  BY <1>0 DEF Readings, TypeOK
<1>3. Numbered(g)' = r
  <2>1. ~ Wrapped(g)'
    <3>1. ASSUME NEW u \in Threads, SiteOf[u] = g, pc'[u] = "spin" PROVE FALSE
      BY <3>1, <1>0 DEF IInv, Monitor, TypeOK
    <3> QED BY <3>1 DEF Wrapped
  <2> QED BY <2>1, <1>0 DEF Numbered, TypeOK
<1>4. ASSUME NEW h \in Sites, h # g PROVE Numbered(h)' = Numbered(h)
  BY <1>4, <1>0, WrappedElsewhere DEF Numbered, TypeOK
<1>5. AllNumbered' = [AllNumbered EXCEPT ![g] = r]
  BY <1>0, <1>3, <1>4 DEF AllNumbered
<1>6. AllNumbered[g] = Numbered(g)
  BY <1>0 DEF AllNumbered
<1>7. issued' = Append(issued, [site |-> g, incarnation |-> incarnation[g],
                               stmp |-> r.stmp, sequence |-> r.sequence])
  BY DEF Return
<1>8. Issuer!Take(t, r)
  <2>1. r.stmp \in {Readings[t], clock[g]} /\ Issuer!Follows(r, AllNumbered[g])
    BY <1>1, <1>6
  <2>2. AllNumbered' = [AllNumbered EXCEPT ![g] = [stmp |-> r.stmp, sequence |-> r.sequence]]
    BY <1>5
  <2> HIDE DEF r
  <2> QED BY <1>0, <1>1, <1>2, <1>7, <2>1, <2>2 DEF Issuer!Take, Issuer!Outside, AllNumbered, Numbered, Readings
<1>9. stmp \in {Readings[t], clock[g]}
  BY <1>1
<1>10. \E s \in {Readings[t], clock[g]}, q \in 0..MAX_SEQUENCE : Issuer!Take(t, [stmp |-> s, sequence |-> q])
  BY <1>8, <1>9, Zenon
<1> QED BY <1>10, Zenon DEF Issuer!Next, Readings

(* Each step is a step of the issuer, or none of its business. *)
LEMMA RefinementStep ==
  ASSUME IInv, SpinsAtZero, [Next]_vars
  PROVE  [Issuer!Next]_(Issuer!issuerVars)
<1> USE DEF Issuer!issuerVars
<1>0. TypeOK /\ \A t \in Threads : SiteOf[t] \in Sites
  BY SitesAssumption DEF IInv
<1>1. ASSUME NEW g \in Sites, Tick(g) \/ SetBack(g) PROVE Issuer!Next
  <2>1. clock' \in [Sites -> Nat]
    <3>1. CASE Tick(g)
      BY <3>1, <1>0, BitsAssumption DEF Tick, TypeOK
    <3>2. CASE SetBack(g)
      <4>1. PICK c \in 0..(clock[g] - 1) : clock' = [clock EXCEPT ![g] = c]
        BY <3>2 DEF SetBack
      <4> QED BY <4>1, <1>0, BitsAssumption DEF TypeOK
    <3> QED BY <1>1, <3>1, <3>2
  <2>2. UNCHANGED <<incarnation, lastStmp, sequence, pc, currStmp, issued>>
    BY <1>1 DEF Tick, SetBack
  <2>3. AllNumbered' = AllNumbered /\ Readings' = Readings
    BY <2>2 DEF AllNumbered, Numbered, Readings, Wrapped
  <2>4. Issuer!TimePasses
    BY <2>1, <2>2, <2>3 DEF Issuer!TimePasses, AllNumbered, Numbered, Readings
  <2> QED BY <2>4 DEF Issuer!Next
<1>2. ASSUME NEW g \in Sites, Construct(g) PROVE Issuer!Next
  <2>0. /\ incarnation' = [incarnation EXCEPT ![g] = @ + 1] /\ lastStmp' = [lastStmp EXCEPT ![g] = -1]
        /\ sequence' = [sequence EXCEPT ![g] = 0] /\ UNCHANGED <<clock, currStmp, issued>>
        /\ pc' = [t \in Threads |-> IF SiteOf[t] = g THEN "idle" ELSE pc[t]]
    BY <1>2 DEF Construct
  <2>1. Numbered(g)' = Issuer!Nothing
    <3>1. ~ Wrapped(g)'
      BY <2>0 DEF Wrapped
    <3> QED BY <1>0, <2>0, <3>1 DEF Numbered, Issuer!Nothing, TypeOK
  <2>2. ASSUME NEW h \in Sites, h # g PROVE Numbered(h)' = Numbered(h)
    <3>1. Wrapped(h)' <=> Wrapped(h)
      BY <2>0, <2>2 DEF Wrapped
    <3> QED BY <3>1, <1>0, <2>0, <2>2 DEF Numbered, TypeOK
  <2>3. AllNumbered' = [AllNumbered EXCEPT ![g] = Issuer!Nothing]
    BY <2>1, <2>2 DEF AllNumbered
  <2>4. Readings' = [t \in Threads |-> IF SiteOf[t] = g THEN -1 ELSE Readings[t]]
    BY <2>0 DEF Readings
  <2>5. Issuer!Renew(g)
    BY <2>0, <2>3, <2>4 DEF Issuer!Renew, Issuer!Outside, AllNumbered, Numbered, Readings
  <2> QED BY <2>5 DEF Issuer!Next
<1>3. ASSUME NEW t \in Threads, Enter(t) PROVE Issuer!Next
  <2>0. /\ pc[t] = "idle" /\ pc' = [pc EXCEPT ![t] = "read"] /\ owner[SiteOf[t]] = NoThread
        /\ currStmp' = [currStmp EXCEPT ![t] = clock[SiteOf[t]]]
        /\ UNCHANGED <<clock, incarnation, lastStmp, sequence, issued>>
    BY <1>3 DEF Enter
  <2>1. ASSUME NEW h \in Sites PROVE Wrapped(h)' <=> Wrapped(h)
    BY <2>0, <1>0 DEF Wrapped, TypeOK
  <2>2. AllNumbered' = AllNumbered
    BY <2>0, <2>1 DEF AllNumbered, Numbered
  <2>3. Readings[t] = -1 /\ Readings' = [Readings EXCEPT ![t] = clock[SiteOf[t]]]
    BY <1>0, <2>0 DEF Readings, TypeOK
  <2>4. Issuer!Begin(t)
    BY <2>0, <2>2, <2>3 DEF Issuer!Begin, Issuer!Outside, AllNumbered, Numbered, Readings
  <2> QED BY <2>4 DEF Issuer!Next
<1>4. ASSUME NEW t \in Threads, Refuse(t) PROVE Issuer!Next
  <2>0. /\ pc[t] = "read" /\ pc' = [pc EXCEPT ![t] = "idle"] /\ currStmp[t] < lastStmp[SiteOf[t]]
        /\ UNCHANGED <<clock, incarnation, lastStmp, sequence, issued, currStmp>>
    BY <1>4 DEF Refuse, Release
  <2>1. ASSUME NEW h \in Sites PROVE Wrapped(h)' <=> Wrapped(h)
    BY <2>0, <1>0 DEF Wrapped, TypeOK
  <2>2. AllNumbered' = AllNumbered
    BY <2>0, <2>1 DEF AllNumbered, Numbered
  <2>3. Readings' = [Readings EXCEPT ![t] = -1]
    BY <1>0, <2>0 DEF Readings, TypeOK
  <2>6. Readings[t] = currStmp[t] /\ currStmp[t] # -1
    <3>1. currStmp[t] \in 0..MaxClock
      BY <1>0 DEF TypeOK
    <3>2. currStmp[t] # -1
      BY <3>1, BitsAssumption
    <3> QED BY <2>0, <3>2 DEF Readings
  <2>4. Readings[t] < AllNumbered[SiteOf[t]].stmp
    BY <1>0, <2>0, <2>6 DEF AllNumbered, Numbered
  <2>5. Issuer!Decline(t)
    BY <2>0, <2>2, <2>3, <2>4, <2>6 DEF Issuer!Decline, Issuer!Outside, AllNumbered, Numbered, Readings
  <2> QED BY <2>5 DEF Issuer!Next
<1>5. ASSUME NEW t \in Threads, NewMillisecond(t) PROVE Issuer!Next
  <2>1. Issuer!Follows([stmp |-> currStmp[t], sequence |-> 0], Numbered(SiteOf[t]))
    BY <1>5 DEF NewMillisecond, Issuer!Follows, Numbered
  <2> QED BY <1>5, <2>1, ReturnIsTake, BitsAssumption DEF NewMillisecond
<1>6. ASSUME NEW t \in Threads, NextInMillisecond(t) PROVE Issuer!Next
  <2> DEFINE seq == (sequence[SiteOf[t]] + 1) % (MAX_SEQUENCE + 1)
  <2>0. /\ pc[t] = "read" /\ currStmp[t] = lastStmp[SiteOf[t]] /\ seq # 0
        /\ Return(t, currStmp[t], seq) /\ currStmp' = currStmp /\ sequence[SiteOf[t]] \in 0..MAX_SEQUENCE
    BY <1>0, <1>6 DEF NextInMillisecond, TypeOK
  <2>1. seq = IF sequence[SiteOf[t]] = MAX_SEQUENCE THEN 0 ELSE sequence[SiteOf[t]] + 1
    BY <2>0, SequenceStep
  <2>2. Numbered(SiteOf[t]) = [stmp |-> lastStmp[SiteOf[t]], sequence |-> sequence[SiteOf[t]]]
    BY <2>0, WrappedAt DEF Numbered
  <2> HIDE DEF seq
  <2>3. seq = sequence[SiteOf[t]] + 1 /\ seq \in 0..MAX_SEQUENCE /\ seq <= MAX_SEQUENCE
    BY <2>0, <2>1, BitsAssumption
  <2>4. Issuer!Follows([stmp |-> currStmp[t], sequence |-> seq], Numbered(SiteOf[t]))
    BY <2>0, <2>2, <2>3 DEF Issuer!Follows
  <2> QED BY <2>0, <2>3, <2>4, ReturnIsTake
<1>7. ASSUME NEW t \in Threads, Exhausted(t) PROVE UNCHANGED Issuer!issuerVars
  <2> DEFINE g == SiteOf[t]
  <2>0. /\ g \in Sites /\ pc[t] = "read" /\ pc' = [pc EXCEPT ![t] = "spin"]
        /\ sequence' = [sequence EXCEPT ![g] = (sequence[g] + 1) % (MAX_SEQUENCE + 1)]
        /\ (sequence[g] + 1) % (MAX_SEQUENCE + 1) = 0 /\ sequence[g] \in 0..MAX_SEQUENCE
        /\ UNCHANGED <<clock, incarnation, lastStmp, currStmp, issued>>
    BY <1>0, <1>7 DEF Exhausted, TypeOK
  <2>1. sequence[g] = MAX_SEQUENCE
    BY <2>0, SequenceStep, BitsAssumption
  <2>2. ~ Wrapped(g) /\ Wrapped(g)'
    BY <1>0, <2>0, WrappedAt DEF Wrapped, TypeOK
  <2>3. Numbered(g)' = Numbered(g)
    BY <2>0, <2>1, <2>2 DEF Numbered
  <2>4. ASSUME NEW h \in Sites, h # g PROVE Numbered(h)' = Numbered(h)
    BY <1>0, <2>0, <2>4, WrappedElsewhere DEF Numbered, TypeOK
  <2>5. AllNumbered' = AllNumbered
    BY <2>3, <2>4 DEF AllNumbered
  <2>6. Readings' = Readings
    BY <1>0, <2>0 DEF Readings, TypeOK
  <2> QED BY <2>0, <2>5, <2>6 DEF AllNumbered, Numbered, Readings
<1>8. ASSUME NEW t \in Threads, SpinReturn(t) PROVE Issuer!Next
  <2>0. /\ pc[t] = "spin" /\ clock[SiteOf[t]] > lastStmp[SiteOf[t]] /\ sequence[SiteOf[t]] = 0
        /\ Return(t, clock[SiteOf[t]], sequence[SiteOf[t]])
        /\ currStmp' = [currStmp EXCEPT ![t] = clock[SiteOf[t]]]
    BY <1>8 DEF SpinReturn, SpinsAtZero
  <2>1. Issuer!Follows([stmp |-> clock[SiteOf[t]], sequence |-> sequence[SiteOf[t]]], Numbered(SiteOf[t]))
    BY <2>0 DEF Issuer!Follows, Numbered
  <2>2. /\ clock[SiteOf[t]] \in {currStmp[t], clock[SiteOf[t]]} /\ sequence[SiteOf[t]] \in 0..MAX_SEQUENCE
        /\ pc[t] # "idle"
    BY <2>0, BitsAssumption
  <2> QED BY <2>0, <2>1, <2>2, ReturnIsTake
<1>9. CASE UNCHANGED vars
  BY <1>9 DEF vars, Wrapped
<1> QED BY <1>1, <1>2, <1>3, <1>4, <1>5, <1>6, <1>7, <1>8, <1>9 DEF Next, Inside

(* IssuesInTurn: SnowFlake implements IdIssuer, however many threads of    *)
(* however many sites call, wait and are cut off by restarts.              *)
THEOREM Refinement == Spec => IssuesInTurn
<1>1. Init => Issuer!Init
  <2> SUFFICES ASSUME Init PROVE Issuer!Init
    OBVIOUS
  <2>1. clock \in [Sites -> Nat]
    BY BitsAssumption DEF Init
  <2>2. AllNumbered = [g \in Sites |-> Issuer!Nothing] /\ Readings = [t \in Threads |-> -1]
    BY SitesAssumption DEF Init, AllNumbered, Numbered, Readings, Wrapped, Issuer!Nothing
  <2> QED BY <2>1, <2>2 DEF Init, Issuer!Init, Issuer!Outside, AllNumbered, Numbered, Readings
<1> QED BY <1>1, RefinementStep, Inductive, SpinsAtZeroInvariant, PTL DEF Spec, IssuesInTurn, Issuer!Spec
===============================================================================
