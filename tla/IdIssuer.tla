------------------------------- MODULE IdIssuer -------------------------------
(***************************************************************************)
(* What the callers of kanglab-utils' SnowFlake may rely on, with no       *)
(* monitor, no wrapping sequence and no spin in it: nextId is one step,    *)
(* which numbers the identifiers of a millisecond 0, 1, 2, ... without a   *)
(* gap, and stamps them with a time that the clock showed during the call. *)
(***************************************************************************)
EXTENDS Integers, Sequences

CONSTANTS Sites, Threads, SiteOf, MAX_SEQUENCE

VARIABLES
  clock,          \* what the clock of each site shows
  incarnation,    \* objects created at each site
  last,           \* the stamp and number of the last identifier of the present one
  reading,        \* what the clock showed when a thread's call began, or Outside
  issued          \* the results of all calls so far

issuerVars == <<clock, incarnation, last, reading, issued>>

Outside == -1
Nothing == [stmp |-> -1, sequence |-> 0]

Init ==
  /\ clock \in [Sites -> Nat]
  /\ incarnation = [g \in Sites |-> 0] /\ last = [g \in Sites |-> Nothing]
  /\ reading = [t \in Threads |-> Outside]
  /\ issued = <<>>

TimePasses == clock' \in [Sites -> Nat] /\ UNCHANGED <<incarnation, last, reading, issued>>

(* A new object knows nothing of the one before, whose calls are over.     *)
Renew(g) ==
  /\ incarnation' = [incarnation EXCEPT ![g] = @ + 1]
  /\ last' = [last EXCEPT ![g] = Nothing]
  /\ reading' = [t \in Threads |-> IF SiteOf[t] = g THEN Outside ELSE reading[t]]
  /\ UNCHANGED <<clock, issued>>

Begin(t) ==
  /\ reading[t] = Outside
  /\ reading' = [reading EXCEPT ![t] = clock[SiteOf[t]]]
  /\ UNCHANGED <<clock, incarnation, last, issued>>

(* The place of an identifier: right behind one of its millisecond, or the *)
(* first of a later one.                                                   *)
Follows(r, s) ==
  \/ r.stmp = s.stmp /\ r.sequence = s.sequence + 1 /\ r.sequence <= MAX_SEQUENCE
  \/ r.stmp > s.stmp /\ r.sequence = 0

Take(t, r) ==
  LET g == SiteOf[t]
  IN  /\ reading[t] # Outside
      /\ r.stmp \in {reading[t], clock[g]} /\ Follows(r, last[g])
      /\ last' = [last EXCEPT ![g] = [stmp |-> r.stmp, sequence |-> r.sequence]]
      /\ issued' = Append(issued, [site |-> g, incarnation |-> incarnation[g],
                                   stmp |-> r.stmp, sequence |-> r.sequence])
      /\ reading' = [reading EXCEPT ![t] = Outside]
      /\ UNCHANGED <<clock, incarnation>>

(* A call is refused only where the clock was behind the last identifier.  *)
Decline(t) ==
  /\ reading[t] # Outside /\ reading[t] < last[SiteOf[t]].stmp
  /\ reading' = [reading EXCEPT ![t] = Outside]
  /\ UNCHANGED <<clock, incarnation, last, issued>>

Next ==
  \/ TimePasses
  \/ \E g \in Sites : Renew(g)
  \/ \E t \in Threads :
       \/ Begin(t) \/ Decline(t)
       \/ \E stmp \in {reading[t], clock[SiteOf[t]]}, sequence \in 0..MAX_SEQUENCE :
            Take(t, [stmp |-> stmp, sequence |-> sequence])

Spec == Init /\ [][Next]_issuerVars
===============================================================================
