-------------------------- MODULE PageScriptsProofs ---------------------------
(***************************************************************************)
(* Theorems about the scripts below the pages: the requests and their      *)
(* progress bar, the handlers of events, the callback lists, the deferreds *)
(* made of them and the queue of fades, each with its invariant, and at    *)
(* the end the five together.  Of the effects, TLC checks what it can.     *)
(***************************************************************************)
EXTENDS MCPageScripts, FiniteSetTheorems, SequenceTheorems, WellFoundedInduction, TLAPS

-------------------------------------------------------------------------------
(* The requests: the bar *)

Statuses == {Null} \cup Minimum..Cap

(* Updates keep a bar a bar: one more timer, an element, a status.         *)
LEMMA AfterBar ==
  ASSUME NEW b \in Bar, NEW t \in {"trickle", "fade", "remove"}
  PROVE  after(b, t) \in Bar /\ after(b, t).status = b.status
BY DEF after, Bar

LEMMA RenderedBar ==
  ASSUME NEW b \in Bar, NEW n \in Statuses
  PROVE  /\ [render(b) EXCEPT !.status = n] \in Bar
         /\ [render(b) EXCEPT !.status = n].status = n
BY DEF render, Bar, Statuses

(* set ends the progress with a whole of 1, and else has one under way.    *)
LEMMA SetBar ==
  ASSUME NEW b \in Bar, NEW n \in 0..Cap
  PROVE  /\ set(b, n) \in Bar /\ set(b, n).status # Null
         /\ set(b, Full) \in Bar /\ set(b, Full).status = Null
<1>1. clamp(n, Minimum, Full) \in Minimum..Cap
  BY DEF clamp, Minimum, Full, Cap
<1>2. clamp(Full, Minimum, Full) = Full
  BY DEF clamp, Minimum, Full
<1>3. clamp(n, Minimum, Full) # Full /\ clamp(n, Minimum, Full) # Null
  BY <1>1 DEF Full, Cap, Minimum, Null
<1>4. clamp(n, Minimum, Full) \in Statuses /\ Null \in Statuses
  BY <1>1 DEF Statuses
<1>5. set(b, n) = [render(b) EXCEPT !.status = clamp(n, Minimum, Full)]
  BY <1>3 DEF set
<1>6. set(b, Full) = after([render(b) EXCEPT !.status = Null], "fade")
  BY <1>2 DEF set
<1> QED
  BY <1>3, <1>4, <1>5, <1>6, RenderedBar, AfterBar

LEMMA StartBar ==
  ASSUME NEW b \in Bar
  PROVE  start(b) \in Bar /\ start(b).status # Null
<1>1. 0 \in 0..Cap
  BY DEF Cap
<1> QED
  BY <1>1, SetBar, AfterBar DEF start

(* A trickle never ends the progress. *)
LEMMA IncBar ==
  ASSUME NEW b \in Bar
  PROVE  inc(b) \in Bar /\ inc(b).status # Null
<1>1. CASE b.status = Null
  BY <1>1, StartBar DEF inc
<1>2. CASE b.status # Null
  <2>1. b.status \in Minimum..Cap
    BY <1>2 DEF Bar
  <2>2. amount(b.status) \in {100, 40, 20, 5, 0}
    BY <2>1 DEF amount, Minimum, Cap
  <2>3. clamp(b.status + amount(b.status), 0, Cap) \in 0..Cap
    BY <2>1, <2>2, SMTT(30) DEF clamp, Minimum, Cap
  <2> QED
    BY <1>2, <2>3, SetBar DEF inc
<1> QED
  BY <1>1, <1>2

LEMMA DoneBar ==
  ASSUME NEW b \in Bar
  PROVE  done(b) \in Bar /\ done(b).status = Null
<1>1. 0 \in 0..Cap
  BY DEF Cap
<1> QED
  BY <1>1, SetBar, IncBar DEF done

(* A timer that fires neither begins nor ends the progress.                *)
LEMMA FireBar ==
  ASSUME NEW b \in Bar, b.timers # <<>>
  PROVE  fire(b) \in Bar /\ (fire(b).status = Null <=> b.status = Null)
<1> DEFINE rest == [b EXCEPT !.timers = Tail(@)]
<1>1. rest \in Bar /\ rest.status = b.status
  BY DEF Bar
<1>2. Head(b.timers) \in {"trickle", "fade", "remove"}
  BY DEF Bar
<1>3. CASE Head(b.timers) = "trickle"
  <2>1. fire(b) = IF b.status = Null THEN rest ELSE after(inc(rest), "trickle")
    BY <1>3 DEF fire
  <2> QED
    BY <1>1, <2>1, IncBar, AfterBar
<1>4. CASE Head(b.timers) = "fade"
  <2>1. fire(b) = after(rest, "remove")
    BY <1>4 DEF fire
  <2> QED
    BY <1>1, <2>1, AfterBar
<1>5. CASE Head(b.timers) = "remove"
  <2>1. fire(b) = [rest EXCEPT !.shown = FALSE]
    BY <1>5 DEF fire, removeBar
  <2> QED
    BY <1>1, <2>1 DEF Bar
<1> QED
  BY <1>2, <1>3, <1>4, <1>5

-------------------------------------------------------------------------------
(* The requests: the counter *)

(* A page whose counter stands at n, with the progress that goes with it.  *)
Agrees(pg, n) ==
  /\ pg.active = n
  /\ pg.bar \in Bar
  /\ pg.bar.status # Null <=> n > 0

LEMMA CountedAgrees ==
  ASSUME NEW pg, NEW n \in Nat, Agrees(pg, n)
  PROVE  Agrees(counted(pg), n + 1)
BY StartBar DEF Agrees, counted

(* Only the last request to be finished ends the progress.                 *)
LEMMA FinishedAgrees ==
  ASSUME NEW pg, NEW n \in Nat, Agrees(pg, n + 1)
  PROVE  Agrees(finished(pg), n)
BY DoneBar DEF Agrees, finished

(* Requests are finite in number, and one more is one more.                *)
LEMMA OneMore ==
  ASSUME NEW S \in SUBSET Requests, NEW r \in Requests \ S
  PROVE  /\ Cardinality(S) \in Nat
         /\ Cardinality(S \cup {r}) = Cardinality(S) + 1
<1>1. IsFiniteSet(S)
  BY AjaxAssumption, FS_Subset
<1> QED
  BY <1>1, FS_CardinalityType, FS_AddElement

LEMMA OneLess ==
  ASSUME NEW S \in SUBSET Requests, NEW r \in S
  PROVE  /\ Cardinality(S \ {r}) \in Nat
         /\ Cardinality(S) = Cardinality(S \ {r}) + 1
<1>1. S = (S \ {r}) \cup {r}
  OBVIOUS
<1> QED
  BY <1>1, OneMore

LEMMA CountIsNat ==
  ASSUME NEW S \in SUBSET Requests
  PROVE  Cardinality(S) \in Nat
BY AjaxAssumption, FS_Subset, FS_CardinalityType

(* The end of a request, with its callback, leaves counter and progress    *)
(* with the others and what the callback has sent: one that returns counts *)
(* its request off, one that throws leaves it to lost, and one that sends  *)
(* puts another in its place before the progress could end.                *)
LEMMA DoneCounts ==
  ASSUME AjaxTypeOK, NEW pg, NEW others \in SUBSET sent,
         NEW callback \in Callbacks, NEW timed \in BOOLEAN,
         Agrees(pg, Cardinality(others) + lost + 1),
         doneWith(pg, callback, others, timed)
  PROVE  RequestsCounted'
<1> DEFINE n == Cardinality(others) + lost
<1> USE AjaxAssumption
<1>1. others \in SUBSET Requests /\ Cardinality(others) \in Nat /\ lost \in 0..MaxLost /\ n \in Nat
  BY CountIsNat DEF AjaxTypeOK
<1>2. SUFFICES Agrees([active |-> active', bar |-> bar'], Cardinality(sent') + lost')
               /\ sent' \in SUBSET Requests /\ timeouts' \subseteq sent' /\ lost' \in 0..MaxLost
  <2>1. Cardinality(sent') + lost' \in Nat
    BY <1>2, CountIsNat
  <2> QED
    BY <1>2, <2>1 DEF RequestsCounted, AjaxTypeOK, ActiveCounts, BarWhileActive, Agrees
<1>3. active' = afterCallback(pg, callback).active /\ bar' = afterCallback(pg, callback).bar
  BY DEF doneWith
<1>4. CASE callback = "returns"
  <2>1. sent' = others /\ timeouts' \subseteq others /\ lost' = lost
    BY <1>4 DEF doneWith
  <2>2. Agrees(finished(pg), n)
    BY <1>1, FinishedAgrees
  <2>3. afterCallback(pg, callback) = finished(pg)
    BY <1>4 DEF afterCallback
  <2> QED
    BY <1>1, <1>3, <2>1, <2>2, <2>3 DEF Agrees
<1>5. CASE callback = "throws"
  <2>1. sent' = others /\ timeouts' \subseteq others /\ lost' = lost + 1 /\ lost < MaxLost
    BY <1>5 DEF doneWith
  <2>2. afterCallback(pg, callback) = pg
    BY <1>5 DEF afterCallback
  <2> QED
    BY <1>1, <1>3, <2>1, <2>2 DEF Agrees
<1>6. CASE callback = "sends"
  <2>1. PICK r \in Requests \ sent : sent' = others \cup {r} /\ timeouts' \subseteq sent'
    BY <1>6 DEF doneWith
  <2>2. Cardinality(sent') = Cardinality(others) + 1 /\ lost' = lost
    BY <1>1, <1>6, <2>1, OneMore DEF doneWith
  <2>3. Agrees(finished(counted(pg)), n + 1)
    BY <1>1, CountedAgrees, FinishedAgrees
  <2>4. afterCallback(pg, callback) = finished(counted(pg))
    BY <1>6 DEF afterCallback
  <2> QED
    BY <1>1, <1>3, <2>1, <2>2, <2>3, <2>4 DEF Agrees
<1> QED
  BY <1>4, <1>5, <1>6 DEF Callbacks

-------------------------------------------------------------------------------
(* The requests: the step *)

LEMMA PageAgrees ==
  ASSUME RequestsCounted
  PROVE  /\ Agrees(PageState, Cardinality(sent) + lost)
         /\ Cardinality(sent) \in Nat /\ lost \in Nat
BY AjaxAssumption, CountIsNat DEF RequestsCounted, AjaxTypeOK, ActiveCounts, BarWhileActive, Agrees, PageState

LEMMA AjaxStepCounts ==
  ASSUME RequestsCounted, [AjaxNext]_ajaxVars
  PROVE  RequestsCounted'
<1> USE DEF RequestsCounted
<1>1. ASSUME NEW r \in Requests, NEW timed \in BOOLEAN, Send(r, timed)
      PROVE  RequestsCounted'
  <2>1. Cardinality(sent') = Cardinality(sent) + 1
    BY <1>1, OneMore DEF Send, AjaxTypeOK
  <2>2. Agrees([active |-> active', bar |-> bar'], Cardinality(sent') + lost')
    BY <1>1, <2>1, PageAgrees, CountedAgrees DEF Send, Agrees
  <2>3. sent' \subseteq Requests /\ timeouts' \subseteq sent' /\ lost' \in 0..MaxLost
    BY <1>1 DEF Send, AjaxTypeOK
  <2>4. Cardinality(sent') + lost' \in Nat
    BY <1>1, <2>1, PageAgrees DEF Send
  <2> QED
    BY <2>2, <2>3, <2>4 DEF AjaxTypeOK, ActiveCounts, BarWhileActive, Agrees
<1>2. ASSUME NEW timed \in BOOLEAN, NEW callback \in Callbacks, SendAndWait(callback, timed)
      PROVE  RequestsCounted'
  <2>1. Agrees(counted(PageState), Cardinality(sent) + lost + 1)
    BY PageAgrees, CountedAgrees
  <2> QED
    BY <1>2, <2>1, DoneCounts DEF SendAndWait
<1>3. ASSUME NEW r \in sent, NEW timed \in BOOLEAN, NEW callback \in Callbacks,
             doneWith(PageState, callback, sent \ {r}, timed)
      PROVE  RequestsCounted'
  <2>1. Cardinality(sent) = Cardinality(sent \ {r}) + 1 /\ Cardinality(sent \ {r}) \in Nat
    BY OneLess DEF AjaxTypeOK
  <2>2. Cardinality(sent) + lost = Cardinality(sent \ {r}) + lost + 1
    BY <2>1, PageAgrees
  <2>3. Agrees(PageState, Cardinality(sent \ {r}) + lost + 1)
    BY <2>2, PageAgrees
  <2> QED
    BY <1>3, <2>3, DoneCounts
<1>4. CASE BarTimer
  BY <1>4, FireBar DEF BarTimer, AjaxTypeOK, ActiveCounts, BarWhileActive
<1>5. CASE Reload
  BY <1>5, FS_EmptySet, AjaxAssumption
     DEF Reload, AjaxTypeOK, ActiveCounts, BarWhileActive, NoBar, Bar, Null
<1>6. CASE UNCHANGED ajaxVars
  BY <1>6 DEF ajaxVars, AjaxTypeOK, ActiveCounts, BarWhileActive
<1> QED
  BY <1>1, <1>2, <1>3, <1>4, <1>5, <1>6 DEF AjaxNext, TransportAnswers, TimesOut, AjaxTypeOK

LEMMA RequestsInit == AjaxInit => RequestsCounted
BY FS_EmptySet, AjaxAssumption
   DEF AjaxInit, RequestsCounted, AjaxTypeOK, ActiveCounts, BarWhileActive, NoBar, Bar, Null

-------------------------------------------------------------------------------
(* Sequences that lose some of their places or gain one *)

(* A sequence has the length its domain says. *)
LEMMA LenOf ==
  ASSUME NEW T, NEW s \in Seq(T), NEW n \in Nat, DOMAIN s = 1..n
  PROVE  Len(s) = n
<1>1. Len(s) \in Nat /\ DOMAIN s = 1..Len(s)
  BY LenProperties
<1>2. 1..Len(s) = 1..n
  BY <1>1
<1>3. ASSUME NEW a \in Nat, NEW b \in Nat, 1..a = 1..b PROVE a <= b
  <2>1. a = 0 \/ a \in 1..b
    BY <1>3
  <2> QED BY <2>1
<1>4. Len(s) <= n /\ n <= Len(s)
  BY <1>1, <1>2, <1>3
<1>5. \A a \in Nat, b \in Nat : a <= b /\ b <= a => a = b
  OBVIOUS
<1> QED BY ONLY <1>1, <1>4, <1>5, n \in Nat

(* The elements of a set of numbers, listed by rank. *)
LEMMA RankedIs ==
  ASSUME NEW S, S \subseteq Int, IsFiniteSet(S), NEW l,
         l = [i \in 1..Cardinality(S) |-> CHOOSE e \in S : Cardinality({d \in S : d < e}) = i - 1]
  PROVE  /\ l \in Seq(S) /\ Len(l) = Cardinality(S) /\ Cardinality(S) \in Nat /\ Range(l) = S
         /\ \A i \in 1..Cardinality(S) : l[i] \in S /\ Cardinality({d \in S : d < l[i]}) = i - 1
         /\ \A i, j \in 1..Cardinality(S) : i < j => l[i] < l[j]
<1>12. l = [i \in DOMAIN l |-> l[i]]
  <2> DEFINE at(i) == CHOOSE e \in S : Cardinality({d \in S : d < e}) = i - 1
             places == 1..Cardinality(S)
  <2>1. l = [i \in places |-> at(i)]
    OBVIOUS
  <2> HIDE DEF at, places
  <2> QED BY <2>1
<1> DEFINE n == Cardinality(S)
           below(e) == {d \in S : d < e}
           rank == [e \in S |-> Cardinality(below(e)) + 1]
<1>1. n \in Nat
  BY FS_CardinalityType
<1>2. ASSUME NEW e \in S
      PROVE  IsFiniteSet(below(e)) /\ Cardinality(below(e)) \in 0..(n - 1)
  <2>1. IsFiniteSet(S \ {e}) /\ Cardinality(S \ {e}) = n - 1
    BY FS_RemoveElement
  <2>2. below(e) \in SUBSET (S \ {e})
    OBVIOUS
  <2>3. IsFiniteSet(below(e)) /\ Cardinality(below(e)) <= n - 1
    BY <2>1, <2>2, FS_Subset
  <2>4. Cardinality(below(e)) \in Nat
    BY <2>3, FS_CardinalityType
  <2> HIDE DEF below, n
  <2> QED BY <1>1, <2>3, <2>4
<1>3. rank \in [S -> 1..n]
  <2> HIDE DEF below, n
  <2> QED BY <1>1, <1>2
<1>4. ASSUME NEW x \in S, NEW y \in S, x < y
      PROVE  rank[x] # rank[y]
  <2>0. x \in Int /\ y \in Int /\ \A d \in S : d \in Int
    OBVIOUS
  <2>1. below(x) \in SUBSET below(y) /\ x \in below(y) /\ x \notin below(x)
    <3>1. \A d \in S : d < x => d < y
      BY <1>4, <2>0
    <3>2. ~(x < x)
      BY <2>0
    <3> QED BY <1>4, <3>1, <3>2
  <2>2. Cardinality(below(y)) # Cardinality(below(x))
    BY <1>2, <2>1, FS_Subset
  <2>3. Cardinality(below(x)) \in Int /\ Cardinality(below(y)) \in Int
    <3> HIDE DEF below
    <3> QED BY <1>1, <1>2
  <2> HIDE DEF below
  <2> QED BY <2>2, <2>3
<1>5. IsInjective(rank)
  <2> SUFFICES ASSUME NEW x \in S, NEW y \in S, rank[x] = rank[y] PROVE x = y
    BY <1>3 DEF IsInjective
  <2>1. x \in Int /\ y \in Int
    OBVIOUS
  <2>2. ~(x < y) /\ ~(y < x)
    BY <1>4
  <2> QED BY <2>1, <2>2
<1>6. \A i \in 1..n : \E e \in S : rank[e] = i
  <2>1. rank \in Injection(S, 1..n)
    BY <1>3, <1>5 DEF Injection
  <2>2. IsFiniteSet(1..n) /\ Cardinality(1..n) = n
    <3> HIDE DEF n
    <3> QED BY <1>1, FS_Interval
  <2>3. rank \in Surjection(S, 1..n)
    BY <2>1, <2>2, FS_Injection
  <2> QED BY <2>3 DEF Surjection
<1>7. \A i \in 1..n : l[i] \in S /\ rank[l[i]] = i
  <2> SUFFICES ASSUME NEW i \in 1..n PROVE l[i] \in S /\ rank[l[i]] = i
    OBVIOUS
  <2>1. PICK e \in S : rank[e] = i
    BY <1>6
  <2>2. Cardinality(below(e)) = i - 1
    <3>1. Cardinality(below(e)) \in Int /\ i \in Int /\ Cardinality(below(e)) + 1 = i
      <4> HIDE DEF below, n
      <4> QED BY <1>1, <1>2, <2>1
    <3> QED BY <3>1
  <2>3. l[i] \in S /\ Cardinality(below(l[i])) = i - 1
    BY <2>2
  <2> HIDE DEF below
  <2> QED BY <2>3
<1>8. DOMAIN l = 1..n
  OBVIOUS
<1>13. \A i \in 1..n : l[i] \in S /\ Cardinality(below(l[i])) = i - 1
  <2> SUFFICES ASSUME NEW i \in 1..n PROVE l[i] \in S /\ Cardinality(below(l[i])) = i - 1
    OBVIOUS
  <2>1. l[i] \in S /\ rank[l[i]] = i
    BY <1>7
  <2>2. Cardinality(below(l[i])) \in Int /\ i \in Int /\ Cardinality(below(l[i])) + 1 = i
    <3>1. Cardinality(below(l[i])) \in 0..(n - 1)
      <4> HIDE DEF below, n
      <4> QED BY <1>2, <2>1
    <3>2. rank[l[i]] = Cardinality(below(l[i])) + 1
      <4> HIDE DEF below, n
      <4> QED BY <2>1
    <3> HIDE DEF below, n, rank
    <3> QED BY <1>1, <2>1, <3>1, <3>2
  <2> HIDE DEF below, n, rank
  <2> QED BY <2>1, <2>2
<1> HIDE DEF n, below, rank
<1>9. l \in Seq(S)
  <2>1. l = [i \in 1..n |-> l[i]]
    BY <1>8, <1>12
  <2>2. l \in [1..n -> S]
    BY <1>7, <2>1
  <2> QED BY <1>1, <2>2, SeqDef
<1>10. Len(l) = n
  BY <1>1, <1>8, <1>9, LenOf
<1>11. Range(l) = S
  <2>1. Range(l) \subseteq S
    BY <1>7, <1>8 DEF Range
  <2>2. ASSUME NEW e \in S PROVE e \in Range(l)
    <3>1. rank[e] \in 1..n
      BY <1>3
    <3>2. l[rank[e]] \in S /\ rank[l[rank[e]]] = rank[e]
      BY <1>7, <3>1
    <3>3. DOMAIN rank = S
      BY <1>3
    <3>4. l[rank[e]] = e
      BY <1>5, <3>2, <3>3 DEF IsInjective
    <3> QED BY <1>8, <3>1, <3>4 DEF Range
  <2> QED BY <2>1, <2>2
<1>14. \A i, j \in 1..n : i < j => l[i] < l[j]
  <2> SUFFICES ASSUME NEW i \in 1..n, NEW j \in 1..n, i < j, ~(l[i] < l[j]) PROVE FALSE
    OBVIOUS
  <2>1. l[i] \in Int /\ l[j] \in Int /\ l[i] \in S /\ l[j] \in S
    BY <1>13
  <2>2. Cardinality(below(l[i])) = i - 1 /\ Cardinality(below(l[j])) = j - 1
    BY <1>13
  <2>3. below(l[j]) \in SUBSET below(l[i])
    <3>1. \A d \in S : d \in Int
      OBVIOUS
    <3>2. \A d \in S : d < l[j] => d < l[i]
      BY <2>1, <3>1
    <3> QED BY <3>2 DEF below
  <2>4. IsFiniteSet(below(l[i]))
    BY <1>2, <2>1
  <2>5. Cardinality(below(l[j])) <= Cardinality(below(l[i]))
    BY <2>3, <2>4, FS_Subset
  <2> QED BY <1>1, <2>2, <2>5
<1> QED BY <1>1, <1>9, <1>10, <1>11, <1>13, <1>14 DEF n, below

(* The elements r of a sequence at some places, listed: the k-th is at     *)
(* at[k], and k - 1 of the places are before that one.                     *)
Below(places, p) == {q \in places : q < p}
Upto(places, d) == {q \in places : q <= d}
Listed(r, seq, places, at) ==
  /\ at \in [1..Cardinality(places) -> places]
  /\ \A k \in 1..Cardinality(places) : r[k] = seq[at[k]] /\ Cardinality(Below(places, at[k])) = k - 1
  /\ \A j, k \in 1..Cardinality(places) : j < k => at[j] < at[k]
  /\ \A p \in places : \E k \in 1..Cardinality(places) : at[k] = p

(* The elements at some places of a sequence, in order: each is at one of  *)
(* the places, each place has one, and they are as many.                   *)
LEMMA ThoseIs ==
  ASSUME NEW T, NEW seq \in Seq(T), NEW places, places \subseteq DOMAIN seq
  PROVE  /\ IsFiniteSet(places) /\ Cardinality(places) \in Nat
         /\ Those(seq, places) \in Seq(T) /\ Len(Those(seq, places)) = Cardinality(places)
         /\ DOMAIN Those(seq, places) = 1..Cardinality(places)
         /\ \E at : Listed(Those(seq, places), seq, places, at)
<1> DEFINE n == Cardinality(places)
           at == [k \in 1..n |-> CHOOSE p \in places : Cardinality({q \in places : q < p}) = k - 1]
           r == Those(seq, places)
<1>1. DOMAIN seq = 1..Len(seq) /\ Len(seq) \in Nat /\ \A i \in DOMAIN seq : seq[i] \in T
  BY LenProperties, ElementOfSeq
<1>2. IsFiniteSet(places)
  <2>1. IsFiniteSet(1..Len(seq))
    BY <1>1, FS_Interval
  <2> QED BY <1>1, <2>1, FS_Subset
<1>3. places \subseteq Int
  BY <1>1
<1>4. /\ at \in Seq(places) /\ Len(at) = n /\ n \in Nat /\ Range(at) = places
      /\ \A i \in 1..n : at[i] \in places /\ Cardinality({d \in places : d < at[i]}) = i - 1
      /\ \A i, j \in 1..n : i < j => at[i] < at[j]
  BY <1>2, <1>3, RankedIs
<1>5. r = [k \in 1..n |-> seq[at[k]]]
  BY DEF Those
<1>6. at \in [1..n -> places]
  BY <1>4, SeqDef, LenProperties
<1> HIDE DEF at, n, r
<1>7. r \in [1..n -> T]
  BY <1>1, <1>4, <1>5
<1>8. r \in Seq(T) /\ Len(r) = n /\ DOMAIN r = 1..n
  <2>1. r \in Seq(T)
    BY <1>4, <1>7, SeqDef
  <2>2. DOMAIN r = 1..n
    BY <1>7
  <2> QED BY <1>4, <2>1, <2>2, LenOf
<1>9. \A p \in places : \E k \in 1..n : at[k] = p
  <2>1. DOMAIN at = 1..n
    BY <1>6
  <2> QED BY <1>4, <2>1 DEF Range
<1>10. \A k \in 1..n : r[k] = seq[at[k]] /\ Cardinality({p \in places : p < at[k]}) = k - 1
  BY <1>4, <1>5
<1>11. Listed(r, seq, places, at)
  BY <1>4, <1>6, <1>9, <1>10 DEF Listed, Below, n
<1> QED BY <1>2, <1>4, <1>8, <1>11 DEF n, r

(* How far a place is in the list of the places that are kept.             *)
LEMMA PlaceCounted ==
  ASSUME NEW places, places \subseteq Int, IsFiniteSet(places), NEW d \in Int, NEW p \in places,
         NEW k \in Int, Cardinality(Below(places, p)) = k - 1
  PROVE  p <= d <=> k <= Cardinality(Upto(places, d))
<1> USE DEF Below, Upto
<1> DEFINE below == {q \in places : q < p}
           upto == {q \in places : q <= d}
<1>1. IsFiniteSet(below) /\ IsFiniteSet(upto)
  <2>1. below \in SUBSET places /\ upto \in SUBSET places
    OBVIOUS
  <2> QED BY <2>1, FS_Subset
<1>2. Cardinality(below) \in Nat /\ Cardinality(upto) \in Nat
  BY <1>1, FS_CardinalityType
<1>3. ASSUME p <= d PROVE k <= Cardinality(upto)
  <2>1. \A q \in places : q \in Int
    OBVIOUS
  <2>2. below \in SUBSET (upto \ {p}) /\ p \in upto
    <3>1. \A q \in places : q < p => q <= d /\ q # p
      BY <1>3, <2>1
    <3> QED BY <1>3, <3>1
  <2>3. IsFiniteSet(upto \ {p}) /\ Cardinality(upto \ {p}) = Cardinality(upto) - 1
    BY <1>1, <2>2, FS_RemoveElement
  <2>4. Cardinality(below) <= Cardinality(upto) - 1
    BY <2>2, <2>3, FS_Subset
  <2> HIDE DEF upto
  <2> QED BY <1>2, <2>4
<1>4. ASSUME ~(p <= d) PROVE ~(k <= Cardinality(upto))
  <2>1. \A q \in places : q \in Int
    OBVIOUS
  <2>2. upto \in SUBSET below
    <3>1. \A q \in places : q <= d => q < p
      BY <1>4, <2>1
    <3> QED BY <3>1
  <2>3. Cardinality(upto) <= Cardinality(below)
    BY <1>1, <2>2, FS_Subset
  <2> HIDE DEF upto
  <2> QED BY <1>2, <2>3
<1> QED BY <1>3, <1>4

-------------------------------------------------------------------------------
(* The handlers of events *)

Objs == [selector : 0..Path, namespace : Namespaces]
Groups == [elem : Nodes, matches : Seq(Objs)]

HandlersTyped ==
  /\ handlers \in [Nodes -> Seq(Objs)]
  /\ \A n \in Nodes : Len(handlers[n]) <= MaxHandlers
  /\ \A n \in Nodes : \A i \in DOMAIN handlers[n] : handlers[n][i].selector < n
  /\ delegateCount \in [Nodes -> Nat]
  /\ \A n \in Nodes : delegateCount[n] <= Len(handlers[n])
  /\ DelegatesInFront
  /\ listening \subseteq Nodes

(* The groups of the node being dispatched go outwards, and what each of   *)
(* them runs is delegated to its element or bound to the node.             *)
GroupsFollow ==
  /\ node \in 0..Path
  /\ groups \in Seq(Groups)
  /\ groups # <<>> => node # 0
  /\ \A i \in DOMAIN groups :
       /\ groups[i].matches # <<>> /\ groups[i].elem <= node
       /\ \A k \in DOMAIN groups[i].matches :
            groups[i].elem = IF groups[i].matches[k].selector = Direct THEN node
                             ELSE groups[i].matches[k].selector
  /\ \A i, j \in DOMAIN groups : i < j => groups[i].elem < groups[j].elem

(* Once an event was stopped no more is left than handlers of the element  *)
(* on which it was; what ran last was not further out than what is left.   *)
RunFollows ==
  /\ run \in [handleObj : Objs, elem : 0..Path, at : 0..Path]
  /\ run.at <= node
  /\ RunsWhereItMatches
  /\ stopped \in {"no", "propagation", "immediate"}
  /\ stopped # "no" => run.at = node /\ node # 0 /\ \A i \in DOMAIN groups : groups[i].elem = run.elem
  /\ stopped = "immediate" => groups = <<>>
  /\ run.at = node => \A i \in DOMAIN groups : run.elem <= groups[i].elem

(* What the steps of a dispatch keep.                                      *)
EventsOK == HandlersTyped /\ GroupsFollow /\ RunFollows

(* Inserting into a sequence moves what is behind by one place.            *)
LEMMA InsertAtIs ==
  ASSUME NEW T, NEW s \in Seq(T), NEW e \in T, NEW i \in 1..Len(s) + 1
  PROVE  /\ InsertAt(s, i, e) \in Seq(T) /\ Len(InsertAt(s, i, e)) = Len(s) + 1
         /\ InsertAt(s, i, e)[i] = e
         /\ \A j \in 1..Len(s) + 1 : /\ j < i => InsertAt(s, i, e)[j] = s[j]
                                     /\ j > i => InsertAt(s, i, e)[j] = s[j - 1]
<1> DEFINE u == SubSeq(s, 1, i - 1)
           v == SubSeq(s, i, Len(s))
<1>1. Len(s) \in Nat /\ \A j \in 1..Len(s) : s[j] \in T
  BY LenProperties, ElementOfSeq
<1>2. u \in Seq(T) /\ Len(u) = i - 1 /\ \A j \in 1..i - 1 : u[j] = s[j]
  <2>1. 1 \in Int /\ i - 1 \in Int /\ \A j \in 1..i - 1 : s[j] \in T
    BY <1>1
  <2>2. /\ u \in Seq(T) /\ Len(u) = IF 1 <= i - 1 THEN (i - 1) - 1 + 1 ELSE 0
        /\ \A j \in 1..(i - 1) - 1 + 1 : u[j] = s[1 + j - 1]
    BY <2>1, SubSeqProperties
  <2> HIDE DEF u
  <2>3. Len(u) = i - 1
    BY <1>1, <2>2
  <2>4. ASSUME NEW j \in 1..i - 1 PROVE u[j] = s[j]
    <3>1. j \in 1..(i - 1) - 1 + 1 /\ 1 + j - 1 = j
      BY <1>1
    <3>2. u[j] = s[1 + j - 1]
      BY <2>2, <3>1
    <3> QED BY <3>1, <3>2
  <2> QED BY <2>2, <2>3, <2>4
<1>3. v \in Seq(T) /\ Len(v) = Len(s) - i + 1 /\ \A j \in 1..Len(s) - i + 1 : v[j] = s[i + j - 1]
  <2>1. i \in Int /\ Len(s) \in Int /\ \A j \in i..Len(s) : s[j] \in T
    BY <1>1
  <2>2. /\ v \in Seq(T) /\ Len(v) = IF i <= Len(s) THEN Len(s) - i + 1 ELSE 0
        /\ \A j \in 1..Len(s) - i + 1 : v[j] = s[i + j - 1]
    BY <2>1, SubSeqProperties
  <2> HIDE DEF v
  <2>3. Len(v) = Len(s) - i + 1
    BY <1>1, <2>2
  <2> QED BY <2>2, <2>3
<1>4. <<e>> \in Seq(T) /\ Len(<<e>>) = 1 /\ <<e>>[1] = e
  OBVIOUS
<1> DEFINE w == u \o <<e>>
           r == w \o v
<1>5. InsertAt(s, i, e) = r
  BY DEF InsertAt
<1> HIDE DEF u, v
<1>6. w \in Seq(T) /\ Len(w) = i /\ \A j \in 1..i - 1 : w[j] = s[j]
  <2>1. w \in Seq(T) /\ Len(w) = Len(u) + 1
    BY <1>2, <1>4, ConcatProperties
  <2>2. ASSUME NEW j \in 1..i - 1 PROVE w[j] = s[j]
    <3>1. j \in 1..Len(u) /\ j \in 1..Len(u) + Len(<<e>>) /\ j <= Len(u)
      BY <1>1, <1>2, <1>4
    <3>2. w[j] = u[j]
      BY <1>2, <1>4, <3>1, ConcatProperties
    <3> QED BY <1>2, <3>2
  <2> QED BY <1>1, <1>2, <2>1, <2>2
<1>7. w[i] = e
  <2>1. i \in 1..Len(u) + Len(<<e>>) /\ ~(i <= Len(u)) /\ i - Len(u) = 1
    BY <1>1, <1>2, <1>4
  <2>2. w[i] = <<e>>[i - Len(u)]
    BY <1>2, <1>4, <2>1, ConcatProperties
  <2> QED BY <1>4, <2>1, <2>2
<1> HIDE DEF w
<1>8. r \in Seq(T) /\ Len(r) = Len(s) + 1
  <2>1. r \in Seq(T) /\ Len(r) = Len(w) + Len(v)
    BY <1>3, <1>6, ConcatProperties
  <2> QED BY <1>1, <1>3, <1>6, <2>1
<1>9. \A j \in 1..i : r[j] = w[j]
  <2> SUFFICES ASSUME NEW j \in 1..i PROVE r[j] = w[j]
    OBVIOUS
  <2>1. j \in 1..Len(w) + Len(v) /\ j <= Len(w)
    BY <1>1, <1>3, <1>6
  <2> QED BY <1>3, <1>6, <2>1, ConcatProperties
<1>10. \A j \in i + 1..Len(s) + 1 : r[j] = s[j - 1]
  <2> SUFFICES ASSUME NEW j \in i + 1..Len(s) + 1 PROVE r[j] = s[j - 1]
    OBVIOUS
  <2>1. j \in 1..Len(w) + Len(v) /\ ~(j <= Len(w)) /\ j - Len(w) \in 1..Len(s) - i + 1
        /\ i + (j - Len(w)) - 1 = j - 1
    BY <1>1, <1>3, <1>6
  <2>2. r[j] = v[j - Len(w)]
    BY <1>3, <1>6, <2>1, ConcatProperties
  <2> QED BY <1>3, <2>1, <2>2
<1> HIDE DEF r
<1> QED
  <2>1. \A j \in 1..Len(s) + 1 : /\ j < i => j \in 1..i - 1 /\ j \in 1..i
                                 /\ j > i => j \in i + 1..Len(s) + 1
    BY <1>1
  <2>2. i \in 1..i
    BY <1>1
  <2> QED BY <1>5, <1>6, <1>7, <1>8, <1>9, <1>10, <2>1, <2>2

(* What is known of one node: its list, the count of delegates in front,   *)
(* and whether it is listened to.                                          *)
NodeOK(n, list, count, heard) ==
  /\ list \in Seq(Objs) /\ Len(list) <= MaxHandlers
  /\ count \in Nat /\ count <= Len(list)
  /\ \A i \in DOMAIN list : list[i].selector < n
  /\ \A i \in DOMAIN list : list[i].selector # Direct <=> i <= count
  /\ heard <=> list # <<>>

LEMMA NodesAre ==
  HandlersTyped <=> /\ DOMAIN handlers = Nodes /\ handlers = [n \in Nodes |-> handlers[n]]
                    /\ DOMAIN delegateCount = Nodes
                    /\ delegateCount = [n \in Nodes |-> delegateCount[n]]
                    /\ listening \subseteq Nodes
                    /\ \A n \in Nodes : NodeOK(n, handlers[n], delegateCount[n], n \in listening)
BY DEF HandlersTyped, DelegatesInFront, NodeOK

LEMMA NodeChanged ==
  ASSUME HandlersTyped, NEW n \in Nodes, NEW list, NEW count, NEW heard \in BOOLEAN,
         NodeOK(n, list, count, heard),
         handlers' = [handlers EXCEPT ![n] = list],
         delegateCount' = [delegateCount EXCEPT ![n] = count],
         listening' = IF heard THEN listening \cup {n} ELSE listening \ {n}
  PROVE  HandlersTyped'
<1>1. /\ DOMAIN handlers = Nodes /\ DOMAIN delegateCount = Nodes /\ listening \subseteq Nodes
      /\ \A m \in Nodes : NodeOK(m, handlers[m], delegateCount[m], m \in listening)
  BY NodesAre
<1>2. /\ DOMAIN handlers' = Nodes /\ handlers' = [m \in Nodes |-> handlers'[m]]
      /\ DOMAIN delegateCount' = Nodes /\ delegateCount' = [m \in Nodes |-> delegateCount'[m]]
      /\ listening' \subseteq Nodes
  BY <1>1
<1>3. ASSUME NEW m \in Nodes PROVE NodeOK(m, handlers[m], delegateCount[m], m \in listening)'
  <2>1. CASE m = n
    <3>1. handlers'[m] = list /\ delegateCount'[m] = count /\ (m \in listening' <=> heard)
      BY <1>1, <2>1
    <3> QED BY <2>1, <3>1 DEF NodeOK
  <2>2. CASE m # n
    <3>1. handlers'[m] = handlers[m] /\ delegateCount'[m] = delegateCount[m]
          /\ (m \in listening' <=> m \in listening)
      BY <1>1, <2>2
    <3>2. NodeOK(m, handlers[m], delegateCount[m], m \in listening)
      BY <1>1
    <3> QED BY <3>1, <3>2 DEF NodeOK
  <2> QED BY <2>1, <2>2
<1> QED BY <1>2, <1>3, NodesAre DEF HandlersTyped, DelegatesInFront, NodeOK

LEMMA AddKeepsHandlers ==
  ASSUME HandlersTyped, NEW n \in Nodes, NEW obj \in HandleObjs(n), EventAdd(n, obj)
  PROVE  HandlersTyped'
<1> USE EventAssumption
<1> DEFINE old == handlers[n]
           d == delegateCount[n]
           list == IF obj.selector = Direct THEN Append(old, obj) ELSE InsertAt(old, d + 1, obj)
           count == IF obj.selector = Direct THEN d ELSE d + 1
<1>1. /\ DOMAIN handlers = Nodes /\ DOMAIN delegateCount = Nodes
      /\ NodeOK(n, old, d, n \in listening)
  BY NodesAre
<1>2. /\ handlers' = [handlers EXCEPT ![n] = list]
      /\ delegateCount' = [delegateCount EXCEPT ![n] = count]
      /\ listening' = listening \cup {n} /\ Len(old) < MaxHandlers
  BY DEF EventAdd
<1>3. obj \in Objs /\ obj.selector \in 0..n - 1 /\ obj.selector < n
  BY DEF HandleObjs, Objs, Nodes
<1>4. /\ old \in Seq(Objs) /\ Len(old) \in Nat /\ DOMAIN old = 1..Len(old) /\ d \in Nat /\ d <= Len(old)
      /\ \A i \in 1..Len(old) : old[i].selector < n /\ (old[i].selector # Direct <=> i <= d)
  BY <1>1, LenProperties DEF NodeOK
<1> HIDE DEF old, d
<1>5. NodeOK(n, list, count, TRUE)
  <2>1. CASE obj.selector = Direct
    <3> DEFINE longer == Append(old, obj)
    <3>1. /\ longer \in Seq(Objs) /\ longer # <<>> /\ Len(longer) = Len(old) + 1
          /\ \A i \in 1..Len(old) : longer[i] = old[i] /\ longer[Len(old) + 1] = obj
      BY <1>3, <1>4, AppendProperties
    <3>5. longer[Len(old) + 1] = obj
      BY <1>3, <1>4, AppendProperties
    <3>2. list = longer /\ count = d
      BY <2>1
    <3> HIDE DEF longer, list, count
    <3>3. DOMAIN longer = 1..Len(old) + 1
      BY <1>4, <3>1, LenProperties
    <3>4. \A i \in 1..Len(old) + 1 : longer[i].selector < n /\ (longer[i].selector # Direct <=> i <= d)
      <4> SUFFICES ASSUME NEW i \in 1..Len(old) + 1
                   PROVE  longer[i].selector < n /\ (longer[i].selector # Direct <=> i <= d)
        OBVIOUS
      <4>1. i \in 1..Len(old) \/ (i = Len(old) + 1 /\ ~(i <= d))
        BY <1>4
      <4> QED BY <1>3, <1>4, <2>1, <3>1, <3>5, <4>1
    <3> QED BY <1>2, <1>4, <3>1, <3>2, <3>3, <3>4 DEF NodeOK
  <2>2. CASE obj.selector # Direct
    <3> DEFINE longer == InsertAt(old, d + 1, obj)
    <3>0. d + 1 \in 1..Len(old) + 1
      BY <1>4
    <3>1. /\ longer \in Seq(Objs) /\ Len(longer) = Len(old) + 1 /\ longer[d + 1] = obj
          /\ \A j \in 1..Len(old) + 1 : /\ j < d + 1 => longer[j] = old[j]
                                        /\ j > d + 1 => longer[j] = old[j - 1]
      BY <1>3, <1>4, <3>0, InsertAtIs
    <3>2. list = longer /\ count = d + 1
      BY <2>2
    <3> HIDE DEF longer, list, count
    <3>3. DOMAIN longer = 1..Len(old) + 1 /\ longer # <<>>
      BY <1>4, <3>1, LenProperties
    <3>4. \A i \in 1..Len(old) + 1 : longer[i].selector < n /\ (longer[i].selector # Direct <=> i <= d + 1)
      <4> SUFFICES ASSUME NEW i \in 1..Len(old) + 1
                   PROVE  longer[i].selector < n /\ (longer[i].selector # Direct <=> i <= d + 1)
        OBVIOUS
      <4>1. CASE i < d + 1
        <5>1. i \in 1..Len(old) /\ i <= d /\ i <= d + 1
          BY <1>4, <4>1
        <5> QED BY <1>4, <3>1, <4>1, <5>1
      <4>2. CASE i = d + 1
        BY <1>3, <1>4, <2>2, <3>1, <4>2
      <4>3. CASE i > d + 1
        <5>1. i - 1 \in 1..Len(old) /\ ~(i - 1 <= d) /\ ~(i <= d + 1)
          BY <1>4, <4>3
        <5> QED BY <1>4, <3>1, <4>3, <5>1
      <4> QED BY <1>4, <4>1, <4>2, <4>3
    <3>5. d + 1 \in Nat /\ d + 1 <= Len(longer) /\ Len(longer) <= MaxHandlers
      BY <1>2, <1>4, <3>1
    <3> QED BY <3>1, <3>2, <3>3, <3>4, <3>5 DEF NodeOK
  <2> QED BY <2>1, <2>2
<1> HIDE DEF list, count
<1> QED BY <1>2, <1>5, NodeChanged

LEMMA RemoveKeepsHandlers ==
  ASSUME HandlersTyped, NEW n \in Nodes, NEW namespace, NEW selector,
         EventRemove(n, namespace, selector)
  PROVE  HandlersTyped'
<1> USE EventAssumption
<1> DEFINE old == handlers[n]
           d == delegateCount[n]
           gone == {i \in DOMAIN old : Removed(old[i], namespace, selector)}
           kept == DOMAIN old \ gone
           goneDelegates == {i \in gone : old[i].selector # Direct}
           upto == {q \in kept : q <= d}
           list == Those(old, kept)
           count == d - Cardinality(goneDelegates)
<1>1. /\ DOMAIN handlers = Nodes /\ DOMAIN delegateCount = Nodes
      /\ NodeOK(n, old, d, n \in listening)
  BY NodesAre
<1>2. /\ handlers' = [handlers EXCEPT ![n] = list]
      /\ delegateCount' = [delegateCount EXCEPT ![n] = count]
      /\ listening' = IF kept = {} THEN listening \ {n} ELSE listening
  BY DEF EventRemove
<1>4. /\ old \in Seq(Objs) /\ Len(old) \in Nat /\ DOMAIN old = 1..Len(old) /\ d \in Nat /\ d <= Len(old)
      /\ \A i \in 1..Len(old) : old[i].selector < n /\ (old[i].selector # Direct <=> i <= d)
      /\ Len(old) <= MaxHandlers /\ (n \in listening <=> old # <<>>)
  BY <1>1, LenProperties DEF NodeOK
<1>5. gone \subseteq 1..Len(old) /\ kept = (1..Len(old)) \ gone
  BY <1>4
<1> HIDE DEF old, d, gone, kept, list
<1>6. IsFiniteSet(1..d) /\ Cardinality(1..d) = d /\ IsFiniteSet(1..Len(old)) /\ Cardinality(1..Len(old)) = Len(old)
  <2>1. ASSUME NEW a \in Nat PROVE IsFiniteSet(1..a) /\ Cardinality(1..a) = a
    BY FS_Interval
  <2> QED BY <1>4, <2>1
<1>7. goneDelegates = (1..d) \cap gone /\ upto = (1..d) \ gone
  <2>1. \A i \in 1..Len(old) : i <= d <=> i \in 1..d
    BY <1>4
  <2>2. 1..d \subseteq 1..Len(old)
    BY <1>4
  <2> HIDE DEF Direct
  <2>3. goneDelegates = (1..d) \cap gone
    BY <1>4, <1>5, <2>1, <2>2
  <2>4. upto = (1..d) \ gone
    BY <1>5, <2>1, <2>2
  <2> QED BY <2>3, <2>4
<1>8. Cardinality(upto) = d - Cardinality((1..d) \cap gone)
  BY <1>6, <1>7, FS_Difference
<1>9. count = Cardinality(upto)
  BY <1>7, <1>8
<1>10. /\ IsFiniteSet(kept) /\ Cardinality(kept) \in Nat
       /\ list \in Seq(Objs) /\ Len(list) = Cardinality(kept) /\ DOMAIN list = 1..Cardinality(kept)
       /\ \E at : Listed(list, old, kept, at)
  <2>1. kept \subseteq DOMAIN old
    BY DEF kept
  <2> HIDE DEF upto, goneDelegates, count
  <2>2. list = Those(old, kept)
    BY DEF list
  <2>3. /\ IsFiniteSet(kept) /\ Cardinality(kept) \in Nat
        /\ list \in Seq(Objs) /\ Len(list) = Cardinality(kept) /\ DOMAIN list = 1..Cardinality(kept)
        /\ \E at : Listed(list, old, kept, at)
    BY ONLY <1>4, <2>1, <2>2, ThoseIs
  <2> QED BY <2>3
<1>11. Cardinality(kept) <= Len(old) /\ Cardinality(upto) <= Cardinality(kept) /\ Cardinality(upto) \in Nat
  <2>1. kept \in SUBSET (1..Len(old)) /\ upto \in SUBSET kept
    BY <1>5
  <2>2. IsFiniteSet(upto) /\ Cardinality(upto) <= Cardinality(kept)
    BY <1>10, <2>1, FS_Subset
  <2>3. Cardinality(kept) <= Cardinality(1..Len(old))
    <3> HIDE DEF upto, goneDelegates, count
    <3> QED BY <1>6, <2>1, FS_Subset
  <2> QED BY <1>6, <2>2, <2>3, FS_CardinalityType
<1> HIDE DEF upto, count, goneDelegates
<1>12. \A k \in DOMAIN list : list[k].selector < n /\ (list[k].selector # Direct <=> k <= count)
  <2> SUFFICES ASSUME NEW k \in 1..Cardinality(kept)
               PROVE  list[k].selector < n /\ (list[k].selector # Direct <=> k <= count)
    BY <1>10
  <2>1. PICK at : Listed(list, old, kept, at)
    BY <1>10
  <2>2. at[k] \in kept /\ at[k] \in 1..Len(old) /\ list[k] = old[at[k]]
    BY <1>5, <2>1 DEF Listed
  <2>3. at[k] <= d <=> k <= Cardinality(Upto(kept, d))
    <3>1. kept \subseteq Int /\ d \in Int /\ k \in Int
      BY <1>4, <1>5, <1>10
    <3>2. Cardinality(Below(kept, at[k])) = k - 1
      BY <2>1 DEF Listed
    <3>3. IsFiniteSet(kept) /\ at[k] \in kept
      BY <1>10, <2>2
    <3> QED BY ONLY <3>1, <3>2, <3>3, PlaceCounted
  <2> QED BY <1>4, <1>9, <2>2, <2>3 DEF upto, Upto
<1>13. kept = {} <=> list = <<>>
  <2>1. kept = {} <=> Cardinality(kept) = 0
    BY <1>10, FS_EmptySet
  <2>2. list = <<>> <=> Len(list) = 0
    BY <1>10, EmptySeq
  <2> QED BY <1>10, <2>1, <2>2
<1>14. NodeOK(n, list, count, list # <<>>)
  <2>1. Len(list) <= MaxHandlers
    BY <1>4, <1>10, <1>11
  <2>2. count \in Nat /\ count <= Len(list)
    BY <1>9, <1>10, <1>11
  <2> QED BY <1>10, <1>12, <2>1, <2>2 DEF NodeOK
<1>15. listening' = IF list # <<>> THEN listening \cup {n} ELSE listening \ {n}
  <2>1. old = <<>> => kept = {}
    <3>1. old = <<>> => 1..Len(old) = {}
      BY <1>4
    <3> QED BY <1>5, <3>1
  <2>2. kept # {} => n \in listening
    BY <1>4, <2>1
  <2>3. n \in listening => listening \cup {n} = listening
    OBVIOUS
  <2> QED BY <1>2, <1>13, <2>2, <2>3
<1>16. (list # <<>>) \in BOOLEAN
  OBVIOUS
<1> QED BY <1>2, <1>14, <1>15, <1>16, NodeChanged

(* The hq of a node goes outwards, and has for every element what is    *)
(* delegated to it, for the node what is bound to it.                      *)
LEMMA QueueIs ==
  ASSUME HandlersTyped, NEW n \in Nodes
  PROVE  /\ HandlerQueue(n) \in Seq(Groups)
         /\ \A i \in DOMAIN HandlerQueue(n) :
              /\ HandlerQueue(n)[i].matches # <<>> /\ HandlerQueue(n)[i].elem \in 1..n
              /\ \A k \in DOMAIN HandlerQueue(n)[i].matches :
                   HandlerQueue(n)[i].elem = IF HandlerQueue(n)[i].matches[k].selector = Direct THEN n
                                             ELSE HandlerQueue(n)[i].matches[k].selector
         /\ \A i, j \in DOMAIN HandlerQueue(n) : i < j => HandlerQueue(n)[i].elem < HandlerQueue(n)[j].elem
<1> USE EventAssumption
<1> DEFINE old == handlers[n]
           d == delegateCount[n]
           delegates(elem) == {i \in DOMAIN old : i <= d /\ old[i].selector = elem}
           own == {i \in DOMAIN old : i > d}
           places(elem) == IF elem < n THEN delegates(elem) ELSE own
           all == [elem \in 1..n |-> [elem |-> elem, matches |-> Those(old, places(elem))]]
           run1 == {elem \in 1..n : all[elem].matches # <<>>}
           hq == Those(all, run1)
<1>1. HandlerQueue(n) = hq
  BY DEF HandlerQueue
<1>2. NodeOK(n, old, d, n \in listening)
  BY NodesAre
<1>3. /\ old \in Seq(Objs) /\ Len(old) \in Nat /\ DOMAIN old = 1..Len(old) /\ d \in Nat
      /\ \A i \in 1..Len(old) : old[i].selector # Direct <=> i <= d
  BY <1>2, LenProperties DEF NodeOK
<1>4. n \in 1..Path /\ n \in Nat /\ 1..n \subseteq 0..Path
  BY DEF Nodes
<1>5. ASSUME NEW elem \in 1..n
      PROVE  places(elem) \subseteq DOMAIN old
  OBVIOUS
<1> HIDE DEF old, d, delegates, own
<1>6. ASSUME NEW elem \in 1..n
      PROVE  /\ Those(old, places(elem)) \in Seq(Objs)
             /\ \A k \in DOMAIN Those(old, places(elem)) :
                  elem = IF Those(old, places(elem))[k].selector = Direct THEN n
                         ELSE Those(old, places(elem))[k].selector
  <2> DEFINE here == places(elem)
             r == Those(old, here)
  <2>0. here \subseteq DOMAIN old
    BY <1>5
  <2> HIDE DEF here
  <2>1. /\ Those(old, here) \in Seq(Objs) /\ DOMAIN Those(old, here) = 1..Cardinality(here)
        /\ \E at : Listed(Those(old, here), old, here, at)
    BY ONLY <1>3, <2>0, ThoseIs
  <2>2. ASSUME NEW k \in DOMAIN r PROVE elem = IF r[k].selector = Direct THEN n ELSE r[k].selector
    <3>1. PICK at : Listed(r, old, here, at)
      BY <2>1
    <3>2. at[k] \in here /\ r[k] = old[at[k]] /\ at[k] \in 1..Len(old)
      BY <1>3, <2>0, <2>1, <3>1 DEF Listed
    <3>3. CASE elem < n
      <4>1. at[k] <= d /\ old[at[k]].selector = elem
        BY <3>2, <3>3 DEF here, delegates
      <4> QED BY <1>3, <3>2, <4>1
    <3>4. CASE ~(elem < n)
      <4>1. at[k] > d /\ elem = n
        BY <1>4, <3>2, <3>4 DEF here, own
      <4>2. ~(at[k] <= d)
        BY <1>3, <3>2, <4>1
      <4> QED BY <1>3, <3>2, <4>1, <4>2
    <3> QED BY <3>3, <3>4
  <2> HIDE DEF r
  <2> QED BY <2>1, <2>2 DEF here, r
<1> HIDE DEF places
<1>7. all \in Seq(Groups) /\ DOMAIN all = 1..n
  <2>1. ASSUME NEW elem \in 1..n PROVE all[elem] \in Groups
    <3>1. elem \in Nodes
      BY <1>4 DEF Nodes
    <3>2. Those(old, places(elem)) \in Seq(Objs)
      BY <1>6
    <3> QED BY <3>1, <3>2 DEF Groups
  <2>2. all \in [1..n -> Groups]
    BY <2>1
  <2> QED BY <1>4, <2>2, SeqDef
<1>8. \A elem \in 1..n : all[elem].elem = elem /\ all[elem].matches = Those(old, places(elem))
  OBVIOUS
<1> HIDE DEF all
<1>9. /\ hq \in Seq(Groups) /\ DOMAIN hq = 1..Cardinality(run1) /\ run1 \subseteq 1..n
      /\ Cardinality(run1) \in Nat
      /\ \E at : Listed(hq, all, run1, at)
  <2>1. run1 \subseteq DOMAIN all /\ run1 \subseteq 1..n
    BY <1>7
  <2>2. hq = Those(all, run1)
    OBVIOUS
  <2> HIDE DEF hq, run1
  <2> QED BY ONLY <1>7, <2>1, <2>2, ThoseIs
<1>10. PICK at : Listed(hq, all, run1, at)
  BY <1>9
<1>11. ASSUME NEW i \in DOMAIN hq
       PROVE  at[i] \in run1 /\ at[i] \in 1..n /\ hq[i] = all[at[i]]
  <2> HIDE DEF hq, run1
  <2> QED BY <1>9, <1>10 DEF Listed
<1>12. ASSUME NEW i \in DOMAIN hq
       PROVE  /\ hq[i].matches # <<>> /\ hq[i].elem \in 1..n
              /\ \A k \in DOMAIN hq[i].matches :
                   hq[i].elem = IF hq[i].matches[k].selector = Direct THEN n
                                   ELSE hq[i].matches[k].selector
  <2>1. at[i] \in run1 /\ at[i] \in 1..n /\ hq[i] = all[at[i]]
    BY <1>11
  <2>2. all[at[i]].matches # <<>>
    BY <2>1
  <2> HIDE DEF hq, run1
  <2>3. hq[i].elem = at[i] /\ hq[i].matches = Those(old, places(at[i]))
    BY <1>8, <2>1
  <2>4. \A k \in DOMAIN Those(old, places(at[i])) :
          at[i] = IF Those(old, places(at[i]))[k].selector = Direct THEN n
                         ELSE Those(old, places(at[i]))[k].selector
    BY <1>6, <2>1
  <2> QED BY <2>1, <2>2, <2>3, <2>4
<1>13. ASSUME NEW i \in DOMAIN hq, NEW j \in DOMAIN hq, i < j
       PROVE  hq[i].elem < hq[j].elem
  <2> HIDE DEF hq, run1
  <2>1. at[i] < at[j]
    BY <1>9, <1>10, <1>13 DEF Listed
  <2>2. hq[i].elem = at[i] /\ hq[j].elem = at[j]
    BY <1>8, <1>11
  <2> QED BY <2>1, <2>2
<1> HIDE DEF hq
<1> QED BY <1>1, <1>9, <1>12, <1>13

LEMMA DispatchKeepsEvents ==
  ASSUME EventsOK, Dispatch
  PROVE  EventsOK'
<1> USE EventAssumption
<1>1. PICK n \in listening : n > node /\ node' = n /\ groups' = HandlerQueue(n)
  BY DEF Dispatch
<1>2. UNCHANGED <<handlers, delegateCount, listening, stopped, run>> /\ stopped = "no"
  BY DEF Dispatch
<1>3. HandlersTyped /\ n \in Nodes /\ n \in 1..Path
  BY DEF EventsOK, HandlersTyped, Nodes
<1>4. HandlersTyped'
  BY <1>2, <1>3 DEF HandlersTyped, DelegatesInFront
<1>5. GroupsFollow'
  <2> DEFINE hq == HandlerQueue(n)
  <2>1. /\ hq \in Seq(Groups)
        /\ \A i \in DOMAIN hq :
              /\ hq[i].matches # <<>> /\ hq[i].elem \in 1..n
              /\ \A k \in DOMAIN hq[i].matches :
                   hq[i].elem = IF hq[i].matches[k].selector = Direct THEN n
                                   ELSE hq[i].matches[k].selector
        /\ \A i, j \in DOMAIN hq : i < j => hq[i].elem < hq[j].elem
    BY <1>3, QueueIs
  <2>2. groups' = hq /\ node' = n
    BY <1>1
  <2>3. \A e \in 1..n : e <= n
    BY <1>3
  <2>4. n \in 0..Path /\ n # 0
    BY <1>3
  <2> HIDE DEF hq
  <2> QED BY <2>1, <2>2, <2>3, <2>4 DEF GroupsFollow
<1>6. RunFollows'
  <2>1. RunFollows /\ node \in 0..Path
    BY DEF EventsOK, GroupsFollow
  <2>2. run.at \in Int /\ run.at <= node
    BY <2>1 DEF RunFollows
  <2>3. run.at <= n /\ run.at # n
    BY <1>1, <1>3, <2>1, <2>2
  <2>4. run' = run /\ node' = n /\ stopped' = "no"
    BY <1>1, <1>2
  <2> QED BY <2>1, <2>3, <2>4 DEF RunFollows, RunsWhereItMatches
<1> QED BY <1>4, <1>5, <1>6 DEF EventsOK

LEMMA EndKeepsEvents ==
  ASSUME EventsOK, EventEnds
  PROVE  EventsOK'
<1> USE EventAssumption
<1>1. /\ groups = <<>> /\ node' = 0 /\ stopped' = "no" /\ run' = NothingRun
      /\ UNCHANGED <<handlers, delegateCount, listening, groups>>
  BY DEF EventEnds
<1>2. HandlersTyped'
  BY <1>1 DEF EventsOK, HandlersTyped, DelegatesInFront
<1>3. groups' = <<>> /\ DOMAIN groups' = {} /\ <<>> \in Seq(Groups)
  BY <1>1
<1>4. GroupsFollow'
  <2>1. 0 \in 0..Path
    OBVIOUS
  <2> QED BY <1>1, <1>3, <2>1 DEF GroupsFollow
<1>5. RunFollows'
  <2>1. NothingRun \in [handleObj : Objs, elem : 0..Path, at : 0..Path] /\ NothingRun.at = 0
    BY DEF NothingRun, Objs, Direct, Namespaces
  <2> QED BY <1>1, <1>3, <2>1 DEF RunFollows, RunsWhereItMatches
<1> QED BY <1>2, <1>4, <1>5 DEF EventsOK

LEMMA ChangeKeepsEvents ==
  ASSUME EventsOK, Change
  PROVE  EventsOK' /\ UNCHANGED <<node, groups, stopped, run>>
<1>1. HandlersTyped' /\ UNCHANGED <<node, groups, stopped, run>>
  <2>1. PICK n \in Nodes : \/ \E obj \in HandleObjs(n) : EventAdd(n, obj)
                           \/ \E namespace \in Namespaces, selector \in {"**", ""} :
                                EventRemove(n, namespace, selector)
    BY DEF Change
  <2>2. CASE \E obj \in HandleObjs(n) : EventAdd(n, obj)
    <3>1. PICK obj \in HandleObjs(n) : EventAdd(n, obj)
      BY <2>2
    <3>2. UNCHANGED <<node, groups, stopped, run>>
      BY <3>1 DEF EventAdd
    <3> QED BY <3>1, <3>2, AddKeepsHandlers DEF EventsOK
  <2>3. CASE \E namespace \in Namespaces, selector \in {"**", ""} : EventRemove(n, namespace, selector)
    <3>1. PICK namespace \in Namespaces, selector \in {"**", ""} : EventRemove(n, namespace, selector)
      BY <2>3
    <3>2. UNCHANGED <<node, groups, stopped, run>>
      BY <3>1 DEF EventRemove
    <3> QED BY <3>1, <3>2, RemoveKeepsHandlers DEF EventsOK
  <2> QED BY <2>1, <2>2, <2>3
<1> QED BY <1>1 DEF EventsOK, GroupsFollow, RunFollows, RunsWhereItMatches

(* What is left to run when a handler of the first group has run.          *)
LEMMA LeftIs ==
  ASSUME GroupsFollow, groups # <<>>, NEW how \in {"no", "propagation", "immediate"}
  PROVE  /\ Left(how) \in Seq(Groups)
         /\ \A i \in DOMAIN Left(how) :
              /\ Left(how)[i].matches # <<>>
              /\ Left(how)[i].elem <= node /\ Left(how)[i].elem >= Head(groups).elem
              /\ \A k \in DOMAIN Left(how)[i].matches :
                   Left(how)[i].elem = IF Left(how)[i].matches[k].selector = Direct THEN node
                                       ELSE Left(how)[i].matches[k].selector
              /\ how # "no" => Left(how)[i].elem = Head(groups).elem
         /\ \A i, j \in DOMAIN Left(how) : i < j => Left(how)[i].elem < Left(how)[j].elem
         /\ how = "immediate" => Left(how) = <<>>
<1> USE EventAssumption
<1> DEFINE g == Head(groups)
           rest == Tail(groups)
           g2 == [g EXCEPT !.matches = Tail(@)]
           OK(x) == /\ x \in Groups /\ x.matches # <<>> /\ x.elem <= node /\ x.elem >= g.elem
                    /\ \A k \in DOMAIN x.matches :
                         x.elem = IF x.matches[k].selector = Direct THEN node ELSE x.matches[k].selector
           goesOn == Len(g.matches) > 1 /\ how # "immediate"
           left == Left(how)
<1>1. /\ groups \in Seq(Groups) /\ Len(groups) \in Nat /\ DOMAIN groups = 1..Len(groups)
      /\ 1 \in DOMAIN groups /\ g = groups[1] /\ g \in Groups /\ rest \in Seq(Groups)
      /\ Len(rest) = Len(groups) - 1 /\ DOMAIN rest = 1..Len(groups) - 1
      /\ \A i \in 1..Len(groups) - 1 : rest[i] = groups[i + 1]
  <2>1. groups \in Seq(Groups)
    BY DEF GroupsFollow
  <2>2. Len(groups) \in Nat \ {0} /\ DOMAIN groups = 1..Len(groups)
    BY <2>1, EmptySeq, LenProperties
  <2>3. /\ rest \in Seq(Groups) /\ Len(rest) = Len(groups) - 1
        /\ \A i \in 1..Len(rest) : rest[i] = groups[i + 1]
    BY <2>1, HeadTailProperties
  <2>4. DOMAIN rest = 1..Len(groups) - 1
    BY <2>3, LenProperties
  <2>5. g = groups[1] /\ 1 \in DOMAIN groups
    BY <2>1, <2>2
  <2> QED BY <2>1, <2>2, <2>3, <2>4, <2>5, ElementOfSeq
<1>2. node \in Int /\ \A x \in Groups : x.elem \in Int /\ x.matches \in Seq(Objs)
  BY DEF GroupsFollow, Groups, Nodes
<1>3. /\ \A i \in DOMAIN groups :
           /\ groups[i].matches # <<>> /\ groups[i].elem <= node
           /\ \A k \in DOMAIN groups[i].matches :
                groups[i].elem = IF groups[i].matches[k].selector = Direct THEN node
                                 ELSE groups[i].matches[k].selector
      /\ \A i, j \in DOMAIN groups : i < j => groups[i].elem < groups[j].elem
  BY DEF GroupsFollow
<1> HIDE DEF g, rest
<1>4. ASSUME NEW i \in DOMAIN groups PROVE OK(groups[i]) /\ (i > 1 => groups[i].elem > g.elem)
  <2>1. groups[i] \in Groups
    BY <1>1, ElementOfSeq
  <2>2. i = 1 \/ (1 < i /\ groups[1].elem < groups[i].elem)
    BY <1>1, <1>3
  <2> QED BY <1>1, <1>2, <1>3, <2>1, <2>2
<1>5. ASSUME Len(g.matches) > 1
      PROVE  OK(g2) /\ g2.elem = g.elem
  <2> DEFINE m == g.matches
  <2>1. m \in Seq(Objs) /\ Len(m) \in Nat /\ DOMAIN m = 1..Len(m)
    BY <1>1, <1>2, LenProperties
  <2>2. m # <<>>
    BY <1>5, <2>1, EmptySeq
  <2>3. /\ Tail(m) \in Seq(Objs) /\ Len(Tail(m)) = Len(m) - 1
        /\ \A k \in 1..Len(Tail(m)) : Tail(m)[k] = m[k + 1]
    BY <2>1, <2>2, HeadTailProperties
  <2>4. DOMAIN Tail(m) = 1..Len(m) - 1 /\ Tail(m) # <<>>
    <3>1. DOMAIN Tail(m) = 1..Len(Tail(m))
      BY <2>3, LenProperties
    <3>2. Len(m) > 1
      BY <1>5
    <3>3. Len(Tail(m)) # 0
      <4> HIDE DEF m
      <4> QED BY <2>1, <2>3, <3>2
    <3> HIDE DEF m
    <3> QED BY <2>3, <3>1, <3>3, EmptySeq
  <2>5. DOMAIN g = {"elem", "matches"} /\ g.elem \in Nodes
    BY <1>1 DEF Groups
  <2>6. g2 = [elem |-> g.elem, matches |-> Tail(m)]
    <3>1. g = [elem |-> g.elem, matches |-> g.matches]
      BY <1>1 DEF Groups
    <3>2. \A a, b, c : [[elem |-> a, matches |-> b] EXCEPT !.matches = c] = [elem |-> a, matches |-> c]
      OBVIOUS
    <3>3. g2 = [g EXCEPT !.matches = Tail(m)]
      OBVIOUS
    <3> HIDE DEF g2, m
    <3> QED BY <3>1, <3>2, <3>3
  <2>7. OK(g)
    BY <1>1, <1>4
  <2>8. \A k \in 1..Len(m) - 1 : k + 1 \in 1..Len(m)
    BY <2>1
  <2>9. g2.elem = g.elem /\ g2.matches = Tail(m) /\ g2 \in Groups
    BY <2>3, <2>5, <2>6 DEF Groups
  <2> HIDE DEF g2
  <2>10. \A k \in DOMAIN Tail(m) :
           g.elem = IF Tail(m)[k].selector = Direct THEN node ELSE Tail(m)[k].selector
    BY <2>1, <2>3, <2>4, <2>7, <2>8
  <2> HIDE DEF m
  <2> QED BY <2>4, <2>7, <2>9, <2>10
<1>6. left = (IF goesOn THEN <<g2>> ELSE <<>>) \o (IF how = "no" THEN rest ELSE <<>>)
  BY DEF Left, g, rest
<1>7. <<>> \in Seq(Groups) /\ Len(<<>>) = 0
  BY EmptySeq
<1>8. ASSUME NEW s \in Seq(Groups) PROVE <<>> \o s = s /\ s \o <<>> = s
  BY <1>8, ConcatEmptySeq
<1> HIDE DEF g2, left
<1>9. CASE ~goesOn /\ how # "no"
  <2>1. left = <<>> /\ DOMAIN left = {}
    BY <1>6, <1>7, <1>8, <1>9
  <2> QED BY <1>7, <1>9, <2>1 DEF left
<1>10. CASE goesOn /\ how # "no"
  <2>1. left = <<g2>> /\ OK(g2) /\ g2.elem = g.elem /\ how # "immediate"
    <3>1. OK(g2) /\ g2.elem = g.elem
      BY <1>5, <1>10
    <3>2. <<g2>> \in Seq(Groups)
      BY <3>1
    <3> QED BY <1>6, <1>8, <1>10, <3>1, <3>2
  <2>2. left \in Seq(Groups) /\ DOMAIN left = {1} /\ left[1] = g2
    BY <2>1
  <2>3. \A i \in DOMAIN left : left[i] = g2 /\ i = 1
    BY <2>2
  <2> HIDE DEF OK
  <2>4. \A i \in DOMAIN left : OK(left[i]) /\ left[i].elem = g.elem
    BY <2>1, <2>3
  <2>5. \A i, j \in DOMAIN left : ~(i < j)
    BY <2>2
  <2> QED BY <2>1, <2>2, <2>4, <2>5 DEF OK, left, g
<1>11. CASE ~goesOn /\ how = "no"
  <2>1. left = rest
    BY <1>1, <1>6, <1>8, <1>11
  <2>2. \A i \in DOMAIN rest : i + 1 \in DOMAIN groups /\ rest[i] = groups[i + 1]
    BY <1>1
  <2> HIDE DEF OK
  <2>3. \A i \in DOMAIN rest : OK(rest[i])
    BY <1>4, <2>2
  <2>4. \A i, j \in DOMAIN rest : i < j => rest[i].elem < rest[j].elem
    <3> SUFFICES ASSUME NEW i \in DOMAIN rest, NEW j \in DOMAIN rest, i < j
                 PROVE  rest[i].elem < rest[j].elem
      OBVIOUS
    <3>1. i + 1 < j + 1
      BY <1>1
    <3> QED BY <1>3, <2>2, <3>1
  <2> QED BY <1>1, <1>11, <2>1, <2>3, <2>4, SMTT(30) DEF OK, left, g
<1>12. CASE goesOn /\ how = "no"
  <2>1. left = <<g2>> \o rest /\ OK(g2) /\ g2.elem = g.elem
    BY <1>5, <1>6, <1>12
  <2>2. <<g2>> \in Seq(Groups) /\ Len(<<g2>>) = 1 /\ <<g2>>[1] = g2
    BY <2>1
  <2>3. left \in Seq(Groups) /\ Len(left) = Len(groups) /\ DOMAIN left = 1..Len(groups)
    <3>1. left \in Seq(Groups) /\ Len(left) = Len(<<g2>>) + Len(rest)
      BY <1>1, <2>1, <2>2, ConcatProperties
    <3>2. Len(left) = Len(groups)
      BY <1>1, <2>2, <3>1
    <3> QED BY <3>1, <3>2, LenProperties
  <2>4. left[1] = g2
    <3>1. 1 \in 1..Len(<<g2>>) + Len(rest) /\ 1 <= Len(<<g2>>)
      BY <1>1, <2>2
    <3>2. left[1] = <<g2>>[1]
      BY <1>1, <2>1, <2>2, <3>1, ConcatProperties
    <3> QED BY <2>2, <3>2
  <2>5. ASSUME NEW i \in 2..Len(groups) PROVE left[i] = groups[i]
    <3>1. i \in 1..Len(<<g2>>) + Len(rest) /\ ~(i <= Len(<<g2>>)) /\ i - Len(<<g2>>) = i - 1
          /\ i - 1 \in 1..Len(groups) - 1 /\ (i - 1) + 1 = i
      BY <1>1, <2>2
    <3>2. left[i] = rest[i - Len(<<g2>>)]
      BY <1>1, <2>1, <2>2, <3>1, ConcatProperties
    <3>3. rest[i - 1] = groups[(i - 1) + 1]
      BY <1>1, <3>1
    <3> QED BY <3>1, <3>2, <3>3
  <2>6. \A i \in DOMAIN left : \/ i = 1 /\ left[i] = g2
                               \/ i > 1 /\ i \in DOMAIN groups /\ left[i] = groups[i]
    <3>1. \A i \in 1..Len(groups) : i = 1 \/ (i > 1 /\ i \in 2..Len(groups))
      BY <1>1
    <3>2. ASSUME NEW i \in DOMAIN left
          PROVE  \/ i = 1 /\ left[i] = g2
                 \/ i > 1 /\ i \in DOMAIN groups /\ left[i] = groups[i]
      <4>1. i \in 1..Len(groups)
        BY <2>3
      <4>2. i = 1 \/ (i > 1 /\ i \in 2..Len(groups))
        BY <3>1, <4>1
      <4> QED BY <1>1, <2>4, <2>5, <4>1, <4>2
    <3> QED BY <3>2
  <2> HIDE DEF OK
  <2>7. \A i \in DOMAIN left : OK(left[i])
    BY <1>4, <2>1, <2>6
  <2>8. \A i, j \in DOMAIN left : i < j => left[i].elem < left[j].elem
    <3> SUFFICES ASSUME NEW i \in DOMAIN left, NEW j \in DOMAIN left, i < j
                 PROVE  left[i].elem < left[j].elem
      OBVIOUS
    <3>1. j > 1 /\ j \in DOMAIN groups /\ left[j] = groups[j]
      BY <1>1, <2>3, <2>6
    <3>2. CASE i = 1
      <4>1. groups[j].elem > g.elem
        BY <1>4, <3>1
      <4>2. groups[j].elem \in Int /\ g.elem \in Int
        BY <1>1, <1>2, <3>1, ElementOfSeq
      <4> QED BY <2>1, <2>4, <3>1, <3>2, <4>1, <4>2
    <3>3. CASE i # 1
      BY <1>3, <2>6, <3>1, <3>3
    <3> QED BY <3>2, <3>3
  <2> QED BY <1>12, <2>3, <2>7, <2>8 DEF OK, left, g
<1> QED BY <1>9, <1>10, <1>11, <1>12

LEMMA RunKeepsEvents ==
  ASSUME EventsOK, RunHandler
  PROVE  /\ EventsOK'
         /\ run'.at = node
         /\ run.at = node => /\ run'.elem >= run.elem
                             /\ stopped # "no" => run'.elem = run.elem
                             /\ stopped # "immediate"
<1> USE EventAssumption
<1> DEFINE g == Head(groups)
<1>1. /\ groups # <<>> /\ stopped' \in {"no", "propagation", "immediate"}
      /\ stopped # "no" => stopped' # "no"
      /\ groups' = Left(stopped')
      /\ run' = [handleObj |-> Head(g.matches), elem |-> g.elem, at |-> node]
      /\ UNCHANGED <<handlers, delegateCount, listening, node>>
  BY DEF RunHandler, EventsOK, RunFollows
<1>2. HandlersTyped'
  BY <1>1 DEF EventsOK, HandlersTyped, DelegatesInFront
<1>3. /\ GroupsFollow /\ RunFollows /\ node # 0 /\ node \in 0..Path
      /\ groups \in Seq(Groups) /\ 1 \in DOMAIN groups /\ g = groups[1] /\ g \in Groups
  <2>1. GroupsFollow /\ RunFollows
    BY DEF EventsOK
  <2>2. node # 0 /\ node \in 0..Path /\ groups \in Seq(Groups)
    BY <1>1, <2>1 DEF GroupsFollow
  <2>3. Len(groups) \in Nat \ {0} /\ DOMAIN groups = 1..Len(groups)
    BY <1>1, <2>2, EmptySeq, LenProperties
  <2>4. 1 \in 1..Len(groups)
    BY <2>3
  <2> QED BY <2>1, <2>2, <2>3, <2>4, ElementOfSeq
<1>4. /\ g.matches \in Seq(Objs) /\ 1 \in DOMAIN g.matches /\ Head(g.matches) = g.matches[1]
      /\ g.elem \in Nodes /\ g.elem <= node /\ Head(g.matches) \in Objs
      /\ g.elem = IF Head(g.matches).selector = Direct THEN node ELSE Head(g.matches).selector
  <2>1. g.matches \in Seq(Objs) /\ g.matches # <<>> /\ g.elem \in Nodes /\ g.elem <= node
    BY <1>3 DEF Groups, GroupsFollow
  <2>2. Len(g.matches) \in Nat \ {0} /\ DOMAIN g.matches = 1..Len(g.matches)
    BY <2>1, EmptySeq, LenProperties
  <2>3. 1 \in 1..Len(g.matches) /\ Head(g.matches) = g.matches[1]
    BY <2>1, <2>2
  <2>4. g.elem = IF g.matches[1].selector = Direct THEN node ELSE g.matches[1].selector
    BY <1>3, <2>2, <2>3 DEF GroupsFollow
  <2>5. Head(g.matches) \in Objs
    BY <2>1, <2>3, ElementOfSeq
  <2> QED BY <2>1, <2>2, <2>3, <2>4, <2>5
<1> HIDE DEF g
<1> DEFINE left == Left(stopped')
<1>5. /\ left \in Seq(Groups)
      /\ \A i \in DOMAIN left :
              /\ left[i].matches # <<>>
              /\ left[i].elem <= node /\ left[i].elem >= g.elem
              /\ \A k \in DOMAIN left[i].matches :
                   left[i].elem = IF left[i].matches[k].selector = Direct THEN node
                                  ELSE left[i].matches[k].selector
              /\ stopped' # "no" => left[i].elem = g.elem
      /\ \A i, j \in DOMAIN left : i < j => left[i].elem < left[j].elem
      /\ stopped' = "immediate" => left = <<>>
  BY <1>1, <1>3, LeftIs DEF g
<1>6. groups' = left /\ node' = node
  BY <1>1
<1> HIDE DEF left
<1>7. GroupsFollow'
  BY <1>3, <1>5, <1>6 DEF GroupsFollow
<1>8. run'.at = node /\ run'.elem = g.elem /\ run'.handleObj = Head(g.matches)
  BY <1>1
<1>9. RunFollows'
  <2>1. g.elem \in 0..Path /\ g.elem \in Int /\ \A i \in DOMAIN left : left[i].elem \in Int
    <3>1. \A i \in DOMAIN left : left[i] \in Groups
      BY <1>5, LenProperties, ElementOfSeq
    <3> QED BY <1>4, <3>1 DEF Nodes, Groups
  <2>2. run' \in [handleObj : Objs, elem : 0..Path, at : 0..Path]
    BY <1>1, <1>3, <1>4, <2>1
  <2>3. RunsWhereItMatches'
    BY <1>4, <1>8 DEF RunsWhereItMatches
  <2>4. node <= node /\ \A i \in DOMAIN left : g.elem <= left[i].elem
    BY <1>3, <1>5, <2>1
  <2>5. stopped' # "no" => \A i \in DOMAIN left : left[i].elem = g.elem
    BY <1>5
  <2> QED BY <1>1, <1>3, <1>5, <1>6, <1>8, <2>2, <2>3, <2>4, <2>5 DEF RunFollows
<1>10. ASSUME run.at = node
       PROVE  /\ run'.elem >= run.elem
              /\ stopped # "no" => run'.elem = run.elem
              /\ stopped # "immediate"
  <2>1. run.elem <= g.elem /\ run.elem \in Int /\ g.elem \in Int
    BY <1>3, <1>4, <1>10 DEF RunFollows, Nodes
  <2>2. stopped # "no" => g.elem = run.elem
    BY <1>3 DEF RunFollows
  <2>3. stopped # "immediate"
    BY <1>1, <1>3 DEF RunFollows
  <2> QED BY <1>8, <2>1, <2>2, <2>3
<1> QED BY <1>2, <1>7, <1>8, <1>9, <1>10 DEF EventsOK

-------------------------------------------------------------------------------
(* The handlers of events: the invariant *)

LEMMA EventInitOK == EventInit => EventsOK
<1> SUFFICES ASSUME EventInit PROVE EventsOK
  OBVIOUS
<1> USE EventAssumption
<1>1. HandlersTyped
  <2>1. \A n \in Nodes : handlers[n] = <<>> /\ delegateCount[n] = 0
    BY DEF EventInit
  <2>2. <<>> \in Seq(Objs) /\ Len(<<>>) = 0 /\ DOMAIN <<>> = {}
    OBVIOUS
  <2>3. handlers \in [Nodes -> Seq(Objs)] /\ delegateCount \in [Nodes -> Nat] /\ listening = {}
    BY <2>2 DEF EventInit
  <2> QED BY <2>1, <2>2, <2>3 DEF HandlersTyped, DelegatesInFront
<1>2. GroupsFollow
  <2>1. groups = <<>> /\ DOMAIN groups = {} /\ node = 0 /\ groups \in Seq(Groups)
    BY DEF EventInit
  <2> QED BY <2>1 DEF GroupsFollow
<1>3. RunFollows
  <2>1. groups = <<>> /\ DOMAIN groups = {} /\ node = 0 /\ stopped = "no" /\ run = NothingRun
    BY DEF EventInit
  <2>2. NothingRun \in [handleObj : Objs, elem : 0..Path, at : 0..Path] /\ NothingRun.at = 0
    BY DEF NothingRun, Objs, Direct, Namespaces
  <2> QED BY <2>1, <2>2 DEF RunFollows, RunsWhereItMatches
<1> QED BY <1>1, <1>2, <1>3 DEF EventsOK

LEMMA EventNextOK == EventsOK /\ [EventNext]_eventVars => EventsOK'
<1> SUFFICES ASSUME EventsOK, [EventNext]_eventVars PROVE EventsOK'
  OBVIOUS
<1>1. CASE UNCHANGED eventVars
  BY <1>1 DEF eventVars, EventsOK, HandlersTyped, DelegatesInFront, GroupsFollow, RunFollows, RunsWhereItMatches
<1> QED BY <1>1, ChangeKeepsEvents, DispatchKeepsEvents, RunKeepsEvents, EndKeepsEvents DEF EventNext

(* What the runs check of the handlers follows. *)
LEMMA EventsHandled == EventsOK => HandlersCorrect
<1> SUFFICES ASSUME EventsOK PROVE HandlersCorrect
  OBVIOUS
<1> USE EventAssumption
<1>1. ASSUME NEW n \in Nodes
      PROVE  /\ Range(handlers[n]) \subseteq HandleObjs(n) /\ Len(handlers[n]) <= MaxHandlers
             /\ delegateCount[n] \in 0..MaxHandlers
  <2>1. /\ handlers[n] \in Seq(Objs) /\ Len(handlers[n]) <= MaxHandlers
        /\ \A i \in DOMAIN handlers[n] : handlers[n][i].selector < n
        /\ delegateCount[n] \in Nat /\ delegateCount[n] <= Len(handlers[n])
    BY DEF EventsOK, HandlersTyped
  <2>2. Len(handlers[n]) \in Nat /\ DOMAIN handlers[n] = 1..Len(handlers[n])
    BY <2>1, LenProperties
  <2>3. ASSUME NEW i \in DOMAIN handlers[n] PROVE handlers[n][i] \in HandleObjs(n)
    <3>1. handlers[n][i] \in Objs /\ handlers[n][i].selector < n
      BY <2>1, <2>2, ElementOfSeq
    <3>2. handlers[n][i].selector \in 0..n - 1
      BY <3>1 DEF Objs, Nodes
    <3> QED BY <3>1, <3>2 DEF Objs, HandleObjs
  <2>4. delegateCount[n] \in 0..MaxHandlers
    BY <2>1, <2>2
  <2> QED BY <2>1, <2>3, <2>4 DEF Range
<1> QED BY <1>1 DEF HandlersCorrect, EventTypeOK, EventsOK, HandlersTyped, GroupsFollow, RunFollows

LEMMA EventsGoOutwards ==
  ASSUME EventsOK, [EventNext]_eventVars,
         run' # run, run'.at = run.at, run.at # 0, node # 0
  PROVE  /\ run'.elem >= run.elem
         /\ stopped = "propagation" => run'.elem = run.elem
         /\ stopped # "immediate"
<1>1. CASE RunHandler
  BY <1>1, RunKeepsEvents
<1>2. CASE EventEnds
  <2>1. run'.at = 0
    BY <1>2 DEF EventEnds, NothingRun
  <2> QED BY <2>1
<1>3. CASE Change
  BY <1>3, ChangeKeepsEvents
<1> QED BY <1>1, <1>2, <1>3 DEF EventNext, Dispatch, eventVars

-------------------------------------------------------------------------------
(* Callback lists *)

(* The lists of callbacks of a set. *)
ListRec(F) ==
  [options : SUBSET {"once", "memory", "stopOnFalse"}, on : BOOLEAN, list : Seq(F),
   memory : Nat, data : Nat, fired : BOOLEAN, firing : BOOLEAN, start : Nat,
   length : Nat, index : Nat, stacked : BOOLEAN, stack : Seq(Nat)]

(* Between two calls: what is disabled is empty, the length is that of the *)
(* list while it is fired, a memory is that of the last data, and the data *)
(* that wait are those of later calls, in order.                           *)
ListOK(F, l) ==
  /\ l \in ListRec(F) /\ l.start = 0
  /\ IsInjective(l.list)
  /\ ~l.on => l.list = <<>> /\ l.memory = None
  /\ l.on /\ l.firing => l.length = Len(l.list)
  /\ l.memory # None => l.memory = l.data
  /\ "once" \in l.options => ~l.stacked
  /\ ~l.stacked \/ ~l.firing => l.stack = <<>>
  /\ l.firing => l.fired
  /\ ~l.on => ~l.stacked
  /\ \A i \in DOMAIN l.stack : l.stack[i] > l.data
  /\ \A i, j \in DOMAIN l.stack : i < j => l.stack[i] < l.stack[j]

(* The list in use: its indexes, where fire() is, the numbers of the calls. *)
Rounds ==
  /\ fires \in 0..MaxFires
  /\ cbList.data <= fires
  /\ Len(cbList.stack) <= fires
  /\ \A i \in DOMAIN cbList.stack : cbList.stack[i] <= fires
  /\ phase \in {"idle", "loop", "inside", "ending"}
  /\ phase # "idle" => cbList.firing
  /\ phase = "loop" => cbList.index >= 1 /\ cbList.index <= cbList.length + 1
  /\ phase = "inside" => cbList.index <= cbList.length
  /\ cbList.length <= Cardinality(Funs) /\ cbList.index <= Cardinality(Funs) + 1
  /\ owed \subseteq Funs
  /\ phase = "ending" => owed = {}

(* What the steps of a list that is fired keep.                            *)
CallsOK == ListOK(Funs, cbList) /\ Rounds /\ RoundCallsEach

(* The fields of a list. *)
LEMMA FieldsAre ==
  ASSUME NEW F, NEW l \in ListRec(F)
  PROVE  /\ l.options \in SUBSET {"once", "memory", "stopOnFalse"} /\ l.on \in BOOLEAN
         /\ l.list \in Seq(F) /\ Len(l.list) \in Nat /\ DOMAIN l.list = 1..Len(l.list)
         /\ \A i \in 1..Len(l.list) : l.list[i] \in F
         /\ l.memory \in Nat /\ l.data \in Nat /\ l.fired \in BOOLEAN /\ l.firing \in BOOLEAN
         /\ l.start \in Nat /\ l.length \in Nat /\ l.index \in Nat /\ l.stacked \in BOOLEAN
         /\ l.stack \in Seq(Nat) /\ Len(l.stack) \in Nat /\ DOMAIN l.stack = 1..Len(l.stack)
<1>1. l.list \in Seq(F) /\ l.stack \in Seq(Nat)
  BY DEF ListRec
<1>2. Len(l.list) \in Nat /\ DOMAIN l.list = 1..Len(l.list) /\ \A i \in 1..Len(l.list) : l.list[i] \in F
  BY <1>1, LenProperties, ElementOfSeq
<1>3. Len(l.stack) \in Nat /\ DOMAIN l.stack = 1..Len(l.stack)
  BY <1>1, LenProperties
<1> QED BY <1>1, <1>2, <1>3 DEF ListRec

(* fire begins a round. *)
Begun(F, l, d, r) ==
  /\ r \in ListRec(F)
  /\ r.options = l.options /\ r.on = l.on /\ r.list = l.list
  /\ r.stacked = l.stacked /\ r.stack = l.stack
  /\ r.memory = IF "memory" \in l.options THEN d ELSE None
  /\ r.data = d /\ r.fired /\ r.firing
  /\ r.start = 0 /\ r.index = l.start + 1 /\ r.length = Len(l.list)

LEMMA BeginIs ==
  ASSUME NEW F, NEW l \in ListRec(F), NEW d \in Nat,
         NEW r, r = begin(l, d)
  PROVE  Begun(F, l, d, r)
<1> DEFINE m == IF "memory" \in l.options THEN d ELSE None
           n == Len(l.list)
           i == l.start + 1
<1>1. n \in Nat /\ i \in Nat /\ m \in Nat
  BY FieldsAre DEF None
<1>2. r = [l EXCEPT !.memory = m, !.data = d, !.fired = TRUE, !.firing = TRUE,
                    !.index = i, !.start = 0, !.length = n]
  BY DEF begin
<1> HIDE DEF m, n, i
<1>3. r \in ListRec(F)
  BY ONLY <1>1, <1>2, l \in ListRec(F), d \in Nat DEF ListRec
<1>4. /\ r.options = l.options /\ r.on = l.on /\ r.list = l.list
      /\ r.stacked = l.stacked /\ r.stack = l.stack
  BY <1>2 DEF ListRec
<1>5. r.memory = m /\ r.data = d /\ r.fired = TRUE /\ r.firing = TRUE /\ r.start = 0 /\ r.index = i /\ r.length = n
  BY <1>2 DEF ListRec
<1> QED BY <1>3, <1>4, <1>5 DEF m, n, i, Begun

Disabled(F, l, r) ==
  /\ r \in ListRec(F)
  /\ r.options = l.options /\ ~r.on /\ r.list = <<>> /\ r.memory = None
  /\ ~r.stacked /\ r.stack = <<>>
  /\ r.data = l.data /\ r.fired = l.fired /\ r.firing = l.firing
  /\ r.start = l.start /\ r.index = l.index /\ r.length = l.length

LEMMA DisableIs ==
  ASSUME NEW F, NEW l \in ListRec(F),
         NEW r, r = disable(l)
  PROVE  Disabled(F, l, r)
<1>1. r = [l EXCEPT !.on = FALSE, !.list = <<>>, !.stacked = FALSE, !.stack = <<>>, !.memory = 0]
  BY DEF disable, None
<1>2. <<>> \in Seq(F) /\ <<>> \in Seq(Nat)
  OBVIOUS
<1>3. r \in ListRec(F)
  BY ONLY <1>1, <1>2, l \in ListRec(F) DEF ListRec
<1>4. /\ r.options = l.options /\ r.data = l.data /\ r.fired = l.fired /\ r.firing = l.firing
      /\ r.start = l.start /\ r.index = l.index /\ r.length = l.length
  BY <1>1 DEF ListRec
<1>5. r.on = FALSE /\ r.list = <<>> /\ r.stacked = FALSE /\ r.stack = <<>> /\ r.memory = 0
  BY <1>1 DEF ListRec
<1> QED BY <1>3, <1>4, <1>5 DEF None, Disabled

(* A change of one or two fields. *)
Relisted(F, l, list, n, i, r) ==
  /\ r \in ListRec(F)
  /\ r.options = l.options /\ r.on = l.on /\ r.list = list /\ r.memory = l.memory
  /\ r.data = l.data /\ r.fired = l.fired /\ r.firing = l.firing /\ r.start = l.start
  /\ r.length = n /\ r.index = i /\ r.stacked = l.stacked /\ r.stack = l.stack

LEMMA ListedIs ==
  ASSUME NEW F, NEW l \in ListRec(F), NEW list \in Seq(F), NEW n \in Nat, NEW i \in Nat,
         NEW r, r = [l EXCEPT !.list = list, !.length = n, !.index = i]
  PROVE  Relisted(F, l, list, n, i, r)
<1>1. r \in ListRec(F)
  BY DEF ListRec
<1>2. /\ r.options = l.options /\ r.on = l.on /\ r.memory = l.memory
      /\ r.data = l.data /\ r.fired = l.fired /\ r.firing = l.firing /\ r.start = l.start
      /\ r.stacked = l.stacked /\ r.stack = l.stack
  BY DEF ListRec
<1>3. r.list = list /\ r.length = n /\ r.index = i
  BY DEF ListRec
<1> QED BY <1>1, <1>2, <1>3 DEF Relisted

-------------------------------------------------------------------------------
(* A callback more at the end of a list, and one less. *)
Longer(F, q, c, w) ==
  /\ w \in Seq(F) /\ Len(w) = Len(q) + 1 /\ IsInjective(w)
  /\ w[Len(q) + 1] = c /\ \A i \in 1..Len(q) : w[i] = q[i]

LEMMA LongerIs ==
  ASSUME NEW F, NEW q \in Seq(F), IsInjective(q), NEW c \in F, c \notin Range(q), NEW w, w = Append(q, c)
  PROVE  Longer(F, q, c, w)
<1>1. Len(q) \in Nat /\ DOMAIN q = 1..Len(q) /\ \A i \in 1..Len(q) : q[i] \in F /\ q[i] # c
  BY LenProperties, ElementOfSeq DEF Range
<1>2. /\ w \in Seq(F) /\ Len(w) = Len(q) + 1
      /\ \A i \in 1..Len(q) : w[i] = q[i]
      /\ w[Len(q) + 1] = c
  BY AppendProperties
<1>3. DOMAIN w = 1..Len(q) + 1
  BY <1>2, LenProperties
<1>4. IsInjective(w)
  <2> SUFFICES ASSUME NEW i \in 1..Len(q) + 1, NEW j \in 1..Len(q) + 1, w[i] = w[j]
               PROVE  i = j
    BY <1>3 DEF IsInjective
  <2>1. (i \in 1..Len(q) \/ i = Len(q) + 1) /\ (j \in 1..Len(q) \/ j = Len(q) + 1)
    BY <1>1
  <2>2. i \in 1..Len(q) /\ j \in 1..Len(q) => q[i] = q[j]
    BY <1>2
  <2> QED BY <1>1, <1>2, <2>1, <2>2 DEF IsInjective
<1> QED BY <1>2, <1>4 DEF Longer

LEMMA RemoveAtIs ==
  ASSUME NEW S, NEW q \in Seq(S), NEW i \in 1..Len(q), NEW w, w = RemoveAt(q, i)
  PROVE  /\ w \in Seq(S) /\ Len(w) = Len(q) - 1
         /\ \A j \in 1..Len(w) : w[j] = IF j < i THEN q[j] ELSE q[j + 1]
<1> DEFINE a == SubSeq(q, 1, i - 1)
           b == SubSeq(q, i + 1, Len(q))
<1>1. Len(q) \in Nat /\ i \in Int /\ i - 1 \in Int /\ i + 1 \in Int /\ 1 \in Int
  BY LenProperties
<1>2. \A j \in 1..Len(q) : q[j] \in S
  BY ElementOfSeq
<1>3. \A j \in 1..i - 1 : q[j] \in S
  BY <1>1, <1>2
<1>4. /\ a \in Seq(S)
      /\ Len(a) = IF 1 <= i - 1 THEN (i - 1) - 1 + 1 ELSE 0
      /\ \A j \in 1..(i - 1) - 1 + 1 : a[j] = q[1 + j - 1]
  BY <1>1, <1>3, SubSeqProperties
<1>5. \A j \in i + 1..Len(q) : q[j] \in S
  BY <1>1, <1>2
<1>6. /\ b \in Seq(S)
      /\ Len(b) = IF i + 1 <= Len(q) THEN Len(q) - (i + 1) + 1 ELSE 0
      /\ \A j \in 1..Len(q) - (i + 1) + 1 : b[j] = q[i + 1 + j - 1]
  BY <1>1, <1>5, SubSeqProperties
<1>7. w = a \o b
  BY DEF RemoveAt
<1>8. Len(a) = i - 1 /\ Len(b) = Len(q) - i
  BY <1>1, <1>4, <1>6
<1> HIDE DEF a, b
<1>20. a \in Seq(S)
  BY <1>4
<1>21. b \in Seq(S)
  BY <1>6
<1>9. /\ w \in Seq(S)
      /\ Len(w) = Len(a) + Len(b)
      /\ \A j \in 1..Len(a) + Len(b) : w[j] = IF j <= Len(a) THEN a[j] ELSE b[j - Len(a)]
  BY ONLY <1>7, <1>20, <1>21, ConcatProperties
<1>10. Len(w) = Len(q) - 1
  BY <1>1, <1>8, <1>9
<1>11. ASSUME NEW j \in 1..Len(w) PROVE w[j] = IF j < i THEN q[j] ELSE q[j + 1]
  <2>1. j \in Int /\ 1 <= j /\ j <= Len(q) - 1
    BY <1>1, <1>10
  <2>2. CASE j < i
    <3>1. j \in 1..(i - 1) - 1 + 1 /\ 1 + j - 1 = j /\ j <= Len(a)
      BY <1>1, <1>8, <2>1, <2>2
    <3> QED BY <1>4, <1>9, <2>2, <3>1
  <2>3. CASE ~(j < i)
    <3> DEFINE m == j - Len(a)
    <3>1. m \in 1..Len(q) - (i + 1) + 1 /\ i + 1 + m - 1 = j + 1 /\ ~(j <= Len(a))
      BY <1>1, <1>8, <2>1, <2>3
    <3>2. w[j] = b[m]
      BY <1>9, <3>1
    <3>3. b[m] = q[i + 1 + m - 1]
      BY <1>6, <3>1
    <3> HIDE DEF m
    <3> QED BY <2>3, <3>1, <3>2, <3>3
  <2> QED BY <2>2, <2>3
<1> QED BY <1>9, <1>10, <1>11

Shorter(F, q, at, w) ==
  /\ w \in Seq(F) /\ Len(w) = Len(q) - 1 /\ Len(w) \in Nat /\ IsInjective(w)
  /\ \A j \in 1..Len(w) : w[j] = IF j < at THEN q[j] ELSE q[j + 1]

LEMMA ShorterIs ==
  ASSUME NEW F, NEW q \in Seq(F), IsInjective(q), NEW at \in 1..Len(q), NEW w, w = RemoveAt(q, at)
  PROVE  Shorter(F, q, at, w)
<1>1. /\ w \in Seq(F) /\ Len(w) = Len(q) - 1
      /\ \A j \in 1..Len(w) : w[j] = IF j < at THEN q[j] ELSE q[j + 1]
  BY RemoveAtIs
<1>2. Len(q) \in Nat /\ DOMAIN q = 1..Len(q) /\ Len(w) \in Nat /\ DOMAIN w = 1..Len(w)
  BY <1>1, LenProperties
<1> DEFINE old(j) == IF j < at THEN j ELSE j + 1
<1>3. \A j \in 1..Len(w) : old(j) \in 1..Len(q) /\ w[j] = q[old(j)]
  BY <1>1, <1>2
<1>4. \A j \in 1..Len(w), k \in 1..Len(w) : old(j) = old(k) => j = k
  BY <1>2
<1> HIDE DEF old
<1>5. IsInjective(w)
  <2> SUFFICES ASSUME NEW j \in 1..Len(w), NEW k \in 1..Len(w), w[j] = w[k] PROVE j = k
    BY <1>2 DEF IsInjective
  <2>1. old(j) = old(k)
    BY <1>2, <1>3 DEF IsInjective
  <2> QED BY <1>4, <2>1
<1> QED BY <1>1, <1>2, <1>5 DEF Shorter

LEMMA NoneInjective == IsInjective(<<>>) /\ Len(<<>>) = 0 /\ DOMAIN <<>> = {}
  BY DEF IsInjective

-------------------------------------------------------------------------------
(* Callback lists: the operations keep one in order *)

LEMMA NewListIs ==
  ASSUME NEW F, NEW options \in SUBSET {"once", "memory", "stopOnFalse"},
         NEW r, r = NewList(options)
  PROVE  /\ ListOK(F, r) /\ r.options = options /\ r.on /\ r.list = <<>> /\ r.memory = None
             /\ r.data = None /\ ~r.fired /\ ~r.firing /\ r.length = 0 /\ r.index = 0 /\ r.stack = <<>>
<1>1. r \in ListRec(F) /\ r.start = 0
  BY DEF NewList, ListRec, None
<1>2. /\ r.options = options /\ r.on = TRUE /\ r.list = <<>> /\ r.memory = None
      /\ r.data = None /\ r.fired = FALSE /\ r.firing = FALSE /\ r.length = 0 /\ r.index = 0
      /\ r.stack = <<>> /\ r.stacked = ("once" \notin options)
  BY DEF NewList
<1> QED BY <1>1, <1>2, NoneInjective DEF ListOK

(* A callback was added: it joins the round, or begins one with the memory. *)
Added(F, l, c, r) ==
  /\ ListOK(F, r) /\ r.options = l.options /\ (r.on <=> l.on)
  /\ r.data = l.data /\ r.stack = l.stack /\ (l.fired => r.fired) /\ (r.stacked <=> l.stacked)
  /\ ~l.on \/ has(l, c) => r = l
  /\ l.on /\ ~has(l, c) => r.list = Append(l.list, c)
  /\ l.on /\ ~has(l, c) /\ l.firing =>
       r.firing /\ r.length = Len(l.list) + 1 /\ r.index = l.index /\ r.memory = l.memory
  /\ l.on /\ ~has(l, c) /\ ~l.firing /\ l.memory = None =>
       /\ ~r.firing /\ r.length = l.length /\ r.index = l.index /\ r.memory = None
       /\ (r.fired <=> l.fired)
  /\ l.on /\ ~has(l, c) /\ ~l.firing /\ l.memory # None =>
       /\ r.firing /\ r.length = Len(l.list) + 1 /\ r.index = Len(l.list) + 1
       /\ r.memory = IF "memory" \in l.options THEN l.memory ELSE None

LEMMA AddKeeps ==
  ASSUME NEW F, NEW l, ListOK(F, l), NEW c \in F, NEW r, r = add(l, c)
  PROVE  Added(F, l, c, r)
<1> USE DEF Added
<1> DEFINE n == Len(l.list)
           q == Append(l.list, c)
           longer == [l EXCEPT !.list = q]
<1>1. l \in ListRec(F) /\ l.start = 0
  BY DEF ListOK
<1>2. /\ n \in Nat /\ l.list \in Seq(F) /\ IsInjective(l.list) /\ DOMAIN l.list = 1..n
      /\ l.memory \in Nat /\ l.data \in Nat /\ l.index \in Nat /\ l.length \in Nat
  BY <1>1, FieldsAre DEF ListOK
<1>3. CASE ~l.on \/ has(l, c)
  <2>1. r = l
    BY <1>3 DEF add
  <2> QED BY <1>3, <2>1
<1>4. CASE l.on /\ ~has(l, c)
  <2>1. q \in Seq(F) /\ Len(q) = n + 1 /\ IsInjective(q)
    <3>1. c \notin Range(l.list)
      BY <1>4 DEF has
    <3>2. q = Append(l.list, c)
      OBVIOUS
    <3> HIDE DEF q
    <3>3. l.list \in Seq(F) /\ IsInjective(l.list)
      BY <1>2
    <3>4. Longer(F, l.list, c, q)
      BY <3>1, <3>2, <3>3, LongerIs
    <3> QED BY <3>4 DEF Longer
  <2> HIDE DEF q, n
  <2>2. CASE l.firing
    <3>1. r = [l EXCEPT !.list = q, !.length = n + 1, !.index = l.index]
      <4>1. r = [longer EXCEPT !.length = Len(longer.list)]
        BY <1>4, <2>2 DEF add, q
      <4>2. longer.list = q
        BY <1>1 DEF ListRec
      <4>3. r = [longer EXCEPT !.length = n + 1]
        BY <2>1, <4>1, <4>2
      <4> QED BY <1>1, <4>3 DEF ListRec
    <3>2. Relisted(F, l, q, n + 1, l.index, r)
      <4>1. n + 1 \in Nat
        BY <1>2 DEF n
      <4> QED BY <1>1, <1>2, <2>1, <3>1, <4>1, ListedIs
    <3>3. ListOK(F, r)
      BY <1>4, <2>1, <2>2, <3>2 DEF ListOK, Relisted
    <3> QED BY <1>4, <2>2, <3>2, <3>3 DEF q, n, Relisted
  <2>3. CASE ~l.firing
    <3>1. longer = [l EXCEPT !.list = q, !.length = l.length, !.index = l.index]
      BY <1>1 DEF ListRec
    <3>2. Relisted(F, l, q, l.length, l.index, longer)
      BY <1>1, <1>2, <2>1, <3>1, ListedIs
    <3> HIDE DEF longer
    <3>3. CASE l.memory = None
      <4>1. r = longer
        BY <1>4, <2>3, <3>3 DEF add, longer, q
      <4>2. ListOK(F, r)
        BY <1>4, <2>1, <2>3, <3>2, <4>1 DEF ListOK, Relisted
      <4> QED BY <1>4, <2>3, <3>2, <3>3, <4>1, <4>2 DEF q, n, Relisted
    <3>4. CASE l.memory # None
      <4> DEFINE s == [longer EXCEPT !.start = n]
      <4>1. r = begin(s, l.memory)
        BY <1>4, <2>3, <3>4 DEF add, longer, q, n
      <4>2. s \in ListRec(F)
        BY <1>2, <3>2 DEF ListRec, n, Relisted
      <4>3. /\ s.options = l.options /\ s.on = l.on /\ s.list = q
            /\ s.stacked = l.stacked /\ s.stack = l.stack /\ s.start = n
        BY <3>2 DEF ListRec, Relisted
      <4> HIDE DEF s
      <4>4. Begun(F, s, l.memory, r)
        BY <1>2, <4>1, <4>2, BeginIs
      <4>5. l.memory = l.data /\ ("once" \in l.options => ~l.stacked) /\ l.stack = <<>>
        BY <2>3, <3>4 DEF ListOK
      <4>6. r.data = l.data /\ r.stack = <<>> /\ DOMAIN r.stack = {}
        BY <4>3, <4>4, <4>5 DEF Begun
      <4>7. ListOK(F, r)
        BY <1>4, <2>1, <4>3, <4>4, <4>5, <4>6 DEF ListOK, Begun
      <4> QED BY <1>4, <2>1, <2>3, <3>4, <4>3, <4>4, <4>5, <4>7 DEF q, n, Begun
    <3> QED BY <3>3, <3>4
  <2> QED BY <2>2, <2>3
<1> QED BY <1>3, <1>4

(* A callback was removed: the indexes of the round follow. *)
RemovedFun(F, l, c, r) ==
  /\ ListOK(F, r) /\ r.options = l.options /\ (r.on <=> l.on) /\ r.data = l.data /\ r.stack = l.stack
  /\ (r.firing <=> l.firing)
  /\ ~has(l, c) => r = l
  /\ has(l, c) =>
       /\ l.on
       /\ \E at \in 1..Len(l.list) :
            /\ l.list[at] = c /\ Shorter(F, l.list, at, r.list)
            /\ l.firing => /\ r.length = l.length - 1
                           /\ r.index = IF at <= l.index THEN l.index - 1 ELSE l.index
            /\ ~l.firing => r.length = l.length /\ r.index = l.index

LEMMA RemoveKeeps ==
  ASSUME NEW F, NEW l, ListOK(F, l), NEW c, NEW r, r = remove(l, c)
  PROVE  RemovedFun(F, l, c, r)
<1> DEFINE n == Len(l.list)
           at == place(l, c)
           q == RemoveAt(l.list, at)
           shorter == [l EXCEPT !.list = q]
<1>1. l \in ListRec(F) /\ l.start = 0
  BY DEF ListOK
<1>2. /\ n \in Nat /\ l.list \in Seq(F) /\ IsInjective(l.list) /\ DOMAIN l.list = 1..n
      /\ l.memory \in Nat /\ l.data \in Nat /\ l.index \in Nat /\ l.length \in Nat
  BY <1>1, FieldsAre DEF ListOK
<1>3. CASE ~has(l, c)
  <2>1. r = l
    BY <1>3 DEF remove
  <2> QED BY <1>3, <2>1 DEF RemovedFun
<1>4. CASE has(l, c)
  <2>1. at \in 1..n /\ l.list[at] = c
    BY <1>2, <1>4 DEF has, Range, place
  <2> HIDE DEF at
  <2>2. q = RemoveAt(l.list, at)
    OBVIOUS
  <2> HIDE DEF q
  <2>3. Shorter(F, l.list, at, q)
    BY <1>2, <2>1, <2>2, ShorterIs
  <2>4. l.on
    <3>1. ~l.on => l.list = <<>>
      BY DEF ListOK
    <3>2. l.list # <<>>
      BY <1>2, <2>1, NoneInjective
    <3> QED BY <3>1, <3>2
  <2>5. q \in Seq(F) /\ Len(q) = n - 1 /\ Len(q) \in Nat /\ IsInjective(q)
    BY <2>3 DEF Shorter
  <2>6. CASE l.firing
    <3> DEFINE i == IF at <= l.index THEN l.index - 1 ELSE l.index
    <3>1. l.length = n
      BY <2>4, <2>6 DEF ListOK
    <3>2. i \in Nat /\ l.length - 1 \in Nat
      BY <1>2, <2>1, <3>1
    <3>3. r = [l EXCEPT !.list = q, !.length = l.length - 1, !.index = i]
      <4>1. r = [shorter EXCEPT !.length = @ - 1, !.index = IF at <= @ THEN @ - 1 ELSE @]
        BY <1>4, <2>6 DEF remove, q, at
      <4>2. shorter.length = l.length /\ shorter.index = l.index
        BY <1>1 DEF ListRec
      <4>3. r = [shorter EXCEPT !.length = l.length - 1, !.index = i]
        BY <4>1, <4>2
      <4> HIDE DEF i
      <4> QED BY <1>1, <4>3 DEF ListRec
    <3> HIDE DEF i
    <3>4. Relisted(F, l, q, l.length - 1, i, r)
      BY <1>1, <2>5, <3>2, <3>3, ListedIs
    <3>5. ListOK(F, r)
      BY <1>2, <2>4, <2>5, <2>6, <3>1, <3>4 DEF ListOK, Relisted
    <3> QED BY <1>4, <2>1, <2>3, <2>4, <2>6, <3>4, <3>5 DEF RemovedFun, Relisted, i, n
  <2>7. CASE ~l.firing
    <3>1. r = [l EXCEPT !.list = q, !.length = l.length, !.index = l.index]
      <4>1. r = shorter
        BY <1>4, <2>7 DEF remove, q, at
      <4> QED BY <1>1, <4>1 DEF ListRec
    <3>2. Relisted(F, l, q, l.length, l.index, r)
      BY <1>1, <1>2, <2>5, <3>1, ListedIs
    <3>3. ListOK(F, r)
      BY <2>4, <2>5, <2>7, <3>2 DEF ListOK, Relisted
    <3> QED BY <1>4, <2>1, <2>3, <2>4, <2>7, <3>2, <3>3 DEF RemovedFun, Relisted, n
  <2> QED BY <2>6, <2>7
<1> QED BY <1>3, <1>4

(* The list is fired: at once, or when the rounds that wait are over.      *)
Fired(F, l, d, r) ==
  /\ ListOK(F, r) /\ r.options = l.options /\ (r.on <=> l.on) /\ r.list = l.list
  /\ (r.stacked <=> l.stacked)
  /\ ~(l.on /\ (~l.fired \/ l.stacked)) => r = l
  /\ l.on /\ (~l.fired \/ l.stacked) =>
       /\ r.fired /\ r.firing
       /\ l.firing => /\ r.stack = Append(l.stack, d) /\ r.data = l.data /\ r.memory = l.memory
                      /\ r.index = l.index /\ r.length = l.length
       /\ ~l.firing => /\ r.stack = <<>> /\ r.data = d /\ r.index = 1 /\ r.length = Len(l.list)
                       /\ r.memory = IF "memory" \in l.options THEN d ELSE None

LEMMA FireKeeps ==
  ASSUME NEW F, NEW l, ListOK(F, l), NEW d \in Nat, l.data < d,
         \A i \in DOMAIN l.stack : l.stack[i] < d,
         NEW r, r = fireWith(l, d)
  PROVE  Fired(F, l, d, r)
<1>1. l \in ListRec(F) /\ l.start = 0
  BY DEF ListOK
<1>2. /\ l.stack \in Seq(Nat) /\ Len(l.stack) \in Nat /\ DOMAIN l.stack = 1..Len(l.stack)
      /\ \A i \in 1..Len(l.stack) : l.stack[i] \in Nat
      /\ l.memory \in Nat /\ l.data \in Nat /\ l.firing \in BOOLEAN /\ l.stacked \in BOOLEAN
  BY <1>1, FieldsAre, ElementOfSeq
<1>3. CASE ~(l.on /\ (~l.fired \/ l.stacked))
  <2>1. r = l
    BY <1>3 DEF fireWith
  <2> QED BY <1>3, <2>1 DEF Fired
<1>4. CASE l.on /\ (~l.fired \/ l.stacked)
  <2>1. CASE l.firing
    <3> DEFINE s == Append(l.stack, d)
    <3>1. /\ s \in Seq(Nat) /\ s # <<>> /\ Len(s) = Len(l.stack) + 1
          /\ \A i \in 1..Len(l.stack) : s[i] = l.stack[i]
      <4>1. s \in Seq(Nat) /\ Len(s) = Len(l.stack) + 1
        BY <1>2, AppendProperties
      <4>2. \A i \in 1..Len(l.stack) : s[i] = l.stack[i]
        BY <1>2, AppendProperties
      <4>3. s # <<>>
        BY <1>2, <4>1, NoneInjective
      <4> QED BY <4>1, <4>2, <4>3
    <3>6. s[Len(l.stack) + 1] = d
      BY <1>2, AppendProperties
    <3>2. r = [l EXCEPT !.stack = s]
      BY <1>4, <2>1 DEF fireWith
    <3> HIDE DEF s
    <3>3. r \in ListRec(F)
      BY ONLY <1>1, <3>1, <3>2 DEF ListRec
    <3>4. /\ r.options = l.options /\ r.on = l.on /\ r.list = l.list /\ r.memory = l.memory
          /\ r.data = l.data /\ r.fired = l.fired /\ r.firing = l.firing /\ r.start = l.start
          /\ r.length = l.length /\ r.index = l.index /\ r.stacked = l.stacked /\ r.stack = s
      BY ONLY <1>1, <3>2 DEF ListRec
    <3>5. l.stacked /\ l.fired
      BY <1>4, <2>1 DEF ListOK
    <3>7. DOMAIN s = 1..Len(l.stack) + 1
      BY <3>1, LenProperties
    <3>8. \A i \in DOMAIN s : s[i] > l.data
      <4> SUFFICES ASSUME NEW i \in 1..Len(l.stack) + 1 PROVE s[i] > l.data
        BY <3>7
      <4>1. i \in 1..Len(l.stack) \/ i = Len(l.stack) + 1
        BY <1>2
      <4>2. \A j \in 1..Len(l.stack) : l.stack[j] > l.data
        BY <1>2 DEF ListOK
      <4> QED BY <1>2, <3>1, <3>6, <4>1, <4>2
    <3>11. \A j \in 1..Len(l.stack) + 1 : j \in 1..Len(l.stack) \/ j = Len(l.stack) + 1
      BY ONLY <1>2
    <3>9. \A i, j \in DOMAIN s : i < j => s[i] < s[j]
      <4> SUFFICES ASSUME NEW i \in 1..Len(l.stack) + 1, NEW j \in 1..Len(l.stack) + 1, i < j
                   PROVE  s[i] < s[j]
        BY <3>7
      <4>1. i \in 1..Len(l.stack) /\ s[i] = l.stack[i] /\ l.stack[i] < d
        BY <1>2, <3>1, SMTT(30)
      <4>2. CASE j \in 1..Len(l.stack)
        <5>1. l.stack[i] < l.stack[j]
          BY <1>2, <4>1, <4>2 DEF ListOK
        <5> QED BY <3>1, <4>1, <4>2, <5>1
      <4>3. CASE j = Len(l.stack) + 1
        BY <3>6, <4>1, <4>3
      <4> QED BY <3>11, <4>2, <4>3
    <3>10. ListOK(F, r)
      BY <1>1, <1>4, <2>1, <3>1, <3>3, <3>4, <3>5, <3>8, <3>9 DEF ListOK
    <3> QED BY <1>4, <2>1, <3>4, <3>5, <3>10 DEF Fired, s
  <2>2. CASE ~l.firing
    <3>1. r = begin(l, d)
      BY <1>4, <2>2 DEF fireWith
    <3>2. Begun(F, l, d, r)
      BY <1>1, <3>1, BeginIs
    <3>3. /\ IsInjective(l.list) /\ l.stack = <<>> /\ ("once" \in l.options => ~l.stacked)
      BY <2>2 DEF ListOK
    <3>4. DOMAIN r.stack = {} /\ r.stack = <<>>
      BY <3>2, <3>3 DEF Begun
    <3>5. ListOK(F, r)
      BY <1>4, <3>2, <3>3, <3>4 DEF ListOK, Begun
    <3>6. l.start + 1 = 1
      BY <1>1
    <3> QED BY <1>4, <2>2, <3>2, <3>4, <3>5, <3>6 DEF Fired, Begun
  <2> QED BY <2>1, <2>2
<1> QED BY <1>3, <1>4

LEMMA DisableKeeps ==
  ASSUME NEW F, NEW l, ListOK(F, l), NEW r, r = disable(l)
  PROVE  ListOK(F, r) /\ Disabled(F, l, r)
<1>1. l \in ListRec(F) /\ l.start = 0 /\ (l.firing => l.fired)
  BY DEF ListOK
<1>2. Disabled(F, l, r)
  BY <1>1, DisableIs
<1>3. IsInjective(r.list) /\ DOMAIN r.stack = {} /\ r.stack = <<>>
  BY <1>2, NoneInjective DEF Disabled
<1>4. ListOK(F, r)
  BY <1>1, <1>2, <1>3 DEF ListOK, Disabled
<1> QED BY <1>2, <1>4

(* A locked list has no rounds to come, and is disabled without a memory.  *)
Locked(F, l, r) ==
  /\ ListOK(F, r) /\ r.options = l.options /\ r.data = l.data /\ (r.firing <=> l.firing)
  /\ r.index = l.index /\ r.length = l.length /\ r.stack = <<>> /\ ~r.stacked
  /\ (r.fired <=> l.fired)
  /\ l.memory = None => ~r.on /\ r.list = <<>> /\ r.memory = None
  /\ l.memory # None => (r.on <=> l.on) /\ r.list = l.list /\ r.memory = l.memory

LEMMA LockKeeps ==
  ASSUME NEW F, NEW l, ListOK(F, l), NEW r, r = lock(l)
  PROVE  Locked(F, l, r)
<1> DEFINE u == [l EXCEPT !.stacked = FALSE, !.stack = <<>>]
<1>1. l \in ListRec(F) /\ l.start = 0 /\ (l.firing => l.fired)
  BY DEF ListOK
<1>2. r = IF l.memory = None THEN disable(u) ELSE u
  BY DEF lock
<1>3. <<>> \in Seq(Nat)
  OBVIOUS
<1>4. u \in ListRec(F)
  BY ONLY <1>1, <1>3 DEF ListRec
<1>5. /\ u.options = l.options /\ u.on = l.on /\ u.list = l.list /\ u.memory = l.memory
      /\ u.data = l.data /\ u.fired = l.fired /\ u.firing = l.firing /\ u.start = l.start
      /\ u.length = l.length /\ u.index = l.index /\ u.stacked = FALSE /\ u.stack = <<>>
  BY ONLY <1>1 DEF ListRec
<1> HIDE DEF u
<1>6. ListOK(F, u)
  BY <1>1, <1>4, <1>5, NoneInjective DEF ListOK
<1>7. CASE l.memory = None
  <2>1. ListOK(F, r) /\ Disabled(F, u, r)
    BY <1>2, <1>6, <1>7, DisableKeeps
  <2> QED BY <1>5, <1>7, <2>1 DEF Locked, Disabled
<1>8. CASE l.memory # None
  <2>1. r = u
    BY <1>2, <1>8
  <2> QED BY <1>5, <1>6, <1>8, <2>1 DEF Locked
<1> QED BY <1>7, <1>8

(* A round is over: the next one that waits begins, or the list is idle;   *)
(* one that is fired once has no callbacks left.                           *)
Ended(F, l, r) ==
  /\ ListOK(F, r) /\ r.options = l.options /\ (r.fired <=> l.fired)
  /\ r.stacked => l.stacked
  /\ r.firing => /\ l.on /\ r.on /\ l.stacked /\ l.stack # <<>>
                 /\ r.data = Head(l.stack) /\ r.stack = Tail(l.stack)
                 /\ r.list = l.list /\ r.index = 1 /\ r.length = Len(l.list)
                 /\ r.memory = IF "memory" \in l.options THEN r.data ELSE None
  /\ ~r.firing => /\ r.data = l.data /\ r.stack = <<>> /\ r.index = l.index /\ r.length = l.length
                  /\ l.on /\ l.stacked => l.stack = <<>> /\ r.on /\ r.list = l.list /\ r.memory = l.memory
                  /\ l.on /\ ~l.stacked => r.list = <<>>
  /\ ~l.on => ~r.on /\ ~r.firing
  /\ l.on /\ ~l.stacked /\ l.memory # None => r.on /\ r.memory = l.memory /\ ~r.firing
  /\ l.on /\ ~l.stacked /\ l.memory = None => ~r.on /\ r.memory = None /\ ~r.firing

LEMMA EndKeeps ==
  ASSUME NEW F, NEW l, ListOK(F, l), NEW r, r = end(l)
  PROVE  Ended(F, l, r)
<1> DEFINE idle == [l EXCEPT !.firing = FALSE]
<1>1. l \in ListRec(F) /\ l.start = 0 /\ (l.firing => l.fired)
  BY DEF ListOK
<1>2. r = CASE ~l.on -> idle
            [] l.on /\ l.stacked ->
                 IF l.stack = <<>> THEN idle
                 ELSE begin([idle EXCEPT !.stack = Tail(@)], Head(l.stack))
            [] OTHER ->
                 IF l.memory # None THEN [idle EXCEPT !.list = <<>>] ELSE disable(idle)
  BY DEF end
<1>3. idle \in ListRec(F)
  BY ONLY <1>1 DEF ListRec
<1>4. /\ idle.options = l.options /\ idle.on = l.on /\ idle.list = l.list /\ idle.memory = l.memory
      /\ idle.data = l.data /\ idle.fired = l.fired /\ idle.firing = FALSE /\ idle.start = l.start
      /\ idle.length = l.length /\ idle.index = l.index /\ idle.stacked = l.stacked
      /\ idle.stack = l.stack
  BY ONLY <1>1 DEF ListRec
<1> HIDE DEF idle
<1>5. ASSUME l.stack = <<>> PROVE ListOK(F, idle)
  BY <1>1, <1>3, <1>4, <1>5 DEF ListOK
<1>6. CASE ~l.on
  <2>1. r = idle /\ l.stack = <<>>
    BY <1>2, <1>6 DEF ListOK
  <2>2. ListOK(F, r)
    BY <1>5, <2>1
  <2> QED BY <1>4, <1>6, <2>1, <2>2 DEF Ended
<1>7. CASE l.on /\ l.stacked /\ l.stack = <<>>
  <2>1. r = idle
    BY <1>2, <1>7
  <2>2. ListOK(F, r)
    BY <1>5, <1>7, <2>1
  <2> QED BY <1>4, <1>7, <2>1, <2>2 DEF Ended
<1>8. CASE l.on /\ l.stacked /\ l.stack # <<>>
  <2> DEFINE s == [idle EXCEPT !.stack = Tail(@)]
             d == Head(l.stack)
             rest == Tail(l.stack)
  <2>1. /\ l.stack \in Seq(Nat) /\ Len(l.stack) \in Nat /\ DOMAIN l.stack = 1..Len(l.stack)
        /\ l.data \in Nat
    BY <1>1, FieldsAre
  <2>2. Len(l.stack) \in Nat \ {0}
    BY <1>8, <2>1, EmptySeq
  <2>3. /\ d \in Nat /\ rest \in Seq(Nat) /\ Len(rest) = Len(l.stack) - 1
        /\ \A i \in 1..Len(rest) : rest[i] = l.stack[i + 1]
    <3>1. d \in Nat
      BY <1>8, <2>1, HeadTailProperties
    <3>2. rest \in Seq(Nat) /\ Len(rest) = Len(l.stack) - 1
      BY <1>8, <2>1, HeadTailProperties
    <3>3. \A i \in 1..Len(rest) : rest[i] = l.stack[i + 1]
      BY <1>8, <2>1, HeadTailProperties
    <3> QED BY <3>1, <3>2, <3>3
  <2>4. d = l.stack[1]
    BY <2>1, <2>2
  <2>5. r = begin(s, d)
    BY <1>2, <1>8
  <2>6. s = [idle EXCEPT !.stack = rest]
    BY <1>4
  <2> HIDE DEF s, d, rest
  <2>7. s \in ListRec(F)
    BY ONLY <1>3, <2>3, <2>6 DEF ListRec
  <2>8. /\ s.options = l.options /\ s.on = l.on /\ s.list = l.list /\ s.fired = l.fired
        /\ s.start = 0 /\ s.stacked = l.stacked /\ s.stack = rest
    BY <1>1, <1>3, <1>4, <2>6 DEF ListRec
  <2>9. Begun(F, s, d, r)
    BY <2>3, <2>5, <2>7, BeginIs
  <2>10. /\ \A i \in 1..Len(l.stack) : l.stack[i] > l.data
         /\ \A i, j \in 1..Len(l.stack) : i < j => l.stack[i] < l.stack[j]
    BY <2>1 DEF ListOK
  <2>11. DOMAIN rest = 1..Len(l.stack) - 1
    BY <2>3, LenProperties
  <2>12. \A i \in DOMAIN rest : /\ i + 1 \in 1..Len(l.stack) /\ 1 \in 1..Len(l.stack)
                                /\ 1 < i + 1 /\ rest[i] = l.stack[i + 1]
    BY <2>2, <2>3, <2>11
  <2>13. \A i \in DOMAIN rest : rest[i] > d
    <3> SUFFICES ASSUME NEW i \in DOMAIN rest PROVE rest[i] > d
      OBVIOUS
    <3>1. /\ i + 1 \in 1..Len(l.stack) /\ 1 \in 1..Len(l.stack)
          /\ 1 < i + 1 /\ rest[i] = l.stack[i + 1]
      BY <2>12
    <3>2. l.stack[1] < l.stack[i + 1]
      BY <2>10, <3>1
    <3>3. l.stack[1] \in Int /\ l.stack[i + 1] \in Int
      BY <2>1, <3>1, ElementOfSeq
    <3> QED BY <2>4, <3>1, <3>2, <3>3
  <2>14. \A i, j \in DOMAIN rest : i < j => rest[i] < rest[j]
    <3> SUFFICES ASSUME NEW i \in DOMAIN rest, NEW j \in DOMAIN rest, i < j PROVE rest[i] < rest[j]
      OBVIOUS
    <3>1. i + 1 < j + 1
      BY <2>11
    <3> QED BY <2>10, <2>12, <3>1
  <2>15. IsInjective(l.list) /\ ("once" \in l.options => ~l.stacked)
    BY DEF ListOK
  <2>16. r.data = d /\ r.stack = rest /\ r.list = l.list
    BY <2>8, <2>9 DEF Begun
  <2>17. ListOK(F, r)
    BY <1>8, <2>8, <2>9, <2>13, <2>14, <2>15, <2>16 DEF ListOK, Begun
  <2>18. l.firing /\ l.fired
    BY <1>1, <1>8 DEF ListOK
  <2>19. s.start + 1 = 1
    BY <2>8
  <2> QED BY <1>8, <2>8, <2>9, <2>16, <2>17, <2>18, <2>19 DEF Ended, Begun, d, rest
<1>9. CASE l.on /\ ~l.stacked
  <2>1. l.stack = <<>>
    BY <1>9 DEF ListOK
  <2>2. ListOK(F, idle)
    BY <1>5, <2>1
  <2>3. CASE l.memory = None
    <3>1. r = disable(idle)
      BY <1>2, <1>9, <2>3
    <3>2. ListOK(F, r) /\ Disabled(F, idle, r)
      BY <2>2, <3>1, DisableKeeps
    <3>3. r.firing = FALSE
      BY <1>4, <3>2 DEF Disabled
    <3> QED BY <1>4, <1>9, <2>1, <2>3, <3>2, <3>3 DEF Ended, Disabled
  <2>4. CASE l.memory # None
    <3>1. r = [idle EXCEPT !.list = <<>>]
      BY <1>2, <1>9, <2>4
    <3>2. <<>> \in Seq(F)
      OBVIOUS
    <3>3. r \in ListRec(F)
      BY ONLY <1>3, <3>1, <3>2 DEF ListRec
    <3>4. /\ r.options = l.options /\ r.on = l.on /\ r.list = <<>> /\ r.memory = l.memory
          /\ r.data = l.data /\ r.fired = l.fired /\ r.firing = FALSE /\ r.start = l.start
          /\ r.length = l.length /\ r.index = l.index /\ r.stacked = l.stacked
          /\ r.stack = l.stack
      BY <1>3, <1>4, <3>1 DEF ListRec
    <3>5. ListOK(F, r)
      BY <1>1, <1>9, <2>1, <3>3, <3>4, NoneInjective DEF ListOK
    <3> QED BY <1>9, <2>1, <2>4, <3>4, <3>5 DEF Ended
  <2> QED BY <2>3, <2>4
<1> QED BY <1>6, <1>7, <1>8, <1>9

(* A round goes on to the next callback; one that returns false is the last. *)
LEMMA NextKeeps ==
  ASSUME NEW F, NEW l, ListOK(F, l), NEW r, r = [l EXCEPT !.index = @ + 1]
  PROVE  Relisted(F, l, l.list, l.length, l.index + 1, r) /\ ListOK(F, r)
<1>1. /\ l \in ListRec(F) /\ l.start = 0 /\ l.list \in Seq(F) /\ l.length \in Nat /\ l.index \in Nat
  BY FieldsAre DEF ListOK
<1>2. r = [l EXCEPT !.list = l.list, !.length = l.length, !.index = l.index + 1]
  BY <1>1 DEF ListRec
<1>3. l.index + 1 \in Nat
  BY <1>1
<1>4. Relisted(F, l, l.list, l.length, l.index + 1, r)
  BY <1>1, <1>2, <1>3, ListedIs
<1> QED BY <1>4 DEF ListOK, Relisted

LEMMA ForgetKeeps ==
  ASSUME NEW F, NEW l, ListOK(F, l), NEW r, r = [l EXCEPT !.memory = None]
  PROVE  /\ ListOK(F, r) /\ r.data = l.data /\ r.stack = l.stack /\ (r.firing <=> l.firing)
         /\ r.length = l.length /\ r.index = l.index /\ r.options = l.options
<1>1. l \in ListRec(F)
  BY DEF ListOK
<1>2. r \in ListRec(F)
  BY ONLY <1>1, r = [l EXCEPT !.memory = None] DEF ListRec, None
<1>3. /\ r.options = l.options /\ r.on = l.on /\ r.list = l.list /\ r.memory = None
      /\ r.data = l.data /\ r.fired = l.fired /\ r.firing = l.firing /\ r.start = l.start
      /\ r.length = l.length /\ r.index = l.index /\ r.stacked = l.stacked /\ r.stack = l.stack
  BY <1>1 DEF ListRec
<1> QED BY <1>2, <1>3 DEF ListOK

-------------------------------------------------------------------------------
(* Callback lists: one list in use *)

(* A list is no longer than there are callbacks. *)
LEMMA ListBounded ==
  ASSUME NEW l, ListOK(Funs, l)
  PROVE  Len(l.list) <= Cardinality(Funs) /\ Cardinality(Funs) \in Nat
<1>1. l \in ListRec(Funs) /\ IsInjective(l.list)
  BY DEF ListOK
<1>2. Len(l.list) \in Nat /\ l.list \in [1..Len(l.list) -> Funs] /\ DOMAIN l.list = 1..Len(l.list)
  BY <1>1, FieldsAre, LenProperties
<1>3. l.list \in Injection(1..Len(l.list), Funs)
  BY <1>1, <1>2 DEF Injection, IsInjective
<1>4. Cardinality(1..Len(l.list)) <= Cardinality(Funs)
  BY <1>3, CallbackListAssumption, FS_Injection
<1>5. Cardinality(1..Len(l.list)) = Len(l.list)
  <2>1. ASSUME NEW a \in Nat PROVE Cardinality(1..a) = a
    BY FS_Interval
  <2> QED BY <1>2, <2>1
<1> QED BY <1>4, <1>5, CallbackListAssumption, FS_CardinalityType

LEMMA DueIs ==
  ASSUME NEW l, ListOK(Funs, l), NEW i \in Int, i >= 1, l.on => l.length = Len(l.list)
  PROVE  DueFrom(l, i) \subseteq Funs
<1>1. /\ l.length \in Nat /\ Len(l.list) \in Nat
      /\ \A j \in 1..Len(l.list) : l.list[j] \in Funs
  BY FieldsAre DEF ListOK
<1>2. CASE l.on
  <2>1. \A j \in i..l.length : j \in 1..Len(l.list)
    BY <1>1, <1>2
  <2> QED BY <1>1, <1>2, <2>1 DEF DueFrom
<1>3. CASE ~l.on
  BY <1>3 DEF DueFrom
<1> QED BY <1>2, <1>3

(* The numbers of the calls. *)
Numbered(l, n) ==
  l.data <= n /\ Len(l.stack) <= n /\ \A i \in DOMAIN l.stack : l.stack[i] <= n

(* What an operation that begins no round has to keep. *)
Indexed(l, ph) ==
  /\ ph # "idle" => l.firing
  /\ ph = "loop" => l.index >= 1 /\ l.index <= l.length + 1
  /\ ph = "inside" => l.index <= l.length
  /\ l.length <= Cardinality(Funs) /\ l.index <= Cardinality(Funs) + 1

InOrder ==
  /\ cbList'.data >= cbList.data
  /\ "once" \in cbList.options /\ cbList.fired => cbList'.data = cbList.data

LEMMA RoundsAre ==
  Rounds <=> /\ fires \in 0..MaxFires /\ Numbered(cbList, fires)
             /\ phase \in {"idle", "loop", "inside", "ending"}
             /\ Indexed(cbList, phase)
             /\ owed \subseteq Funs /\ (phase = "ending" => owed = {})
BY DEF Rounds, Numbered, Indexed

(* A round begins. *)
LEMMA BeginsRound ==
  ASSUME CallsOK, NEW r, ListOK(Funs, r), r.on, r.firing, NEW left,
         r.index \in 1..Len(r.list) + 1, r.length = Len(r.list),
         ~cbList.firing, Becomes(r, left), fires' \in 0..MaxFires, Numbered(r, fires')
  PROVE  CallsOK'
<1>1. cbList' = r /\ phase' = "loop" /\ owed' = Due(r)
  BY DEF Becomes
<1>2. Len(r.list) <= Cardinality(Funs) /\ Cardinality(Funs) \in Nat
  BY ListBounded
<1>3. r.index \in Nat /\ r.length \in Nat
  BY FieldsAre DEF ListOK
<1>4. Indexed(r, "loop")
  BY <1>2, <1>3 DEF Indexed
<1>5. Due(r) \subseteq Funs
  BY <1>3, DueIs DEF Due
<1>6. Rounds'
  BY <1>1, <1>4, <1>5 DEF Rounds, Numbered, Indexed
<1>7. RoundCallsEach'
  BY <1>1 DEF RoundCallsEach
<1>8. ListOK(Funs, cbList')
  BY <1>1
<1> QED BY <1>6, <1>7, <1>8 DEF CallsOK

(* No round begins. *)
LEMMA GoesOn ==
  ASSUME CallsOK, NEW r, ListOK(Funs, r), NEW left, Becomes(r, left), r.firing => cbList.firing,
         fires' \in 0..MaxFires, Numbered(r, fires'), Indexed(r, phase),
         phase \in {"idle", "inside"},
         left \subseteq Funs,
         phase = "inside" => left = DueFrom(r, r.index + 1),
         phase = "idle" /\ ~r.firing => left = {}
  PROVE  CallsOK'
<1>1. cbList' = r /\ phase' = phase /\ owed' = left
  BY DEF Becomes
<1>2. Rounds'
  BY <1>1 DEF Rounds, Numbered, Indexed
<1>3. RoundCallsEach'
  BY <1>1 DEF RoundCallsEach
<1>4. ListOK(Funs, cbList')
  BY <1>1
<1> QED BY <1>2, <1>3, <1>4 DEF CallsOK

LEMMA AddKeepsRound ==
  ASSUME CallsOK, NEW c \in Funs, Add(c), phase \in {"idle", "inside"}
  PROVE  CallsOK' /\ InOrder
<1> DEFINE l == cbList
           r == add(l, c)
           left == IF l.firing /\ l.on /\ ~has(l, c) THEN owed \cup {c} ELSE owed
<1>1. /\ ListOK(Funs, l) /\ Rounds /\ RoundCallsEach
      /\ Becomes(r, left) /\ fires' = fires /\ cbList' = r
  BY DEF CallsOK, Add, Becomes
<1>2. /\ l.list \in Seq(Funs) /\ IsInjective(l.list) /\ Len(l.list) \in Nat
      /\ DOMAIN l.list = 1..Len(l.list)
      /\ l.data \in Nat /\ l.index \in Nat /\ l.length \in Nat
  BY <1>1, FieldsAre DEF ListOK
<1>3. /\ fires \in 0..MaxFires /\ Numbered(l, fires) /\ Indexed(l, phase) /\ owed \subseteq Funs
  BY <1>1, RoundsAre
<1>4. Added(Funs, l, c, r)
  BY <1>1, AddKeeps
<1> HIDE DEF r
<1>5. ListOK(Funs, r) /\ r.data = l.data /\ r.stack = l.stack
  BY <1>4 DEF Added
<1>6. fires' \in 0..MaxFires /\ Numbered(r, fires')
  BY <1>1, <1>3, <1>5 DEF Numbered
<1>7. InOrder
  BY <1>1, <1>2, <1>5 DEF InOrder
<1>8. CASE ~l.on \/ has(l, c)
  <2>1. r = l /\ left = owed
    BY <1>4, <1>8 DEF Added
  <2>2. phase = "inside" => owed = DueFrom(r, r.index + 1)
    BY <1>1, <2>1 DEF RoundCallsEach
  <2>3. phase = "idle" /\ ~r.firing => owed = {}
    BY <1>1, <2>1 DEF RoundCallsEach
  <2>4. Becomes(r, owed) /\ Indexed(r, phase) /\ (r.firing => cbList.firing)
    BY <1>1, <1>3, <2>1
  <2>5. CallsOK'
    BY <1>3, <1>5, <1>6, <2>2, <2>3, <2>4, GoesOn
  <2> QED BY <1>7, <2>5
<1>9. CASE l.on /\ ~has(l, c)
  <2>1. r.on /\ r.list = Append(l.list, c)
    BY <1>4, <1>9 DEF Added
  <2>2. Longer(Funs, l.list, c, r.list)
    <3>1. c \notin Range(l.list)
      BY <1>9 DEF has
    <3> QED BY <1>2, <2>1, <3>1, LongerIs
  <2>3. Len(r.list) = Len(l.list) + 1 /\ Len(r.list) <= Cardinality(Funs) /\ Cardinality(Funs) \in Nat
    BY <1>5, <2>2, ListBounded DEF Longer
  <2>4. CASE l.firing
    <3>1. r.firing /\ r.length = Len(l.list) + 1 /\ r.index = l.index /\ l.length = Len(l.list)
      BY <1>1, <1>4, <1>9, <2>4 DEF Added, ListOK
    <3>2. left = owed \cup {c}
      BY <1>9, <2>4
    <3>3. Indexed(r, phase)
      BY <1>2, <1>3, <2>3, <3>1 DEF Indexed
    <3>4. ASSUME phase = "inside" PROVE owed \cup {c} = DueFrom(r, r.index + 1)
      <4>1. owed = {l.list[i] : i \in l.index + 1..Len(l.list)} /\ l.index <= Len(l.list)
        BY <1>1, <1>3, <1>9, <3>1, <3>4 DEF RoundCallsEach, DueFrom, Indexed
      <4>2. DueFrom(r, r.index + 1) = {r.list[i] : i \in l.index + 1..Len(l.list) + 1}
        BY <2>1, <3>1 DEF DueFrom
      <4>3. \A i \in l.index + 1..Len(l.list) : i \in 1..Len(l.list) /\ i \in l.index + 1..Len(l.list) + 1
                                               /\ r.list[i] = l.list[i]
        BY <1>2, <2>2 DEF Longer
      <4>4. Len(l.list) + 1 \in l.index + 1..Len(l.list) + 1 /\ r.list[Len(l.list) + 1] = c
        BY <1>2, <2>2, <4>1 DEF Longer
      <4>5. \A i \in l.index + 1..Len(l.list) + 1 : i \in l.index + 1..Len(l.list) \/ i = Len(l.list) + 1
        BY <1>2
      <4>6. owed \cup {c} \subseteq DueFrom(r, r.index + 1)
        BY <4>1, <4>2, <4>3, <4>4
      <4>7. DueFrom(r, r.index + 1) \subseteq owed \cup {c}
        BY <4>1, <4>2, <4>3, <4>4, <4>5
      <4> QED BY <4>6, <4>7
    <3>5. Becomes(r, owed \cup {c}) /\ (r.firing => cbList.firing) /\ owed \cup {c} \subseteq Funs
          /\ ~(phase = "idle" /\ ~r.firing)
      BY <1>1, <1>3, <2>4, <3>1, <3>2
    <3>6. CallsOK'
      BY <1>5, <1>6, <3>3, <3>4, <3>5, GoesOn
    <3> QED BY <1>7, <3>6
  <2>5. CASE ~l.firing /\ l.memory = None
    <3>1. ~r.firing /\ r.length = l.length /\ r.index = l.index
      BY <1>4, <1>9, <2>5 DEF Added
    <3>2. phase = "idle"
      BY <1>3, <2>5 DEF Indexed
    <3>3. left = owed /\ owed = {}
      BY <1>1, <2>5, <3>2 DEF RoundCallsEach
    <3>4. Indexed(r, phase)
      BY <1>3, <3>1, <3>2 DEF Indexed
    <3>5. Becomes(r, owed) /\ (r.firing => cbList.firing) /\ phase # "inside"
      BY <1>1, <3>1, <3>2, <3>3
    <3>6. CallsOK'
      BY <1>3, <1>5, <1>6, <3>3, <3>4, <3>5, GoesOn
    <3> QED BY <1>7, <3>6
  <2>6. CASE ~l.firing /\ l.memory # None
    <3>1. r.firing /\ r.length = Len(l.list) + 1 /\ r.index = Len(l.list) + 1
      BY <1>4, <1>9, <2>6 DEF Added
    <3>2. r.length = Len(r.list) /\ r.index \in 1..Len(r.list) + 1
      BY <1>2, <2>3, <3>1
    <3>3. CallsOK'
      BY <1>1, <1>5, <1>6, <2>1, <2>6, <3>1, <3>2, BeginsRound
    <3> QED BY <1>7, <3>3
  <2> QED BY <2>4, <2>5, <2>6
<1> QED BY <1>8, <1>9

LEMMA CallsNow ==
  ASSUME CallsOK
  PROVE  /\ ListOK(Funs, cbList) /\ RoundCallsEach
         /\ fires \in 0..MaxFires /\ Numbered(cbList, fires) /\ Indexed(cbList, phase)
         /\ phase \in {"idle", "loop", "inside", "ending"}
         /\ owed \subseteq Funs /\ (phase = "ending" => owed = {})
         /\ cbList \in ListRec(Funs)
         /\ cbList.list \in Seq(Funs) /\ IsInjective(cbList.list) /\ Len(cbList.list) \in Nat
         /\ DOMAIN cbList.list = 1..Len(cbList.list)
         /\ cbList.data \in Nat /\ cbList.index \in Nat /\ cbList.length \in Nat
         /\ cbList.stack \in Seq(Nat) /\ Len(cbList.stack) \in Nat
         /\ DOMAIN cbList.stack = 1..Len(cbList.stack)
         /\ (cbList.on /\ cbList.firing => cbList.length = Len(cbList.list))
<1>1. ListOK(Funs, cbList) /\ Rounds /\ RoundCallsEach
  BY DEF CallsOK
<1>2. cbList \in ListRec(Funs) /\ IsInjective(cbList.list) /\ (cbList.on /\ cbList.firing => cbList.length = Len(cbList.list))
  BY <1>1 DEF ListOK
<1> QED BY <1>1, <1>2, RoundsAre, FieldsAre

LEMMA RemoveKeepsRound ==
  ASSUME CallsOK, NEW c \in Funs, RemoveFun(c), phase \in {"idle", "inside"}
  PROVE  CallsOK' /\ InOrder
<1> DEFINE l == cbList
           r == remove(l, c)
           left == owed \ {c}
<1>1. ListOK(Funs, l) /\ RoundCallsEach /\ Becomes(r, left) /\ fires' = fires /\ cbList' = r
  BY CallsNow DEF RemoveFun, Becomes
<1>2. RemovedFun(Funs, l, c, r)
  BY <1>1, RemoveKeeps
<1> HIDE DEF r
<1>3. ListOK(Funs, r) /\ r.data = l.data /\ r.stack = l.stack /\ (r.firing <=> l.firing) /\ (r.on <=> l.on)
  BY <1>2 DEF RemovedFun
<1>4. fires' \in 0..MaxFires /\ Numbered(r, fires')
  BY <1>1, <1>3, CallsNow DEF Numbered
<1>5. InOrder
  BY <1>1, <1>3, CallsNow DEF InOrder
<1>6. left \subseteq Funs /\ (phase = "idle" /\ ~r.firing => left = {})
  BY <1>1, <1>3, CallsNow DEF RoundCallsEach
<1>7. Indexed(r, phase) /\ (phase = "inside" => left = DueFrom(r, r.index + 1))
  <2>1. CASE ~has(l, c)
    <3>1. r = l
      BY <1>2, <2>1 DEF RemovedFun
    <3>2. Indexed(r, phase)
      BY <3>1, CallsNow
    <3>3. ASSUME phase = "inside" PROVE left = DueFrom(r, r.index + 1)
      <4>1. owed = DueFrom(r, r.index + 1)
        BY <1>1, <3>1, <3>3 DEF RoundCallsEach
      <4>2. c \notin owed
        <5>1. \A i \in 1..Len(l.list) : l.list[i] # c
          BY <2>1, CallsNow DEF has, Range
        <5>2. CASE l.on
          <6>1. l.length = Len(l.list)
            BY <3>3, <5>2, CallsNow DEF Indexed
          <6>2. \A i \in l.index + 1..l.length : i \in 1..Len(l.list)
            BY <6>1, CallsNow
          <6> QED BY <3>1, <4>1, <5>1, <5>2, <6>2 DEF DueFrom
        <5>3. CASE ~l.on
          BY <3>1, <4>1, <5>3 DEF DueFrom
        <5> QED BY <5>2, <5>3
      <4> QED BY <4>1, <4>2
    <3> QED BY <3>2, <3>3
  <2>2. CASE has(l, c)
    <3>1. PICK at \in 1..Len(l.list) :
            /\ l.list[at] = c /\ Shorter(Funs, l.list, at, r.list)
            /\ l.firing => /\ r.length = l.length - 1
                           /\ r.index = IF at <= l.index THEN l.index - 1 ELSE l.index
            /\ ~l.firing => r.length = l.length /\ r.index = l.index
      BY <1>2, <2>2 DEF RemovedFun
    <3>2. l.on
      BY <1>2, <2>2 DEF RemovedFun
    <3>3. /\ Len(r.list) = Len(l.list) - 1 /\ Len(r.list) \in Nat
          /\ \A j \in 1..Len(r.list) : r.list[j] = IF j < at THEN l.list[j] ELSE l.list[j + 1]
      BY <3>1 DEF Shorter
    <3>4. CASE ~l.firing
      <4>1. phase = "idle" /\ r.length = l.length /\ r.index = l.index
        BY <3>1, <3>4, CallsNow DEF Indexed
      <4> QED BY <4>1, CallsNow DEF Indexed
    <3>5. CASE l.firing
      <4>1. /\ l.length = Len(l.list) /\ r.length = Len(r.list)
            /\ r.index = IF at <= l.index THEN l.index - 1 ELSE l.index
        BY <3>1, <3>2, <3>3, <3>5, CallsNow
      <4>2. Len(l.list) <= Cardinality(Funs) /\ Cardinality(Funs) \in Nat
        BY <1>1, ListBounded
      <4>3. l.index <= Cardinality(Funs) + 1 /\ (phase = "inside" => l.index <= Len(l.list))
        BY <4>1, CallsNow DEF Indexed
      <4>4. Indexed(r, phase)
        BY <1>3, <3>3, <3>5, <4>1, <4>2, <4>3, CallsNow DEF Indexed
      <4>5. ASSUME phase = "inside" PROVE left = DueFrom(r, r.index + 1)
        <5> DEFINE k == l.index
                   n == Len(l.list)
        <5>1. owed = {l.list[i] : i \in k + 1..n}
          BY <1>1, <3>2, <4>1, <4>5 DEF RoundCallsEach, DueFrom
        <5>2. DueFrom(r, r.index + 1) = {r.list[i] : i \in r.index + 1..n - 1}
          BY <1>3, <3>2, <3>3, <4>1 DEF DueFrom
        <5>3. k \in Nat /\ n \in Nat /\ at \in 1..n /\ \A i \in 1..n : l.list[i] = c => i = at
          BY <3>1, CallsNow DEF IsInjective
        <5>4. ASSUME NEW i \in r.index + 1..n - 1 PROVE r.list[i] \in left
          <6>1. i \in 1..Len(r.list) /\ r.list[i] = IF i < at THEN l.list[i] ELSE l.list[i + 1]
            BY <3>3, <4>1, <4>3, <5>3, <4>5, CallsNow
          <6>2. CASE i < at
            <7>1. i \in k + 1..n /\ i \in 1..n /\ i # at
              BY <4>1, <4>3, <4>5, <5>3, <6>1, <6>2
            <7> QED BY <5>1, <5>3, <6>1, <6>2, <7>1
          <6>3. CASE ~(i < at)
            <7>1. i + 1 \in k + 1..n /\ i + 1 \in 1..n /\ i + 1 # at
              BY <4>1, <4>3, <4>5, <5>3, <6>1, <6>3
            <7> QED BY <5>1, <5>3, <6>1, <6>3, <7>1
          <6> QED BY <6>2, <6>3
        <5>5. ASSUME NEW i \in k + 1..n, l.list[i] # c PROVE l.list[i] \in DueFrom(r, r.index + 1)
          <6>1. i \in 1..n /\ i # at
            BY <3>1, <5>3, <5>5
          <6>2. CASE i < at
            <7>1. i \in 1..Len(r.list) /\ i \in r.index + 1..n - 1
              BY <3>3, <4>1, <5>3, <6>1, <6>2
            <7> QED BY <3>3, <5>2, <6>2, <7>1
          <6>3. CASE i > at
            <7>1. i - 1 \in 1..Len(r.list) /\ i - 1 \in r.index + 1..n - 1 /\ ~(i - 1 < at) /\ (i - 1) + 1 = i
              BY <3>3, <4>1, <5>3, <6>1, <6>3
            <7> QED BY <3>3, <5>2, <7>1
          <6> QED BY <5>3, <6>1, <6>2, <6>3
        <5>6. left \subseteq DueFrom(r, r.index + 1)
          BY <5>1, <5>5
        <5>7. DueFrom(r, r.index + 1) \subseteq left
          BY <5>2, <5>4
        <5> QED BY <5>6, <5>7
      <4> QED BY <4>4, <4>5
    <3> QED BY <3>4, <3>5
  <2> QED BY <2>1, <2>2
<1>8. Becomes(r, left) /\ (r.firing => cbList.firing)
  BY <1>1, <1>3
<1> HIDE DEF left
<1>9. CallsOK'
  BY <1>3, <1>4, <1>6, <1>7, <1>8, GoesOn
<1> QED BY <1>5, <1>9

LEMMA FireKeepsRound ==
  ASSUME CallsOK, Fire, phase \in {"idle", "inside"}
  PROVE  CallsOK' /\ InOrder
<1> DEFINE l == cbList
           d == fires + 1
           r == fireWith(l, d)
<1>1. ListOK(Funs, l) /\ RoundCallsEach /\ Becomes(r, owed) /\ fires' = d /\ cbList' = r /\ fires < MaxFires
  BY CallsNow DEF Fire, Becomes
<1>2. /\ d \in Nat /\ d \in 0..MaxFires /\ l.data < d /\ l.data <= d
      /\ \A i \in DOMAIN l.stack : l.stack[i] < d /\ l.stack[i] <= d
  <2>1. \A i \in DOMAIN l.stack : l.stack[i] \in Nat /\ l.stack[i] <= fires
    BY CallsNow, ElementOfSeq DEF Numbered
  <2> QED BY <1>1, <2>1, CallsNow, CallbackListAssumption DEF Numbered
<1> HIDE DEF d
<1>3. Fired(Funs, l, d, r)
  BY <1>1, <1>2, FireKeeps
<1> HIDE DEF r
<1>4. ListOK(Funs, r) /\ r.options = l.options /\ (r.on <=> l.on) /\ r.list = l.list
  BY <1>3 DEF Fired
<1>5. Len(l.stack) <= fires /\ fires \in Nat /\ d = fires + 1
  BY CallsNow DEF Numbered, d
<1>6. CASE ~(l.on /\ (~l.fired \/ l.stacked))
  <2>1. r = l
    BY <1>3, <1>6 DEF Fired
  <2>2. Indexed(r, phase) /\ InOrder
    BY <1>1, <2>1, CallsNow DEF InOrder
  <2>3. Numbered(r, fires')
    BY <1>1, <1>2, <1>5, <2>1, CallsNow DEF Numbered
  <2>4. /\ phase = "inside" => owed = DueFrom(r, r.index + 1)
        /\ phase = "idle" /\ ~r.firing => owed = {}
    BY <1>1, <2>1 DEF RoundCallsEach
  <2>5. Becomes(r, owed) /\ (r.firing => cbList.firing) /\ owed \subseteq Funs /\ fires' \in 0..MaxFires
    BY <1>1, <1>2, <2>1, CallsNow
  <2>6. CallsOK'
    BY <1>4, <2>2, <2>3, <2>4, <2>5, GoesOn
  <2> QED BY <2>2, <2>6
<1>7. CASE l.on /\ (~l.fired \/ l.stacked) /\ l.firing
  <2>1. /\ r.firing /\ r.stack = Append(l.stack, d) /\ r.data = l.data
        /\ r.index = l.index /\ r.length = l.length
    BY <1>3, <1>7 DEF Fired
  <2>2. Indexed(r, phase) /\ InOrder
    BY <1>1, <1>7, <2>1, CallsNow DEF InOrder, Indexed
  <2>3. Numbered(r, fires')
    <3>1. Len(r.stack) = Len(l.stack) + 1 /\ \A i \in 1..Len(l.stack) : r.stack[i] = l.stack[i]
      BY <1>2, <2>1, CallsNow, AppendProperties
    <3>2. r.stack[Len(l.stack) + 1] = d
      BY <1>2, <2>1, CallsNow, AppendProperties
    <3>3. DOMAIN r.stack = 1..Len(l.stack) + 1
      BY <1>4, <3>1, FieldsAre DEF ListOK
    <3>4. \A i \in DOMAIN r.stack : i \in 1..Len(l.stack) \/ i = Len(l.stack) + 1
      BY <3>3, CallsNow
    <3>5. d <= d
      BY <1>2
    <3>6. \A i \in DOMAIN r.stack : r.stack[i] <= d
      BY <1>2, <3>1, <3>2, <3>4, <3>5, CallsNow
    <3>7. Len(r.stack) <= d /\ r.data <= d
      BY <1>2, <1>5, <2>1, <3>1, CallsNow
    <3> QED BY <1>1, <3>6, <3>7 DEF Numbered
  <2>4. /\ phase = "inside" => owed = DueFrom(r, r.index + 1)
        /\ ~(phase = "idle" /\ ~r.firing)
    BY <1>1, <1>4, <2>1 DEF RoundCallsEach, DueFrom
  <2>5. Becomes(r, owed) /\ (r.firing => cbList.firing) /\ owed \subseteq Funs /\ fires' \in 0..MaxFires
    BY <1>1, <1>2, <1>7, CallsNow
  <2>6. CallsOK'
    BY <1>4, <2>2, <2>3, <2>4, <2>5, GoesOn
  <2> QED BY <2>2, <2>6
<1>8. CASE l.on /\ (~l.fired \/ l.stacked) /\ ~l.firing
  <2>1. /\ r.firing /\ r.stack = <<>> /\ r.data = d /\ r.index = 1 /\ r.length = Len(l.list)
    BY <1>3, <1>8 DEF Fired
  <2>2. InOrder
    <3>1. r.data >= l.data
      BY <1>2, <2>1, CallsNow
    <3>2. ~("once" \in l.options /\ l.fired)
      BY <1>1, <1>8 DEF ListOK
    <3> QED BY <1>1, <3>1, <3>2 DEF InOrder
  <2>3. Numbered(r, fires')
    <3>1. Len(r.stack) = 0 /\ DOMAIN r.stack = {}
      BY <2>1
    <3> QED BY <1>1, <1>2, <2>1, <3>1 DEF Numbered
  <2>4. r.index \in 1..Len(r.list) + 1 /\ r.length = Len(r.list) /\ r.on
    BY <1>4, <1>8, <2>1, CallsNow
  <2>5. Becomes(r, owed) /\ ~cbList.firing /\ fires' \in 0..MaxFires
    BY <1>1, <1>2, <1>8
  <2>6. CallsOK'
    BY <1>4, <2>1, <2>3, <2>4, <2>5, BeginsRound
  <2> QED BY <2>2, <2>6
<1> QED BY <1>6, <1>7, <1>8

LEMMA LockKeepsRound ==
  ASSUME CallsOK, Lock, phase \in {"idle", "inside"}
  PROVE  CallsOK' /\ InOrder
<1> DEFINE l == cbList
           r == lock(l)
           left == IF l.memory = None THEN {} ELSE owed
<1>1. ListOK(Funs, l) /\ RoundCallsEach /\ Becomes(r, left) /\ fires' = fires /\ cbList' = r
  BY CallsNow DEF Lock, Becomes
<1>2. Locked(Funs, l, r)
  BY <1>1, LockKeeps
<1> HIDE DEF r
<1>3. /\ ListOK(Funs, r) /\ r.options = l.options /\ r.data = l.data /\ (r.firing <=> l.firing)
      /\ r.index = l.index /\ r.length = l.length /\ r.stack = <<>>
  BY <1>2 DEF Locked
<1>4. fires' \in 0..MaxFires /\ Numbered(r, fires')
  <2>1. Len(r.stack) = 0 /\ DOMAIN r.stack = {}
    BY <1>3
  <2> QED BY <1>1, <1>3, <2>1, CallsNow DEF Numbered
<1>5. InOrder /\ Indexed(r, phase)
  BY <1>1, <1>3, CallsNow DEF InOrder, Indexed
<1>6. /\ left \subseteq Funs
      /\ phase = "inside" => left = DueFrom(r, r.index + 1)
      /\ phase = "idle" /\ ~r.firing => left = {}
  <2>1. CASE l.memory = None
    BY <1>2, <2>1 DEF Locked, DueFrom
  <2>2. CASE l.memory # None
    <3>1. (r.on <=> l.on) /\ r.list = l.list
      BY <1>2, <2>2 DEF Locked
    <3> QED BY <1>1, <1>3, <2>2, <3>1, CallsNow DEF RoundCallsEach, DueFrom
  <2> QED BY <2>1, <2>2
<1>7. Becomes(r, left) /\ (r.firing => cbList.firing)
  BY <1>1, <1>3
<1> HIDE DEF left
<1>8. CallsOK'
  BY <1>3, <1>4, <1>5, <1>6, <1>7, GoesOn
<1> QED BY <1>5, <1>8

LEMMA DisableKeepsRound ==
  ASSUME CallsOK, Disable, phase \in {"idle", "inside"}
  PROVE  CallsOK' /\ InOrder
<1> DEFINE l == cbList
           r == disable(l)
<1>1. ListOK(Funs, l) /\ Becomes(r, {}) /\ fires' = fires /\ cbList' = r
  BY CallsNow DEF Disable, Becomes
<1>2. ListOK(Funs, r) /\ Disabled(Funs, l, r)
  BY <1>1, DisableKeeps
<1> HIDE DEF r
<1>3. /\ r.data = l.data /\ r.stack = <<>> /\ (r.firing <=> l.firing) /\ ~r.on
      /\ r.index = l.index /\ r.length = l.length
  BY <1>2 DEF Disabled
<1>4. fires' \in 0..MaxFires /\ Numbered(r, fires')
  <2>1. Len(r.stack) = 0 /\ DOMAIN r.stack = {}
    BY <1>3
  <2> QED BY <1>1, <1>3, <2>1, CallsNow DEF Numbered
<1>5. InOrder /\ Indexed(r, phase)
  BY <1>1, <1>3, CallsNow DEF InOrder, Indexed
<1>6. phase = "inside" => {} = DueFrom(r, r.index + 1)
  BY <1>3 DEF DueFrom
<1>7. (r.firing => cbList.firing) /\ {} \subseteq Funs
  BY <1>3
<1>8. CallsOK'
  BY <1>1, <1>2, <1>4, <1>5, <1>6, <1>7, GoesOn
<1> QED BY <1>5, <1>8

(* The steps of fire(). *)
LEMMA CallKeepsRound ==
  ASSUME CallsOK, Call
  PROVE  CallsOK' /\ InOrder
<1> DEFINE l == cbList
<1>1. /\ phase = "loop" /\ l.on /\ l.index <= l.length /\ phase' = "inside"
      /\ owed' = owed \ {l.list[l.index]} /\ cbList' = l /\ fires' = fires
  BY DEF Call, more
<1>2. l.firing /\ l.index >= 1 /\ l.length = Len(l.list)
  BY <1>1, CallsNow DEF Indexed
<1>3. owed = {l.list[i] : i \in l.index..Len(l.list)}
  BY <1>1, <1>2, CallsNow DEF RoundCallsEach, Due, DueFrom
<1>4. owed' = DueFrom(l, l.index + 1)
  <2>1. \A i \in l.index..Len(l.list) : i \in 1..Len(l.list) /\ (i = l.index \/ i \in l.index + 1..Len(l.list))
    BY <1>2, CallsNow
  <2>2. \A i \in l.index + 1..Len(l.list) : i \in l.index..Len(l.list) /\ i \in 1..Len(l.list) /\ i # l.index
    BY <1>2, CallsNow
  <2>3. \A i \in l.index + 1..Len(l.list) : l.list[i] # l.list[l.index]
    <3>1. l.index \in 1..Len(l.list)
      BY <1>1, <1>2, CallsNow
    <3> QED BY <2>2, <3>1, CallsNow DEF IsInjective
  <2>4. DueFrom(l, l.index + 1) = {l.list[i] : i \in l.index + 1..Len(l.list)}
    BY <1>1, <1>2 DEF DueFrom
  <2> HIDE DEF l
  <2>5. owed' \subseteq DueFrom(l, l.index + 1)
    BY <1>1, <1>3, <2>1, <2>4
  <2>6. DueFrom(l, l.index + 1) \subseteq owed'
    BY <1>1, <1>3, <2>2, <2>3, <2>4
  <2> QED BY <2>5, <2>6
<1>5. RoundCallsEach'
  BY <1>1, <1>4 DEF RoundCallsEach
<1>6. Indexed(l, "inside") /\ owed' \subseteq Funs
  BY <1>1, <1>2, CallsNow DEF Indexed
<1>7. Rounds'
  BY <1>1, <1>6, CallsNow DEF Rounds, Numbered, Indexed
<1>8. CallsOK'
  BY <1>1, <1>5, <1>7, CallsNow DEF CallsOK
<1> QED BY <1>1, <1>8, CallsNow DEF InOrder

LEMMA ReturnKeepsRound ==
  ASSUME CallsOK, Return
  PROVE  CallsOK' /\ InOrder
<1> DEFINE l == cbList
           r == [l EXCEPT !.index = @ + 1]
<1>1. phase = "inside" /\ cbList' = r /\ phase' = "loop" /\ fires' = fires /\ owed' = owed
  BY DEF Return
<1>2. Relisted(Funs, l, l.list, l.length, l.index + 1, r) /\ ListOK(Funs, r)
  BY CallsNow, NextKeeps
<1> HIDE DEF r
<1>3. /\ r.on = l.on /\ r.list = l.list /\ r.data = l.data /\ r.firing = l.firing
      /\ r.length = l.length /\ r.index = l.index + 1 /\ r.stack = l.stack
  BY <1>2 DEF Relisted
<1>4. owed = Due(r)
  BY <1>1, <1>3, CallsNow DEF RoundCallsEach, Due, DueFrom
<1>5. Numbered(r, fires)
  BY <1>3, CallsNow DEF Numbered
<1>6. Indexed(r, "loop")
  <2>1. Cardinality(Funs) \in Nat
    BY CallsNow, ListBounded
  <2>2. l.index \in Nat /\ l.length \in Nat
    BY CallsNow
  <2>3. l.firing /\ l.index <= l.length /\ l.length <= Cardinality(Funs)
    BY <1>1, CallsNow DEF Indexed
  <2> QED BY <1>3, <2>1, <2>2, <2>3 DEF Indexed
<1>7. Rounds'
  BY <1>1, <1>5, <1>6, CallsNow DEF Rounds, Numbered, Indexed
<1>8. RoundCallsEach'
  BY <1>1, <1>4 DEF RoundCallsEach
<1>9. CallsOK'
  BY <1>1, <1>2, <1>7, <1>8 DEF CallsOK
<1> QED BY <1>1, <1>3, <1>9, CallsNow DEF InOrder

LEMMA ReturnFalseKeepsRound ==
  ASSUME CallsOK, ReturnFalse
  PROVE  CallsOK' /\ InOrder
<1> DEFINE l == cbList
           r == [l EXCEPT !.memory = None]
<1>1. phase = "inside" /\ cbList' = r /\ phase' = "ending" /\ fires' = fires /\ owed' = {}
  BY DEF ReturnFalse
<1>2. /\ ListOK(Funs, r) /\ r.data = l.data /\ r.stack = l.stack /\ (r.firing <=> l.firing)
      /\ r.length = l.length /\ r.index = l.index
  BY CallsNow, ForgetKeeps
<1> HIDE DEF r
<1>3. Numbered(r, fires)
  BY <1>2, CallsNow DEF Numbered
<1>4. Indexed(r, "ending")
  BY <1>1, <1>2, CallsNow DEF Indexed
<1>5. Rounds'
  BY <1>1, <1>3, <1>4, CallsNow DEF Rounds, Numbered, Indexed
<1>6. RoundCallsEach'
  BY <1>1 DEF RoundCallsEach
<1>7. CallsOK'
  BY <1>1, <1>2, <1>5, <1>6 DEF CallsOK
<1> QED BY <1>1, <1>2, <1>7, CallsNow DEF InOrder

LEMMA ThrowKeepsRound ==
  ASSUME CallsOK, Throw
  PROVE  CallsOK' /\ InOrder
<1>1. phase = "inside" /\ phase' = "idle" /\ cbList' = cbList /\ fires' = fires /\ owed' = owed
  BY DEF Throw
<1>2. cbList.firing /\ Indexed(cbList, "idle")
  BY <1>1, CallsNow DEF Indexed
<1>3. Rounds'
  BY <1>1, <1>2, CallsNow DEF Rounds, Numbered, Indexed
<1>4. RoundCallsEach'
  BY <1>1, <1>2 DEF RoundCallsEach
<1>5. CallsOK'
  BY <1>1, <1>3, <1>4, CallsNow DEF CallsOK
<1> QED BY <1>1, <1>5, CallsNow DEF InOrder

LEMMA EndKeepsRound ==
  ASSUME CallsOK, End
  PROVE  CallsOK' /\ InOrder
<1> DEFINE l == cbList
           r == end(l)
<1>1. /\ phase = "ending" \/ (phase = "loop" /\ ~more(l))
      /\ fires' = fires /\ cbList' = r
      /\ phase' = IF r.firing THEN "loop" ELSE "idle"
      /\ owed' = IF r.firing THEN Due(r) ELSE owed
  BY DEF End
<1>2. phase \in {"ending", "loop"} /\ fires' = fires /\ cbList' = r
  BY DEF End
<1>3. Ended(Funs, l, r)
  BY CallsNow, EndKeeps
<1> HIDE DEF r
<1>4. ListOK(Funs, r) /\ l.firing
  BY <1>2, <1>3, CallsNow DEF Ended, Indexed
<1>5. CASE r.firing
  <2>1. /\ r.on /\ l.stacked /\ l.stack # <<>> /\ r.data = Head(l.stack) /\ r.stack = Tail(l.stack)
        /\ r.list = l.list /\ r.index = 1 /\ r.length = Len(l.list)
    BY <1>3, <1>5 DEF Ended
  <2>2. Len(l.stack) \in Nat \ {0}
    BY <2>1, CallsNow, EmptySeq
  <2>3. r.data = l.stack[1] /\ 1 \in DOMAIN l.stack
    BY <2>1, <2>2, CallsNow
  <2>4. /\ Len(r.stack) = Len(l.stack) - 1
        /\ \A i \in 1..Len(r.stack) : r.stack[i] = l.stack[i + 1]
    <3>1. Len(r.stack) = Len(l.stack) - 1
      BY <2>1, CallsNow, HeadTailProperties
    <3>2. \A i \in 1..Len(r.stack) : r.stack[i] = l.stack[i + 1]
      BY <2>1, CallsNow, HeadTailProperties
    <3> QED BY <3>1, <3>2
  <2>5. DOMAIN r.stack = 1..Len(l.stack) - 1
    BY <1>4, <2>4, FieldsAre DEF ListOK
  <2>6. Numbered(r, fires)
    <3>5. \A i \in DOMAIN r.stack : r.stack[i] = l.stack[i + 1]
      BY <2>4, <2>5
    <3>6. \A i \in DOMAIN r.stack : i + 1 \in 1..Len(l.stack)
      BY <2>2, <2>5
    <3>7. DOMAIN l.stack = 1..Len(l.stack)
      BY CallsNow
    <3>1. \A i \in DOMAIN r.stack : i + 1 \in DOMAIN l.stack /\ r.stack[i] = l.stack[i + 1]
      BY <3>5, <3>6, <3>7
    <3>2. \A i \in DOMAIN l.stack : l.stack[i] <= fires
      BY CallsNow DEF Numbered
    <3>3. Len(l.stack) <= fires
      BY CallsNow DEF Numbered
    <3>4. Len(r.stack) <= fires
      BY <2>2, <2>4, <3>3, CallsNow
    <3> QED BY <2>3, <3>1, <3>2, <3>4 DEF Numbered
  <2>7. InOrder
    <3>1. l.stack[1] > l.data
      BY <2>3, CallsNow DEF ListOK
    <3>2. l.stack[1] \in Nat
      BY <2>3, CallsNow, ElementOfSeq
    <3>3. r.data >= l.data
      BY <2>3, <3>1, <3>2, CallsNow
    <3>4. "once" \notin l.options
      BY <2>1, CallsNow DEF ListOK
    <3> QED BY <1>2, <3>3, <3>4 DEF InOrder
  <2>8. Len(r.list) <= Cardinality(Funs) /\ Cardinality(Funs) \in Nat /\ Len(r.list) \in Nat
    BY <1>4, <2>1, ListBounded, CallsNow
  <2>9. Indexed(r, "loop")
    BY <1>5, <2>1, <2>8 DEF Indexed
  <2>10. Due(r) \subseteq Funs
    BY <1>4, <2>1, DueIs DEF Due
  <2>11. phase' = "loop" /\ owed' = Due(r)
    BY <1>2, <1>5 DEF End
  <2>12. Rounds'
    BY <1>2, <2>6, <2>9, <2>10, <2>11, CallsNow DEF Rounds, Numbered, Indexed
  <2>13. RoundCallsEach'
    BY <1>2, <2>11 DEF RoundCallsEach
  <2>14. CallsOK'
    BY <1>2, <1>4, <2>12, <2>13 DEF CallsOK
  <2> QED BY <2>7, <2>14
<1>6. CASE ~r.firing
  <2>1. r.data = l.data /\ r.stack = <<>> /\ r.index = l.index /\ r.length = l.length
    BY <1>3, <1>6 DEF Ended
  <2>2. phase' = "idle" /\ owed' = owed
    BY <1>2, <1>6 DEF End
  <2>3. owed = {}
    <3>1. CASE phase = "ending"
      BY <3>1, CallsNow
    <3>2. CASE phase = "loop"
      <4>1. ~(l.on /\ l.index <= l.length)
        BY <3>2 DEF End, more
      <4>2. owed = Due(l)
        BY <3>2, CallsNow DEF RoundCallsEach
      <4>3. l.index \in Nat /\ l.length \in Nat
        BY CallsNow
      <4> QED BY <4>1, <4>2, <4>3 DEF Due, DueFrom
    <3> QED BY <1>2, <3>1, <3>2
  <2>4. Numbered(r, fires)
    <3>1. Len(r.stack) = 0 /\ DOMAIN r.stack = {}
      BY <2>1
    <3> QED BY <2>1, <3>1, CallsNow DEF Numbered
  <2>5. Indexed(r, "idle")
    BY <2>1, CallsNow DEF Indexed
  <2>6. Rounds'
    BY <1>2, <2>2, <2>3, <2>4, <2>5, CallsNow DEF Rounds, Numbered, Indexed
  <2>7. RoundCallsEach'
    BY <1>2, <2>2, <2>3 DEF RoundCallsEach
  <2>8. CallsOK'
    BY <1>2, <1>4, <2>6, <2>7 DEF CallsOK
  <2> QED BY <1>2, <2>1, <2>8, CallsNow DEF InOrder
<1> QED BY <1>5, <1>6

LEMMA NewListKeepsRound ==
  ASSUME NEW r, NEW options \in Options, r = NewList(options)
  PROVE  /\ ListOK(Funs, r) /\ Numbered(r, 0) /\ Indexed(r, "idle") /\ ~r.firing
<1>1. options \in SUBSET {"once", "memory", "stopOnFalse"}
  BY DEF Options
<1>2. ListOK(Funs, r) /\ r.data = 0 /\ ~r.firing /\ r.length = 0 /\ r.index = 0 /\ r.stack = <<>>
  BY <1>1, NewListIs DEF None
<1>3. Len(r.stack) = 0 /\ DOMAIN r.stack = {}
  BY <1>2
<1>4. Cardinality(Funs) \in Nat
  BY CallbackListAssumption, FS_CardinalityType
<1> QED BY <1>2, <1>3, <1>4 DEF Numbered, Indexed

LEMMA ListInitOK == ListInit => CallsOK
<1> SUFFICES ASSUME ListInit PROVE CallsOK
  OBVIOUS
<1>1. PICK options \in Options : cbList = NewList(options)
  BY DEF ListInit
<1>2. phase = "idle" /\ fires = 0 /\ owed = {} /\ fires \in 0..MaxFires
  BY CallbackListAssumption DEF ListInit
<1>3. ListOK(Funs, cbList) /\ Numbered(cbList, 0) /\ Indexed(cbList, "idle") /\ ~cbList.firing
  BY <1>1, NewListKeepsRound
<1>4. Rounds
  BY <1>2, <1>3 DEF Rounds, Numbered, Indexed
<1>5. RoundCallsEach
  BY <1>2 DEF RoundCallsEach
<1> QED BY <1>3, <1>4, <1>5 DEF CallsOK

LEMMA RenewKeepsRound ==
  ASSUME CallsOK, Renew
  PROVE  CallsOK' /\ fires' = 0
<1>1. PICK options \in Options : cbList' = NewList(options)
  BY DEF Renew
<1>2. phase' = "idle" /\ fires' = 0 /\ owed' = {} /\ fires' \in 0..MaxFires
  BY CallbackListAssumption DEF Renew
<1>3. ListOK(Funs, cbList') /\ Numbered(cbList', 0) /\ Indexed(cbList', "idle") /\ ~cbList'.firing
  BY <1>1, NewListKeepsRound
<1>4. Rounds'
  BY <1>2, <1>3 DEF Rounds, Numbered, Indexed
<1>5. RoundCallsEach'
  BY <1>2 DEF RoundCallsEach
<1> QED BY <1>2, <1>3, <1>4, <1>5 DEF CallsOK

(* Every step keeps the invariant, and the data in order. *)
LEMMA ListNextOK ==
  ASSUME CallsOK, [ListNext]_listVars
  PROVE  CallsOK' /\ (fires' # 0 => InOrder)
<1>1. CASE UNCHANGED listVars
  <2>1. cbList' = cbList /\ phase' = phase /\ fires' = fires /\ owed' = owed
    BY <1>1 DEF listVars
  <2>2. CallsOK'
    BY <2>1 DEF CallsOK, Rounds, RoundCallsEach, Due, DueFrom
  <2> QED BY <2>1, <2>2, CallsNow DEF InOrder
<1>2. CASE Operate
  BY <1>2, AddKeepsRound, RemoveKeepsRound, FireKeepsRound, LockKeepsRound, DisableKeepsRound DEF Operate
<1>3. CASE Call
  BY <1>3, CallKeepsRound
<1>4. CASE Return
  BY <1>4, ReturnKeepsRound
<1>5. CASE ReturnFalse
  BY <1>5, ReturnFalseKeepsRound
<1>6. CASE Throw
  BY <1>6, ThrowKeepsRound
<1>7. CASE End
  BY <1>7, EndKeepsRound
<1>8. CASE Renew
  BY <1>8, RenewKeepsRound
<1> QED BY <1>1, <1>2, <1>3, <1>4, <1>5, <1>6, <1>7, <1>8 DEF ListNext

LEMMA CallsTyped == CallsOK => ListTypeOK /\ RoundCallsEach
<1> SUFFICES ASSUME CallsOK PROVE ListTypeOK /\ RoundCallsEach
  OBVIOUS
<1>1. Range(cbList.list) \subseteq Funs
  BY CallsNow, ElementOfSeq DEF Range
<1>2. Cardinality(Funs) \in Nat
  BY CallsNow, ListBounded
<1>3. cbList.index \in 0..Cardinality(Funs) + 1 /\ cbList.length \in 0..Cardinality(Funs)
  BY <1>2, CallsNow DEF Indexed
<1>4. Len(cbList.stack) <= MaxFires
  BY CallsNow, CallbackListAssumption DEF Numbered
<1> QED BY <1>1, <1>3, <1>4, CallsNow DEF ListTypeOK

-------------------------------------------------------------------------------
(* Deferreds *)

(* The callbacks of the deferred itself come before those of its users.    *)
Callable == Range(Own) \cup Handlers
Finals == {"done", "fail"}

(* A list that still has the callbacks of the deferred, or users' only.    *)
Headed(l) ==
  /\ Len(l.list) >= 3 /\ l.list[1] = "state" /\ l.list[2] = "disable" /\ l.list[3] = "lock"
  /\ \A i \in 4..Len(l.list) : l.list[i] \in Handlers
Plain(l) == \A i \in 1..Len(l.list) : l.list[i] \in Handlers

(* A final list is at the callbacks of the deferred. *)
Settling(l) == l.firing /\ Headed(l) /\ l.index <= 3

(* A list that has no rounds any more. *)
Silent(l) == ~l.on \/ (l.fired /\ ~l.stacked)

(* fire() of a list is between two callbacks; how many it has called.      *)
Loops(n) == frames # <<>> /\ ~inside /\ Head(frames) = n
Passed(n) == IF Loops(n) THEN lists[n].index - 1 ELSE lists[n].index

FramesOK ==
  /\ frames \in Seq(Lists) /\ IsInjective(frames)
  /\ \A i \in 1..Len(frames) : lists[frames[i]].firing
  /\ inside \in BOOLEAN /\ broken \in BOOLEAN
  /\ inside => frames # <<>>
  /\ ~broken => \A n \in Lists : lists[n].firing => n \in Range(frames)

CountsOK ==
  /\ notices \in 0..MaxNotices
  /\ added \subseteq Lists \X Handlers
  /\ calls \in [Lists \X Handlers -> Nat]

FinalOK(l, passed) ==
  /\ l.options = {"once", "memory"}
  /\ l.on => Headed(l) \/ (Plain(l) /\ l.fired)
  /\ l.on /\ ~l.fired => Headed(l) /\ l.memory = None
  /\ l.fired => l.on /\ l.memory # None
  /\ l.fired /\ ~l.firing => l.list = <<>>
  /\ l.firing => l.index >= 1 /\ passed <= Len(l.list)
  /\ ~l.fired => l.data = None

(* Every callback that has its turn behind it was called, and no other.    *)
CalledOnce(n, l, passed, k, a, c) ==
  /\ k[<<n, c>>] \in {0, 1}
  /\ <<n, c>> \notin a => k[<<n, c>>] = 0 /\ c \notin Range(l.list)
  /\ ~l.fired => k[<<n, c>>] = 0
  /\ l.fired /\ <<n, c>> \in a /\ c \notin Range(l.list) => k[<<n, c>>] = 1 /\ ~Headed(l)
  /\ <<n, c>> \in a /\ l.on /\ ~l.fired => c \in Range(l.list)
  /\ l.fired => \A i \in 1..Len(l.list) :
                  l.list[i] = c => k[<<n, c>>] = IF i <= passed THEN 1 ELSE 0
CalledOK(n, l, passed, k, a) == \A c \in Handlers : CalledOnce(n, l, passed, k, a, c)

ProgressOK(l, count) ==
  /\ l.options = {"memory"}
  /\ Plain(l)
  /\ l.fired => l.on /\ l.memory # None
  /\ ~l.fired => l.memory = None
  /\ l.firing => l.index >= 1
  /\ l.data <= count /\ \A i \in DOMAIN l.stack : l.stack[i] <= count

SettledOK(n, d, l, o, p, loops) ==
  /\ d = Final(n) => l.fired
  /\ l.fired =>
       /\ ~o.fired
       /\ d = Final(n) \/ (d = "pending" /\ Settling(l) /\ l.index = 1)
       /\ ~o.on \/ (Settling(l) /\ l.index <= 2)
       /\ Silent(p) \/ Settling(l)
  /\ Settling(l) => loops
  /\ ~l.on => o.fired

(* What the steps of a deferred keep: its three lists, what settling has   *)
(* done to the other two, and which handlers were called.                  *)
DeferredOK ==
  /\ lists \in [Lists -> ListRec(Callable)] /\ \A n \in Lists : ListOK(Callable, lists[n])
  /\ FramesOK /\ CountsOK
  /\ dstate \in {"pending", "resolved", "rejected"}
  /\ ProgressOK(lists["progress"], notices)
  /\ \A n \in Finals :
       /\ FinalOK(lists[n], Passed(n)) /\ CalledOK(n, lists[n], Passed(n), calls, added)
       /\ SettledOK(n, dstate, lists[n], lists[Other(n)], lists["progress"], Loops(n))

LEMMA OwnIs ==
  /\ Own \in Seq(Callable) /\ Len(Own) = 3 /\ IsInjective(Own) /\ Range(Own) = {"state", "disable", "lock"}
  /\ Own[1] = "state" /\ Own[2] = "disable" /\ Own[3] = "lock"
<1>1. Len(Own) = 3 /\ Own[1] = "state" /\ Own[2] = "disable" /\ Own[3] = "lock"
  BY DEF Own
<1>2. DOMAIN Own = {1, 2, 3}
  BY DEF Own
<1>3. Range(Own) = {"state", "disable", "lock"}
  BY <1>1, <1>2 DEF Range
<1>4. Own \in Seq({"state", "disable", "lock"})
  BY DEF Own
<1>5. Own \in Seq(Callable)
  BY <1>3, <1>4 DEF Callable, Own
<1>6. IsInjective(Own)
  BY <1>1, <1>2 DEF IsInjective
<1> QED BY <1>1, <1>3, <1>5, <1>6

LEMMA NotOwn ==
  ASSUME NEW c \in Handlers
  PROVE  c \notin {"state", "disable", "lock"} /\ c \in Callable
BY OwnIs, DeferredAssumption DEF Callable

(* What a list of the deferred is. *)
LEMMA ListFacts ==
  ASSUME NEW l, ListOK(Callable, l)
  PROVE  /\ l.list \in Seq(Callable) /\ IsInjective(l.list) /\ Len(l.list) \in Nat
         /\ DOMAIN l.list = 1..Len(l.list)
         /\ l.index \in Nat /\ l.length \in Nat /\ l.memory \in Nat /\ l.data \in Nat
         /\ l.on \in BOOLEAN /\ l.fired \in BOOLEAN /\ l.firing \in BOOLEAN /\ l.stacked \in BOOLEAN
BY FieldsAre DEF ListOK

-------------------------------------------------------------------------------
(* Deferreds: a final list and the calls of its callbacks *)

FinalKept(n, r, passed, k, a) == FinalOK(r, passed) /\ CalledOK(n, r, passed, k, a)

(* No round of it begins before another is over. *)
LEMMA FinalAdd ==
  ASSUME NEW n \in Finals, NEW l, ListOK(Callable, l), NEW p \in Int, NEW k, NEW a,
         FinalOK(l, p), CalledOK(n, l, p, k, a),
         NEW c \in Handlers, <<n, c>> \notin a,
         NEW r, Added(Callable, l, c, r),
         NEW q, q = IF r.firing /\ ~l.firing THEN 0 ELSE p
  PROVE  FinalKept(n, r, q, k, a \cup {<<n, c>>})
<1> DEFINE b == a \cup {<<n, c>>}
<1>1. /\ l.list \in Seq(Callable) /\ IsInjective(l.list) /\ Len(l.list) \in Nat
      /\ DOMAIN l.list = 1..Len(l.list)
  BY ListFacts
<1>2. k[<<n, c>>] = 0 /\ c \notin Range(l.list) /\ ~has(l, c)
  BY DEF CalledOK, CalledOnce, has
<1>3. /\ ListOK(Callable, r) /\ r.options = l.options /\ (r.on <=> l.on) /\ r.data = l.data
      /\ (l.fired => r.fired)
  BY DEF Added
<1>4. ASSUME NEW d \in Handlers, d # c
      PROVE  <<n, d>> \in b <=> <<n, d>> \in a
  BY <1>4
<1>5. <<n, c>> \in b
  OBVIOUS
<1> HIDE DEF b
<1>6. CASE ~l.on
  <2>1. r = l /\ ~l.fired /\ q = p /\ l.list = <<>>
    BY <1>6 DEF Added, FinalOK, ListOK
  <2>2. FinalOK(r, q)
    BY <2>1
  <2>3. ASSUME NEW d \in Handlers PROVE CalledOnce(n, r, q, k, b, d)
    BY <1>2, <1>4, <1>5, <1>6, <2>1 DEF CalledOK, CalledOnce
  <2> QED BY <2>2, <2>3 DEF FinalKept, CalledOK, b
<1>7. CASE l.on
  <2>1. r.list = Append(l.list, c) /\ r.on
    BY <1>2, <1>7 DEF Added
  <2>2. /\ Len(r.list) = Len(l.list) + 1 /\ r.list[Len(l.list) + 1] = c
        /\ \A i \in 1..Len(l.list) : r.list[i] = l.list[i]
    <3>1. Longer(Callable, l.list, c, r.list)
      BY <1>1, <1>2, <2>1, LongerIs, NotOwn
    <3> QED BY <3>1 DEF Longer
  <2>3. \A i \in 1..Len(r.list) : i \in 1..Len(l.list) \/ i = Len(l.list) + 1
    BY <1>1, <2>2
  <2>4. ASSUME Headed(l) PROVE Headed(r)
    <3>1. ASSUME NEW i \in 4..Len(r.list) PROVE r.list[i] \in Handlers
      <4>1. i \in 4..Len(l.list) \/ i = Len(l.list) + 1
        BY <1>1, <2>2
      <4> QED BY <1>1, <2>2, <2>4, <4>1 DEF Headed
    <3>2. Len(r.list) >= 3 /\ 1 \in 1..Len(l.list) /\ 2 \in 1..Len(l.list) /\ 3 \in 1..Len(l.list)
      BY <1>1, <2>2, <2>4 DEF Headed
    <3> QED BY <2>2, <2>4, <3>1, <3>2 DEF Headed
  <2>5. Plain(l) => Plain(r)
    BY <1>1, <2>2, <2>3 DEF Plain
  <2>6. Headed(r) => Headed(l) \/ l.list = <<>>
    <3> SUFFICES ASSUME Headed(r) PROVE Headed(l) \/ l.list = <<>>
      OBVIOUS
    <3>1. r.list[1] # c /\ r.list[2] # c /\ r.list[3] # c /\ Len(r.list) >= 3
      BY NotOwn DEF Headed
    <3>2. Len(l.list) >= 3
      BY <1>1, <2>2, <3>1
    <3>3. /\ 1 \in 1..Len(l.list) /\ 2 \in 1..Len(l.list) /\ 3 \in 1..Len(l.list)
          /\ \A i \in 4..Len(l.list) : i \in 1..Len(l.list) /\ i \in 4..Len(r.list)
      BY <1>1, <2>2, <3>2
    <3>4. l.list[1] = "state" /\ l.list[2] = "disable" /\ l.list[3] = "lock"
      BY <2>2, <3>3 DEF Headed
    <3>5. \A i \in 4..Len(l.list) : l.list[i] \in Handlers
      BY <2>2, <3>3 DEF Headed
    <3> QED BY <3>2, <3>4, <3>5 DEF Headed
  <2>7. DOMAIN r.list = 1..Len(r.list)
    BY <1>3, ListFacts
  <2>8. Range(r.list) = Range(l.list) \cup {c}
    BY <1>1, <2>2, <2>3, <2>7 DEF Range
  <2>9. CASE l.firing
    <3>1. l.fired /\ r.fired /\ r.firing /\ r.index = l.index /\ q = p /\ r.memory = l.memory
      BY <1>2, <1>3, <1>7, <2>9 DEF Added, ListOK
    <3>2. FinalOK(r, q)
      BY <1>1, <1>3, <1>7, <2>1, <2>2, <2>4, <2>5, <2>9, <3>1 DEF FinalOK
    <3>3. p < Len(l.list) + 1
      BY <1>1, <2>9 DEF FinalOK
    <3>4. ASSUME NEW d \in Handlers, d # c PROVE CalledOnce(n, r, q, k, b, d)
      <4>1. l.list = <<>> => ~Headed(r)
        BY <2>2, <1>1 DEF Headed
      <4>2. CalledOnce(n, l, p, k, a, d)
        BY DEF CalledOK
      <4>3. <<n, d>> \in b <=> <<n, d>> \in a
        BY <1>4, <3>4
      <4>4. (d \in Range(r.list) <=> d \in Range(l.list)) /\ (Headed(r) => Headed(l))
        BY <2>6, <2>8, <3>4, <4>1
      <4>5. \A i \in 1..Len(r.list) : r.list[i] = d => i \in 1..Len(l.list) /\ l.list[i] = d
        BY <2>2, <2>3, <3>4
      <4> QED BY <3>1, <4>2, <4>3, <4>4, <4>5 DEF CalledOnce
    <3>5. CalledOnce(n, r, q, k, b, c)
      <4>1. \A i \in 1..Len(l.list) : l.list[i] # c
        BY <1>1, <1>2 DEF Range
      <4> QED BY <1>1, <1>2, <1>5, <2>2, <2>3, <2>8, <3>1, <3>3, <4>1 DEF CalledOnce
    <3> QED BY <3>2, <3>4, <3>5 DEF FinalKept, CalledOK, b
  <2>10. CASE ~l.firing /\ ~l.fired
    <3>1. l.memory = None
      BY <1>7, <2>10 DEF FinalOK
    <3>2. ~r.firing /\ ~r.fired /\ q = p /\ r.memory = None
      BY <1>2, <1>7, <2>10, <3>1 DEF Added
    <3>3. FinalOK(r, q)
      BY <1>3, <1>7, <2>4, <2>10, <3>2 DEF FinalOK
    <3>4. ASSUME NEW d \in Handlers, d # c PROVE CalledOnce(n, r, q, k, b, d)
      BY <1>4, <1>7, <2>8, <2>10, <3>2, <3>4 DEF CalledOK, CalledOnce
    <3>5. CalledOnce(n, r, q, k, b, c)
      BY <1>2, <1>5, <2>8, <3>2 DEF CalledOnce
    <3> QED BY <3>3, <3>4, <3>5 DEF FinalKept, CalledOK, b
  <2>11. CASE ~l.firing /\ l.fired
    <3>1. l.memory # None /\ l.list = <<>> /\ Len(l.list) = 0 /\ l.options = {"once", "memory"}
      BY <2>11, NoneInjective DEF FinalOK
    <3>2. r.firing /\ r.fired /\ q = 0 /\ r.memory # None /\ r.index = 1
      BY <1>2, <1>3, <1>7, <2>11, <3>1 DEF Added
    <3>3. Plain(r) /\ ~Headed(r)
      BY <2>2, <2>5, <3>1, NoneInjective DEF Plain, Headed
    <3>4. FinalOK(r, q)
      BY <1>3, <2>1, <2>2, <2>11, <3>1, <3>2, <3>3 DEF FinalOK
    <3>5. ASSUME NEW d \in Handlers, d # c PROVE CalledOnce(n, r, q, k, b, d)
      <4>1. CalledOnce(n, l, p, k, a, d)
        BY DEF CalledOK
      <4>2. (<<n, d>> \in b <=> <<n, d>> \in a) /\ (d \in Range(r.list) <=> d \in Range(l.list))
        BY <1>4, <2>8, <3>5
      <4>3. \A i \in 1..Len(r.list) : r.list[i] # d
        BY <2>2, <2>3, <3>1, <3>5
      <4> QED BY <2>11, <3>2, <3>3, <4>1, <4>2, <4>3 DEF CalledOnce
    <3>6. CalledOnce(n, r, q, k, b, c)
      BY <1>2, <1>5, <2>2, <2>3, <2>8, <3>1, <3>2, <3>3 DEF CalledOnce
    <3> QED BY <3>4, <3>5, <3>6 DEF FinalKept, CalledOK, b
  <2> QED BY <2>9, <2>10, <2>11
<1> QED BY <1>6, <1>7

(* It is fired for the first time, or nothing happens. *)
LEMMA FinalFire ==
  ASSUME NEW n \in Finals, NEW l, ListOK(Callable, l), NEW p \in Int, NEW k, NEW a,
         FinalOK(l, p), CalledOK(n, l, p, k, a),
         NEW r, Fired(Callable, l, 1, r),
         NEW q, q = IF r.firing /\ ~l.firing THEN 0 ELSE p
  PROVE  FinalKept(n, r, q, k, a)
<1>1. ~l.stacked /\ ListOK(Callable, r) /\ r.options = l.options /\ (r.on <=> l.on) /\ r.list = l.list
  BY DEF FinalOK, ListOK, Fired
<1>2. CASE ~(l.on /\ ~l.fired)
  <2>1. r = l /\ q = p
    BY <1>1, <1>2 DEF Fired
  <2> QED BY <2>1 DEF FinalKept
<1>3. CASE l.on /\ ~l.fired
  <2>1. ~l.firing
    BY <1>3 DEF ListOK
  <2>2. r.fired /\ r.firing /\ r.data = 1 /\ r.index = 1 /\ r.memory # None /\ q = 0
    BY <1>3, <2>1 DEF Fired, FinalOK, None
  <2>3. Headed(l) /\ Headed(r)
    BY <1>1, <1>3 DEF FinalOK, Headed
  <2>4. Len(r.list) \in Nat /\ DOMAIN l.list = 1..Len(l.list)
    BY <1>1, ListFacts
  <2>5. FinalOK(r, q)
    BY <1>1, <1>3, <2>2, <2>3, <2>4 DEF FinalOK
  <2>6. ASSUME NEW c \in Handlers PROVE CalledOnce(n, r, q, k, a, c)
    <3>1. <<n, c>> \notin a => c \notin Range(l.list)
      BY DEF CalledOK, CalledOnce
    <3>2. k[<<n, c>>] = 0 /\ (<<n, c>> \in a => c \in Range(l.list))
      BY <1>3 DEF CalledOK, CalledOnce
    <3>3. \A i \in 1..Len(r.list) : ~(i <= q)
      BY <2>2
    <3> QED BY <1>1, <2>2, <3>1, <3>2, <3>3 DEF CalledOnce
  <2> QED BY <2>5, <2>6 DEF FinalKept, CalledOK
<1> QED BY <1>2, <1>3

(* A list that is disabled before it was fired. *)
LEMMA FinalDisable ==
  ASSUME NEW n \in Finals, NEW l, ListOK(Callable, l), NEW p \in Int, NEW k, NEW a,
         FinalOK(l, p), CalledOK(n, l, p, k, a), ~l.fired,
         NEW r, Disabled(Callable, l, r), NEW q
  PROVE  FinalKept(n, r, q, k, a)
<1>1. /\ r.options = l.options /\ ~r.on /\ r.list = <<>> /\ r.data = l.data /\ ~r.fired /\ ~r.firing
  BY DEF Disabled, ListOK
<1>2. FinalOK(r, q)
  BY <1>1 DEF FinalOK
<1>3. Range(r.list) = {}
  BY <1>1 DEF Range
<1>4. ASSUME NEW c \in Handlers PROVE CalledOnce(n, r, q, k, a, c)
  BY <1>1, <1>3 DEF CalledOK, CalledOnce
<1> QED BY <1>2, <1>4 DEF FinalKept, CalledOK

(* The round goes on: the callback at index is the deferred's own, or is    *)
(* called, or was called.                                                   *)
LEMMA FinalOwn ==
  ASSUME NEW n \in Finals, NEW l, ListOK(Callable, l), NEW k, NEW a,
         FinalOK(l, l.index - 1), CalledOK(n, l, l.index - 1, k, a),
         l.firing, l.index <= l.length, l.list[l.index] \in {"state", "disable", "lock"},
         NEW r, Relisted(Callable, l, l.list, l.length, l.index + 1, r)
  PROVE  FinalKept(n, r, l.index, k, a)
<1>1. l.index \in Nat /\ Len(l.list) \in Nat /\ l.fired /\ l.on /\ l.length = Len(l.list)
  BY ListFacts DEF ListOK, FinalOK
<1>2. /\ r.options = l.options /\ r.on = l.on /\ r.list = l.list /\ r.memory = l.memory
      /\ r.data = l.data /\ r.fired = l.fired /\ r.firing = l.firing /\ r.index = l.index + 1
  BY DEF Relisted
<1>3. FinalOK(r, l.index)
  BY <1>1, <1>2 DEF FinalOK, Headed, Plain
<1>4. ASSUME NEW c \in Handlers PROVE CalledOnce(n, r, l.index, k, a, c)
  <2>1. \A i \in 1..Len(l.list) : l.list[i] = c => i # l.index
    BY NotOwn
  <2>2. \A i \in 1..Len(l.list) : i # l.index => (i <= l.index <=> i <= l.index - 1)
    BY <1>1
  <2> QED BY <1>1, <1>2, <2>1, <2>2 DEF CalledOK, CalledOnce, Headed
<1> QED BY <1>3, <1>4 DEF FinalKept, CalledOK

LEMMA FinalCall ==
  ASSUME NEW n \in Finals, NEW l, ListOK(Callable, l), NEW k \in [Lists \X Handlers -> Nat], NEW a,
         FinalOK(l, l.index - 1), CalledOK(n, l, l.index - 1, k, a),
         l.firing, l.index <= l.length, NEW c \in Handlers, l.list[l.index] = c,
         NEW j, j = [k EXCEPT ![<<n, c>>] = @ + 1]
  PROVE  FinalKept(n, l, l.index, j, a)
<1>1. /\ l.index \in Nat /\ Len(l.list) \in Nat /\ l.fired /\ l.on /\ l.length = Len(l.list)
      /\ IsInjective(l.list) /\ DOMAIN l.list = 1..Len(l.list) /\ l.index >= 1
  BY ListFacts DEF ListOK, FinalOK
<1>2. l.index \in 1..Len(l.list)
  BY <1>1
<1>3. FinalOK(l, l.index)
  BY <1>1 DEF FinalOK
<1>4. <<n, c>> \in Lists \X Handlers
  BY DEF Finals, Lists
<1>5. k[<<n, c>>] = 0 /\ c \in Range(l.list) /\ <<n, c>> \in a
  <2>1. ~(l.index <= l.index - 1)
    BY <1>1
  <2>2. c \in Range(l.list)
    BY <1>1, <1>2 DEF Range
  <2> QED BY <1>1, <1>2, <2>1, <2>2 DEF CalledOK, CalledOnce
<1>6. j[<<n, c>>] = 1 /\ \A d \in Handlers : d # c => j[<<n, d>>] = k[<<n, d>>]
  BY <1>4, <1>5
<1>7. ASSUME NEW d \in Handlers, d # c PROVE CalledOnce(n, l, l.index, j, a, d)
  <2>1. \A i \in 1..Len(l.list) : l.list[i] = d => i # l.index
    BY <1>7
  <2>2. \A i \in 1..Len(l.list) : i # l.index => (i <= l.index <=> i <= l.index - 1)
    BY <1>1
  <2> QED BY <1>1, <1>6, <1>7, <2>1, <2>2 DEF CalledOK, CalledOnce
<1>8. CalledOnce(n, l, l.index, j, a, c)
  <2>1. \A i \in 1..Len(l.list) : l.list[i] = c => i = l.index
    BY <1>1, <1>2 DEF IsInjective
  <2>2. l.index <= l.index
    BY <1>1
  <2> QED BY <1>1, <1>5, <1>6, <2>1, <2>2 DEF CalledOnce
<1> QED BY <1>3, <1>7, <1>8 DEF FinalKept, CalledOK

LEMMA FinalReturns ==
  ASSUME NEW n \in Finals, NEW l, ListOK(Callable, l), NEW k, NEW a, NEW p \in Int,
         FinalOK(l, p), CalledOK(n, l, p, k, a), l.firing,
         NEW r, Relisted(Callable, l, l.list, l.length, l.index + 1, r)
  PROVE  FinalKept(n, r, p, k, a)
<1>1. l.index \in Nat
  BY ListFacts
<1>2. /\ r.options = l.options /\ r.on = l.on /\ r.list = l.list /\ r.memory = l.memory
      /\ r.data = l.data /\ r.fired = l.fired /\ r.firing = l.firing /\ r.index = l.index + 1
  BY DEF Relisted
<1>3. FinalOK(r, p)
  BY <1>1, <1>2 DEF FinalOK, Headed, Plain
<1>4. ASSUME NEW c \in Handlers PROVE CalledOnce(n, r, p, k, a, c)
  BY <1>2 DEF CalledOK, CalledOnce, Headed
<1> QED BY <1>3, <1>4 DEF FinalKept, CalledOK

(* The round is over: every callback on the list was called. *)
LEMMA FinalEnd ==
  ASSUME NEW n \in Finals, NEW l, ListOK(Callable, l), NEW k, NEW a,
         FinalOK(l, l.index - 1), CalledOK(n, l, l.index - 1, k, a), l.firing, ~more(l),
         NEW r, Ended(Callable, l, r), NEW q
  PROVE  FinalKept(n, r, q, k, a) /\ ~r.firing /\ r.fired /\ r.on
<1>1. /\ l.index \in Nat /\ Len(l.list) \in Nat /\ l.fired /\ l.on /\ l.length = Len(l.list)
      /\ DOMAIN l.list = 1..Len(l.list) /\ ~l.stacked /\ l.memory # None
  BY ListFacts DEF ListOK, FinalOK
<1>2. l.index > Len(l.list)
  BY <1>1 DEF more
<1>3. /\ ListOK(Callable, r) /\ r.options = l.options /\ r.fired /\ ~r.firing /\ r.on
      /\ r.memory = l.memory /\ r.list = <<>> /\ r.data = l.data
  BY <1>1 DEF Ended
<1>4. Len(r.list) = 0 /\ Plain(r) /\ Range(r.list) = {} /\ ~Headed(r)
  BY <1>3, NoneInjective DEF Plain, Range, Headed
<1>5. FinalOK(r, q)
  BY <1>1, <1>3, <1>4 DEF FinalOK
<1>6. ASSUME NEW c \in Handlers PROVE CalledOnce(n, r, q, k, a, c)
  <2>1. <<n, c>> \in a => k[<<n, c>>] = 1
    <3>1. \A i \in 1..Len(l.list) : i <= l.index - 1
      BY <1>1, <1>2
    <3>2. CASE c \in Range(l.list)
      <4>1. PICK i \in 1..Len(l.list) : l.list[i] = c
        BY <1>1, <3>2 DEF Range
      <4> QED BY <1>1, <3>1, <4>1 DEF CalledOK, CalledOnce
    <3>3. CASE c \notin Range(l.list)
      BY <1>1, <3>3 DEF CalledOK, CalledOnce
    <3> QED BY <3>2, <3>3
  <2> QED BY <1>3, <1>4, <2>1 DEF CalledOK, CalledOnce
<1> QED BY <1>3, <1>5, <1>6 DEF FinalKept, CalledOK

-------------------------------------------------------------------------------
(* Deferreds: the list of the notices *)

LEMMA ProgressAdd ==
  ASSUME NEW l, ListOK(Callable, l), NEW m, ProgressOK(l, m),
         NEW c \in Handlers, NEW r, Added(Callable, l, c, r)
  PROVE  ProgressOK(r, m)
<1>1. l.list \in Seq(Callable) /\ Len(l.list) \in Nat
  BY ListFacts
<1>2. r.options = l.options /\ (r.on <=> l.on) /\ r.data = l.data /\ r.stack = l.stack /\ (l.fired => r.fired)
  BY DEF Added
<1>3. CASE ~l.on \/ has(l, c)
  <2>1. r = l
    BY <1>3 DEF Added
  <2> QED BY <2>1
<1>4. CASE l.on /\ ~has(l, c)
  <2>1. r.list = Append(l.list, c) /\ IsInjective(l.list) /\ c \notin Range(l.list)
    BY <1>4 DEF Added, ListOK, has
  <2>2. Longer(Callable, l.list, c, r.list)
    BY <1>1, <2>1, LongerIs, NotOwn
  <2>3. Plain(r)
    <3>1. \A i \in 1..Len(r.list) : i \in 1..Len(l.list) \/ i = Len(l.list) + 1
      BY <1>1, <2>2 DEF Longer
    <3> QED BY <2>2, <3>1 DEF Longer, Plain, ProgressOK
  <2>4. (r.fired => r.on /\ r.memory # None) /\ (~r.fired => r.memory = None) /\ (r.firing => r.index >= 1)
    <3>1. CASE l.firing
      BY <1>2, <1>4, <3>1 DEF Added, ProgressOK, ListOK
    <3>2. CASE ~l.firing /\ l.memory = None
      BY <1>2, <1>4, <3>2 DEF Added, ProgressOK
    <3>3. CASE ~l.firing /\ l.memory # None
      <4>1. r.memory = l.memory
        BY <1>4, <3>3 DEF Added, ProgressOK
      <4>2. l.fired
        BY <3>3 DEF ProgressOK
      <4>3. r.index >= 1
        BY <1>1, <1>4, <3>3 DEF Added
      <4> QED BY <1>2, <1>4, <3>3, <4>1, <4>2, <4>3
    <3> QED BY <3>1, <3>2, <3>3
  <2> QED BY <1>2, <2>3, <2>4 DEF ProgressOK
<1> QED BY <1>3, <1>4

LEMMA ProgressFire ==
  ASSUME NEW l, ListOK(Callable, l), NEW m \in Nat, ProgressOK(l, m),
         NEW r, Fired(Callable, l, m + 1, r)
  PROVE  ProgressOK(r, m + 1)
<1>1. /\ l.stack \in Seq(Nat) /\ Len(l.stack) \in Nat /\ DOMAIN l.stack = 1..Len(l.stack)
      /\ l.data \in Nat /\ \A i \in 1..Len(l.stack) : l.stack[i] \in Nat
  BY FieldsAre, ElementOfSeq DEF ListOK
<1>2. l.data <= m + 1 /\ \A i \in DOMAIN l.stack : l.stack[i] <= m + 1
  BY <1>1 DEF ProgressOK
<1>3. CASE ~(l.on /\ (~l.fired \/ l.stacked))
  <2>1. r = l
    BY <1>3 DEF Fired
  <2> QED BY <1>2, <2>1 DEF ProgressOK
<1>4. CASE l.on /\ (~l.fired \/ l.stacked)
  <2>1. ListOK(Callable, r) /\ r.options = l.options /\ (r.on <=> l.on) /\ r.list = l.list /\ r.fired
    BY <1>4 DEF Fired
  <2>2. Plain(r)
    BY <2>1 DEF ProgressOK, Plain
  <2>3. CASE l.firing
    <3>1. /\ r.stack = Append(l.stack, m + 1) /\ r.data = l.data /\ r.memory = l.memory /\ l.fired
          /\ r.index = l.index /\ l.index >= 1
      BY <1>4, <2>3 DEF Fired, ListOK, ProgressOK
    <3>2. Len(r.stack) = Len(l.stack) + 1 /\ \A i \in 1..Len(l.stack) : r.stack[i] = l.stack[i]
      BY <1>1, <3>1, AppendProperties
    <3>3. r.stack[Len(l.stack) + 1] = m + 1
      BY <1>1, <3>1, AppendProperties
    <3>4. DOMAIN r.stack = 1..Len(l.stack) + 1
      BY <2>1, <3>2, FieldsAre DEF ListOK
    <3>5. \A i \in DOMAIN r.stack : i \in 1..Len(l.stack) \/ i = Len(l.stack) + 1
      BY <1>1, <3>4
    <3>6. m + 1 <= m + 1
      OBVIOUS
    <3>7. \A i \in DOMAIN r.stack : r.stack[i] <= m + 1
      BY <1>1, <1>2, <3>2, <3>3, <3>5, <3>6
    <3> QED BY <1>2, <2>1, <2>2, <3>1, <3>7 DEF ProgressOK
  <2>4. CASE ~l.firing
    <3>1. r.stack = <<>> /\ r.data = m + 1 /\ r.memory = m + 1 /\ r.index = 1
      BY <1>4, <2>4 DEF Fired, ProgressOK
    <3>2. DOMAIN r.stack = {} /\ m + 1 # None /\ m + 1 <= m + 1
      BY <3>1 DEF None
    <3> QED BY <1>4, <2>1, <2>2, <3>1, <3>2 DEF ProgressOK
  <2> QED BY <2>3, <2>4
<1> QED BY <1>3, <1>4

LEMMA ProgressLock ==
  ASSUME NEW l, ListOK(Callable, l), NEW m, ProgressOK(l, m), NEW r, Locked(Callable, l, r)
  PROVE  ProgressOK(r, m) /\ Silent(r) /\ (r.firing <=> l.firing)
<1>1. /\ r.options = l.options /\ r.data = l.data /\ (r.fired <=> l.fired) /\ (r.firing <=> l.firing)
      /\ r.stack = <<>> /\ ~r.stacked /\ r.index = l.index
  BY DEF Locked
<1>2. DOMAIN r.stack = {}
  BY <1>1
<1>3. CASE l.memory = None
  <2>1. ~r.on /\ r.list = <<>> /\ r.memory = None /\ ~l.fired
    BY <1>3 DEF Locked, ProgressOK
  <2>2. Plain(r)
    BY <2>1, NoneInjective DEF Plain
  <2> QED BY <1>1, <1>2, <2>1, <2>2 DEF ProgressOK, Silent
<1>4. CASE l.memory # None
  <2>1. (r.on <=> l.on) /\ r.list = l.list /\ r.memory = l.memory /\ l.fired
    BY <1>4 DEF Locked, ProgressOK
  <2> QED BY <1>1, <1>2, <1>4, <2>1 DEF ProgressOK, Silent, Plain
<1> QED BY <1>3, <1>4

LEMMA ProgressNext ==
  ASSUME NEW l, ListOK(Callable, l), NEW m, ProgressOK(l, m),
         NEW r, Relisted(Callable, l, l.list, l.length, l.index + 1, r)
  PROVE  ProgressOK(r, m)
<1>1. l.index \in Nat
  BY ListFacts
<1> QED BY <1>1 DEF ProgressOK, Relisted, Plain

LEMMA ProgressEnd ==
  ASSUME NEW l, ListOK(Callable, l), NEW m, ProgressOK(l, m), l.firing, NEW r, Ended(Callable, l, r)
  PROVE  ProgressOK(r, m)
<1>1. /\ l.stack \in Seq(Nat) /\ Len(l.stack) \in Nat /\ DOMAIN l.stack = 1..Len(l.stack)
      /\ l.fired /\ l.on /\ l.memory # None
  BY FieldsAre DEF ListOK, ProgressOK
<1>2. ListOK(Callable, r) /\ r.options = l.options /\ r.fired
  BY <1>1 DEF Ended
<1>3. CASE r.firing
  <2>1. /\ l.stack # <<>> /\ r.on /\ r.data = Head(l.stack) /\ r.stack = Tail(l.stack) /\ r.list = l.list
        /\ r.memory = r.data /\ r.index = 1
    BY <1>3 DEF Ended, ProgressOK
  <2>2. Len(l.stack) \in Nat \ {0}
    BY <1>1, <2>1, EmptySeq
  <2>3. r.data = l.stack[1] /\ 1 \in DOMAIN l.stack
    BY <1>1, <2>1, <2>2
  <2>4. Len(r.stack) = Len(l.stack) - 1
    BY <1>1, <2>1, HeadTailProperties
  <2>5. \A i \in 1..Len(r.stack) : r.stack[i] = l.stack[i + 1]
    BY <1>1, <2>1, HeadTailProperties
  <2>6. DOMAIN r.stack = 1..Len(l.stack) - 1
    BY <1>2, <2>4, FieldsAre DEF ListOK
  <2>7. \A i \in DOMAIN r.stack : i + 1 \in DOMAIN l.stack
    BY <1>1, <2>2, <2>6
  <2>8. r.data \in Nat /\ r.data > l.data /\ l.data \in Nat
    <3>1. l.stack[1] \in Nat
      BY <1>1, <2>3, ElementOfSeq
    <3> QED BY <2>3, <3>1, FieldsAre DEF ListOK
  <2>9. r.memory # None
    BY <2>1, <2>8 DEF None
  <2>10. \A i \in DOMAIN r.stack : r.stack[i] <= m
    BY <2>4, <2>5, <2>6, <2>7 DEF ProgressOK
  <2> QED BY <1>2, <2>1, <2>3, <2>9, <2>10 DEF ProgressOK, Plain
<1>4. CASE ~r.firing
  <2>1. r.data = l.data /\ r.stack = <<>> /\ DOMAIN r.stack = {}
    BY <1>4 DEF Ended
  <2>2. r.on /\ r.memory = l.memory /\ (r.list = l.list \/ r.list = <<>>)
    BY <1>1, <1>4 DEF Ended
  <2>3. Plain(r)
    BY <2>2, NoneInjective DEF ProgressOK, Plain
  <2> QED BY <1>1, <1>2, <1>4, <2>1, <2>2, <2>3 DEF ProgressOK
<1> QED BY <1>3, <1>4

-------------------------------------------------------------------------------
(* Deferreds: the calls of fire() under way *)

Pushed(f, n, g) ==
  /\ g \in Seq(Lists) /\ g # <<>> /\ Head(g) = n /\ IsInjective(g) /\ Range(g) = Range(f) \cup {n}
  /\ Len(g) = Len(f) + 1 /\ \A i \in 1..Len(g) : g[i] \in Range(f) \cup {n}

LEMMA PushIs ==
  ASSUME NEW f \in Seq(Lists), IsInjective(f), NEW n \in Lists, n \notin Range(f), NEW g, g = <<n>> \o f
  PROVE  Pushed(f, n, g)
<1>1. Len(f) \in Nat /\ DOMAIN f = 1..Len(f) /\ <<n>> \in Seq(Lists) /\ Len(<<n>>) = 1 /\ <<n>>[1] = n
  BY LenProperties
<1>2. /\ g \in Seq(Lists) /\ Len(g) = 1 + Len(f)
      /\ \A i \in 1..1 + Len(f) : g[i] = IF i <= 1 THEN <<n>>[i] ELSE f[i - 1]
  BY <1>1, ConcatProperties
<1>3. DOMAIN g = 1..Len(f) + 1 /\ Len(g) = Len(f) + 1
  BY <1>1, <1>2, LenProperties
<1>4. g[1] = n /\ \A i \in 1..Len(f) + 1 : i # 1 => i - 1 \in 1..Len(f) /\ g[i] = f[i - 1]
  BY <1>1, <1>2
<1>5. g # <<>> /\ Head(g) = n
  BY <1>1, <1>2, <1>3, <1>4
<1>6. Range(g) = Range(f) \cup {n}
  <2>1. \A i \in 1..Len(f) : i + 1 \in 1..Len(f) + 1 /\ i + 1 # 1 /\ g[i + 1] = f[i]
    BY <1>1, <1>4
  <2>2. 1 \in 1..Len(f) + 1
    BY <1>1
  <2>3. \A i \in 1..Len(f) + 1 : g[i] \in Range(f) \cup {n}
    BY <1>1, <1>4 DEF Range
  <2>4. Range(g) \subseteq Range(f) \cup {n}
    BY <1>3, <2>3 DEF Range
  <2>5. n \in Range(g)
    BY <1>3, <1>4, <2>2 DEF Range
  <2>6. Range(f) \subseteq Range(g)
    <3> SUFFICES ASSUME NEW i \in 1..Len(f) PROVE f[i] \in Range(g)
      BY <1>1 DEF Range
    <3>1. i + 1 \in DOMAIN g /\ g[i + 1] = f[i]
      BY <1>3, <2>1
    <3> QED BY <3>1 DEF Range
  <2> QED BY <2>4, <2>5, <2>6
<1>7. IsInjective(g)
  <2> SUFFICES ASSUME NEW i \in 1..Len(f) + 1, NEW j \in 1..Len(f) + 1, g[i] = g[j] PROVE i = j
    BY <1>3 DEF IsInjective
  <2>1. i # 1 => f[i - 1] # n /\ i - 1 \in 1..Len(f)
    BY <1>1, <1>4 DEF Range
  <2>2. j # 1 => f[j - 1] # n /\ j - 1 \in 1..Len(f)
    BY <1>1, <1>4 DEF Range
  <2>3. CASE i = 1 \/ j = 1
    BY <1>4, <2>1, <2>2, <2>3
  <2>4. CASE i # 1 /\ j # 1
    <3>1. f[i - 1] = f[j - 1]
      BY <1>4, <2>4
    <3>2. i - 1 = j - 1
      BY <1>1, <2>1, <2>2, <2>4, <3>1 DEF IsInjective
    <3> QED BY <3>2
  <2> QED BY <2>3, <2>4
<1>8. \A i \in 1..Len(g) : g[i] \in Range(f) \cup {n}
  BY <1>3, <1>6 DEF Range
<1> QED BY <1>2, <1>3, <1>5, <1>6, <1>7, <1>8 DEF Pushed

Popped(f, g) ==
  /\ g \in Seq(Lists) /\ IsInjective(g) /\ Range(g) = Range(f) \ {Head(f)}
  /\ \A i \in 1..Len(g) : i + 1 \in 1..Len(f) /\ g[i] = f[i + 1]

LEMMA PopIs ==
  ASSUME NEW f \in Seq(Lists), IsInjective(f), f # <<>>, NEW g, g = Tail(f)
  PROVE  Popped(f, g)
<1>1. Len(f) \in Nat \ {0} /\ DOMAIN f = 1..Len(f)
  BY LenProperties, EmptySeq
<1>2. g \in Seq(Lists) /\ Len(g) = Len(f) - 1
  BY HeadTailProperties
<1>3. \A i \in 1..Len(g) : g[i] = f[i + 1]
  BY HeadTailProperties
<1>4. DOMAIN g = 1..Len(f) - 1 /\ Head(f) = f[1]
  BY <1>1, <1>2, LenProperties
<1>5. \A i \in 1..Len(f) - 1 : i + 1 \in 1..Len(f) /\ i + 1 # 1 /\ g[i] = f[i + 1]
  BY <1>1, <1>2, <1>3
<1>6. IsInjective(g)
  <2> SUFFICES ASSUME NEW i \in 1..Len(f) - 1, NEW j \in 1..Len(f) - 1, g[i] = g[j] PROVE i = j
    BY <1>4 DEF IsInjective
  <2>1. i + 1 = j + 1
    BY <1>1, <1>5 DEF IsInjective
  <2> QED BY <2>1
<1>7. Range(g) = Range(f) \ {Head(f)}
  <2>1. \A i \in 1..Len(f) : i # 1 => i - 1 \in 1..Len(f) - 1 /\ (i - 1) + 1 = i
    BY <1>1
  <2>2. 1 \in 1..Len(f)
    BY <1>1
  <2>3. \A i \in 1..Len(f) : f[i] = f[1] => i = 1
    BY <1>1, <2>2 DEF IsInjective
  <2>4. Range(g) \subseteq Range(f) \ {f[1]}
    BY <1>1, <1>4, <1>5, <2>3 DEF Range
  <2>5. Range(f) \ {f[1]} \subseteq Range(g)
    <3> SUFFICES ASSUME NEW i \in 1..Len(f), f[i] # f[1] PROVE f[i] \in Range(g)
      BY <1>1 DEF Range
    <3>1. i - 1 \in 1..Len(f) - 1 /\ g[i - 1] = f[i]
      BY <1>5, <2>1
    <3> QED BY <1>4, <3>1 DEF Range
  <2> QED BY <1>4, <2>4, <2>5
<1> QED BY <1>2, <1>4, <1>5, <1>6, <1>7 DEF Popped

(* What the invariant says of one list, and of one final list. *)
LEMMA DeferredNow ==
  ASSUME DeferredOK
  PROVE  /\ lists \in [Lists -> ListRec(Callable)] /\ \A n \in Lists : ListOK(Callable, lists[n])
         /\ FramesOK /\ CountsOK
         /\ dstate \in {"pending", "resolved", "rejected"}
         /\ ProgressOK(lists["progress"], notices)
         /\ Lists = {"done", "fail", "progress"} /\ Finals = {"done", "fail"}
         /\ \A n \in Lists : lists[n].index \in Nat /\ Passed(n) \in Int
<1>1. \A n \in Lists : lists[n].index \in Nat
  BY ListFacts DEF DeferredOK
<1>2. \A n \in Lists : Passed(n) \in Int
  BY <1>1 DEF Passed
<1> QED BY <1>1, <1>2 DEF DeferredOK, Lists, Finals

LEMMA FinalNow ==
  ASSUME DeferredOK, NEW n \in Finals
  PROVE  /\ ListOK(Callable, lists[n])
         /\ FinalOK(lists[n], Passed(n)) /\ CalledOK(n, lists[n], Passed(n), calls, added)
         /\ SettledOK(n, dstate, lists[n], lists[Other(n)], lists["progress"], Loops(n))
         /\ n \in Lists /\ Other(n) \in Finals /\ Other(n) # n /\ Other(Other(n)) = n
         /\ n # "progress" /\ Final(n) # Final(Other(n)) /\ Final(n) # "pending"
BY DEF DeferredOK, Finals, Lists, Other, Final

(* What an operation changes. *)
OperatedAs(n, r) ==
  /\ lists' \in [Lists -> ListRec(Callable)] /\ \A m \in Lists : ListOK(Callable, lists'[m])
  /\ lists'[n] = r /\ \A m \in Lists : m # n => lists'[m] = lists[m]
  /\ FramesOK'
  /\ \A m \in Lists : ~Loops(m) /\ (Loops(m)' <=> (r.firing /\ ~lists[n].firing /\ m = n))
  /\ \A m \in Lists : Passed(m) = lists[m].index

LEMMA OperatedIs ==
  ASSUME DeferredOK, Free, NEW n \in Lists, NEW r, ListOK(Callable, r), Operated(n, r),
         lists[n].firing => r.firing, broken' = broken
  PROVE  OperatedAs(n, r)
<1>1. /\ lists' = [lists EXCEPT ![n] = r]
      /\ frames' = IF r.firing /\ ~lists[n].firing THEN <<n>> \o frames ELSE frames
      /\ inside' = (inside /\ ~(r.firing /\ ~lists[n].firing))
  BY DEF Operated
<1>2. lists'[n] = r /\ \A m \in Lists : m # n => lists'[m] = lists[m]
  BY <1>1, DeferredNow
<1>3. lists' \in [Lists -> ListRec(Callable)]
  BY <1>1, DeferredNow DEF ListOK
<1>4. \A m \in Lists : ListOK(Callable, lists'[m])
  BY <1>2, DeferredNow
<1>5. /\ frames \in Seq(Lists) /\ IsInjective(frames) /\ Len(frames) \in Nat /\ DOMAIN frames = 1..Len(frames)
      /\ \A i \in 1..Len(frames) : lists[frames[i]].firing /\ frames[i] \in Lists
      /\ inside \in BOOLEAN /\ broken \in BOOLEAN
      /\ inside => frames # <<>>
      /\ ~broken => \A m \in Lists : lists[m].firing => m \in Range(frames)
  BY DeferredNow, LenProperties, ElementOfSeq DEF FramesOK
<1>6. \A m \in Lists : ~Loops(m) /\ Passed(m) = lists[m].index
  BY <1>5 DEF Free, Loops, Passed
<1>7. CASE r.firing /\ ~lists[n].firing
  <2>1. frames' = <<n>> \o frames /\ inside' = FALSE
    BY <1>1, <1>7
  <2>2. n \notin Range(frames)
    BY <1>5, <1>7 DEF Range
  <2>3. Pushed(frames, n, frames')
    BY <1>5, <2>1, <2>2, PushIs
  <2>4. \A m \in Lists : Loops(m)' <=> m = n
    BY <2>1, <2>3 DEF Pushed, Loops
  <2>5. \A m \in Range(frames) \cup {n} : lists'[m].firing
    BY <1>2, <1>5, <1>7, <2>2 DEF Range
  <2>6. FramesOK'
    BY <1>2, <1>5, <2>1, <2>3, <2>5 DEF Pushed, FramesOK
  <2> QED BY <1>2, <1>3, <1>4, <1>6, <1>7, <2>4, <2>6 DEF OperatedAs
<1>8. CASE ~(r.firing /\ ~lists[n].firing)
  <2>1. frames' = frames /\ inside' = inside
    BY <1>1, <1>5, <1>8
  <2>2. \A m \in Lists : ~Loops(m)'
    BY <1>6, <2>1 DEF Loops
  <2>3. \A m \in Lists : lists'[m].firing <=> lists[m].firing
    BY <1>2, <1>8
  <2>4. FramesOK'
    BY <1>5, <2>1, <2>3 DEF FramesOK
  <2> QED BY <1>2, <1>3, <1>4, <1>6, <1>8, <2>2, <2>4 DEF OperatedAs
<1> QED BY <1>7, <1>8

(* A final list nothing is done to. *)
LEMMA Untouched ==
  ASSUME DeferredOK, NEW m \in Finals, lists'[m] = lists[m], Passed(m)' = Passed(m),
         \A c \in Handlers : calls'[<<m, c>>] = calls[<<m, c>>],
         \A c \in Handlers : <<m, c>> \in added' <=> <<m, c>> \in added
  PROVE  FinalKept(m, lists'[m], Passed(m)', calls', added')
<1>1. FinalOK(lists'[m], Passed(m)')
  BY FinalNow
<1>2. ASSUME NEW c \in Handlers PROVE CalledOnce(m, lists'[m], Passed(m)', calls', added', c)
  <2>1. CalledOnce(m, lists[m], Passed(m), calls, added, c)
    BY FinalNow DEF CalledOK
  <2> QED BY <2>1 DEF CalledOnce
<1> QED BY <1>1, <1>2 DEF FinalKept, CalledOK

(* Outside of a round that settles it, the deferred is settled or it is not. *)
LEMMA SettledFree ==
  ASSUME DeferredOK, NEW n \in Finals, ~Loops(n)
  PROVE  /\ ~Settling(lists[n])
         /\ lists[n].fired <=> dstate = Final(n)
         /\ lists[n].fired => ~lists[Other(n)].fired /\ ~lists[Other(n)].on /\ Silent(lists["progress"])
         /\ ~lists[n].on => lists[Other(n)].fired
BY FinalNow DEF SettledOK

-------------------------------------------------------------------------------
(* Deferreds: operations of a script *)

LEMMA AddHandlerKeeps ==
  ASSUME DeferredOK, NEW n \in Lists, NEW c \in Handlers, AddHandler(n, c)
  PROVE  DeferredOK'
<1> DEFINE l == lists[n]
           r == add(l, c)
<1>1. /\ Free /\ <<n, c>> \notin added /\ Operated(n, r) /\ added' = added \cup {<<n, c>>}
      /\ dstate' = dstate /\ notices' = notices /\ calls' = calls /\ broken' = broken
  BY DEF AddHandler
<1>2. ListOK(Callable, l) /\ c \in Callable
  BY DeferredNow, NotOwn
<1>3. Added(Callable, l, c, r)
  BY <1>2, AddKeeps
<1> HIDE DEF r
<1>4. ListOK(Callable, r) /\ r.options = l.options /\ (r.on <=> l.on) /\ (l.fired => r.fired) /\ (r.stacked <=> l.stacked)
  BY <1>3 DEF Added
<1>5. l.firing => r.firing
  BY <1>3 DEF Added
<1>6. OperatedAs(n, r)
  BY <1>1, <1>4, <1>5, OperatedIs
<1>7. CountsOK'
  BY <1>1, DeferredNow DEF CountsOK
<1>8. ProgressOK(lists'["progress"], notices)
  <2>1. CASE n = "progress"
    <3>1. ProgressOK(r, notices)
      BY <1>2, <1>3, <2>1, DeferredNow, ProgressAdd
    <3> QED BY <1>6, <2>1, <3>1 DEF OperatedAs
  <2>2. CASE n # "progress"
    BY <1>6, <2>2, DeferredNow DEF OperatedAs
  <2> QED BY <2>1, <2>2
<1>9. Silent(lists["progress"]) => Silent(lists'["progress"])
  <2>1. CASE n = "progress"
    BY <1>4, <1>6, <2>1 DEF OperatedAs, Silent
  <2>2. CASE n # "progress"
    BY <1>6, <2>2, DeferredNow DEF OperatedAs
  <2> QED BY <2>1, <2>2
(* A final list it is added to. *)
<1>10. ASSUME n \in Finals
       PROVE  /\ FinalKept(n, r, Passed(n)', calls', added')
              /\ (r.fired <=> l.fired) /\ ~Settling(r)
  <2>1. FinalOK(l, Passed(n)) /\ CalledOK(n, l, Passed(n), calls, added) /\ Passed(n) \in Int
    BY <1>10, FinalNow, DeferredNow
  <2>2. c \notin Range(l.list) /\ ~has(l, c)
    BY <1>1, <2>1 DEF CalledOK, CalledOnce, has
  <2>3. l.list \in Seq(Callable) /\ Len(l.list) \in Nat /\ l.index \in Nat
    BY <1>2, ListFacts
  <2>4. /\ Loops(n)' <=> (r.firing /\ ~l.firing)
        /\ Passed(n) = l.index
    BY <1>6 DEF OperatedAs
  <2>5. (r.fired <=> l.fired) /\ r.index = IF r.firing /\ ~l.firing THEN 1 ELSE l.index
    <3>1. CASE ~l.on
      BY <1>3, <3>1 DEF Added
    <3>2. CASE l.on /\ l.firing
      <4>1. l.fired /\ r.fired
        BY <1>2, <1>4, <3>2 DEF ListOK
      <4>2. r.index = l.index
        BY <1>3, <2>2, <3>2 DEF Added
      <4> QED BY <3>2, <4>1, <4>2
    <3>3. CASE l.on /\ ~l.firing /\ l.memory = None
      BY <1>3, <2>2, <3>3 DEF Added
    <3>4. CASE l.on /\ ~l.firing /\ l.memory # None
      <4>1. l.fired /\ Len(l.list) = 0
        BY <2>1, <3>4, NoneInjective DEF FinalOK
      <4> QED BY <1>3, <1>4, <2>2, <3>4, <4>1 DEF Added
    <3> QED BY <3>1, <3>2, <3>3, <3>4
  <2>6. Passed(n)' = IF r.firing /\ ~l.firing THEN 0 ELSE Passed(n)
    BY <1>6, <2>4, <2>5 DEF Passed, OperatedAs
  <2>7. FinalKept(n, r, Passed(n)', calls, added \cup {<<n, c>>})
    <3> DEFINE q == Passed(n)'
    <3>1. q = IF r.firing /\ ~l.firing THEN 0 ELSE Passed(n)
      BY <2>6
    <3> HIDE DEF q
    <3>2. FinalKept(n, r, q, calls, added \cup {<<n, c>>})
      BY <1>1, <1>2, <1>3, <1>10, <2>1, <3>1, FinalAdd
    <3> QED BY <3>2 DEF q
  <2>8. ~Settling(r)
    <3>1. ~Settling(l)
      BY <1>6, <1>10, SettledFree DEF OperatedAs
    <3>2. CASE ~l.on
      BY <1>3, <3>1, <3>2 DEF Added
    <3>3. CASE l.on
      <4>1. r.list = Append(l.list, c) /\ IsInjective(l.list)
        BY <1>2, <1>3, <2>2, <3>3 DEF Added, ListOK
      <4>2. Longer(Callable, l.list, c, r.list)
        BY <1>2, <2>2, <2>3, <4>1, LongerIs
      <4>3. Len(r.list) = Len(l.list) + 1 /\ r.list[Len(l.list) + 1] = c /\ \A i \in 1..Len(l.list) : r.list[i] = l.list[i]
        BY <4>2 DEF Longer
      <4>4. CASE l.firing
        <5>1. r.index = l.index
          BY <2>5, <4>4
        <5>2. CASE Headed(l)
          BY <3>1, <4>4, <5>1, <5>2 DEF Settling
        <5>3. CASE Plain(l)
          <6>1. CASE Len(l.list) = 0
            BY <4>3, <6>1 DEF Settling, Headed
          <6>2. CASE Len(l.list) # 0
            <7>1. 1 \in 1..Len(l.list)
              BY <2>3, <6>2
            <7>2. r.list[1] \in Handlers
              BY <4>3, <5>3, <7>1 DEF Plain
            <7> QED BY <7>2, NotOwn DEF Settling, Headed
          <6> QED BY <6>1, <6>2
        <5> QED BY <2>1, <3>3, <5>2, <5>3 DEF FinalOK
      <4>5. CASE ~l.firing /\ ~l.fired
        BY <1>4, <2>5, <4>5 DEF Settling, ListOK
      <4>6. CASE ~l.firing /\ l.fired
        <5>1. Len(l.list) = 0
          BY <2>1, <4>6, NoneInjective DEF FinalOK
        <5> QED BY <4>3, <5>1 DEF Settling, Headed
      <4> QED BY <4>4, <4>5, <4>6
    <3> QED BY <3>2, <3>3
  <2> QED BY <1>1, <2>5, <2>7, <2>8
<1>11. ASSUME NEW m \in Finals
       PROVE  /\ FinalKept(m, lists'[m], Passed(m)', calls', added')
              /\ (lists'[m].fired <=> lists[m].fired) /\ ~Settling(lists'[m])
              /\ (lists'[m].on <=> lists[m].on)
  <2>1. CASE m = n
    BY <1>4, <1>6, <1>10, <2>1 DEF OperatedAs
  <2>2. CASE m # n
    <3>1. lists'[m] = lists[m] /\ ~Loops(m) /\ ~Loops(m)' /\ m \in Lists
      BY <1>6, <2>2, FinalNow DEF OperatedAs
    <3>2. Passed(m)' = Passed(m)
      BY <3>1 DEF Passed
    <3>3. \A d \in Handlers : <<m, d>> \in added' <=> <<m, d>> \in added
      BY <1>1, <2>2
    <3>4. FinalKept(m, lists'[m], Passed(m)', calls', added')
      BY <1>1, <3>1, <3>2, <3>3, Untouched
    <3> QED BY <3>1, <3>4, SettledFree
  <2> QED BY <2>1, <2>2
<1>12. ASSUME NEW m \in Finals
       PROVE  SettledOK(m, dstate', lists'[m], lists'[Other(m)], lists'["progress"], Loops(m)')
  <2>1. ~Loops(m) /\ Other(m) \in Finals
    BY <1>6, FinalNow DEF OperatedAs
  <2> QED BY <1>1, <1>9, <1>11, <2>1, SettledFree DEF SettledOK
<1> QED BY <1>1, <1>6, <1>7, <1>8, <1>11, <1>12, DeferredNow DEF DeferredOK, OperatedAs, FinalKept

LEMMA ResolveKeeps ==
  ASSUME DeferredOK, NEW n \in Lists, Resolve(n)
  PROVE  DeferredOK'
<1> DEFINE l == lists[n]
           r == fireWith(l, 1)
           o == Other(n)
<1>1. /\ Free /\ n \in Finals /\ Operated(n, r)
      /\ dstate' = dstate /\ notices' = notices /\ calls' = calls /\ broken' = broken /\ added' = added
  BY DeferredNow DEF Resolve
<1>2. /\ ListOK(Callable, l) /\ FinalOK(l, Passed(n)) /\ CalledOK(n, l, Passed(n), calls, added)
      /\ Passed(n) \in Int /\ o \in Finals /\ o # n /\ o \in Lists /\ Other(o) = n
  BY <1>1, FinalNow, DeferredNow
<1>3. ~l.stacked /\ l.stack = <<>> /\ (l.fired => l.on)
  BY <1>2 DEF ListOK, FinalOK
<1>4. CASE l.fired \/ ~l.on
  <2>1. r = l
    BY <1>3, <1>4 DEF fireWith
  <2>2. lists' = lists /\ frames' = frames /\ inside' = inside
    <3>1. inside \in BOOLEAN /\ lists \in [Lists -> ListRec(Callable)]
      BY DeferredNow DEF FramesOK
    <3> QED BY <1>1, <2>1, <3>1 DEF Operated
  <2> QED BY <1>1, <2>2 DEF DeferredOK, FramesOK, CountsOK, Passed, Loops
<1>5. CASE ~l.fired /\ l.on
  <2>1. l.data < 1 /\ DOMAIN l.stack = {} /\ ~l.firing /\ Headed(l)
    BY <1>2, <1>3, <1>5 DEF ListOK, FinalOK, None
  <2>2. Fired(Callable, l, 1, r)
    BY <1>2, <2>1, FireKeeps
  <2> HIDE DEF r
  <2>3. ListOK(Callable, r) /\ r.on /\ r.fired /\ r.firing /\ r.index = 1 /\ r.list = l.list
    BY <1>5, <2>1, <2>2 DEF Fired
  <2>4. OperatedAs(n, r)
    BY <1>1, <1>2, <2>3, OperatedIs
  <2>5. Passed(n)' = 0 /\ Loops(n)' /\ ~Loops(n)
    BY <1>2, <2>1, <2>3, <2>4, FinalNow DEF OperatedAs, Passed
  <2>6. FinalKept(n, r, Passed(n)', calls, added)
    <3> DEFINE q == Passed(n)'
    <3>1. q = IF r.firing /\ ~l.firing THEN 0 ELSE Passed(n)
      BY <2>1, <2>3, <2>5
    <3> HIDE DEF q
    <3>2. FinalKept(n, r, q, calls, added)
      BY <1>1, <1>2, <2>2, <3>1, FinalFire
    <3> QED BY <3>2 DEF q
  <2>7. Settling(r)
    BY <2>1, <2>3 DEF Settling, Headed
  <2>8. lists'[o] = lists[o] /\ ~Loops(o) /\ ~Loops(o)' /\ Passed(o)' = Passed(o)
    BY <1>2, <2>4, FinalNow DEF OperatedAs, Passed
  <2>9. FinalKept(o, lists'[o], Passed(o)', calls', added')
    BY <1>1, <1>2, <2>8, Untouched
  <2>10. ~lists[o].fired /\ ~Settling(lists[o]) /\ dstate # Final(o) /\ dstate # Final(n)
    BY <1>2, <1>5, <2>5, <2>8, SettledFree, FinalNow
  <2>11. dstate = "pending"
    BY <1>1, <2>10, DeferredNow DEF Final, Other
  <2>12. SettledOK(n, dstate', r, lists'[o], lists'["progress"], Loops(n)')
    BY <1>1, <2>3, <2>5, <2>7, <2>8, <2>10, <2>11 DEF SettledOK
  <2>13. SettledOK(o, dstate', lists'[o], r, lists'["progress"], Loops(o)')
    BY <1>1, <2>3, <2>8, <2>10 DEF SettledOK
  <2>14. \A m \in Finals : m = n \/ m = o
    BY <1>1, <1>2, DeferredNow
  <2>15. \A m \in Finals :
           /\ FinalOK(lists'[m], Passed(m)') /\ CalledOK(m, lists'[m], Passed(m)', calls', added')
           /\ SettledOK(m, dstate', lists'[m], lists'[Other(m)], lists'["progress"], Loops(m)')
    <3>1. lists'[n] = r
      BY <2>4 DEF OperatedAs
    <3> QED BY <1>1, <1>2, <2>6, <2>9, <2>12, <2>13, <2>14, <3>1 DEF FinalKept
  <2>16. ProgressOK(lists'["progress"], notices') /\ CountsOK'
    <3>1. lists'["progress"] = lists["progress"]
      BY <1>1, <2>4, FinalNow, DeferredNow DEF OperatedAs
    <3> QED BY <1>1, <3>1, DeferredNow DEF CountsOK
  <2> QED BY <1>1, <2>4, <2>15, <2>16, DeferredNow DEF DeferredOK, OperatedAs
<1> QED BY <1>4, <1>5

(* A notice, and none that begins once the deferred is settled. *)
LEMMA NotifyKeeps ==
  ASSUME DeferredOK, Notify
  PROVE  /\ DeferredOK'
         /\ dstate # "pending" => frames' = frames /\ lists'["progress"].data = lists["progress"].data
<1> DEFINE l == lists["progress"]
           r == fireWith(l, notices')
           o == notices + 1
<1>1. /\ Free /\ notices < MaxNotices /\ notices' = o /\ Operated("progress", r)
      /\ dstate' = dstate /\ calls' = calls /\ broken' = broken /\ added' = added
  BY DEF Notify
<1>2. /\ ListOK(Callable, l) /\ ProgressOK(l, notices) /\ notices \in Nat /\ o \in Nat /\ "progress" \in Lists
      /\ o \in 0..MaxNotices
  BY <1>1, DeferredNow, DeferredAssumption DEF CountsOK
<1>3. l.data < o /\ \A i \in DOMAIN l.stack : l.stack[i] < o
  <2>1. \A i \in DOMAIN l.stack : l.stack[i] \in Nat
    BY <1>2, FieldsAre, ElementOfSeq DEF ListOK
  <2> QED BY <1>2, <2>1, ListFacts DEF ProgressOK
<1>4. Fired(Callable, l, o, r)
  BY <1>1, <1>2, <1>3, FireKeeps
<1> HIDE DEF r
<1>5. ListOK(Callable, r) /\ (l.firing => r.firing)
  BY <1>4 DEF Fired
<1>6. OperatedAs("progress", r)
  BY <1>1, <1>2, <1>5, OperatedIs
<1>7. ProgressOK(lists'["progress"], notices')
  BY <1>1, <1>2, <1>4, <1>6, ProgressFire DEF OperatedAs
<1>8. Silent(l) => r = l
  BY <1>4 DEF Fired, Silent
<1>9. ASSUME NEW m \in Finals
      PROVE  /\ FinalKept(m, lists'[m], Passed(m)', calls', added') /\ lists'[m] = lists[m]
             /\ SettledOK(m, dstate', lists'[m], lists'[Other(m)], lists'["progress"], Loops(m)')
  <2>1. /\ lists'[m] = lists[m] /\ lists'[Other(m)] = lists[Other(m)]
        /\ ~Loops(m) /\ ~Loops(m)' /\ Passed(m)' = Passed(m)
    BY <1>6, FinalNow DEF OperatedAs, Passed
  <2>2. FinalKept(m, lists'[m], Passed(m)', calls', added')
    BY <1>1, <2>1, Untouched
  <2>3. lists'["progress"] = r
    BY <1>6 DEF OperatedAs
  <2> QED BY <1>1, <1>8, <2>1, <2>2, <2>3, SettledFree DEF SettledOK
<1>10. CountsOK'
  BY <1>1, <1>2, DeferredNow DEF CountsOK
<1>11. DeferredOK'
  BY <1>1, <1>6, <1>7, <1>9, <1>10, DeferredNow DEF DeferredOK, OperatedAs, FinalKept
<1>12. ASSUME dstate # "pending" PROVE frames' = frames /\ lists'["progress"].data = l.data
  <2>1. PICK m \in Finals : dstate = Final(m)
    BY <1>12, DeferredNow DEF Final
  <2>2. Silent(l)
    BY <1>6, <2>1, SettledFree, FinalNow DEF OperatedAs
  <2>3. r = l
    BY <1>8, <2>2
  <2>4. frames' = frames
    BY <1>1, <2>3 DEF Operated
  <2> QED BY <1>6, <2>3, <2>4 DEF OperatedAs
<1> QED BY <1>11, <1>12

-------------------------------------------------------------------------------
(* Deferreds: the steps of fire() *)

LEMMA TopIs ==
  ASSUME DeferredOK, frames # <<>>
  PROVE  /\ Top \in Lists /\ lists[Top].firing /\ ListOK(Callable, lists[Top])
         /\ Top \in Range(frames)
         /\ \A m \in Lists : Loops(m) <=> (~inside /\ m = Top)
<1>1. /\ frames \in Seq(Lists) /\ Len(frames) \in Nat /\ DOMAIN frames = 1..Len(frames)
      /\ \A i \in 1..Len(frames) : lists[frames[i]].firing /\ frames[i] \in Lists
  BY DeferredNow, LenProperties, ElementOfSeq DEF FramesOK
<1>2. 1 \in 1..Len(frames) /\ Top = frames[1]
  BY <1>1, EmptySeq DEF Top
<1>3. Top \in Range(frames)
  BY <1>1, <1>2 DEF Range
<1> QED BY <1>1, <1>2, <1>3, DeferredNow DEF Loops, Top

(* One list changes, and nothing else of fire(). *)
LEMMA NextIs ==
  ASSUME NEW n \in Lists, NEW ls \in [Lists -> ListRec(Callable)], ListOK(Callable, ls[n]),
         NEW r, r = [ls EXCEPT ![n].index = @ + 1]
  PROVE  /\ Relisted(Callable, ls[n], ls[n].list, ls[n].length, ls[n].index + 1, r[n])
         /\ ListOK(Callable, r[n]) /\ \A m \in Lists : m # n => r[m] = ls[m]
         /\ r \in [Lists -> ListRec(Callable)]
<1>1. r[n] = [ls[n] EXCEPT !.index = @ + 1] /\ \A m \in Lists : m # n => r[m] = ls[m]
  OBVIOUS
<1>2. Relisted(Callable, ls[n], ls[n].list, ls[n].length, ls[n].index + 1, r[n]) /\ ListOK(Callable, r[n])
  BY <1>1, NextKeeps
<1>3. r[n] \in ListRec(Callable)
  BY <1>2 DEF ListOK
<1>4. r \in [Lists -> ListRec(Callable)]
  <2>1. r = [m \in Lists |-> r[m]]
    OBVIOUS
  <2>2. \A m \in Lists : r[m] \in ListRec(Callable)
    BY <1>1, <1>3
  <2> QED BY <2>1, <2>2
<1> QED BY <1>1, <1>2, <1>4

LEMMA CallHandlerKeeps ==
  ASSUME DeferredOK, CallHandler
  PROVE  DeferredOK'
<1>0. PICK n : n = Top
  OBVIOUS
<1> DEFINE l == lists[n]
           c == Current
           j == calls'
<1>1. /\ frames # <<>> /\ ~inside /\ more(l) /\ c \in Handlers /\ c = l.list[l.index]
      /\ inside' = TRUE /\ j = [calls EXCEPT ![<<n, c>>] = @ + 1]
      /\ lists' = lists /\ dstate' = dstate /\ frames' = frames /\ notices' = notices
      /\ added' = added /\ broken' = broken
  BY <1>0 DEF CallHandler, Firing, Current
<1>2. /\ n \in Lists /\ l.firing /\ ListOK(Callable, l) /\ l.index <= l.length /\ l.on
      /\ \A m \in Lists : Loops(m) <=> m = n
  BY <1>0, <1>1, TopIs DEF more
<1>3. \A m \in Lists : ~Loops(m)'
  BY <1>1 DEF Loops
<1>4. FramesOK'
  BY <1>1, DeferredNow DEF FramesOK
<1>5. /\ calls \in [Lists \X Handlers -> Nat] /\ <<n, c>> \in Lists \X Handlers /\ calls[<<n, c>>] + 1 \in Nat
      /\ l.index \in Nat
  BY <1>1, <1>2, DeferredNow DEF CountsOK
<1> HIDE DEF c, l
<1>6. j \in [Lists \X Handlers -> Nat]
  BY <1>1, <1>5
<1>7. CountsOK'
  BY <1>1, <1>6, DeferredNow DEF CountsOK
<1>8. ASSUME NEW m \in Finals
      PROVE  FinalKept(m, lists'[m], Passed(m)', calls', added') /\ ~Settling(lists[m])
  <2>1. m \in Lists
    BY FinalNow
  <2>2. CASE m = n
    <3>1. Passed(n)' = l.index /\ Passed(n) = l.index - 1
      BY <1>1, <1>2, <1>3, <2>1, <2>2 DEF Passed, l
    <3>2. FinalOK(l, l.index - 1) /\ CalledOK(n, l, l.index - 1, calls, added)
      BY <2>2, <3>1, FinalNow DEF l
    <3>3. FinalKept(n, l, l.index, j, added)
      <4> HIDE DEF j
      <4> QED BY <1>1, <1>2, <1>5, <2>2, <3>2, FinalCall
    <3>4. ~Settling(l)
      <4>1. l.index >= 1
        BY <1>2, <3>2 DEF FinalOK
      <4>2. l.index <= 3 => l.index = 1 \/ l.index = 2 \/ l.index = 3
        BY <1>5, <4>1
      <4>3. l.list[l.index] \notin {"state", "disable", "lock"}
        BY <1>1, NotOwn
      <4> QED BY <4>2, <4>3 DEF Settling, Headed
    <3> QED BY <1>1, <2>2, <3>1, <3>3, <3>4 DEF l
  <2>3. CASE m # n
    <3>1. Passed(m)' = Passed(m) /\ lists'[m] = lists[m] /\ ~Loops(m)
      BY <1>1, <1>2, <1>3, <2>1, <2>3 DEF Passed
    <3>2. \A d \in Handlers : <<m, d>> \in Lists \X Handlers /\ <<m, d>> # <<n, c>>
      BY <2>1, <2>3
    <3>3. \A d \in Handlers : calls'[<<m, d>>] = calls[<<m, d>>]
      BY <1>1, <1>5, <3>2
    <3>4. FinalKept(m, lists'[m], Passed(m)', calls', added')
      BY <1>1, <3>1, <3>3, Untouched
    <3> QED BY <3>1, <3>4, SettledFree
  <2> QED BY <2>2, <2>3
<1>9. ASSUME NEW m \in Finals
      PROVE  SettledOK(m, dstate', lists'[m], lists'[Other(m)], lists'["progress"], Loops(m)')
  BY <1>1, <1>8, FinalNow DEF SettledOK
<1> QED BY <1>1, <1>4, <1>7, <1>8, <1>9, DeferredNow DEF DeferredOK, FinalKept

LEMMA HandlerReturnsKeeps ==
  ASSUME DeferredOK, HandlerReturns
  PROVE  DeferredOK'
<1>0. PICK n : n = Top
  OBVIOUS
<1> DEFINE l == lists[n]
           r == lists'[n]
<1>1. /\ inside /\ inside' = FALSE /\ lists' = [lists EXCEPT ![n].index = @ + 1]
      /\ dstate' = dstate /\ frames' = frames /\ notices' = notices
      /\ added' = added /\ broken' = broken /\ calls' = calls
  BY <1>0 DEF HandlerReturns, Advanced
<1>2. frames # <<>>
  BY <1>1, DeferredNow DEF FramesOK
<1>3. n \in Lists /\ l.firing /\ ListOK(Callable, l) /\ \A m \in Lists : ~Loops(m)
  BY <1>0, <1>1, <1>2, TopIs
<1>4. /\ Relisted(Callable, l, l.list, l.length, l.index + 1, r)
      /\ ListOK(Callable, r) /\ \A m \in Lists : m # n => lists'[m] = lists[m]
      /\ lists' \in [Lists -> ListRec(Callable)]
  BY <1>1, <1>3, DeferredNow, NextIs
<1>5. \A m \in Lists : Loops(m)' <=> m = n
  BY <1>0, <1>1, <1>2 DEF Loops, Top
<1> HIDE DEF r, l
<1>6. /\ r.firing = l.firing /\ r.fired = l.fired /\ r.on = l.on /\ r.stacked = l.stacked
      /\ r.index = l.index + 1 /\ r.list = l.list
  BY <1>4 DEF Relisted
<1>7. \A m \in Lists : lists'[m].firing = lists[m].firing
  BY <1>4, <1>6 DEF r, l
<1>8. FramesOK'
  <2>1. \A i \in 1..Len(frames) : frames[i] \in Lists
    BY DeferredNow, ElementOfSeq DEF FramesOK
  <2> QED BY <1>1, <1>7, <2>1, DeferredNow DEF FramesOK
<1>9. CountsOK'
  BY <1>1, DeferredNow DEF CountsOK
<1>10. ProgressOK(lists'["progress"], notices')
  <2>1. CASE n = "progress"
    <3>1. ProgressOK(r, notices)
      BY <1>3, <1>4, <2>1, DeferredNow, ProgressNext DEF l
    <3> QED BY <1>1, <2>1, <3>1 DEF r
  <2>2. CASE n # "progress"
    BY <1>1, <1>4, <2>2, DeferredNow
  <2> QED BY <2>1, <2>2
<1>11. Silent(lists["progress"]) => Silent(lists'["progress"])
  BY <1>4, <1>6, DeferredNow DEF Silent, r, l
<1>12. ASSUME NEW m \in Finals
       PROVE  /\ FinalKept(m, lists'[m], Passed(m)', calls', added') /\ ~Settling(lists'[m])
              /\ lists'[m].fired = lists[m].fired /\ lists'[m].on = lists[m].on
  <2>1. m \in Lists /\ ~Loops(m)
    BY <1>3, FinalNow
  <2>2. CASE m = n
    <3>1. l.index \in Nat
      BY <1>3, ListFacts
    <3>2. Passed(n)' = l.index /\ Passed(n) = l.index
      BY <1>3, <1>5, <1>6, <3>1 DEF Passed, l, r
    <3>3. FinalKept(n, r, l.index, calls, added)
      BY <1>3, <1>4, <2>2, <3>1, <3>2, FinalNow, FinalReturns DEF l
    <3>4. ~Settling(l)
      BY <2>1, <2>2, SettledFree DEF l
    <3>5. ~Settling(r)
      BY <1>6, <3>1, <3>4 DEF Settling, Headed
    <3> QED BY <1>1, <1>6, <2>2, <3>2, <3>3, <3>5 DEF r, l
  <2>3. CASE m # n
    <3>1. Passed(m)' = Passed(m) /\ lists'[m] = lists[m]
      BY <1>4, <1>5, <2>1, <2>3 DEF Passed
    <3>2. FinalKept(m, lists'[m], Passed(m)', calls', added')
      BY <1>1, <3>1, Untouched
    <3> QED BY <2>1, <3>1, <3>2, SettledFree
  <2> QED BY <2>2, <2>3
<1>13. ASSUME NEW m \in Finals
       PROVE  SettledOK(m, dstate', lists'[m], lists'[Other(m)], lists'["progress"], Loops(m)')
  <2>1. ~Loops(m) /\ Other(m) \in Finals
    BY <1>3, FinalNow
  <2> QED BY <1>1, <1>11, <1>12, <2>1, SettledFree DEF SettledOK
<1>14. \A m \in Lists : ListOK(Callable, lists'[m])
  BY <1>4, DeferredNow DEF r
<1> QED BY <1>1, <1>4, <1>8, <1>9, <1>10, <1>12, <1>13, <1>14, DeferredNow DEF DeferredOK, FinalKept

LEMMA HandlerThrowsKeeps ==
  ASSUME DeferredOK, HandlerThrows
  PROVE  DeferredOK'
<1>1. /\ inside /\ inside' = FALSE /\ frames' = <<>> /\ broken' = TRUE
      /\ lists' = lists /\ dstate' = dstate /\ notices' = notices /\ added' = added /\ calls' = calls
  BY DEF HandlerThrows
<1>2. \A m \in Lists : ~Loops(m) /\ ~Loops(m)'
  BY <1>1 DEF Loops
<1>3. FramesOK'
  <2>1. frames' \in Seq(Lists) /\ IsInjective(frames') /\ \A i \in 1..Len(frames') : FALSE
    BY <1>1, NoneInjective
  <2> QED BY <1>1, <2>1 DEF FramesOK
<1>4. ASSUME NEW m \in Finals
      PROVE  /\ FinalKept(m, lists'[m], Passed(m)', calls', added')
             /\ SettledOK(m, dstate', lists'[m], lists'[Other(m)], lists'["progress"], Loops(m)')
  <2>1. m \in Lists /\ Passed(m)' = Passed(m) /\ lists'[m] = lists[m] /\ ~Loops(m) /\ ~Loops(m)'
    BY <1>1, <1>2, FinalNow DEF Passed
  <2>2. FinalKept(m, lists'[m], Passed(m)', calls', added')
    BY <1>1, <2>1, Untouched
  <2>3. ~Settling(lists[m])
    BY <2>1, SettledFree
  <2> QED BY <1>1, <2>1, <2>2, <2>3, FinalNow DEF SettledOK
<1>5. CountsOK'
  BY <1>1, DeferredNow DEF CountsOK
<1> QED BY <1>1, <1>3, <1>4, <1>5, DeferredNow DEF DeferredOK, FinalKept

LEMMA CallOwnKeeps ==
  ASSUME DeferredOK, CallOwn
  PROVE  DeferredOK'
<1>0. PICK n : n = Top
  OBVIOUS
<1> DEFINE l == lists[n]
           c == Current
           o == Other(n)
           p == "progress"
           ls == CASE c = "state"   -> lists
                   [] c = "disable" -> [lists EXCEPT ![o] = disable(@)]
                   [] c = "lock"    -> [lists EXCEPT ![p] = lock(@)]
           r == lists'[n]
<1>1. /\ frames # <<>> /\ ~inside /\ more(l) /\ c \in Range(Own) /\ c = l.list[l.index]
      /\ dstate' = (IF c = "state" THEN Final(n) ELSE dstate)
      /\ lists' = [ls EXCEPT ![n].index = @ + 1]
      /\ frames' = frames /\ inside' = inside /\ notices' = notices
      /\ added' = added /\ broken' = broken /\ calls' = calls
  BY <1>0 DEF CallOwn, Firing, Current, Advanced
<1>2. /\ n \in Lists /\ l.firing /\ ListOK(Callable, l) /\ l.index <= l.length /\ l.on
      /\ \A m \in Lists : Loops(m) <=> m = n
  BY <1>0, <1>1, TopIs DEF more
<1>3. /\ l.list \in Seq(Callable) /\ Len(l.list) \in Nat /\ l.index \in Nat /\ l.length = Len(l.list)
      /\ c \in {"state", "disable", "lock"}
  BY <1>1, <1>2, ListFacts, OwnIs DEF ListOK
<1>4. n \in Finals
  <2>1. CASE n = "progress"
    <3>1. l.index \in 1..Len(l.list)
      BY <1>2, <1>3, <2>1, DeferredNow DEF ProgressOK
    <3>2. l.list[l.index] \in Handlers
      BY <2>1, <3>1, DeferredNow DEF ProgressOK, Plain
    <3> QED BY <1>1, <1>3, <3>2, NotOwn
  <2> QED BY <1>2, <2>1, DeferredNow
<1>5. /\ FinalOK(l, l.index - 1) /\ CalledOK(n, l, l.index - 1, calls, added)
      /\ SettledOK(n, dstate, l, lists[o], lists[p], TRUE)
      /\ o \in Finals /\ o \in Lists /\ o # n /\ Other(o) = n /\ n # p /\ o # p /\ p \in Lists
      /\ Final(n) # Final(o) /\ Final(n) \in {"resolved", "rejected"}
      /\ SettledOK(o, dstate, lists[o], l, lists[p], FALSE)
  <2>1. Passed(n) = l.index - 1 /\ Loops(n)
    BY <1>2 DEF Passed
  <2>2. o \in Finals /\ o \in Lists /\ o # n /\ Other(o) = n /\ ~Loops(o) /\ n # p /\ o # p
    BY <1>2, <1>4, FinalNow
  <2>3. SettledOK(o, dstate, lists[o], l, lists[p], FALSE)
    BY <2>2, FinalNow DEF SettledOK
  <2>4. FinalOK(l, l.index - 1) /\ CalledOK(n, l, l.index - 1, calls, added)
    BY <1>4, <2>1, FinalNow
  <2>5. SettledOK(n, dstate, l, lists[o], lists[p], TRUE)
    BY <1>4, <2>1, FinalNow
  <2> QED BY <1>4, <2>2, <2>3, <2>4, <2>5, FinalNow, DeferredNow DEF Final
<1>6. /\ Headed(l) /\ l.index \in {1, 2, 3}
      /\ (c = "state" <=> l.index = 1) /\ (c = "disable" <=> l.index = 2) /\ (c = "lock" <=> l.index = 3)
  <2>1. l.index >= 1 /\ l.index \in 1..Len(l.list)
    BY <1>2, <1>3, <1>5 DEF FinalOK
  <2>2. l.list[l.index] \notin Handlers
    BY <1>1, <1>3, NotOwn
  <2>3. Headed(l)
    BY <1>2, <1>5, <2>1, <2>2 DEF FinalOK, Plain
  <2>4. ~(l.index \in 4..Len(l.list))
    BY <2>2, <2>3 DEF Headed
  <2>5. l.index \in {1, 2, 3}
    BY <1>3, <2>1, <2>4
  <2> QED BY <1>1, <2>3, <2>5 DEF Headed
<1>7. Settling(l) /\ l.fired /\ ~lists[o].fired /\ ListOK(Callable, lists[o]) /\ ListOK(Callable, lists[p])
  <2>1. l.fired
    BY <1>2 DEF ListOK
  <2> QED BY <1>2, <1>5, <1>6, <2>1, DeferredNow DEF Settling, SettledOK
<1> HIDE DEF c, l, o
(* The other lists. *)
<1>8. /\ ls \in [Lists -> ListRec(Callable)] /\ ls[n] = l
      /\ c = "disable" => Disabled(Callable, lists[o], ls[o]) /\ ListOK(Callable, ls[o])
      /\ c # "disable" => ls[o] = lists[o]
      /\ c = "lock" => Locked(Callable, lists[p], ls[p])
      /\ c # "lock" => ls[p] = lists[p]
  <2>1. lists \in [Lists -> ListRec(Callable)]
    BY DeferredNow
  <2>2. CASE c = "state"
    <3>1. ls = lists
      BY <2>2
    <3> HIDE DEF ls
    <3> QED BY <2>1, <2>2, <3>1 DEF l
  <2>3. CASE c = "disable"
    <3> DEFINE d == disable(lists[o])
    <3>1. ls = [lists EXCEPT ![o] = d]
      BY <2>3
    <3>2. ListOK(Callable, d) /\ Disabled(Callable, lists[o], d)
      BY <1>7, DisableKeeps
    <3> HIDE DEF ls, d
    <3>3. d \in ListRec(Callable)
      BY <3>2 DEF ListOK
    <3>4. ls[o] = d /\ ls[n] = lists[n] /\ ls[p] = lists[p]
      BY <1>2, <1>5, <2>1, <3>1
    <3>5. ls \in [Lists -> ListRec(Callable)]
      BY <2>1, <3>1, <3>3
    <3> QED BY <2>3, <3>2, <3>4, <3>5 DEF l
  <2>4. CASE c = "lock"
    <3> DEFINE d == lock(lists[p])
    <3>1. ls = [lists EXCEPT ![p] = d]
      BY <2>4
    <3>2. Locked(Callable, lists[p], d)
      BY <1>7, LockKeeps
    <3> HIDE DEF ls, d
    <3>3. d \in ListRec(Callable)
      BY <3>2 DEF ListOK, Locked
    <3>4. ls[p] = d /\ ls[n] = lists[n] /\ ls[o] = lists[o]
      BY <1>2, <1>5, <2>1, <3>1
    <3>5. ls \in [Lists -> ListRec(Callable)]
      BY <2>1, <3>1, <3>3
    <3> QED BY <2>4, <3>2, <3>4, <3>5 DEF l
  <2> QED BY <1>3, <2>2, <2>3, <2>4
<1> HIDE DEF ls
<1>9. /\ Relisted(Callable, l, l.list, l.length, l.index + 1, r)
      /\ ListOK(Callable, r) /\ lists'[o] = ls[o] /\ lists'[p] = ls[p]
      /\ lists' \in [Lists -> ListRec(Callable)]
  <2>1. ListOK(Callable, ls[n])
    BY <1>2, <1>8
  <2>2. /\ Relisted(Callable, ls[n], ls[n].list, ls[n].length, ls[n].index + 1, r)
        /\ ListOK(Callable, r) /\ \A m \in Lists : m # n => lists'[m] = ls[m]
        /\ lists' \in [Lists -> ListRec(Callable)]
    BY <1>1, <1>2, <1>8, <2>1, NextIs
  <2> QED BY <1>5, <1>8, <2>2
<1> HIDE DEF r
<1>10. /\ r.firing = l.firing /\ r.fired = l.fired /\ r.on = l.on
       /\ r.index = l.index + 1 /\ r.list = l.list
  BY <1>9 DEF Relisted
<1>11. /\ ListOK(Callable, lists'[o]) /\ ListOK(Callable, lists'[p])
       /\ (lists'[o].firing <=> lists[o].firing) /\ (lists'[p].firing <=> lists[p].firing)
       /\ ~lists'[o].fired
       /\ ProgressOK(lists'[p], notices)
  <2>1. ListOK(Callable, lists'[o]) /\ (lists'[o].firing <=> lists[o].firing) /\ ~lists'[o].fired
    BY <1>7, <1>8, <1>9 DEF Disabled
  <2>2. CASE c = "lock"
    <3>1. Locked(Callable, lists[p], lists'[p]) /\ ProgressOK(lists[p], notices)
      BY <1>8, <1>9, <2>2, DeferredNow
    <3>2. ProgressOK(lists'[p], notices)
      BY <1>7, <3>1, ProgressLock
    <3> QED BY <2>1, <3>1, <3>2 DEF Locked
  <2>3. CASE c # "lock"
    BY <1>7, <1>8, <1>9, <2>1, <2>3, DeferredNow
  <2> QED BY <2>2, <2>3
<1>12. \A m \in Lists : m = n \/ m = o \/ m = p
  BY <1>4, <1>5, DeferredNow
<1>13. \A m \in Lists : (lists'[m].firing <=> lists[m].firing) /\ ListOK(Callable, lists'[m])
  BY <1>9, <1>10, <1>11, <1>12 DEF r, l
<1>14. FramesOK'
  <2>1. \A i \in 1..Len(frames) : frames[i] \in Lists
    BY DeferredNow, ElementOfSeq DEF FramesOK
  <2> QED BY <1>1, <1>13, <2>1, DeferredNow DEF FramesOK
<1>15. CountsOK' /\ \A m \in Lists : Loops(m)' <=> m = n
  BY <1>1, <1>2, DeferredNow DEF CountsOK, Loops
<1>16. FinalKept(n, r, Passed(n)', calls', added')
  <2>1. Passed(n)' = l.index
    BY <1>2, <1>3, <1>10, <1>15 DEF Passed, r
  <2>2. l.list[l.index] \in {"state", "disable", "lock"} /\ l.index <= l.length
    BY <1>1, <1>2, <1>3 DEF l
  <2>3. l.firing /\ ListOK(Callable, l)
    BY <1>2 DEF l
  <2>4. FinalKept(n, r, l.index, calls, added)
    BY <1>4, <1>5, <1>9, <2>2, <2>3, FinalOwn
  <2> QED BY <1>1, <2>1, <2>4
<1>17. FinalKept(o, lists'[o], Passed(o)', calls', added')
  <2>1. ~Loops(o) /\ ~Loops(o)'
    BY <1>2, <1>5, <1>15
  <2>2. CASE c = "disable"
    <3>1. FinalOK(lists[o], Passed(o)) /\ CalledOK(o, lists[o], Passed(o), calls, added) /\ Passed(o) \in Int
      BY <1>5, FinalNow, DeferredNow
    <3>2. Disabled(Callable, lists[o], lists'[o])
      BY <1>8, <1>9, <2>2
    <3>3. FinalKept(o, lists'[o], Passed(o)', calls, added)
      BY <1>5, <1>7, <3>1, <3>2, FinalDisable
    <3> QED BY <1>1, <3>3
  <2>3. CASE c # "disable"
    <3>1. lists'[o] = lists[o]
      BY <1>8, <1>9, <2>3
    <3>2. Passed(o)' = Passed(o)
      BY <2>1, <3>1 DEF Passed
    <3> QED BY <1>1, <1>5, <3>1, <3>2, Untouched
  <2> QED BY <2>2, <2>3
<1>18. SettledOK(n, dstate', r, lists'[o], lists'[p], Loops(n)')
  <2>1. Settling(r) <=> l.index <= 2
    BY <1>6, <1>7, <1>10 DEF Settling, Headed
  <2>2. r.fired /\ r.on /\ Loops(n)'
    BY <1>2, <1>7, <1>10, <1>15 DEF l
  <2>3. CASE c = "state"
    <3>1. dstate' = Final(n) /\ l.index = 1 /\ r.index = 2
      BY <1>1, <1>6, <1>10, <2>3
    <3> QED BY <1>11, <2>1, <2>2, <3>1 DEF SettledOK
  <2>4. CASE c = "disable"
    <3>1. dstate' = dstate /\ l.index = 2 /\ r.index = 3 /\ ~lists'[o].on
      BY <1>1, <1>6, <1>8, <1>9, <1>10, <2>4 DEF Disabled
    <3>2. dstate = Final(n)
      BY <1>5, <1>7, <3>1 DEF SettledOK
    <3> QED BY <1>11, <2>1, <2>2, <3>1, <3>2 DEF SettledOK
  <2>5. CASE c = "lock"
    <3>1. dstate' = dstate /\ l.index = 3 /\ lists'[o] = lists[o]
      BY <1>1, <1>6, <1>8, <1>9, <2>5
    <3>2. dstate = Final(n) /\ ~lists[o].on
      BY <1>5, <1>7, <3>1 DEF SettledOK
    <3>3. Silent(lists'[p])
      BY <1>7, <1>8, <1>9, <2>5, DeferredNow, ProgressLock
    <3> QED BY <1>11, <2>2, <3>1, <3>2, <3>3 DEF SettledOK
  <2> QED BY <1>3, <2>3, <2>4, <2>5
<1>19. SettledOK(o, dstate', lists'[o], r, lists'[p], Loops(o)')
  <2>1. dstate' # Final(o)
    <3>1. dstate # Final(o)
      BY <1>5, <1>7 DEF SettledOK
    <3> QED BY <1>1, <1>5, <3>1
  <2>2. ~Settling(lists'[o])
    BY <1>11 DEF Settling, ListOK
  <2> QED BY <1>7, <1>10, <1>11, <2>1, <2>2 DEF SettledOK
<1>20. ASSUME NEW m \in Finals
       PROVE  /\ FinalKept(m, lists'[m], Passed(m)', calls', added')
              /\ SettledOK(m, dstate', lists'[m], lists'[Other(m)], lists'["progress"], Loops(m)')
  <2>1. m = n \/ m = o
    BY <1>5, <1>12, FinalNow
  <2> QED BY <1>5, <1>16, <1>17, <1>18, <1>19, <2>1 DEF r, o
<1>21. dstate' \in {"pending", "resolved", "rejected"}
  BY <1>1, <1>5, DeferredNow
<1> QED BY <1>1, <1>9, <1>11, <1>13, <1>14, <1>15, <1>20, <1>21, DeferredNow DEF DeferredOK, FinalKept

LEMMA RoundEndsKeeps ==
  ASSUME DeferredOK, RoundEnds
  PROVE  DeferredOK'
<1>0. PICK n : n = Top
  OBVIOUS
<1> DEFINE l == lists[n]
           r == lists'[n]
<1>1. /\ frames # <<>> /\ ~inside /\ ~more(l) /\ lists' = [lists EXCEPT ![n] = end(l)]
      /\ frames' = (IF r.firing THEN frames ELSE Tail(frames))
      /\ inside' = (~r.firing /\ Tail(frames) # <<>>)
      /\ dstate' = dstate /\ notices' = notices
      /\ added' = added /\ broken' = broken /\ calls' = calls
  BY <1>0, TopIs DEF RoundEnds, Firing
<1>2. /\ n \in Lists /\ l.firing /\ ListOK(Callable, l) /\ n = Head(frames)
      /\ \A m \in Lists : Loops(m) <=> m = n
  BY <1>0, <1>1, TopIs DEF Top
<1>3. r = end(l) /\ \A m \in Lists : m # n => lists'[m] = lists[m]
  BY <1>1, <1>2, DeferredNow
<1>4. Ended(Callable, l, r)
  BY <1>2, <1>3, EndKeeps
<1> HIDE DEF l, r
<1>5. ListOK(Callable, r) /\ (r.fired <=> l.fired) /\ (r.stacked => l.stacked) /\ (~l.on => ~r.on)
  BY <1>4 DEF Ended
<1>6. lists' \in [Lists -> ListRec(Callable)] /\ \A m \in Lists : ListOK(Callable, lists'[m])
  <2>1. lists' = [lists EXCEPT ![n] = r]
    BY <1>1, <1>3
  <2>2. r \in ListRec(Callable)
    BY <1>5 DEF ListOK
  <2>3. \A m \in Lists : ListOK(Callable, lists'[m])
    BY <1>3, <1>5, DeferredNow DEF r
  <2> QED BY <2>1, <2>2, <2>3, DeferredNow
<1>7. /\ frames \in Seq(Lists) /\ IsInjective(frames)
      /\ \A i \in 1..Len(frames) : lists[frames[i]].firing /\ frames[i] \in Lists
      /\ broken \in BOOLEAN /\ DOMAIN frames = 1..Len(frames)
      /\ ~broken => \A m \in Lists : lists[m].firing => m \in Range(frames)
  BY DeferredNow, LenProperties, ElementOfSeq DEF FramesOK
<1>8. FramesOK' /\ \A m \in Lists : Loops(m)' <=> (m = n /\ r.firing)
  <2>1. CASE r.firing
    <3>1. frames' = frames /\ inside' = FALSE
      BY <1>1, <2>1
    <3>2. \A m \in Lists : lists'[m].firing <=> lists[m].firing
      BY <1>2, <1>3, <2>1 DEF r, l
    <3>3. \A m \in Lists : Loops(m)' <=> (m = n /\ r.firing)
      BY <1>1, <1>2, <2>1, <3>1 DEF Loops
    <3> QED BY <1>1, <1>7, <3>1, <3>2, <3>3 DEF FramesOK
  <2>2. CASE ~r.firing
    <3>1. frames' = Tail(frames) /\ inside' = (Tail(frames) # <<>>)
      BY <1>1, <2>2
    <3>2. Popped(frames, frames')
      BY <1>1, <1>7, <3>1, PopIs
    <3>3. Range(frames') = Range(frames) \ {n} /\ frames' \in Seq(Lists) /\ IsInjective(frames')
      BY <1>2, <3>2 DEF Popped
    <3>4. \A i \in 1..Len(frames') : lists'[frames'[i]].firing
      <4> SUFFICES ASSUME NEW i \in 1..Len(frames') PROVE lists'[frames'[i]].firing
        OBVIOUS
      <4>1. DOMAIN frames' = 1..Len(frames')
        BY <3>3, LenProperties
      <4>2. frames'[i] \in Range(frames) \ {n}
        BY <3>3, <4>1 DEF Range
      <4>3. frames'[i] \in Lists /\ lists[frames'[i]].firing /\ frames'[i] # n
        BY <1>7, <4>2 DEF Range
      <4> QED BY <1>3, <4>3
    <3>5. \A m \in Lists : ~Loops(m)'
      BY <3>1 DEF Loops
    <3>6. ~broken' => \A m \in Lists : lists'[m].firing => m \in Range(frames')
      BY <1>1, <1>3, <1>7, <2>2, <3>3 DEF r
    <3>7. inside' \in BOOLEAN /\ (inside' => frames' # <<>>)
      BY <3>1
    <3> QED BY <1>1, <1>7, <2>2, <3>3, <3>4, <3>5, <3>6, <3>7 DEF FramesOK
  <2> QED BY <2>1, <2>2, SMTT(30)
<1>9. CountsOK'
  BY <1>1, DeferredNow DEF CountsOK
<1>10. ProgressOK(lists'["progress"], notices)
  <2>1. CASE n = "progress"
    <3>1. ProgressOK(l, notices)
      BY <2>1, DeferredNow DEF l
    <3>2. ProgressOK(r, notices)
      BY <1>2, <1>4, <3>1, ProgressEnd
    <3> QED BY <2>1, <3>2 DEF r
  <2>2. CASE n # "progress"
    BY <1>3, <2>2, DeferredNow
  <2> QED BY <2>1, <2>2
<1>11. Silent(lists["progress"]) => Silent(lists'["progress"])
  <2>1. CASE n = "progress"
    BY <1>5, <2>1 DEF Silent, r, l
  <2>2. CASE n # "progress"
    BY <1>3, <2>2, DeferredNow
  <2> QED BY <2>1, <2>2
<1>12. ASSUME n \in Finals
       PROVE  /\ FinalKept(n, r, Passed(n)', calls', added') /\ ~r.firing /\ r.fired /\ r.on
              /\ l.fired /\ l.on /\ ~Settling(l)
  <2>1. Passed(n) = l.index - 1
    BY <1>2 DEF Passed, l
  <2>2. FinalOK(l, l.index - 1) /\ CalledOK(n, l, l.index - 1, calls, added)
    BY <1>12, <2>1, FinalNow DEF l
  <2>3. ~more(l)
    BY <1>1 DEF l
  <2>4. FinalKept(n, r, Passed(n)', calls, added) /\ ~r.firing /\ r.fired /\ r.on
    BY <1>2, <1>4, <1>12, <2>2, <2>3, FinalEnd
  <2>5. l.fired /\ l.on
    BY <1>2, <2>2 DEF ListOK, FinalOK
  <2>6. ~Settling(l)
    <3>1. l.length = Len(l.list) /\ l.index \in Nat /\ Len(l.list) \in Nat
      BY <1>2, <2>5, ListFacts DEF ListOK
    <3>2. l.index > Len(l.list)
      BY <2>3, <2>5, <3>1 DEF more
    <3> QED BY <3>1, <3>2 DEF Settling, Headed
  <2> QED BY <1>1, <2>4, <2>5, <2>6
<1>13. ASSUME NEW m \in Finals
       PROVE  /\ FinalKept(m, lists'[m], Passed(m)', calls', added')
              /\ (lists'[m].fired <=> lists[m].fired) /\ ~Settling(lists'[m]) /\ ~Settling(lists[m])
              /\ (lists'[m].on <=> lists[m].on)
  <2>1. CASE m = n
    <3>1. ~Settling(r)
      BY <1>12, <2>1 DEF Settling
    <3> QED BY <1>12, <2>1, <3>1 DEF r, l
  <2>2. CASE m # n
    <3>1. lists'[m] = lists[m] /\ ~Loops(m) /\ ~Loops(m)' /\ m \in Lists
      BY <1>2, <1>3, <1>8, <2>2, FinalNow
    <3>2. Passed(m)' = Passed(m)
      BY <3>1 DEF Passed
    <3>3. FinalKept(m, lists'[m], Passed(m)', calls', added')
      BY <1>1, <3>1, <3>2, Untouched
    <3> QED BY <3>1, <3>3, SettledFree
  <2> QED BY <2>1, <2>2
<1>14. ASSUME NEW m \in Finals
       PROVE  SettledOK(m, dstate', lists'[m], lists'[Other(m)], lists'["progress"], Loops(m)')
  <2>1. Other(m) \in Finals /\ SettledOK(m, dstate, lists[m], lists[Other(m)], lists["progress"], Loops(m))
    BY FinalNow
  <2>2. ~Settling(lists[m])
    BY <1>13
  <2> QED BY <1>1, <1>11, <1>13, <2>1, <2>2 DEF SettledOK
<1> QED BY <1>1, <1>6, <1>8, <1>9, <1>10, <1>13, <1>14, DeferredNow DEF DeferredOK, FinalKept

-------------------------------------------------------------------------------
(* Deferreds: the invariant *)

LEMMA DeferredInitOK == DeferredInit => DeferredOK
<1> SUFFICES ASSUME DeferredInit PROVE DeferredOK
  OBVIOUS
<1> DEFINE p == NewList({"memory"})
           b == NewList({"once", "memory"})
           f == [b EXCEPT !.list = Own]
<1>1. Lists = {"done", "fail", "progress"} /\ Finals = {"done", "fail"}
  BY DEF Lists, Finals
<1>2. /\ ListOK(Callable, p) /\ p.options = {"memory"} /\ p.on /\ p.list = <<>> /\ p.memory = None
      /\ p.data = None /\ ~p.fired /\ ~p.firing /\ p.stack = <<>>
  BY NewListIs
<1>3. /\ ListOK(Callable, b) /\ b.options = {"once", "memory"} /\ b.on /\ b.memory = None
      /\ b.data = None /\ ~b.fired /\ ~b.firing /\ b.length = 0 /\ b.index = 0 /\ b.stack = <<>>
  BY NewListIs
<1> HIDE DEF p, b
<1>4. b \in ListRec(Callable) /\ Own \in Seq(Callable) /\ IsInjective(Own) /\ b.index \in Nat /\ b.length \in Nat
  BY <1>3, OwnIs DEF ListOK
<1>5. Relisted(Callable, b, Own, b.length, b.index, f)
  <2>1. f = [b EXCEPT !.list = Own, !.length = b.length, !.index = b.index]
    BY <1>4 DEF ListRec
  <2> QED BY <1>4, <2>1, ListedIs
<1> HIDE DEF f
<1>6. ListOK(Callable, f) /\ f.on /\ ~f.fired /\ ~f.firing /\ f.list = Own /\ f.memory = None /\ f.data = None
      /\ f.options = {"once", "memory"}
  BY <1>3, <1>4, <1>5 DEF ListOK, Relisted
<1>7. Headed(f)
  BY <1>6, OwnIs DEF Headed
<1>8. /\ lists = [n \in Lists |-> IF n = "progress" THEN p ELSE f]
      /\ dstate = "pending" /\ frames = <<>> /\ inside = FALSE /\ notices = 0 /\ added = {}
      /\ calls = [q \in Lists \X Handlers |-> 0] /\ broken = FALSE
  BY DEF DeferredInit, p, f, b
<1>9. lists["progress"] = p /\ lists["done"] = f /\ lists["fail"] = f
  BY <1>1, <1>8
<1>10. lists \in [Lists -> ListRec(Callable)] /\ \A n \in Lists : ListOK(Callable, lists[n])
  <2>1. p \in ListRec(Callable) /\ f \in ListRec(Callable)
    BY <1>2, <1>6 DEF ListOK
  <2> QED BY <1>1, <1>2, <1>6, <1>8, <1>9, <2>1
<1>11. FramesOK
  <2>1. frames \in Seq(Lists) /\ IsInjective(frames) /\ \A i \in 1..Len(frames) : FALSE
    BY <1>8, NoneInjective
  <2>2. \A n \in Lists : ~lists[n].firing
    BY <1>1, <1>2, <1>6, <1>9
  <2> QED BY <1>8, <2>1, <2>2 DEF FramesOK
<1>12. CountsOK
  BY <1>8, DeferredAssumption DEF CountsOK
<1>13. ProgressOK(p, notices)
  <2>1. DOMAIN p.stack = {} /\ \A i \in 1..Len(p.list) : FALSE
    BY <1>2, NoneInjective
  <2> QED BY <1>2, <1>8, <2>1 DEF ProgressOK, Plain, None
<1>14. ASSUME NEW n \in Finals
       PROVE  /\ FinalOK(lists[n], Passed(n)) /\ CalledOK(n, lists[n], Passed(n), calls, added)
              /\ SettledOK(n, dstate, lists[n], lists[Other(n)], lists["progress"], Loops(n))
  <2>1. lists[n] = f /\ lists[Other(n)] = f /\ n \in Lists /\ Final(n) # "pending"
    BY <1>1, <1>9 DEF Other, Final
  <2>2. FinalOK(f, Passed(n))
    BY <1>6, <1>7 DEF FinalOK
  <2>3. ASSUME NEW c \in Handlers PROVE CalledOnce(n, f, Passed(n), calls, added, c)
    <3>1. calls[<<n, c>>] = 0
      BY <1>8, <2>1
    <3>2. c \notin Range(f.list)
      BY <1>6, OwnIs, NotOwn
    <3> QED BY <1>6, <1>8, <3>1, <3>2 DEF CalledOnce
  <2>4. SettledOK(n, dstate, f, f, lists["progress"], Loops(n))
    BY <1>6, <1>8, <2>1 DEF SettledOK, Settling
  <2> QED BY <2>1, <2>2, <2>3, <2>4 DEF CalledOK
<1> QED BY <1>8, <1>9, <1>10, <1>11, <1>12, <1>13, <1>14 DEF DeferredOK

LEMMA DeferredNextOK ==
  ASSUME DeferredOK, [DeferredNext]_deferredVars
  PROVE  /\ DeferredOK'
         /\ dstate # "pending" /\ notices' # notices =>
              frames' = frames /\ lists'["progress"].data = lists["progress"].data
<1>1. CASE UNCHANGED deferredVars
  BY <1>1 DEF deferredVars, DeferredOK, FramesOK, CountsOK, Passed, Loops
<1>2. CASE \E n \in Lists : Resolve(n)
  <2>1. notices' = notices
    BY <1>2 DEF Resolve
  <2> QED BY <1>2, <2>1, ResolveKeeps
<1>3. CASE \E n \in Lists, c \in Handlers : AddHandler(n, c)
  <2>1. notices' = notices
    BY <1>3 DEF AddHandler
  <2> QED BY <1>3, <2>1, AddHandlerKeeps
<1>4. CASE Notify
  BY <1>4, NotifyKeeps
<1>5. CASE CallOwn
  BY <1>5, CallOwnKeeps DEF CallOwn
<1>6. CASE CallHandler
  BY <1>6, CallHandlerKeeps DEF CallHandler
<1>7. CASE HandlerReturns
  BY <1>7, HandlerReturnsKeeps DEF HandlerReturns
<1>8. CASE HandlerThrows
  BY <1>8, HandlerThrowsKeeps DEF HandlerThrows
<1>9. CASE RoundEnds
  BY <1>9, RoundEndsKeeps DEF RoundEnds
<1> QED BY <1>1, <1>2, <1>3, <1>4, <1>5, <1>6, <1>7, <1>8, <1>9 DEF DeferredNext

LEMMA DeferredCorrect == DeferredOK => DeferredTypeOK /\ SettlesOneWay /\ EveryHandlerCalled
<1> SUFFICES ASSUME DeferredOK PROVE DeferredTypeOK /\ SettlesOneWay /\ EveryHandlerCalled
  OBVIOUS
<1>1. DeferredTypeOK
  <2>1. \A n \in Lists : Range(lists[n].list) \subseteq Range(Own) \cup Handlers
    <3> SUFFICES ASSUME NEW n \in Lists PROVE Range(lists[n].list) \subseteq Callable
      BY DEF Callable
    <3>1. ListOK(Callable, lists[n])
      BY DeferredNow
    <3>2. lists[n].list \in Seq(Callable) /\ DOMAIN lists[n].list = 1..Len(lists[n].list)
      BY <3>1, ListFacts
    <3> QED BY <3>2, ElementOfSeq DEF Range
  <2>2. Len(frames) <= 3
    <3>1. frames \in Seq(Lists) /\ IsInjective(frames)
      BY DeferredNow DEF FramesOK
    <3>2. Len(frames) \in Nat /\ frames \in [1..Len(frames) -> Lists] /\ DOMAIN frames = 1..Len(frames)
      BY <3>1, LenProperties
    <3>3. frames \in Injection(1..Len(frames), Lists)
      BY <3>1, <3>2 DEF Injection, IsInjective
    <3>4. IsFiniteSet(Lists) /\ Cardinality(Lists) = 3
      <4>1. IsFiniteSet({"progress"}) /\ Cardinality({"progress"}) = 1
        BY FS_Singleton
      <4>2. IsFiniteSet({"fail", "progress"}) /\ Cardinality({"fail", "progress"}) = 2
        <5>1. {"fail", "progress"} = {"progress"} \cup {"fail"}
          OBVIOUS
        <5> QED BY <4>1, <5>1, FS_AddElement
      <4>3. Lists = {"fail", "progress"} \cup {"done"}
        BY DEF Lists
      <4> QED BY <4>2, <4>3, FS_AddElement
    <3>5. Cardinality(1..Len(frames)) <= 3
      BY <3>3, <3>4, FS_Injection
    <3>6. Cardinality(1..Len(frames)) = Len(frames)
      <4>1. ASSUME NEW a \in Nat PROVE Cardinality(1..a) = a
        BY FS_Interval
      <4> QED BY <3>2, <4>1
    <3> QED BY <3>5, <3>6
  <2> QED BY <2>1, <2>2, DeferredNow DEF DeferredTypeOK, FramesOK, CountsOK
<1>2. SettlesOneWay
  <2> SUFFICES ASSUME NEW n \in Finals, NEW c \in Handlers
               PROVE  calls[<<n, c>>] <= 1 /\ (calls[<<n, c>>] = 1 => dstate = Final(n))
    BY DEF SettlesOneWay, Finals
  <2>1. CalledOnce(n, lists[n], Passed(n), calls, added, c)
    BY FinalNow DEF CalledOK
  <2>2. calls[<<n, c>>] \in {0, 1}
    BY <2>1 DEF CalledOnce
  <2>3. ASSUME calls[<<n, c>>] = 1 PROVE dstate = Final(n)
    <3>1. lists[n].fired
      BY <2>1, <2>3 DEF CalledOnce
    <3>2. CASE Settling(lists[n])
      <4>1. lists[n].index \in Nat /\ Passed(n) <= 2 /\ Loops(n)
        BY <3>2, FinalNow, DeferredNow DEF SettledOK, Settling, Passed
      <4>2. c \in Range(lists[n].list)
        BY <2>1, <2>3, <3>1, <3>2 DEF CalledOnce, Settling
      <4>3. PICK i \in 1..Len(lists[n].list) : lists[n].list[i] = c
        BY <4>2, FinalNow, ListFacts DEF Range
      <4>4. i <= Passed(n)
        BY <2>1, <2>3, <3>1, <4>3 DEF CalledOnce
      <4>5. i = 1 \/ i = 2
        BY <4>1, <4>3, <4>4, DeferredNow, FinalNow, ListFacts
      <4> QED BY <3>2, <4>3, <4>5, NotOwn DEF Settling, Headed
    <3>3. CASE ~Settling(lists[n])
      BY <3>1, <3>3, FinalNow DEF SettledOK
    <3> QED BY <3>2, <3>3
  <2> QED BY <2>2, <2>3
<1>3. EveryHandlerCalled
  <2> SUFFICES ASSUME frames = <<>>, ~broken, NEW q \in added, dstate = Final(q[1]), q[1] # "progress"
               PROVE  calls[q] = 1
    BY DEF EveryHandlerCalled
  <2>1. PICK n \in Lists, c \in Handlers : q = <<n, c>>
    BY DeferredNow DEF CountsOK
  <2>2. n \in Finals /\ dstate = Final(n) /\ <<n, c>> \in added
    BY <2>1, DeferredNow
  <2>3. lists[n].fired
    BY <2>2, FinalNow DEF SettledOK
  <2>4. ~lists[n].firing
    <3>1. Range(frames) = {}
      BY DEF Range
    <3> QED BY <2>1, <3>1, DeferredNow DEF FramesOK
  <2>5. Range(lists[n].list) = {}
    <3>1. lists[n].list = <<>>
      BY <2>2, <2>3, <2>4, FinalNow DEF FinalOK
    <3> QED BY <3>1 DEF Range
  <2> QED BY <2>1, <2>2, <2>3, <2>5, FinalNow DEF CalledOK, CalledOnce
<1> QED BY <1>1, <1>2, <1>3

-------------------------------------------------------------------------------
(* The queue of fades *)

Tweens == [elem : Elements, hides : BOOLEAN, left : 1..Frames, orig : {Opaque},
           from : 0..Opaque, to : {0, Opaque}]

\* The values that fx takes.
FxStates ==
  [hidden : [Elements -> BOOLEAN], opacity : [Elements -> 0..Opaque],
   fxshow : [Elements -> {NoValue, Opaque}], queue : [Elements -> Seq(Jobs \cup {Sentinel})],
   timers : Seq(Tweens), ticking : BOOLEAN]

\* The timers of an element; is there one at most?
TimersOf(ts, e) == {t \in Range(ts) : t.elem = e}
OneTimer(ts, e) == \A i, j \in DOMAIN ts : ts[i].elem = e /\ ts[j].elem = e => i = j

\* What waits in a queue.
Waiting(q) == IF q # <<>> /\ Head(q) = Sentinel THEN Tail(q) ELSE q

\* Meets an element, hidden or not, that hidden once these jobs are done?
Wants(kind, hidden) == IF kind = "toggle" THEN ~hidden ELSE kind = "hide"
Leads(hidden, jobs, last) ==
  \E f \in [0..Len(jobs) -> BOOLEAN] :
    /\ f[0] = hidden /\ f[Len(jobs)] = last
    /\ \A k \in 1..Len(jobs) : f[k] = Wants(jobs[k].kind, f[k - 1])

\* An element rests, or its one animation is under way.
Faded(s, e) ==
  /\ OneTimer(s.timers, e)
  /\ s.fxshow[e] = NoValue => s.opacity[e] = Opaque
  /\ s.queue[e] = <<>> <=> TimersOf(s.timers, e) = {}
  /\ s.queue[e] # <<>> =>
       Head(s.queue[e]) = Sentinel /\ Tail(s.queue[e]) \in Seq(Jobs) /\ s.fxshow[e] = Opaque

Clean(s, e) == s.queue[e] = <<>> => s.fxshow[e] = NoValue

\* It will be hidden or shown as it was meant to.
Comes(s, e, last) ==
  /\ s.queue[e] = <<>> => s.hidden[e] = last
  /\ s.queue[e] # <<>> => ~s.hidden[e]
  /\ \A t \in TimersOf(s.timers, e) : Leads(t.hides, Tail(s.queue[e]), last)

FxFine(s, meant, D, C) ==
  /\ s \in FxStates
  /\ \A e \in Elements : /\ Faded(s, e)
                         /\ e \notin C => Clean(s, e)
                         /\ e \notin D => Comes(s, e, meant[e])

(* What the steps of the queues keep: each job that waits leads on to what *)
(* was asked last, and what runs gives back the opacity it found.          *)
FxOK == wanted \in [Elements -> BOOLEAN] /\ FxFine(fx, wanted, disturbed, cut) /\ TimersTick

(* The timers of an element when one is appended, taken out or renewed. *)
TimersAppended(ts, t, us, e) ==
  /\ us \in Seq(Tweens) /\ us # <<>> /\ us # ts
  /\ t.elem = e => TimersOf(us, e) = TimersOf(ts, e) \cup {t}
  /\ t.elem # e => TimersOf(us, e) = TimersOf(ts, e)
  /\ OneTimer(ts, e) /\ (t.elem # e \/ TimersOf(ts, e) = {}) => OneTimer(us, e)

LEMMA AppendTimer ==
  ASSUME NEW ts \in Seq(Tweens), NEW t \in Tweens, NEW us, us = Append(ts, t), NEW e
  PROVE  TimersAppended(ts, t, us, e)
<1>1. Len(ts) \in Nat /\ DOMAIN ts = 1..Len(ts)
  BY LenProperties
<1>2. /\ us \in Seq(Tweens) /\ Len(us) = Len(ts) + 1
      /\ \A i \in 1..Len(ts) : us[i] = ts[i]
      /\ us[Len(ts) + 1] = t
  BY AppendProperties
<1>3. DOMAIN us = 1..Len(ts) + 1
  BY <1>2, LenProperties
<1>4. us # <<>> /\ us # ts
  <2>1. \A n \in Nat : n + 1 # n /\ n + 1 # 0
    BY SMTT(30)
  <2>2. Len(us) # Len(ts) /\ Len(us) # 0
    BY ONLY <1>1, <1>2, <2>1
  <2> QED BY <2>2, EmptySeq
<1>5. Range(us) = Range(ts) \cup {t}
  <2>1. Range(us) \subseteq Range(ts) \cup {t}
    <3> SUFFICES ASSUME NEW i \in 1..Len(ts) + 1 PROVE us[i] \in Range(ts) \cup {t}
      BY <1>3 DEF Range
    <3>1. CASE i = Len(ts) + 1
      BY <1>2, <3>1
    <3>2. CASE i \in 1..Len(ts)
      BY <1>1, <1>2, <3>2 DEF Range
    <3> QED BY <1>1, <3>1, <3>2
  <2>2. Range(ts) \subseteq Range(us)
    <3> SUFFICES ASSUME NEW i \in 1..Len(ts) PROVE ts[i] \in Range(us)
      BY <1>1 DEF Range
    <3>1. i \in DOMAIN us /\ us[i] = ts[i]
      BY <1>1, <1>2, <1>3
    <3> QED BY <3>1 DEF Range
  <2>3. t \in Range(us)
    <3>1. Len(ts) + 1 \in DOMAIN us
      BY <1>1, <1>3
    <3> QED BY <1>2, <3>1 DEF Range
  <2> QED BY <2>1, <2>2, <2>3
<1>6. t.elem = e => TimersOf(us, e) = TimersOf(ts, e) \cup {t}
  BY <1>5 DEF TimersOf
<1>7. t.elem # e => TimersOf(us, e) = TimersOf(ts, e)
  BY <1>5 DEF TimersOf
<1>8. ASSUME OneTimer(ts, e), t.elem # e \/ TimersOf(ts, e) = {} PROVE OneTimer(us, e)
  <2> SUFFICES ASSUME NEW i \in 1..Len(ts) + 1, NEW j \in 1..Len(ts) + 1, us[i].elem = e, us[j].elem = e
               PROVE  i = j
    BY <1>3 DEF OneTimer
  <2>1. \A k \in 1..Len(ts) : TimersOf(ts, e) = {} => ts[k].elem # e
    BY <1>1 DEF TimersOf, Range
  <2>2. i \in 1..Len(ts) \/ i = Len(ts) + 1
    BY <1>1
  <2>3. j \in 1..Len(ts) \/ j = Len(ts) + 1
    BY <1>1
  <2>4. CASE t.elem # e
    <3>1. i \in 1..Len(ts) /\ j \in 1..Len(ts)
      BY <1>2, <2>2, <2>3, <2>4
    <3> QED BY <1>1, <1>2, <1>8, <3>1 DEF OneTimer
  <2>5. CASE TimersOf(ts, e) = {}
    BY <1>2, <2>1, <2>2, <2>3, <2>5
  <2> QED BY <1>8, <2>4, <2>5
<1> QED BY <1>2, <1>4, <1>6, <1>7, <1>8 DEF TimersAppended

TimersShorter(ts, i, us, e) ==
  /\ us \in Seq(Tweens) /\ (us # <<>> => ts # <<>>)
  /\ ts[i].elem # e => TimersOf(us, e) = TimersOf(ts, e)
  /\ ts[i].elem = e /\ OneTimer(ts, e) => TimersOf(us, e) = {}
  /\ OneTimer(ts, e) => OneTimer(us, e)

LEMMA RemoveTimer ==
  ASSUME NEW ts \in Seq(Tweens), NEW i \in 1..Len(ts), NEW us, us = RemoveAt(ts, i), NEW e
  PROVE  TimersShorter(ts, i, us, e)
<1>1. Len(ts) \in Nat /\ DOMAIN ts = 1..Len(ts)
  BY LenProperties
<1>2. /\ us \in Seq(Tweens) /\ Len(us) = Len(ts) - 1
      /\ \A j \in 1..Len(us) : us[j] = IF j < i THEN ts[j] ELSE ts[j + 1]
  BY RemoveAtIs
<1>3. DOMAIN us = 1..Len(us) /\ Len(us) \in Nat
  BY <1>2, LenProperties
<1>4. ts # <<>>
  BY <1>1, EmptySeq
<1> DEFINE old(j) == IF j < i THEN j ELSE j + 1
<1>5. \A j \in 1..Len(us) : old(j) \in 1..Len(ts) /\ old(j) # i /\ us[j] = ts[old(j)]
  BY <1>1, <1>2, <1>3
<1>6. \A j \in 1..Len(us), k \in 1..Len(us) : old(j) = old(k) => j = k
  BY <1>1, <1>3
<1>7. \A k \in 1..Len(ts) : k # i => \E j \in 1..Len(us) : old(j) = k
  <2> SUFFICES ASSUME NEW k \in 1..Len(ts), k # i PROVE \E j \in 1..Len(us) : old(j) = k
    OBVIOUS
  <2>1. CASE k < i
    <3>1. k \in 1..Len(us) /\ old(k) = k
      BY <1>1, <1>2, <2>1
    <3> QED BY <3>1
  <2>2. CASE k > i
    <3>1. k - 1 \in 1..Len(us) /\ old(k - 1) = k
      BY <1>1, <1>2, <2>2
    <3> QED BY <3>1
  <2> QED BY <1>1, <2>1, <2>2
<1> HIDE DEF old
<1>8. TimersOf(us, e) \subseteq TimersOf(ts, e)
  BY <1>1, <1>3, <1>5 DEF TimersOf, Range
<1>9. \A t \in TimersOf(ts, e) : ts[i].elem # e => t \in TimersOf(us, e)
  <2> SUFFICES ASSUME NEW k \in 1..Len(ts), ts[k].elem = e, ts[i].elem # e PROVE ts[k] \in Range(us)
    BY <1>1 DEF TimersOf, Range
  <2>1. PICK j \in 1..Len(us) : old(j) = k
    BY <1>7
  <2> QED BY <1>3, <1>5, <2>1 DEF Range
<1>10. ASSUME OneTimer(ts, e) PROVE OneTimer(us, e) /\ (ts[i].elem = e => TimersOf(us, e) = {})
  <2>1. OneTimer(us, e)
    BY <1>1, <1>3, <1>5, <1>6, <1>10 DEF OneTimer
  <2>2. ASSUME NEW j \in 1..Len(us), ts[i].elem = e PROVE us[j].elem # e
    BY <1>1, <1>5, <1>10, <2>2 DEF OneTimer
  <2> QED BY <1>3, <2>1, <2>2 DEF TimersOf, Range
<1> QED BY <1>2, <1>4, <1>8, <1>9, <1>10 DEF TimersShorter

TimersRenewed(ts, i, u, us, e) ==
  /\ us \in Seq(Tweens) /\ us # <<>>
  /\ u.elem # e => TimersOf(us, e) = TimersOf(ts, e)
  /\ u.elem = e /\ OneTimer(ts, e) => TimersOf(us, e) = {u}
  /\ OneTimer(ts, e) => OneTimer(us, e)

LEMMA RenewTimer ==
  ASSUME NEW ts \in Seq(Tweens), NEW i \in 1..Len(ts), NEW u \in Tweens, u.elem = ts[i].elem,
         NEW us, us = [ts EXCEPT ![i] = u], NEW e
  PROVE  TimersRenewed(ts, i, u, us, e)
<1>1. Len(ts) \in Nat /\ DOMAIN ts = 1..Len(ts)
  BY LenProperties
<1>2. us \in Seq(Tweens) /\ Len(us) = Len(ts) /\ DOMAIN us = 1..Len(ts)
  BY <1>1, ExceptSeq
<1>3. us[i] = u /\ \A j \in 1..Len(ts) : j # i => us[j] = ts[j]
  BY <1>1
<1>4. us # <<>>
  BY <1>1, <1>2, EmptySeq
<1>5. \A j \in 1..Len(ts) : us[j].elem = ts[j].elem
  BY <1>3
<1>6. OneTimer(ts, e) => OneTimer(us, e)
  BY <1>1, <1>2, <1>5 DEF OneTimer
<1>7. ASSUME u.elem # e PROVE TimersOf(us, e) = TimersOf(ts, e)
  <2>1. \A j \in 1..Len(ts) : us[j].elem = e => j # i /\ us[j] = ts[j]
    BY <1>3, <1>7
  <2>2. \A j \in 1..Len(ts) : ts[j].elem = e => j # i /\ us[j] = ts[j]
    BY <1>3, <1>7
  <2>3. TimersOf(us, e) \subseteq TimersOf(ts, e)
    BY <1>1, <1>2, <2>1 DEF TimersOf, Range
  <2>4. TimersOf(ts, e) \subseteq TimersOf(us, e)
    BY <1>1, <1>2, <2>2 DEF TimersOf, Range
  <2> QED BY <2>3, <2>4
<1>8. ASSUME u.elem = e, OneTimer(ts, e) PROVE TimersOf(us, e) = {u}
  <2>1. \A j \in 1..Len(ts) : us[j].elem = e => j = i
    BY <1>1, <1>5, <1>8 DEF OneTimer
  <2>2. TimersOf(us, e) \subseteq {u}
    BY <1>2, <1>3, <2>1 DEF TimersOf, Range
  <2>3. u \in TimersOf(us, e)
    BY <1>1, <1>2, <1>3, <1>8 DEF TimersOf, Range
  <2> QED BY <2>2, <2>3
<1> QED BY <1>2, <1>4, <1>6, <1>7, <1>8 DEF TimersRenewed

-------------------------------------------------------------------------------
(* The queue of fades: what jobs lead to *)

LEMMA LeadsNone == \A h, w \in BOOLEAN : Leads(h, <<>>, w) <=> h = w
<1>1. Len(<<>>) = 0
  OBVIOUS
<1> SUFFICES ASSUME NEW h \in BOOLEAN, NEW w \in BOOLEAN PROVE Leads(h, <<>>, w) <=> h = w
  OBVIOUS
<1>2. Leads(h, <<>>, w) => h = w
  BY <1>1 DEF Leads
<1>3. ASSUME h = w PROVE Leads(h, <<>>, w)
  <2> DEFINE f == [k \in 0..0 |-> h]
  <2>1. f \in [0..Len(<<>>) -> BOOLEAN] /\ f[0] = h /\ f[Len(<<>>)] = w
    BY <1>1, <1>3
  <2>2. 1..Len(<<>>) = {}
    BY <1>1
  <2> QED BY <2>1, <2>2 DEF Leads
<1> QED BY <1>2, <1>3

LEMMA LeadsFirst ==
  ASSUME NEW q \in Seq(Jobs), q # <<>>, NEW h \in BOOLEAN, NEW w \in BOOLEAN, Leads(h, q, w)
  PROVE  Leads(Wants(Head(q).kind, h), Tail(q), w)
<1>1. Len(q) \in Nat \ {0} /\ Head(q) = q[1]
  BY LenProperties, EmptySeq
<1>2. Len(Tail(q)) = Len(q) - 1 /\ \A k \in 1..Len(q) - 1 : Tail(q)[k] = q[k + 1]
  <2>1. Len(Tail(q)) = Len(q) - 1
    BY HeadTailProperties
  <2>2. \A k \in 1..Len(Tail(q)) : Tail(q)[k] = q[k + 1]
    BY HeadTailProperties
  <2> QED BY <2>1, <2>2
<1>3. PICK f \in [0..Len(q) -> BOOLEAN] :
        /\ f[0] = h /\ f[Len(q)] = w
        /\ \A k \in 1..Len(q) : f[k] = Wants(q[k].kind, f[k - 1])
  BY DEF Leads
<1> DEFINE g == [k \in 0..Len(q) - 1 |-> f[k + 1]]
<1>4. g \in [0..Len(q) - 1 -> BOOLEAN]
  <2>1. \A k \in 0..Len(q) - 1 : k + 1 \in 0..Len(q)
    BY <1>1
  <2> QED BY <1>3, <2>1
<1>5. g[0] = Wants(Head(q).kind, h) /\ g[Len(q) - 1] = w
  <2>1. 0 \in 0..Len(q) - 1 /\ Len(q) - 1 \in 0..Len(q) - 1 /\ 1 \in 1..Len(q) /\ 1 - 1 = 0 /\ 0 + 1 = 1
        /\ (Len(q) - 1) + 1 = Len(q)
    BY <1>1
  <2>2. f[1] = Wants(q[1].kind, f[0])
    BY <1>3, <2>1
  <2> QED BY <1>1, <1>3, <2>1, <2>2
<1>6. ASSUME NEW k \in 1..Len(q) - 1 PROVE g[k] = Wants(Tail(q)[k].kind, g[k - 1])
  <2>1. k \in 0..Len(q) - 1 /\ k - 1 \in 0..Len(q) - 1 /\ k + 1 \in 1..Len(q) /\ (k - 1) + 1 = (k + 1) - 1
    BY <1>1
  <2>2. f[k + 1] = Wants(q[k + 1].kind, f[(k + 1) - 1])
    BY <1>3, <2>1
  <2> QED BY <1>2, <2>1, <2>2
<1> HIDE DEF g
<1> QED BY <1>2, <1>4, <1>5, <1>6 DEF Leads

LEMMA LeadsMore ==
  ASSUME NEW q \in Seq(Jobs), NEW job \in Jobs, NEW h \in BOOLEAN, NEW w \in BOOLEAN, Leads(h, q, w)
  PROVE  Leads(h, Append(q, job), Wants(job.kind, w))
<1>1. Len(q) \in Nat
  BY LenProperties
<1>2. /\ Len(Append(q, job)) = Len(q) + 1
      /\ \A i \in 1..Len(q) : Append(q, job)[i] = q[i]
      /\ Append(q, job)[Len(q) + 1] = job
  BY AppendProperties
<1>3. PICK f \in [0..Len(q) -> BOOLEAN] :
        /\ f[0] = h /\ f[Len(q)] = w
        /\ \A k \in 1..Len(q) : f[k] = Wants(q[k].kind, f[k - 1])
  BY DEF Leads
<1> DEFINE g == [k \in 0..Len(q) + 1 |-> IF k <= Len(q) THEN f[k] ELSE Wants(job.kind, w)]
<1>4. Wants(job.kind, w) \in BOOLEAN
  BY DEF Wants
<1>5. g \in [0..Len(q) + 1 -> BOOLEAN]
  <2>1. \A k \in 0..Len(q) + 1 : k <= Len(q) => k \in 0..Len(q)
    BY <1>1
  <2> QED BY <1>3, <1>4, <2>1
<1>6. g[0] = h /\ g[Len(q) + 1] = Wants(job.kind, w)
  <2>1. 0 \in 0..Len(q) + 1 /\ 0 <= Len(q) /\ Len(q) + 1 \in 0..Len(q) + 1 /\ ~(Len(q) + 1 <= Len(q))
    BY <1>1
  <2> QED BY <1>3, <2>1
<1>7. ASSUME NEW k \in 1..Len(q) + 1 PROVE g[k] = Wants(Append(q, job)[k].kind, g[k - 1])
  <2>1. k \in 0..Len(q) + 1 /\ k - 1 \in 0..Len(q) + 1 /\ k - 1 <= Len(q)
    BY <1>1
  <2>2. g[k - 1] = f[k - 1]
    BY <2>1
  <2>3. CASE k = Len(q) + 1
    <3>1. ~(k <= Len(q)) /\ k - 1 = Len(q)
      BY <1>1, <2>3
    <3> QED BY <1>2, <1>3, <2>1, <2>2, <2>3, <3>1
  <2>4. CASE k \in 1..Len(q)
    <3>1. k <= Len(q)
      BY <1>1, <2>4
    <3> QED BY <1>2, <1>3, <2>1, <2>2, <2>4, <3>1
  <2> QED BY <1>1, <2>3, <2>4
<1> HIDE DEF g
<1> QED BY <1>2, <1>5, <1>6, <1>7 DEF Leads

-------------------------------------------------------------------------------
(* The queue of fades: a queue that goes on *)

LEMMA HeldQueue ==
  ASSUME NEW jobs \in Seq(Jobs), NEW q, q = <<Sentinel>> \o jobs
  PROVE  /\ q \in Seq(Jobs \cup {Sentinel}) /\ q # <<>> /\ Head(q) = Sentinel
         /\ Tail(q) = jobs /\ Waiting(q) = jobs
<1>1. /\ jobs \in Seq(Jobs \cup {Sentinel}) /\ <<Sentinel>> \in Seq(Jobs \cup {Sentinel})
      /\ Len(jobs) \in Nat /\ Len(<<Sentinel>>) = 1 /\ <<Sentinel>>[1] = Sentinel
  <2>1. \A i \in 1..Len(jobs) : jobs[i] \in Jobs \cup {Sentinel}
    BY ElementOfSeq
  <2>2. Len(jobs) \in Nat /\ jobs = [i \in 1..Len(jobs) |-> jobs[i]]
    BY LenProperties
  <2>3. jobs \in [1..Len(jobs) -> Jobs \cup {Sentinel}]
    BY <2>1, <2>2
  <2>4. jobs \in Seq(Jobs \cup {Sentinel})
    BY <2>2, <2>3, IsASeq
  <2> QED BY <2>2, <2>4
<1>2. /\ q \in Seq(Jobs \cup {Sentinel}) /\ Len(q) = 1 + Len(jobs)
      /\ \A i \in 1..1 + Len(jobs) : q[i] = IF i <= 1 THEN <<Sentinel>>[i] ELSE jobs[i - 1]
  BY <1>1, ConcatProperties
<1>3. 1 \in 1..1 + Len(jobs) /\ 1 + Len(jobs) # 0
  BY <1>1
<1>4. q # <<>>
  BY <1>2, <1>3, EmptySeq
<1>5. Head(q) = Sentinel
  BY <1>1, <1>2, <1>3
<1>6. Tail(q) \in Seq(Jobs \cup {Sentinel}) /\ Len(Tail(q)) = Len(q) - 1
  BY <1>2, <1>4, HeadTailProperties
<1>7. \A i \in 1..Len(Tail(q)) : Tail(q)[i] = q[i + 1]
  BY <1>2, <1>4, HeadTailProperties
<1>8. Len(Tail(q)) = Len(jobs) /\ \A i \in 1..Len(jobs) : Tail(q)[i] = jobs[i]
  <2>1. Len(Tail(q)) = Len(jobs)
    BY <1>1, <1>2, <1>6
  <2>2. ASSUME NEW i \in 1..Len(jobs) PROVE Tail(q)[i] = jobs[i]
    <3>1. i + 1 \in 1..1 + Len(jobs) /\ ~(i + 1 <= 1) /\ (i + 1) - 1 = i
      BY <1>1
    <3> QED BY <1>2, <1>7, <2>1, <3>1
  <2> QED BY <2>1, <2>2
<1>9. Tail(q) = jobs
  BY <1>1, <1>6, <1>8, SeqEqual
<1> QED BY <1>2, <1>4, <1>5, <1>9 DEF Waiting

\* Nothing changed for an element, or for those other than one.
Kept(s, r, x) ==
  /\ r.hidden[x] = s.hidden[x] /\ r.opacity[x] = s.opacity[x]
  /\ r.fxshow[x] = s.fxshow[x] /\ r.queue[x] = s.queue[x]
  /\ TimersOf(r.timers, x) = TimersOf(s.timers, x)
  /\ OneTimer(s.timers, x) => OneTimer(r.timers, x)
KeptElse(s, r, e) == \A x \in Elements : x # e => Kept(s, r, x)

\* No animation is under way for an element whose queue is to go on.
Ready(s, e) ==
  /\ s \in FxStates /\ TimersOf(s.timers, e) = {}
  /\ s.fxshow[e] = NoValue => s.opacity[e] = Opaque
  /\ Waiting(s.queue[e]) \in Seq(Jobs)

\* It went on without an animation that takes its time, or one has begun.
WentOn(s, r, e) ==
  /\ Ready(r, e) /\ r.timers = s.timers /\ r.ticking = s.ticking
  /\ s.fxshow[e] = NoValue => r.fxshow[e] = NoValue
  /\ \A w \in BOOLEAN : Leads(s.hidden[e], Waiting(s.queue[e]), w) =>
                          Leads(r.hidden[e], Waiting(r.queue[e]), w)
  /\ KeptElse(s, r, e)
FxBegun(s, r, e) ==
  /\ r \in FxStates /\ r.timers # s.timers /\ r.timers # <<>> /\ r.ticking
  /\ Faded(r, e) /\ r.queue[e] # <<>> /\ ~r.hidden[e]
  /\ \A t \in TimersOf(r.timers, e), w \in BOOLEAN :
       Leads(s.hidden[e], Waiting(s.queue[e]), w) => Leads(t.hides, Tail(r.queue[e]), w)
  /\ KeptElse(s, r, e)

\* The steps that a queue goes on for, at most.
StepsLeft(q) == IF q = <<>> THEN 0 ELSE Len(Waiting(q)) + 1
RanNext(s, r, e) ==
  \/ WentOn(s, r, e) /\ StepsLeft(r.queue[e]) = IF StepsLeft(s.queue[e]) = 0 THEN 0 ELSE StepsLeft(s.queue[e]) - 1
  \/ FxBegun(s, r, e)

\* A state with fields of its own for one element.
Renewed(s, e, h, o, f, q, ts, tick1) ==
  [hidden |-> [s.hidden EXCEPT ![e] = h], opacity |-> [s.opacity EXCEPT ![e] = o],
   fxshow |-> [s.fxshow EXCEPT ![e] = f], queue |-> [s.queue EXCEPT ![e] = q],
   timers |-> ts, ticking |-> tick1]

IsRenewed(s, e, h, o, f, q, ts, tick1, r) ==
  /\ r \in FxStates /\ r.timers = ts /\ r.ticking = tick1
  /\ r.hidden[e] = h /\ r.opacity[e] = o /\ r.fxshow[e] = f /\ r.queue[e] = q
  /\ \A x \in Elements : x # e =>
       /\ r.hidden[x] = s.hidden[x] /\ r.opacity[x] = s.opacity[x]
       /\ r.fxshow[x] = s.fxshow[x] /\ r.queue[x] = s.queue[x]

LEMMA RenewedIs ==
  ASSUME NEW s \in FxStates, NEW e \in Elements, NEW h \in BOOLEAN, NEW o \in 0..Opaque,
         NEW f \in {NoValue, Opaque}, NEW q \in Seq(Jobs \cup {Sentinel}), NEW ts \in Seq(Tweens),
         NEW k \in BOOLEAN, NEW r, r = Renewed(s, e, h, o, f, q, ts, k)
  PROVE  IsRenewed(s, e, h, o, f, q, ts, k, r)
<1>1. /\ s.hidden \in [Elements -> BOOLEAN] /\ s.opacity \in [Elements -> 0..Opaque]
      /\ s.fxshow \in [Elements -> {NoValue, Opaque}]
      /\ s.queue \in [Elements -> Seq(Jobs \cup {Sentinel})]
  BY DEF FxStates
<1>2. /\ r.hidden = [s.hidden EXCEPT ![e] = h] /\ r.opacity = [s.opacity EXCEPT ![e] = o]
      /\ r.fxshow = [s.fxshow EXCEPT ![e] = f] /\ r.queue = [s.queue EXCEPT ![e] = q]
      /\ r.timers = ts /\ r.ticking = k
  BY DEF Renewed
<1>3. r.hidden \in [Elements -> BOOLEAN] /\ r.hidden[e] = h /\ \A x \in Elements : x # e => r.hidden[x] = s.hidden[x]
  BY ONLY <1>1, <1>2, e \in Elements, h \in BOOLEAN
<1>4. r.opacity \in [Elements -> 0..Opaque] /\ r.opacity[e] = o /\ \A x \in Elements : x # e => r.opacity[x] = s.opacity[x]
  BY ONLY <1>1, <1>2, e \in Elements, o \in 0..Opaque
<1>5. r.fxshow \in [Elements -> {NoValue, Opaque}] /\ r.fxshow[e] = f /\ \A x \in Elements : x # e => r.fxshow[x] = s.fxshow[x]
  BY ONLY <1>1, <1>2, e \in Elements, f \in {NoValue, Opaque}
<1>6. r.queue \in [Elements -> Seq(Jobs \cup {Sentinel})] /\ r.queue[e] = q /\ \A x \in Elements : x # e => r.queue[x] = s.queue[x]
  <2> DEFINE Q == Seq(Jobs \cup {Sentinel})
  <2> HIDE DEF Q
  <2>1. s.queue \in [Elements -> Q] /\ q \in Q
    BY <1>1 DEF Q
  <2>2. r.queue \in [Elements -> Q] /\ r.queue[e] = q /\ \A x \in Elements : x # e => r.queue[x] = s.queue[x]
    BY ONLY <1>2, <2>1, e \in Elements
  <2> QED BY <2>2 DEF Q
<1>7. r \in FxStates
  <2> DEFINE Q == [Elements -> Seq(Jobs \cup {Sentinel})]
             T == Seq(Tweens)
  <2>1. r.queue \in Q /\ r.timers \in T /\ r.ticking \in BOOLEAN
    BY <1>2, <1>6
  <2>2. r = [hidden |-> r.hidden, opacity |-> r.opacity, fxshow |-> r.fxshow, queue |-> r.queue,
             timers |-> r.timers, ticking |-> r.ticking]
    BY DEF Renewed
  <2> HIDE DEF Q, T
  <2>3. r \in [hidden : [Elements -> BOOLEAN], opacity : [Elements -> 0..Opaque],
               fxshow : [Elements -> {NoValue, Opaque}], queue : Q, timers : T, ticking : BOOLEAN]
    BY ONLY <1>3, <1>4, <1>5, <2>1, <2>2
  <2> QED BY <2>3 DEF Q, T, FxStates
<1> QED BY ONLY <1>2, <1>3, <1>4, <1>5, <1>6, <1>7 DEF IsRenewed

LEMMA StateIs ==
  ASSUME NEW s \in FxStates
  PROVE  /\ s = [hidden |-> s.hidden, opacity |-> s.opacity, fxshow |-> s.fxshow, queue |-> s.queue,
                 timers |-> s.timers, ticking |-> s.ticking]
         /\ s.hidden \in [Elements -> BOOLEAN] /\ s.opacity \in [Elements -> 0..Opaque]
         /\ s.fxshow \in [Elements -> {NoValue, Opaque}]
         /\ s.queue \in [Elements -> Seq(Jobs \cup {Sentinel})]
         /\ s.timers \in Seq(Tweens) /\ s.ticking \in BOOLEAN
  BY DEF FxStates

(* Changes of one element leave the others as they are. *)
LEMMA RenewedKeeps ==
  ASSUME NEW s, NEW r, NEW e, NEW h, NEW o, NEW f, NEW q, NEW k, NEW ts,
         IsRenewed(s, e, h, o, f, q, ts, k, r),
         \A x \in Elements : x # e => /\ TimersOf(ts, x) = TimersOf(s.timers, x)
                                      /\ OneTimer(s.timers, x) => OneTimer(ts, x)
  PROVE  KeptElse(s, r, e)
  BY DEF IsRenewed, KeptElse, Kept

LEMMA KeptAfter ==
  ASSUME NEW s, NEW a, NEW r, NEW e, KeptElse(s, a, e), KeptElse(a, r, e)
  PROVE  KeptElse(s, r, e)
  BY DEF KeptElse, Kept

LEMMA WantsBool == \A kind, h : Wants(kind, h) \in BOOLEAN
  BY DEF Wants

LEMMA NotBoolean == \A h : (~h) \in BOOLEAN
  BY ZenonT(10)

LEMMA RunNextIs ==
  ASSUME NEW e \in Elements, NEW s, Ready(s, e), NEW r, r = runNext(s, e)
  PROVE  RanNext(s, r, e)
<1> DEFINE q == s.queue[e]
           rest == Waiting(q)
<1>0. s \in FxStates
  BY DEF Ready
<1>1. /\ s.hidden[e] \in BOOLEAN /\ s.opacity[e] \in 0..Opaque /\ s.fxshow[e] \in {NoValue, Opaque}
      /\ q \in Seq(Jobs \cup {Sentinel}) /\ s.timers \in Seq(Tweens) /\ s.ticking \in BOOLEAN
      /\ rest \in Seq(Jobs)
  BY <1>0, StateIs DEF Ready
<1>2. r = IF rest = <<>> THEN [s EXCEPT !.queue[e] = <<>>]
          ELSE Animation([s EXCEPT !.queue[e] = <<Sentinel>> \o Tail(rest)], e, Head(rest))
  BY DEF runNext, InProgress, Waiting
<1>3. CASE rest = <<>>
  <2>1. r = Renewed(s, e, s.hidden[e], s.opacity[e], s.fxshow[e], <<>>, s.timers, s.ticking)
    <3>1. r = [s EXCEPT !.queue[e] = <<>>]
      BY <1>2, <1>3
    <3>2. /\ s.hidden = [s.hidden EXCEPT ![e] = s.hidden[e]]
          /\ s.opacity = [s.opacity EXCEPT ![e] = s.opacity[e]]
          /\ s.fxshow = [s.fxshow EXCEPT ![e] = s.fxshow[e]]
      BY <1>0, StateIs
    <3> HIDE DEF q, rest
    <3>3. r = [hidden |-> s.hidden, opacity |-> s.opacity, fxshow |-> s.fxshow,
               queue |-> [s.queue EXCEPT ![e] = <<>>], timers |-> s.timers, ticking |-> s.ticking]
      BY <1>0, <3>1, StateIs
    <3> QED BY <3>2, <3>3 DEF Renewed
  <2>2. <<>> \in Seq(Jobs \cup {Sentinel}) /\ <<>> \in Seq(Jobs)
    OBVIOUS
  <2>3. IsRenewed(s, e, s.hidden[e], s.opacity[e], s.fxshow[e], <<>>, s.timers, s.ticking, r)
    BY <1>0, <1>1, <2>1, <2>2, RenewedIs
  <2>4. KeptElse(s, r, e)
    BY <2>3, RenewedKeeps
  <2>5. Waiting(<<>>) = <<>>
    BY DEF Waiting
  <2>6. Ready(r, e)
    BY <2>2, <2>3, <2>5 DEF Ready, IsRenewed
  <2>7. WentOn(s, r, e)
    BY <1>3, <2>3, <2>4, <2>5, <2>6 DEF WentOn, IsRenewed
  <2>8. StepsLeft(r.queue[e]) = IF StepsLeft(q) = 0 THEN 0 ELSE StepsLeft(q) - 1
    <3>1. Len(<<>>) = 0
      OBVIOUS
    <3> QED BY <1>3, <2>3, <3>1 DEF StepsLeft, IsRenewed
  <2> QED BY <2>7, <2>8 DEF RanNext
<1>4. CASE rest # <<>>
  <2> DEFINE job == Head(rest)
             others == Tail(rest)
             held == <<Sentinel>> \o others
             h == s.hidden[e]
             now == s.opacity[e]
             was == s.fxshow[e]
  <2>1. job \in Jobs /\ others \in Seq(Jobs) /\ Len(others) = Len(rest) - 1 /\ Len(rest) \in Nat \ {0}
    <3>1. job \in Jobs
      BY <1>1, <1>4, HeadTailProperties
    <3>2. others \in Seq(Jobs) /\ Len(others) = Len(rest) - 1
      BY <1>1, <1>4, HeadTailProperties
    <3>3. Len(rest) \in Nat \ {0}
      BY <1>1, <1>4, LenProperties, EmptySeq
    <3> QED BY <3>1, <3>2, <3>3
  <2>2. /\ held \in Seq(Jobs \cup {Sentinel}) /\ held # <<>> /\ Head(held) = Sentinel
        /\ Tail(held) = others /\ Waiting(held) = others
    BY <2>1, HeldQueue
  <2>3. PICK a : a = [s EXCEPT !.queue[e] = held]
    OBVIOUS
  <2>4. r = Animation(a, e, job)
    BY <1>2, <1>4, <2>3
  <2>5. a = Renewed(s, e, h, now, was, held, s.timers, s.ticking)
    <3>2. /\ s.hidden = [s.hidden EXCEPT ![e] = s.hidden[e]]
          /\ s.opacity = [s.opacity EXCEPT ![e] = s.opacity[e]]
          /\ s.fxshow = [s.fxshow EXCEPT ![e] = s.fxshow[e]]
      BY <1>0, StateIs
    <3> HIDE DEF q, rest, held
    <3>3. a = [hidden |-> s.hidden, opacity |-> s.opacity, fxshow |-> s.fxshow,
               queue |-> [s.queue EXCEPT ![e] = held], timers |-> s.timers, ticking |-> s.ticking]
      <4>1. s = [hidden |-> s.hidden, opacity |-> s.opacity, fxshow |-> s.fxshow, queue |-> s.queue,
                 timers |-> s.timers, ticking |-> s.ticking]
        BY <1>0, StateIs
      <4> QED BY ONLY <2>3, <4>1
    <3> QED BY <3>2, <3>3 DEF Renewed
  <2>6. IsRenewed(s, e, h, now, was, held, s.timers, s.ticking, a)
    BY <1>0, <1>1, <2>2, <2>5, RenewedIs
  <2>7. /\ a.hidden = s.hidden /\ a.opacity = s.opacity /\ a.fxshow = s.fxshow
        /\ a.queue = [s.queue EXCEPT ![e] = held] /\ a.timers = s.timers /\ a.ticking = s.ticking
    <3>1. /\ s.hidden = [s.hidden EXCEPT ![e] = s.hidden[e]]
          /\ s.opacity = [s.opacity EXCEPT ![e] = s.opacity[e]]
          /\ s.fxshow = [s.fxshow EXCEPT ![e] = s.fxshow[e]]
      BY <1>0, StateIs
    <3> HIDE DEF q, rest, held
    <3> QED BY <2>5, <3>1 DEF Renewed
  <2>8. StepsLeft(q) # 0 /\ StepsLeft(held) = StepsLeft(q) - 1
    <3>1. q # <<>>
      BY <1>4 DEF Waiting
    <3>2. StepsLeft(q) = Len(rest) + 1 /\ StepsLeft(held) = Len(others) + 1
      BY <2>2, <3>1 DEF StepsLeft
    <3> QED BY <2>1, <3>2
  <2>9. \A w \in BOOLEAN : Leads(h, rest, w) => Leads(Wants(job.kind, h), others, w)
    BY <1>1, <1>4, LeadsFirst
  <2>10. job.kind \in Kinds /\ job.frames \in {0, Frames} /\ (job.frames = 0 => job.kind = "show")
    BY <2>1 DEF Jobs, Kinds, Frames
  <2>11. KeptElse(s, a, e)
    BY <2>6, RenewedKeeps
  <2>12. CASE job.kind = (IF h THEN "hide" ELSE "show")
    <3>1. r = a
      BY <2>4, <2>7, <2>12 DEF Animation
    <3>2. Wants(job.kind, h) = h
      BY <1>1, <2>12 DEF Wants
    <3>3. Ready(a, e)
      BY <2>1, <2>2, <2>6 DEF Ready, IsRenewed
    <3>4. \A w \in BOOLEAN : Leads(h, rest, w) => Leads(a.hidden[e], Waiting(a.queue[e]), w)
      BY <2>2, <2>6, <2>9, <3>2 DEF IsRenewed
    <3>5. WentOn(s, r, e)
      BY <2>6, <2>11, <3>1, <3>3, <3>4 DEF WentOn, IsRenewed
    <3>6. StepsLeft(r.queue[e]) = StepsLeft(q) - 1
      BY <2>6, <2>8, <3>1 DEF IsRenewed
    <3> QED BY <2>8, <3>5, <3>6 DEF RanNext
  <2>13. CASE job.kind # (IF h THEN "hide" ELSE "show")
    <3> DEFINE kept == IF was = NoValue THEN now ELSE was
               from == IF h /\ was = NoValue THEN 0 ELSE now
               to == IF h THEN kept ELSE 0
    <3>1. PICK t : t = [elem |-> e, hides |-> ~h, left |-> job.frames, orig |-> kept, from |-> from, to |-> to]
      OBVIOUS
    <3>2. t = tween(a, e, job)
      BY <2>7, <3>1 DEF tween
    <3>3. kept = Opaque /\ from \in 0..Opaque /\ to \in {0, Opaque}
      BY <1>1 DEF Ready, NoValue, Opaque
    <3>4. Wants(job.kind, h) = ~h
      BY <1>1, <2>10, <2>13 DEF Wants, Kinds
    <3>5. PICK b : b = [a EXCEPT !.fxshow[e] = IF @ = NoValue THEN a.opacity[e] ELSE @,
                                 !.hidden[e] = FALSE, !.opacity[e] = t.from]
      OBVIOUS
    <3>6. b = Renewed(s, e, FALSE, from, kept, held, s.timers, s.ticking)
      <4>1. t.from = from
        BY <3>1
      <4>2. b = [hidden |-> [s.hidden EXCEPT ![e] = FALSE], opacity |-> [s.opacity EXCEPT ![e] = from],
                 fxshow |-> [s.fxshow EXCEPT ![e] = kept], queue |-> a.queue,
                 timers |-> s.timers, ticking |-> s.ticking]
        <5> HIDE DEF q, rest, held, from, job
        <5>1. a \in FxStates
          BY <2>6 DEF IsRenewed
        <5>2. a = [hidden |-> s.hidden, opacity |-> s.opacity, fxshow |-> s.fxshow, queue |-> a.queue,
                   timers |-> s.timers, ticking |-> s.ticking]
          BY <2>7, <5>1, StateIs
        <5> HIDE DEF kept
        <5>3. (IF s.fxshow[e] = NoValue THEN s.opacity[e] ELSE s.fxshow[e]) = kept
          BY DEF kept
        <5>4. b = [a EXCEPT !.fxshow = [s.fxshow EXCEPT ![e] = IF s.fxshow[e] = NoValue THEN s.opacity[e] ELSE s.fxshow[e]],
                            !.hidden = [s.hidden EXCEPT ![e] = FALSE], !.opacity = [s.opacity EXCEPT ![e] = from]]
          <6>1. a.fxshow[e] = s.fxshow[e] /\ a.opacity[e] = s.opacity[e]
            BY <2>7
          <6> QED BY <2>7, <3>5, <4>1, <6>1
        <5>5. b = [a EXCEPT !.fxshow = [s.fxshow EXCEPT ![e] = kept],
                            !.hidden = [s.hidden EXCEPT ![e] = FALSE], !.opacity = [s.opacity EXCEPT ![e] = from]]
          BY ONLY <5>3, <5>4
        <5>6. PICK n : n = a.queue
          OBVIOUS
        <5>7. a = [hidden |-> s.hidden, opacity |-> s.opacity, fxshow |-> s.fxshow, queue |-> n,
                   timers |-> s.timers, ticking |-> s.ticking]
          BY ONLY <5>2, <5>6
        <5>8. b = [hidden |-> [s.hidden EXCEPT ![e] = FALSE], opacity |-> [s.opacity EXCEPT ![e] = from],
                   fxshow |-> [s.fxshow EXCEPT ![e] = kept], queue |-> n,
                   timers |-> s.timers, ticking |-> s.ticking]
          BY ONLY <5>5, <5>7
        <5> QED BY ONLY <5>6, <5>8
      <4> QED BY <2>7, <4>2 DEF Renewed
    <3>7. r = IF t.left = 0 THEN animated(b, t) ELSE [b EXCEPT !.timers = Append(@, t), !.ticking = TRUE]
      <4>1. ~(job.kind = (IF a.hidden[e] THEN "hide" ELSE "show"))
        BY <2>7, <2>13
      <4> QED BY <2>4, <3>2, <3>5, <4>1 DEF Animation
    <3>8. IsRenewed(s, e, FALSE, from, kept, held, s.timers, s.ticking, b)
      <4>1. kept \in {NoValue, Opaque} /\ FALSE \in BOOLEAN
        BY <3>3
      <4> HIDE DEF kept, from, to, held
      <4> QED BY <1>0, <1>1, <2>2, <3>3, <3>6, <4>1, RenewedIs
    <3>9. CASE job.frames = 0
      <4>1. h = TRUE /\ job.kind = "show"
        BY <1>1, <2>10, <2>13, <3>9
      <4>2. t.left = 0 /\ t.elem = e /\ t.hides = FALSE /\ t.orig = Opaque
        BY <3>1, <3>3, <3>9, <4>1
      <4>3. r = [b EXCEPT !.hidden[e] = @ \/ FALSE, !.fxshow[e] = NoValue, !.opacity[e] = Opaque]
        BY <3>7, <4>2 DEF animated
      <4>4. b.hidden[e] = FALSE /\ b \in FxStates
        BY <3>8 DEF IsRenewed
      <4>5. r = Renewed(s, e, FALSE, Opaque, NoValue, held, s.timers, s.ticking)
        <5> HIDE DEF q, rest, held, from, kept, to, job
        <5>1. /\ b.hidden = [s.hidden EXCEPT ![e] = FALSE] /\ b.opacity = [s.opacity EXCEPT ![e] = from]
              /\ b.fxshow = [s.fxshow EXCEPT ![e] = kept] /\ b.queue = [s.queue EXCEPT ![e] = held]
              /\ b.timers = s.timers /\ b.ticking = s.ticking
          BY <3>6 DEF Renewed
        <5>2. /\ [b.hidden EXCEPT ![e] = FALSE] = [s.hidden EXCEPT ![e] = FALSE]
              /\ [b.opacity EXCEPT ![e] = Opaque] = [s.opacity EXCEPT ![e] = Opaque]
              /\ [b.fxshow EXCEPT ![e] = NoValue] = [s.fxshow EXCEPT ![e] = NoValue]
          BY <1>0, <5>1, StateIs
        <5>3. (b.hidden[e] \/ FALSE) = FALSE
          BY <4>4
        <5>4. r = [hidden |-> [b.hidden EXCEPT ![e] = FALSE], opacity |-> [b.opacity EXCEPT ![e] = Opaque],
                   fxshow |-> [b.fxshow EXCEPT ![e] = NoValue], queue |-> b.queue,
                   timers |-> b.timers, ticking |-> b.ticking]
          BY <4>3, <4>4, <5>3, StateIs
        <5> QED BY <5>1, <5>2, <5>4 DEF Renewed
      <4>6. IsRenewed(s, e, FALSE, Opaque, NoValue, held, s.timers, s.ticking, r)
        <5>1. Opaque \in 0..Opaque /\ NoValue \in {NoValue, Opaque} /\ FALSE \in BOOLEAN
          BY DEF Opaque
        <5> HIDE DEF held
        <5> QED BY <1>0, <1>1, <2>2, <4>5, <5>1, RenewedIs
      <4>7. KeptElse(s, r, e)
        BY <4>6, RenewedKeeps
      <4>8. Ready(r, e)
        BY <2>1, <2>2, <4>6 DEF Ready, IsRenewed
      <4>9. \A w \in BOOLEAN : Leads(h, rest, w) => Leads(r.hidden[e], Waiting(r.queue[e]), w)
        <5>1. Wants(job.kind, h) = FALSE
          BY <3>4, <4>1
        <5>2. r.hidden[e] = FALSE /\ Waiting(r.queue[e]) = others
          BY <2>2, <4>6 DEF IsRenewed
        <5> QED BY <2>9, <5>1, <5>2
      <4>10. WentOn(s, r, e)
        BY <4>6, <4>7, <4>8, <4>9 DEF WentOn, IsRenewed
      <4>11. StepsLeft(r.queue[e]) = StepsLeft(q) - 1
        BY <2>8, <4>6 DEF IsRenewed
      <4> QED BY <2>8, <4>10, <4>11 DEF RanNext
    <3>10. CASE job.frames = Frames
      <4>1. t \in Tweens /\ t.elem = e /\ t.hides = ~h
        <5>0. kept \in {Opaque}
          BY <3>3
        <5>1. (~h) \in BOOLEAN
          <6> HIDE DEF h
          <6> QED BY NotBoolean
        <5>2. job.frames \in 1..Frames
          BY ONLY <3>10 DEF Frames
        <5> HIDE DEF kept, from, to, job
        <5> QED BY <3>1, <3>3, <5>0, <5>1, <5>2 DEF Tweens
      <4>2. PICK us : us = Append(s.timers, t)
        OBVIOUS
      <4>3. \A x : TimersAppended(s.timers, t, us, x)
        BY <1>1, <4>1, <4>2, AppendTimer
      <4>4. us \in Seq(Tweens) /\ us # s.timers /\ us # <<>>
        BY <4>3 DEF TimersAppended
      <4>5. r = Renewed(s, e, FALSE, from, kept, held, us, TRUE)
        <5>1. t.left # 0
          BY <3>1, <3>10 DEF Frames
        <5>2. r = [b EXCEPT !.timers = Append(b.timers, t), !.ticking = TRUE]
          BY <3>7, <5>1
        <5> HIDE DEF q, rest, held, from, kept, to, job
        <5> QED BY <3>6, <4>2, <5>2 DEF Renewed
      <4>6. IsRenewed(s, e, FALSE, from, kept, held, us, TRUE, r)
        <5>1. kept \in {NoValue, Opaque} /\ FALSE \in BOOLEAN /\ TRUE \in BOOLEAN
          BY <3>3
        <5> HIDE DEF kept, from, to, held
        <5> QED BY <1>0, <1>1, <2>2, <3>3, <4>4, <4>5, <5>1, RenewedIs
      <4>7. KeptElse(s, r, e)
        <5>1. \A x \in Elements : x # e => /\ TimersOf(us, x) = TimersOf(s.timers, x)
                                           /\ OneTimer(s.timers, x) => OneTimer(us, x)
          BY <4>1, <4>3 DEF TimersAppended
        <5> QED BY <4>6, <5>1, RenewedKeeps
      <4>8. TimersOf(us, e) = {t} /\ OneTimer(us, e)
        <5>1. TimersOf(s.timers, e) = {}
          BY DEF Ready
        <5>2. OneTimer(s.timers, e)
          BY <5>1 DEF OneTimer, TimersOf, Range
        <5> QED BY <4>1, <4>3, <5>1, <5>2 DEF TimersAppended
      <4>9. Faded(r, e)
        <5>1. kept # NoValue
          BY <3>3 DEF Opaque, NoValue
        <5> QED BY <2>1, <2>2, <3>3, <4>6, <4>8, <5>1 DEF Faded, IsRenewed
      <4>10. \A x \in TimersOf(r.timers, e), w \in BOOLEAN :
               Leads(h, rest, w) => Leads(x.hides, Tail(r.queue[e]), w)
        <5>1. \A x \in TimersOf(r.timers, e) : x.hides = ~h
          BY <4>1, <4>6, <4>8 DEF IsRenewed
        <5>2. Tail(r.queue[e]) = others
          BY <2>2, <4>6 DEF IsRenewed
        <5> QED BY <2>9, <3>4, <5>1, <5>2
      <4>11. FxBegun(s, r, e)
        BY <2>2, <4>4, <4>6, <4>7, <4>9, <4>10 DEF FxBegun, IsRenewed
      <4> QED BY <4>11 DEF RanNext
    <3> QED BY <2>10, <3>9, <3>10
  <2> QED BY <2>12, <2>13
<1> QED BY <1>3, <1>4

(* where.  First induction itself, as facts about sets.                    *)

LEMMA LeastNat ==
  ASSUME NEW T, T \subseteq Nat, T # {}
  PROVE  \E x \in T : \A y \in T : x <= y
<1> DEFINE R == {ss \in Nat \X Nat : ss[1] < ss[2]}
<1>1. IsWellFoundedOn(R, Nat)
  BY NatLessThanWellFounded DEF OpToRel
<1> HIDE DEF R
<1>2. PICK x \in T : \A y \in T : ~ (<<y, x>> \in R)
  BY <1>1, WFMin
<1>3. \A y \in T : ~ (y < x)
  BY <1>2 DEF R
<1> QED BY <1>3

LEMMA SetInduction ==
  ASSUME NEW S, 0 \in S, \A n \in Nat : n \in S => n + 1 \in S
  PROVE  Nat \subseteq S
<1> SUFFICES ASSUME Nat \ S # {} PROVE FALSE
  OBVIOUS
<1>1. PICK x \in Nat \ S : \A y \in Nat \ S : x <= y
  BY LeastNat
<1>2. x # 0 /\ x - 1 \in Nat
  BY <1>1
<1>3. x - 1 \in S
  BY <1>1, <1>2
<1> QED BY <1>1, <1>2, <1>3

(* The recursion of a loop: a function on 0..n is given by its first value  *)
(* and what each is made of the one before.                                *)
DequeuesOn(s, e, N, g) ==
  g = [n \in 0..N |-> IF n = 0 THEN s
                      ELSE IF g[n - 1].timers = s.timers THEN runNext(g[n - 1], e) ELSE g[n - 1]]

LEMMA DequeueLoop ==
  ASSUME NEW s, NEW e, NEW N \in Nat
  PROVE  \E g : DequeuesOn(s, e, N, g)
<1> DEFINE Step(n, x) == IF x.timers = s.timers THEN runNext(x, e) ELSE x
           Meets(m, g) == g = [n \in 0..m |-> IF n = 0 THEN s ELSE Step(n, g[n - 1])]
           A == {m \in Nat : \E g : Meets(m, g)}
<1> HIDE DEF Step
<1>1. 0 \in A
  <2>1. PICK g : g = [n \in 0..0 |-> s]
    OBVIOUS
  <2>2. Meets(0, g)
    BY <2>1
  <2> QED BY <2>2
<1>2. ASSUME NEW m \in Nat, m \in A PROVE m + 1 \in A
  <2>1. PICK g : Meets(m, g)
    BY <1>2
  <2>2. PICK h : h = [n \in 0..m + 1 |-> IF n <= m THEN g[n] ELSE Step(n, g[m])]
    OBVIOUS
  <2>3. \A n \in 0..m : h[n] = g[n] /\ g[n] = IF n = 0 THEN s ELSE Step(n, g[n - 1])
    BY <2>1, <2>2
  <2>4. \A n \in 0..m + 1 : h[n] = IF n = 0 THEN s ELSE Step(n, h[n - 1])
    <3> SUFFICES ASSUME NEW n \in 0..m + 1 PROVE h[n] = IF n = 0 THEN s ELSE Step(n, h[n - 1])
      OBVIOUS
    <3>1. CASE n = m + 1
      <4>1. ~(n <= m) /\ n - 1 = m /\ m \in 0..m /\ n # 0
        BY <3>1
      <4>2. h[n] = Step(n, g[m]) /\ h[n - 1] = g[m]
        BY <2>2, <2>3, <4>1
      <4> QED BY <4>1, <4>2
    <3>2. CASE n \in 0..m
      <4>1. n # 0 => n - 1 \in 0..m
        BY <3>2
      <4> QED BY <2>3, <3>2, <4>1
    <3> QED BY <3>1, <3>2
  <2>5. h = [n \in 0..m + 1 |-> h[n]]
    BY <2>2
  <2>6. Meets(m + 1, h)
    BY <2>4, <2>5
  <2> HIDE DEF Meets
  <2> QED BY <2>6
<1> HIDE DEF A
<1>3. N \in A
  BY <1>1, <1>2, SetInduction
<1>4. PICK g : Meets(N, g)
  BY <1>3 DEF A
<1>5. DequeuesOn(s, e, N, g)
  BY <1>4 DEF DequeuesOn, Step
<1> QED BY <1>5

Dequeued(s, r, e) == (WentOn(s, r, e) /\ r.queue[e] = <<>>) \/ FxBegun(s, r, e)

LEMMA WentOnItself ==
  ASSUME NEW e, NEW s, Ready(s, e)
  PROVE  WentOn(s, s, e)
<1>1. KeptElse(s, s, e)
  BY DEF KeptElse, Kept
<1> QED BY <1>1 DEF WentOn

LEMMA WentOnAfter ==
  ASSUME NEW e, NEW s, NEW a, NEW r, WentOn(s, a, e)
  PROVE  /\ WentOn(a, r, e) => WentOn(s, r, e)
         /\ FxBegun(a, r, e) => FxBegun(s, r, e)
<1>1. ASSUME WentOn(a, r, e) PROVE WentOn(s, r, e)
  <2>1. KeptElse(s, r, e)
    BY <1>1, KeptAfter DEF WentOn
  <2> QED BY <1>1, <2>1 DEF WentOn
<1>2. ASSUME FxBegun(a, r, e) PROVE FxBegun(s, r, e)
  <2>1. KeptElse(s, r, e)
    BY <1>2, KeptAfter DEF WentOn, FxBegun
  <2>2. r.timers # s.timers
    BY <1>2 DEF WentOn, FxBegun
  <2>3. \A t \in TimersOf(r.timers, e), w \in BOOLEAN :
          Leads(s.hidden[e], Waiting(s.queue[e]), w) => Leads(t.hides, Tail(r.queue[e]), w)
    BY <1>2 DEF WentOn, FxBegun
  <2> QED BY <1>2, <2>1, <2>2, <2>3 DEF FxBegun
<1> QED BY <1>1, <1>2

(* A queue goes on to its last, or until an animation has begun. *)
LEMMA DequeueIs ==
  ASSUME NEW e \in Elements, NEW s, Ready(s, e), NEW r, r = dequeue(s, e)
  PROVE  Dequeued(s, r, e)
<1> DEFINE N == Len(s.queue[e]) + 1
           went == CHOOSE g : g = [n \in 0..N |-> IF n = 0 THEN s
                                    ELSE IF g[n - 1].timers = s.timers THEN runNext(g[n - 1], e)
                                    ELSE g[n - 1]]
<1>1. s \in FxStates /\ s.queue[e] \in Seq(Jobs \cup {Sentinel}) /\ Len(s.queue[e]) \in Nat
  <2>1. s.queue[e] \in Seq(Jobs \cup {Sentinel})
    BY StateIs DEF Ready
  <2> QED BY <2>1, LenProperties DEF Ready
<1>2. N \in Nat /\ N \in 0..N /\ 0 \in 0..N
  BY <1>1
<1>3. r = went[N]
  BY DEF dequeue
<1>4. went = [n \in 0..N |-> IF n = 0 THEN s
                              ELSE IF went[n - 1].timers = s.timers THEN runNext(went[n - 1], e)
                              ELSE went[n - 1]]
  <2> HIDE DEF N
  <2>1. \E g : DequeuesOn(s, e, N, g)
    BY <1>2, DequeueLoop
  <2> QED BY <2>1, Zenon DEF DequeuesOn
<1> HIDE DEF N, went
<1>5. went[0] = s /\ \A n \in 1..N : went[n] = IF went[n - 1].timers = s.timers
                                                  THEN runNext(went[n - 1], e) ELSE went[n - 1]
  <2>1. ASSUME NEW n \in 0..N
        PROVE  went[n] = IF n = 0 THEN s
                          ELSE IF went[n - 1].timers = s.timers THEN runNext(went[n - 1], e)
                          ELSE went[n - 1]
    BY <1>4
  <2>2. \A n \in 1..N : n \in 0..N /\ n # 0
    BY <1>2
  <2> QED BY <1>2, <2>1, <2>2
<1> DEFINE Good(n, x) == \/ WentOn(s, x, e) /\ StepsLeft(x.queue[e]) \in Nat
                              /\ (StepsLeft(x.queue[e]) = 0 \/ StepsLeft(x.queue[e]) <= N - n)
                         \/ FxBegun(s, x, e)
           A == {n \in Nat : n <= N => Good(n, went[n])}
<1>6. \A x : WentOn(s, x, e) => StepsLeft(x.queue[e]) \in Nat
  <2> SUFFICES ASSUME NEW x, WentOn(s, x, e) PROVE StepsLeft(x.queue[e]) \in Nat
    OBVIOUS
  <2>1. Len(Waiting(x.queue[e])) \in Nat
    BY LenProperties DEF WentOn, Ready
  <2> QED BY <2>1 DEF StepsLeft
<1>7. 0 \in A
  <2>1. WentOn(s, s, e)
    BY WentOnItself
  <2>2. StepsLeft(s.queue[e]) <= N
    <3>1. Len(Waiting(s.queue[e])) <= Len(s.queue[e])
      <4>1. CASE Waiting(s.queue[e]) = s.queue[e]
        BY <1>1, <4>1
      <4>2. CASE Waiting(s.queue[e]) # s.queue[e]
        <5>1. s.queue[e] # <<>> /\ Waiting(s.queue[e]) = Tail(s.queue[e])
          BY <4>2 DEF Waiting
        <5>2. Len(Tail(s.queue[e])) = Len(s.queue[e]) - 1
          BY <1>1, <5>1, HeadTailProperties
        <5> QED BY <1>1, <5>1, <5>2
      <4> QED BY <4>1, <4>2
    <3>2. Len(Waiting(s.queue[e])) \in Nat
      BY LenProperties DEF Ready
    <3> QED BY <1>1, <3>1, <3>2 DEF StepsLeft, N
  <2> QED BY <1>2, <1>5, <1>6, <2>1, <2>2
<1>8. ASSUME NEW n \in Nat, n \in A PROVE n + 1 \in A
  <2> SUFFICES ASSUME n + 1 <= N PROVE Good(n + 1, went[n + 1])
    OBVIOUS
  <2>1. n + 1 \in 1..N /\ (n + 1) - 1 = n /\ n <= N
    BY <1>2
  <2>2. went[n + 1] = IF went[n].timers = s.timers THEN runNext(went[n], e) ELSE went[n]
    BY <1>5, <2>1
  <2>3. Good(n, went[n])
    BY <1>8, <2>1
  <2>4. CASE FxBegun(s, went[n], e)
    BY <2>2, <2>4 DEF FxBegun
  <2>5. CASE WentOn(s, went[n], e) /\ (StepsLeft(went[n].queue[e]) = 0 \/ StepsLeft(went[n].queue[e]) <= N - n)
    <3>1. went[n].timers = s.timers /\ Ready(went[n], e)
      BY <2>5 DEF WentOn
    <3>2. RanNext(went[n], went[n + 1], e)
      BY <2>2, <3>1, RunNextIs
    <3>3. CASE FxBegun(went[n], went[n + 1], e)
      BY <2>5, <3>3, WentOnAfter
    <3>4. CASE /\ WentOn(went[n], went[n + 1], e)
               /\ StepsLeft(went[n + 1].queue[e]) =
                    IF StepsLeft(went[n].queue[e]) = 0 THEN 0 ELSE StepsLeft(went[n].queue[e]) - 1
      <4>1. WentOn(s, went[n + 1], e)
        BY <2>5, <3>4, WentOnAfter
      <4>2. StepsLeft(went[n].queue[e]) \in Nat /\ StepsLeft(went[n + 1].queue[e]) \in Nat
        BY <1>6, <2>5, <4>1
      <4> QED BY <1>2, <2>5, <3>4, <4>1, <4>2
    <3> QED BY <3>2, <3>3, <3>4 DEF RanNext
  <2> QED BY <2>3, <2>4, <2>5
<1>9. N \in A
  <2> HIDE DEF A
  <2> QED BY <1>2, <1>7, <1>8, SetInduction
<1>10. Good(N, went[N])
  BY <1>2, <1>9
<1>11. CASE FxBegun(s, r, e)
  BY <1>11 DEF Dequeued
<1>12. CASE WentOn(s, r, e) /\ StepsLeft(r.queue[e]) \in Nat /\ (StepsLeft(r.queue[e]) = 0 \/ StepsLeft(r.queue[e]) <= N - N)
  <2>1. StepsLeft(r.queue[e]) = 0
    BY <1>2, <1>12
  <2>2. Len(Waiting(r.queue[e])) \in Nat
    BY <1>12, LenProperties DEF WentOn, Ready
  <2>3. r.queue[e] = <<>>
    BY <2>1, <2>2 DEF StepsLeft
  <2> QED BY <1>12, <2>3 DEF Dequeued
<1> QED BY <1>3, <1>10, <1>11, <1>12

-------------------------------------------------------------------------------
(* The queue of fades: the operations keep every element in order *)

ElementFine(s, x, meant, D, C) ==
  /\ Faded(s, x) /\ (x \notin C => Clean(s, x))
  /\ x \notin D => Comes(s, x, meant[x])

TicksOn(s) == s.timers # <<>> => s.ticking
AllFine(s, meant, D, C) == FxFine(s, meant, D, C) /\ TicksOn(s)

LEMMA KeptFine ==
  ASSUME NEW s, NEW r, NEW x, NEW meant, NEW D, NEW C, Kept(s, r, x), ElementFine(s, x, meant, D, C)
  PROVE  ElementFine(r, x, meant, D, C)
  BY DEF Kept, ElementFine, Faded, Clean, Comes

LEMMA DequeuedFine ==
  ASSUME NEW s, NEW r, NEW e \in Elements, NEW meant \in [Elements -> BOOLEAN], NEW D, NEW C,
         Ready(s, e), Dequeued(s, r, e), TicksOn(s),
         \A x \in Elements : x # e => ElementFine(s, x, meant, D, C),
         e \notin C => s.fxshow[e] = NoValue,
         e \notin D => Leads(s.hidden[e], Waiting(s.queue[e]), meant[e])
  PROVE  AllFine(r, meant, D, C)
<1>1. KeptElse(s, r, e) /\ r \in FxStates
  BY DEF Dequeued, WentOn, FxBegun, Ready
<1>2. \A x \in Elements : x # e => ElementFine(r, x, meant, D, C)
  BY <1>1, KeptFine DEF KeptElse
<1>3. TicksOn(r)
  BY DEF Dequeued, WentOn, FxBegun, TicksOn
<1>4. meant[e] \in BOOLEAN
  OBVIOUS
<1>5. ElementFine(r, e, meant, D, C)
  <2>1. CASE WentOn(s, r, e) /\ r.queue[e] = <<>>
    <3>1. TimersOf(r.timers, e) = {} /\ OneTimer(r.timers, e)
      <4>1. TimersOf(r.timers, e) = {}
        BY <2>1 DEF WentOn, Ready
      <4> QED BY <4>1 DEF OneTimer, TimersOf, Range
    <3>2. Faded(r, e)
      BY <2>1, <3>1 DEF Faded, WentOn, Ready
    <3>3. e \notin C => Clean(r, e)
      BY <2>1 DEF Clean, WentOn
    <3>4. ASSUME e \notin D PROVE r.hidden[e] = meant[e]
      <4>1. Waiting(r.queue[e]) = <<>>
        BY <2>1 DEF Waiting
      <4>2. Leads(r.hidden[e], <<>>, meant[e])
        BY <1>4, <2>1, <3>4, <4>1 DEF WentOn
      <4>3. r.hidden[e] \in BOOLEAN
        BY <1>1, StateIs
      <4> QED BY <1>4, <4>2, <4>3, LeadsNone
    <3> QED BY <2>1, <3>1, <3>2, <3>3, <3>4 DEF ElementFine, Comes
  <2>2. CASE FxBegun(s, r, e)
    <3>1. e \notin D => \A t \in TimersOf(r.timers, e) : Leads(t.hides, Tail(r.queue[e]), meant[e])
      BY <1>4, <2>2 DEF FxBegun
    <3> QED BY <2>2, <3>1 DEF FxBegun, ElementFine, Comes, Clean
  <2> QED BY <2>1, <2>2 DEF Dequeued
<1>6. \A x \in Elements : ElementFine(r, x, meant, D, C)
  BY <1>2, <1>5
<1> QED BY <1>1, <1>3, <1>6 DEF AllFine, FxFine, ElementFine

LEMMA Unchanged ==
  ASSUME NEW s \in FxStates, NEW e \in Elements
  PROVE  /\ s.hidden = [s.hidden EXCEPT ![e] = s.hidden[e]]
         /\ s.opacity = [s.opacity EXCEPT ![e] = s.opacity[e]]
         /\ s.fxshow = [s.fxshow EXCEPT ![e] = s.fxshow[e]]
         /\ s.queue = [s.queue EXCEPT ![e] = s.queue[e]]
<1>1. /\ s.hidden \in [Elements -> BOOLEAN] /\ s.opacity \in [Elements -> 0..Opaque]
      /\ s.fxshow \in [Elements -> {NoValue, Opaque}]
      /\ s.queue \in [Elements -> Seq(Jobs \cup {Sentinel})]
  BY StateIs
<1> QED BY <1>1

LEMMA QueueSet ==
  ASSUME NEW s \in FxStates, NEW e \in Elements, NEW q \in Seq(Jobs \cup {Sentinel}),
         NEW r, r = [s EXCEPT !.queue[e] = q]
  PROVE  IsRenewed(s, e, s.hidden[e], s.opacity[e], s.fxshow[e], q, s.timers, s.ticking, r)
<1>1. s = [hidden |-> s.hidden, opacity |-> s.opacity, fxshow |-> s.fxshow, queue |-> s.queue,
           timers |-> s.timers, ticking |-> s.ticking]
  BY StateIs
<1>2. r = [hidden |-> s.hidden, opacity |-> s.opacity, fxshow |-> s.fxshow,
           queue |-> [s.queue EXCEPT ![e] = q], timers |-> s.timers, ticking |-> s.ticking]
  BY ONLY <1>1, r = [s EXCEPT !.queue[e] = q]
<1>3. r = Renewed(s, e, s.hidden[e], s.opacity[e], s.fxshow[e], q, s.timers, s.ticking)
  BY <1>2, Unchanged DEF Renewed
<1>4. /\ s.hidden[e] \in BOOLEAN /\ s.opacity[e] \in 0..Opaque /\ s.fxshow[e] \in {NoValue, Opaque}
      /\ s.timers \in Seq(Tweens) /\ s.ticking \in BOOLEAN
  BY StateIs
<1>5. s \in FxStates /\ e \in Elements /\ q \in Seq(Jobs \cup {Sentinel})
  OBVIOUS
<1> QED BY ONLY <1>3, <1>4, <1>5, RenewedIs

(* Jobs for an element that is at rest, and for one whose queue is held. *)
LEMMA AnimateFine ==
  ASSUME NEW s, NEW e \in Elements, NEW meant \in [Elements -> BOOLEAN], NEW D, NEW C,
         AllFine(s, meant, D, C), NEW job \in Jobs, NEW r, r = animate(s, e, job),
         NEW new, new = [meant EXCEPT ![e] = Wants(job.kind, meant[e])]
  PROVE  AllFine(r, new, D, C)
<1> DEFINE q == s.queue[e]
           others == Append(q, job)
<1>1. s \in FxStates /\ ElementFine(s, e, meant, D, C) /\ q \in Seq(Jobs \cup {Sentinel})
  <2>1. s \in FxStates /\ ElementFine(s, e, meant, D, C)
    BY DEF AllFine, FxFine, ElementFine
  <2> QED BY <2>1, StateIs
<1>2. others \in Seq(Jobs \cup {Sentinel})
  BY <1>1, AppendProperties
<1>3. Len(q) \in Nat /\ Len(others) = Len(q) + 1 /\ (\A i \in 1..Len(q) : others[i] = q[i]) /\ others[Len(q) + 1] = job
  <2>1. job \in Jobs \cup {Sentinel}
    OBVIOUS
  <2> HIDE DEF q
  <2> QED BY <1>1, <2>1, AppendProperties, LenProperties
<1>4. PICK a : a = [s EXCEPT !.queue[e] = others]
  OBVIOUS
<1>5. IsRenewed(s, e, s.hidden[e], s.opacity[e], s.fxshow[e], others, s.timers, s.ticking, a)
  <2> HIDE DEF others
  <2> QED BY <1>1, <1>2, <1>4, QueueSet
<1>6. KeptElse(s, a, e)
  BY <1>5, RenewedKeeps
<1>7. new \in [Elements -> BOOLEAN] /\ new[e] = Wants(job.kind, meant[e]) /\ \A x \in Elements : x # e => new[x] = meant[x]
  <2>1. Wants(job.kind, meant[e]) \in BOOLEAN
    BY WantsBool
  <2> QED BY <2>1
<1>8. \A x \in Elements : x # e => ElementFine(a, x, new, D, C)
  <2> SUFFICES ASSUME NEW x \in Elements, x # e PROVE ElementFine(a, x, new, D, C)
    OBVIOUS
  <2>1. ElementFine(s, x, new, D, C)
    BY <1>7 DEF AllFine, FxFine, ElementFine
  <2> QED BY <1>6, <2>1, KeptFine DEF KeptElse
<1>9. TicksOn(a)
  BY <1>5 DEF AllFine, TicksOn, IsRenewed
<1>10. r = IF others # <<>> /\ Head(others) = Sentinel THEN a ELSE dequeue(a, e)
  <2>1. a.queue[e] = others
    BY <1>5 DEF IsRenewed
  <2> HIDE DEF others
  <2> QED BY <1>4, <2>1 DEF animate, InProgress, others
<1>11. others # <<>>
  <2>1. \A n \in Nat : n + 1 # 0
    OBVIOUS
  <2>2. Len(others) # 0
    BY ONLY <1>3, <2>1
  <2> QED BY <2>2, EmptySeq
<1>12. s.hidden[e] \in BOOLEAN /\ meant[e] \in BOOLEAN
  BY <1>1, StateIs
<1>13. CASE q = <<>>
  <2>1. others = <<job>>
    BY <1>13
  <2>2. Head(others) # Sentinel
    <3>1. Head(others) = job
      BY <2>1
    <3> QED BY <3>1 DEF Jobs, Kinds, Sentinel
  <2>3. r = dequeue(a, e) /\ Waiting(others) = others /\ others \in Seq(Jobs)
    BY <1>10, <2>1, <2>2 DEF Waiting
  <2>4. Ready(a, e)
    BY <1>1, <1>5, <1>13, <2>3 DEF Ready, IsRenewed, ElementFine, Faded
  <2>5. Dequeued(a, r, e)
    BY <2>3, <2>4, DequeueIs
  <2>6. e \notin C => a.fxshow[e] = NoValue
    BY <1>1, <1>5, <1>13 DEF ElementFine, Clean, IsRenewed
  <2>7. ASSUME e \notin D PROVE Leads(a.hidden[e], Waiting(a.queue[e]), new[e])
    <3>1. a.hidden[e] = meant[e] /\ Waiting(a.queue[e]) = others
      BY <1>1, <1>5, <1>13, <2>3, <2>7 DEF ElementFine, Comes, IsRenewed
    <3>2. Leads(meant[e], <<>>, meant[e]) /\ <<>> \in Seq(Jobs)
      BY <1>12, LeadsNone
    <3>3. Leads(meant[e], Append(<<>>, job), Wants(job.kind, meant[e]))
      BY <1>12, <3>2, LeadsMore
    <3> QED BY <1>7, <1>13, <3>1, <3>3
  <2> QED BY <1>7, <1>8, <1>9, <2>4, <2>5, <2>6, <2>7, DequeuedFine
<1>14. CASE q # <<>>
  <2>1. Head(q) = Sentinel /\ Tail(q) \in Seq(Jobs) /\ s.fxshow[e] = Opaque /\ TimersOf(s.timers, e) # {}
    BY <1>1, <1>14 DEF ElementFine, Faded
  <2>2. Len(q) \in Nat \ {0}
    BY <1>1, <1>14, LenProperties, EmptySeq
  <2>3. Head(others) = Sentinel
    <3>1. 1 \in 1..Len(q)
      BY <2>2
    <3> QED BY <1>3, <2>1, <3>1
  <2>4. Tail(others) = Append(Tail(q), job)
    <3>1. Len(Tail(q)) = Len(q) - 1
      BY <1>1, <1>14, HeadTailProperties
    <3>2. \A i \in 1..Len(Tail(q)) : Tail(q)[i] = q[i + 1]
      BY <1>1, <1>14, HeadTailProperties
    <3>3. Tail(others) \in Seq(Jobs \cup {Sentinel}) /\ Len(Tail(others)) = Len(others) - 1
      BY <1>2, <1>11, HeadTailProperties
    <3>4. \A i \in 1..Len(Tail(others)) : Tail(others)[i] = others[i + 1]
      BY <1>2, <1>11, HeadTailProperties
    <3>5. Tail(q) \in Seq(Jobs \cup {Sentinel}) /\ job \in Jobs \cup {Sentinel}
      BY <1>1, <1>14, HeadTailProperties
    <3>6. Append(Tail(q), job) \in Seq(Jobs \cup {Sentinel}) /\ Len(Append(Tail(q), job)) = Len(Tail(q)) + 1
          /\ (\A i \in 1..Len(Tail(q)) : Append(Tail(q), job)[i] = Tail(q)[i])
          /\ Append(Tail(q), job)[Len(Tail(q)) + 1] = job
      BY <3>5, AppendProperties
    <3> DEFINE tm == Tail(others)
               tq == Tail(q)
               at == Append(Tail(q), job)
    <3>7. Len(tm) = Len(q) /\ Len(at) = Len(q)
      BY <1>3, <3>1, <3>3, <3>6
    <3>8. ASSUME NEW i \in 1..Len(q) PROVE tm[i] = at[i]
      <4>1. tm[i] = others[i + 1]
        BY <3>4, <3>7
      <4>2. CASE i = Len(q)
        <5>1. i = Len(tq) + 1
          BY <1>3, <3>1, <4>2
        <5> QED BY <1>3, <3>6, <4>1, <4>2, <5>1
      <4>3. CASE i # Len(q)
        <5>1. i \in 1..Len(tq) /\ i + 1 \in 1..Len(q)
          BY <1>3, <3>1, <4>3
        <5> QED BY <1>3, <3>2, <3>6, <4>1, <5>1
      <4> QED BY <4>2, <4>3
    <3> HIDE DEF tm, at
    <3>9. tm = at
      <4>1. tm \in Seq(Jobs \cup {Sentinel}) /\ at \in Seq(Jobs \cup {Sentinel})
        BY <3>3, <3>6 DEF tm, at
      <4> QED BY <3>7, <3>8, <4>1, SeqEqual
    <3> QED BY <3>9 DEF tm, at
  <2>5. r = a
    BY <1>10, <1>11, <2>3
  <2>6. a.queue[e] = others /\ a.timers = s.timers /\ a.hidden[e] = s.hidden[e] /\ a.opacity[e] = s.opacity[e]
        /\ a.fxshow[e] = s.fxshow[e] /\ a \in FxStates
    BY <1>5 DEF IsRenewed
  <2>7. Append(Tail(q), job) \in Seq(Jobs)
    BY <2>1, AppendProperties
  <2> HIDE DEF q, others
  <2>8. Faded(a, e)
    BY <1>1, <1>11, <2>1, <2>3, <2>4, <2>6, <2>7 DEF Faded, ElementFine
  <2>9. e \notin C => Clean(a, e)
    BY <1>11, <2>6 DEF Clean
  <2>10. ASSUME e \notin D PROVE Comes(a, e, new[e])
    <3>1. ~s.hidden[e] /\ \A t \in TimersOf(s.timers, e) : Leads(t.hides, Tail(q), meant[e])
      BY <1>1, <1>14, <2>10 DEF ElementFine, Comes, q
    <3>2. \A t \in TimersOf(s.timers, e) : t.hides \in BOOLEAN
      <4>1. s.timers \in Seq(Tweens)
        BY <1>1, StateIs
      <4>2. \A i \in 1..Len(s.timers) : s.timers[i] \in Tweens
        BY <4>1, ElementOfSeq
      <4>3. DOMAIN s.timers = 1..Len(s.timers)
        BY <4>1, LenProperties
      <4> QED BY <4>2, <4>3 DEF TimersOf, Range, Tweens
    <3>3. \A t \in TimersOf(s.timers, e) : Leads(t.hides, Append(Tail(q), job), Wants(job.kind, meant[e]))
      BY <1>12, <2>1, <3>1, <3>2, LeadsMore
    <3> QED BY <1>7, <1>11, <2>4, <2>6, <3>1, <3>3 DEF Comes
  <2>11. \A x \in Elements : ElementFine(r, x, new, D, C)
    BY <1>8, <2>5, <2>8, <2>9, <2>10 DEF ElementFine
  <2> QED BY <1>9, <2>5, <2>6, <2>11 DEF AllFine, FxFine, ElementFine
<1> QED BY <1>13, <1>14

(* An element is shown or hidden at once. *)
LEMMA ShowHideFine ==
  ASSUME NEW s, NEW e \in Elements, NEW meant \in [Elements -> BOOLEAN], NEW D, NEW C,
         AllFine(s, meant, D, C), NEW hide \in BOOLEAN, NEW r, r = [s EXCEPT !.hidden[e] = hide],
         NEW new, new = [meant EXCEPT ![e] = hide],
         NEW E, E = IF s.queue[e] = <<>> THEN D \ {e} ELSE D \cup {e}
  PROVE  AllFine(r, new, E, C)
<1>1. s \in FxStates /\ ElementFine(s, e, meant, D, C)
  BY DEF AllFine, FxFine, ElementFine
<1>2. s = [hidden |-> s.hidden, opacity |-> s.opacity, fxshow |-> s.fxshow, queue |-> s.queue,
           timers |-> s.timers, ticking |-> s.ticking]
  BY <1>1, StateIs
<1>3. r = [hidden |-> [s.hidden EXCEPT ![e] = hide], opacity |-> s.opacity, fxshow |-> s.fxshow,
           queue |-> s.queue, timers |-> s.timers, ticking |-> s.ticking]
  BY ONLY <1>2, r = [s EXCEPT !.hidden[e] = hide]
<1>4. r = Renewed(s, e, hide, s.opacity[e], s.fxshow[e], s.queue[e], s.timers, s.ticking)
  BY ONLY <1>1, <1>3, e \in Elements, Unchanged DEF Renewed
<1>5. /\ s.opacity[e] \in 0..Opaque /\ s.fxshow[e] \in {NoValue, Opaque}
      /\ s.queue[e] \in Seq(Jobs \cup {Sentinel}) /\ s.timers \in Seq(Tweens) /\ s.ticking \in BOOLEAN
  BY <1>1, StateIs
<1>6. IsRenewed(s, e, hide, s.opacity[e], s.fxshow[e], s.queue[e], s.timers, s.ticking, r)
  BY ONLY <1>1, <1>4, <1>5, e \in Elements, hide \in BOOLEAN, RenewedIs
<1>7. KeptElse(s, r, e)
  BY ONLY <1>6, RenewedKeeps
<1>8. new[e] = hide /\ \A x \in Elements : x # e => new[x] = meant[x] /\ (x \notin E => x \notin D)
  OBVIOUS
<1>9. \A x \in Elements : x # e => ElementFine(r, x, new, E, C)
  <2> SUFFICES ASSUME NEW x \in Elements, x # e PROVE ElementFine(r, x, new, E, C)
    OBVIOUS
  <2>1. ElementFine(s, x, meant, D, C)
    BY DEF AllFine, FxFine, ElementFine
  <2>2. ElementFine(s, x, new, E, C)
    BY <1>8, <2>1 DEF ElementFine
  <2> QED BY <1>7, <2>2, KeptFine DEF KeptElse
<1>10. ElementFine(r, e, new, E, C)
  <2>1. Faded(r, e) /\ (e \notin C => Clean(r, e))
    BY ONLY <1>1, <1>6 DEF ElementFine, Faded, Clean, IsRenewed
  <2>2. ASSUME e \notin E PROVE Comes(r, e, new[e])
    <3>1. s.queue[e] = <<>>
      BY <2>2
    <3>2. TimersOf(s.timers, e) = {}
      BY <1>1, <3>1 DEF ElementFine, Faded
    <3> QED BY ONLY <1>6, <1>8, <3>1, <3>2 DEF Comes, IsRenewed
  <2> QED BY <2>1, <2>2 DEF ElementFine
<1>11. r \in FxStates /\ TicksOn(r)
  BY ONLY <1>6, AllFine(s, meant, D, C) DEF IsRenewed, AllFine, TicksOn
<1> QED BY ONLY <1>9, <1>10, <1>11 DEF AllFine, FxFine, ElementFine

LEMMA TimersSet ==
  ASSUME NEW s \in FxStates, NEW e \in Elements, NEW ts \in Seq(Tweens), NEW r, r = [s EXCEPT !.timers = ts]
  PROVE  IsRenewed(s, e, s.hidden[e], s.opacity[e], s.fxshow[e], s.queue[e], ts, s.ticking, r)
<1>1. s = [hidden |-> s.hidden, opacity |-> s.opacity, fxshow |-> s.fxshow, queue |-> s.queue,
           timers |-> s.timers, ticking |-> s.ticking]
  BY StateIs
<1>2. r = [hidden |-> s.hidden, opacity |-> s.opacity, fxshow |-> s.fxshow,
           queue |-> s.queue, timers |-> ts, ticking |-> s.ticking]
  BY ONLY <1>1, r = [s EXCEPT !.timers = ts]
<1>3. r = Renewed(s, e, s.hidden[e], s.opacity[e], s.fxshow[e], s.queue[e], ts, s.ticking)
  BY ONLY <1>2, Unchanged, s \in FxStates, e \in Elements DEF Renewed
<1>4. /\ s.hidden[e] \in BOOLEAN /\ s.opacity[e] \in 0..Opaque /\ s.fxshow[e] \in {NoValue, Opaque}
      /\ s.queue[e] \in Seq(Jobs \cup {Sentinel}) /\ s.ticking \in BOOLEAN
  BY ONLY StateIs, s \in FxStates, e \in Elements
<1> QED BY ONLY <1>3, <1>4, RenewedIs, s \in FxStates, e \in Elements, ts \in Seq(Tweens)

(* The callbacks of an animation that is done. *)
LEMMA AnimatedIs ==
  ASSUME NEW s \in FxStates, NEW t \in Tweens, NEW r, r = animated(s, t)
  PROVE  IsRenewed(s, t.elem, s.hidden[t.elem] \/ t.hides, Opaque, NoValue, s.queue[t.elem],
                   s.timers, s.ticking, r)
<1>0. t.elem \in Elements /\ t.hides \in BOOLEAN /\ t.orig = Opaque
  BY DEF Tweens
<1> PICK e : e = t.elem
  OBVIOUS
<1> PICK h : h = (s.hidden[e] \/ t.hides)
  OBVIOUS
<1>1. s = [hidden |-> s.hidden, opacity |-> s.opacity, fxshow |-> s.fxshow, queue |-> s.queue,
           timers |-> s.timers, ticking |-> s.ticking]
  BY ONLY StateIs, s \in FxStates
<1>2. r = [s EXCEPT !.hidden[e] = @ \/ t.hides, !.fxshow[e] = NoValue, !.opacity[e] = Opaque]
  BY <1>0 DEF animated
<1>3. r = [s EXCEPT !.hidden[e] = h, !.fxshow[e] = NoValue, !.opacity[e] = Opaque]
  BY <1>2
<1>4. r = [hidden |-> [s.hidden EXCEPT ![e] = h], opacity |-> [s.opacity EXCEPT ![e] = Opaque],
           fxshow |-> [s.fxshow EXCEPT ![e] = NoValue],
           queue |-> s.queue, timers |-> s.timers, ticking |-> s.ticking]
  BY ONLY <1>1, <1>3
<1>5. e \in Elements /\ s \in FxStates
  BY <1>0
<1>6. r = Renewed(s, e, h, Opaque, NoValue, s.queue[e], s.timers, s.ticking)
  BY ONLY <1>4, <1>5, Unchanged DEF Renewed
<1>7. s.queue[e] \in Seq(Jobs \cup {Sentinel}) /\ s.timers \in Seq(Tweens) /\ s.ticking \in BOOLEAN /\ s.hidden[e] \in BOOLEAN
  BY ONLY <1>5, StateIs
<1>8. h \in BOOLEAN /\ Opaque \in 0..Opaque /\ NoValue \in {NoValue, Opaque}
  BY <1>0, <1>7 DEF Opaque
<1>9. IsRenewed(s, e, h, Opaque, NoValue, s.queue[e], s.timers, s.ticking, r)
  BY ONLY <1>5, <1>6, <1>7, <1>8, RenewedIs
<1> QED BY <1>9

(* What an animation under way was for. *)
LEMMA TimerIs ==
  ASSUME NEW ts \in Seq(Tweens), NEW i \in 1..Len(ts)
  PROVE  ts[i] \in Tweens /\ ts[i].elem \in Elements /\ ts[i] \in TimersOf(ts, ts[i].elem)
<1>1. ts[i] \in Tweens /\ DOMAIN ts = 1..Len(ts)
  BY ElementOfSeq, LenProperties
<1> QED BY <1>1 DEF Tweens, TimersOf, Range

\* After the animation of e is taken out of the timers, at its last or not.
TakenOut(s, a, e) ==
  /\ a \in FxStates /\ KeptElse(s, a, e) /\ TimersOf(a.timers, e) = {}
  /\ (s.timers = <<>> => a.timers = <<>>) /\ a.ticking = s.ticking
  /\ a.queue[e] = s.queue[e] /\ a.hidden[e] = s.hidden[e]
  /\ a.opacity[e] = s.opacity[e] /\ a.fxshow[e] = s.fxshow[e]

LEMMA TakeOut ==
  ASSUME NEW s \in FxStates, NEW i \in 1..Len(s.timers), NEW a, a = [s EXCEPT !.timers = RemoveAt(@, i)],
         NEW e, e = s.timers[i].elem, OneTimer(s.timers, e)
  PROVE  TakenOut(s, a, e)
<1>1. s.timers \in Seq(Tweens) /\ e \in Elements
  BY ONLY s \in FxStates, i \in 1..Len(s.timers), e = s.timers[i].elem, StateIs, TimerIs
<1> PICK us : us = RemoveAt(s.timers, i)
  OBVIOUS
<1>2. \A x : TimersShorter(s.timers, i, us, x)
  BY <1>1, RemoveTimer
<1>3. us \in Seq(Tweens) /\ TimersOf(us, e) = {} /\ (s.timers = <<>> => us = <<>>)
      /\ \A x \in Elements : x # e => /\ TimersOf(us, x) = TimersOf(s.timers, x)
                                      /\ OneTimer(s.timers, x) => OneTimer(us, x)
  BY ONLY <1>2, OneTimer(s.timers, e), e = s.timers[i].elem DEF TimersShorter
<1>4. a = [s EXCEPT !.timers = us]
  OBVIOUS
<1>5. IsRenewed(s, e, s.hidden[e], s.opacity[e], s.fxshow[e], s.queue[e], us, s.ticking, a)
  BY ONLY <1>1, <1>3, <1>4, s \in FxStates, TimersSet
<1>6. KeptElse(s, a, e)
  BY ONLY <1>3, <1>5, RenewedKeeps
<1> QED BY ONLY <1>3, <1>5, <1>6 DEF IsRenewed, TakenOut

(* The last of an animation: its callbacks, and the queue goes on. *)
LEMMA CompleteFine ==
  ASSUME NEW s \in FxStates, NEW meant \in [Elements -> BOOLEAN], NEW D, NEW C, TicksOn(s),
         NEW t \in Tweens, NEW e, e = t.elem, TimersOf(s.timers, e) = {}, Waiting(s.queue[e]) \in Seq(Jobs),
         \A x \in Elements : x # e => ElementFine(s, x, meant, D, C),
         e \notin D => ~s.hidden[e] /\ Leads(t.hides, Waiting(s.queue[e]), meant[e]),
         NEW r, r = complete(s, t)
  PROVE  AllFine(r, meant, D, C) /\ KeptElse(s, r, e)
<1>1. e \in Elements /\ t.hides \in BOOLEAN
  BY DEF Tweens
<1> PICK a : a = animated(s, t)
  OBVIOUS
<1> PICK h : h = (s.hidden[e] \/ t.hides)
  OBVIOUS
<1>2. IsRenewed(s, e, h, Opaque, NoValue, s.queue[e], s.timers, s.ticking, a)
  BY AnimatedIs
<1>3. r = dequeue(a, e)
  BY DEF complete
<1>4. KeptElse(s, a, e)
  BY <1>2, RenewedKeeps
<1>5. Ready(a, e)
  BY <1>2 DEF Ready, IsRenewed
<1>6. Dequeued(a, r, e)
  BY <1>1, <1>3, <1>5, DequeueIs
<1>7. \A x \in Elements : x # e => ElementFine(a, x, meant, D, C)
  BY <1>4, KeptFine DEF KeptElse
<1>8. TicksOn(a) /\ a.fxshow[e] = NoValue /\ a.queue[e] = s.queue[e] /\ a.hidden[e] = h
  BY <1>2 DEF TicksOn, IsRenewed
<1>9. ASSUME e \notin D PROVE Leads(a.hidden[e], Waiting(a.queue[e]), meant[e])
  <2>1. ~s.hidden[e] /\ Leads(t.hides, Waiting(s.queue[e]), meant[e])
    BY <1>9
  <2>2. h = t.hides
    BY <1>1, <2>1
  <2> QED BY <1>8, <2>1, <2>2
<1>10. AllFine(r, meant, D, C)
  BY <1>1, <1>5, <1>6, <1>7, <1>8, <1>9, DequeuedFine
<1>11. KeptElse(a, r, e)
  BY <1>6 DEF Dequeued, WentOn, FxBegun
<1>12. KeptElse(s, r, e)
  BY <1>4, <1>11, KeptAfter
<1> QED BY <1>10, <1>12

\* The timers without one of them.
Without(u, i) == [u EXCEPT !.timers = RemoveAt(@, i)]

LEMMA StopLoop ==
  ASSUME NEW s, NEW c, NEW e, NEW gotoEnd, NEW N \in Nat
  PROVE  \E g : g = [k \in 0..N |-> IF k = 0 THEN c ELSE IF s.timers[N + 1 - k].elem # e THEN g[k - 1]
              ELSE IF gotoEnd THEN complete(Without(g[k - 1], N + 1 - k), s.timers[N + 1 - k])
              ELSE Without(g[k - 1], N + 1 - k)]
<1> DEFINE Step(k, x) == IF s.timers[N + 1 - k].elem # e THEN x
                         ELSE IF gotoEnd THEN complete(Without(x, N + 1 - k), s.timers[N + 1 - k])
                         ELSE Without(x, N + 1 - k)
           Meets(m, g) == g = [k \in 0..m |-> IF k = 0 THEN c ELSE Step(k, g[k - 1])]
           A == {m \in Nat : \E g : Meets(m, g)}
<1> HIDE DEF Step
<1>1. 0 \in A
  <2>1. PICK g : g = [k \in 0..0 |-> c]
    OBVIOUS
  <2>2. Meets(0, g)
    BY <2>1
  <2> QED BY <2>2
<1>2. ASSUME NEW m \in Nat, m \in A PROVE m + 1 \in A
  <2>1. PICK g : Meets(m, g)
    BY <1>2
  <2>2. PICK h : h = [k \in 0..m + 1 |-> IF k <= m THEN g[k] ELSE Step(k, g[m])]
    OBVIOUS
  <2>3. \A k \in 0..m : h[k] = g[k] /\ g[k] = IF k = 0 THEN c ELSE Step(k, g[k - 1])
    BY <2>1, <2>2
  <2>4. \A k \in 0..m + 1 : h[k] = IF k = 0 THEN c ELSE Step(k, h[k - 1])
    <3> SUFFICES ASSUME NEW k \in 0..m + 1 PROVE h[k] = IF k = 0 THEN c ELSE Step(k, h[k - 1])
      OBVIOUS
    <3>1. CASE k = m + 1
      <4>1. ~(k <= m) /\ k - 1 = m /\ m \in 0..m /\ k # 0
        BY <3>1
      <4>2. h[k] = Step(k, g[m]) /\ h[k - 1] = g[m]
        BY <2>2, <2>3, <4>1
      <4> QED BY <4>1, <4>2
    <3>2. CASE k \in 0..m
      <4>1. k # 0 => k - 1 \in 0..m
        BY <3>2
      <4> QED BY <2>3, <3>2, <4>1
    <3> QED BY <3>1, <3>2
  <2>5. h = [k \in 0..m + 1 |-> h[k]]
    BY <2>2
  <2>6. Meets(m + 1, h)
    BY <2>4, <2>5
  <2> HIDE DEF Meets
  <2> QED BY <2>6
<1> HIDE DEF A
<1>3. N \in A
  BY <1>1, <1>2, SetInduction
<1> QED BY <1>3 DEF A, Step

LEMMA TickLoop ==
  ASSUME NEW s, NEW N \in Nat
  PROVE  \E g : g = [k \in 0..N |-> IF k = 0 THEN s ELSE step(g[k - 1], s.timers[k])]
<1> DEFINE Step(k, x) == step(x, s.timers[k])
           Meets(m, g) == g = [k \in 0..m |-> IF k = 0 THEN s ELSE Step(k, g[k - 1])]
           A == {m \in Nat : \E g : Meets(m, g)}
<1> HIDE DEF Step
<1>1. 0 \in A
  <2>1. PICK g : g = [k \in 0..0 |-> s]
    OBVIOUS
  <2>2. Meets(0, g)
    BY <2>1
  <2> QED BY <2>2
<1>2. ASSUME NEW m \in Nat, m \in A PROVE m + 1 \in A
  <2>1. PICK g : Meets(m, g)
    BY <1>2
  <2>2. PICK h : h = [k \in 0..m + 1 |-> IF k <= m THEN g[k] ELSE Step(k, g[m])]
    OBVIOUS
  <2>3. \A k \in 0..m : h[k] = g[k] /\ g[k] = IF k = 0 THEN s ELSE Step(k, g[k - 1])
    BY <2>1, <2>2
  <2>4. \A k \in 0..m + 1 : h[k] = IF k = 0 THEN s ELSE Step(k, h[k - 1])
    <3> SUFFICES ASSUME NEW k \in 0..m + 1 PROVE h[k] = IF k = 0 THEN s ELSE Step(k, h[k - 1])
      OBVIOUS
    <3>1. CASE k = m + 1
      <4>1. ~(k <= m) /\ k - 1 = m /\ m \in 0..m /\ k # 0
        BY <3>1
      <4>2. h[k] = Step(k, g[m]) /\ h[k - 1] = g[m]
        BY <2>2, <2>3, <4>1
      <4> QED BY <4>1, <4>2
    <3>2. CASE k \in 0..m
      <4>1. k # 0 => k - 1 \in 0..m
        BY <3>2
      <4> QED BY <2>3, <3>2, <4>1
    <3> QED BY <3>1, <3>2
  <2>5. h = [k \in 0..m + 1 |-> h[k]]
    BY <2>2
  <2>6. Meets(m + 1, h)
    BY <2>4, <2>5
  <2> HIDE DEF Meets
  <2> QED BY <2>6
<1> HIDE DEF A
<1>3. N \in A
  BY <1>1, <1>2, SetInduction
<1> QED BY <1>3 DEF A, Step

Stopped(s, c, e, gotoEnd, r) ==
  \/ TimersOf(s.timers, e) = {} /\ r = dequeue(c, e)
  \/ \E i \in 1..Len(s.timers) :
       /\ s.timers[i].elem = e
       /\ r = IF gotoEnd THEN complete(Without(c, i), s.timers[i]) ELSE dequeue(Without(c, i), e)

(* stop visits the one animation of the element, if it has one. *)
LEMMA StopIs ==
  ASSUME NEW s \in FxStates, NEW e, OneTimer(s.timers, e), NEW clearQueue, NEW gotoEnd \in BOOLEAN,
         NEW c, c = IF clearQueue THEN [s EXCEPT !.queue[e] = <<>>] ELSE s,
         NEW r, r = stop(s, e, clearQueue, gotoEnd)
  PROVE  Stopped(s, c, e, gotoEnd, r)
<1> DEFINE N == Len(s.timers)
           visited == CHOOSE g : g = [k \in 0..N |-> IF k = 0 THEN c
             ELSE IF s.timers[N + 1 - k].elem # e THEN g[k - 1]
              ELSE IF gotoEnd THEN complete(Without(g[k - 1], N + 1 - k), s.timers[N + 1 - k])
              ELSE Without(g[k - 1], N + 1 - k)]
           found == \E i \in 1..N : s.timers[i].elem = e
<1>1. s.timers \in Seq(Tweens) /\ N \in Nat /\ DOMAIN s.timers = 1..N
  <2>1. s.timers \in Seq(Tweens)
    BY ONLY s \in FxStates, StateIs
  <2> QED BY ONLY <2>1, LenProperties
<1>2. r = IF found /\ gotoEnd THEN visited[N] ELSE dequeue(visited[N], e)
  BY DEF stop, Without
<1>3. visited = [k \in 0..N |-> IF k = 0 THEN c
             ELSE IF s.timers[N + 1 - k].elem # e THEN visited[k - 1]
              ELSE IF gotoEnd THEN complete(Without(visited[k - 1], N + 1 - k), s.timers[N + 1 - k])
              ELSE Without(visited[k - 1], N + 1 - k)]
  <2> HIDE DEF N
  <2>1. \E g : g = [k \in 0..N |-> IF k = 0 THEN c
             ELSE IF s.timers[N + 1 - k].elem # e THEN g[k - 1]
              ELSE IF gotoEnd THEN complete(Without(g[k - 1], N + 1 - k), s.timers[N + 1 - k])
              ELSE Without(g[k - 1], N + 1 - k)]
    BY ONLY <1>1, StopLoop
  <2> QED BY <2>1, Zenon
<1> HIDE DEF visited
<1>4. visited[0] = c /\ \A k \in 1..N : visited[k] =
             IF s.timers[N + 1 - k].elem # e THEN visited[k - 1]
              ELSE IF gotoEnd THEN complete(Without(visited[k - 1], N + 1 - k), s.timers[N + 1 - k])
              ELSE Without(visited[k - 1], N + 1 - k)
  <2> HIDE DEF N
  <2>1. ASSUME NEW k \in 0..N
        PROVE  visited[k] = IF k = 0 THEN c
             ELSE IF s.timers[N + 1 - k].elem # e THEN visited[k - 1]
              ELSE IF gotoEnd THEN complete(Without(visited[k - 1], N + 1 - k), s.timers[N + 1 - k])
              ELSE Without(visited[k - 1], N + 1 - k)
    BY ONLY <1>3, k \in 0..N
  <2>2. 0 \in 0..N /\ \A k \in 1..N : k \in 0..N /\ k # 0
    BY ONLY <1>1
  <2> QED BY ONLY <2>1, <2>2
<1>5. \A i \in 1..N, j \in 1..N : s.timers[i].elem = e /\ s.timers[j].elem = e => i = j
  BY ONLY <1>1, OneTimer(s.timers, e) DEF OneTimer
<1> HIDE DEF N
<1> DEFINE V(i) == IF gotoEnd THEN complete(Without(c, i), s.timers[i]) ELSE Without(c, i)
<1> HIDE DEF V
<1>6. CASE \A i \in 1..N : s.timers[i].elem # e
  <2> DEFINE A == {k \in Nat : k <= N => visited[k] = c}
  <2>1. 0 \in A
    BY ONLY <1>4
  <2>2. ASSUME NEW k \in Nat, k \in A PROVE k + 1 \in A
    <3> SUFFICES ASSUME k + 1 <= N PROVE visited[k + 1] = c
      OBVIOUS
    <3>1. k + 1 \in 1..N /\ N + 1 - (k + 1) \in 1..N /\ (k + 1) - 1 = k /\ k <= N
      BY ONLY <1>1, k \in Nat, k + 1 <= N
    <3>2. visited[k] = c
      BY ONLY <2>2, <3>1
    <3> QED BY ONLY <1>4, <1>6, <3>1, <3>2
  <2> HIDE DEF A
  <2>3. N \in A
    BY ONLY <1>1, <2>1, <2>2, SetInduction
  <2>4. visited[N] = c
    BY ONLY <1>1, <2>3 DEF A
  <2>5. r = dequeue(c, e)
    BY <1>2, <1>6, <2>4
  <2>6. TimersOf(s.timers, e) = {}
    BY ONLY <1>1, <1>6 DEF TimersOf, Range
  <2> QED BY <2>5, <2>6 DEF Stopped
<1>7. CASE \E i \in 1..N : s.timers[i].elem = e
  <2>1. PICK i \in 1..N : s.timers[i].elem = e
    BY <1>7
  <2> DEFINE A == {k \in Nat : k <= N => visited[k] = IF N + 1 - k <= i THEN V(i) ELSE c}
  <2>2. 0 \in A
    <3>1. ~(N + 1 - 0 <= i)
      BY ONLY <1>1, i \in 1..N
    <3> QED BY ONLY <1>4, <3>1
  <2>3. ASSUME NEW k \in Nat, k \in A PROVE k + 1 \in A
    <3> SUFFICES ASSUME k + 1 <= N PROVE visited[k + 1] = IF N + 1 - (k + 1) <= i THEN V(i) ELSE c
      OBVIOUS
    <3> DEFINE at == N + 1 - (k + 1)
    <3>1. k + 1 \in 1..N /\ at \in 1..N /\ (k + 1) - 1 = k /\ k <= N /\ N + 1 - k = at + 1
      BY ONLY <1>1, k \in Nat, k + 1 <= N
    <3>2. visited[k] = IF at + 1 <= i THEN V(i) ELSE c
      BY ONLY <2>3, <3>1
    <3>3. visited[k + 1] =
             IF s.timers[at].elem # e THEN visited[k]
              ELSE IF gotoEnd THEN complete(Without(visited[k], at), s.timers[at])
              ELSE Without(visited[k], at)
      BY ONLY <1>4, <3>1
    <3> HIDE DEF at
    <3>4. CASE at = i
      <4>1. s.timers[at].elem = e /\ visited[k] = c /\ at <= i
        BY ONLY <2>1, <3>1, <3>2, <3>4, i \in 1..N
      <4> QED BY ONLY <3>3, <3>4, <4>1 DEF V, at
    <3>5. CASE at # i
      <4>1. s.timers[at].elem # e
        BY ONLY <1>5, <2>1, <3>1, <3>5
      <4>2. at + 1 <= i <=> at <= i
        BY ONLY <3>1, <3>5, i \in 1..N
      <4> QED BY ONLY <3>2, <3>3, <4>1, <4>2 DEF at
    <3> QED BY ONLY <3>4, <3>5
  <2> HIDE DEF A
  <2>4. N \in A
    BY ONLY <1>1, <2>2, <2>3, SetInduction
  <2>5. visited[N] = V(i)
    <3>1. N + 1 - N <= i /\ N <= N
      BY ONLY <1>1, i \in 1..N
    <3> QED BY ONLY <1>1, <2>4, <3>1 DEF A
  <2>6. r = IF gotoEnd THEN complete(Without(c, i), s.timers[i]) ELSE dequeue(Without(c, i), e)
    <3>1. CASE gotoEnd
      BY ONLY <1>2, <1>7, <2>5, <3>1 DEF V
    <3>2. CASE ~gotoEnd
      BY ONLY <1>2, <2>5, <3>2 DEF V
    <3> QED BY ONLY <3>1, <3>2
  <2> QED BY <2>1, <2>6 DEF N, Stopped
<1> QED BY ONLY <1>6, <1>7

(* An element whose animations are stopped. *)
LEMMA StopFine ==
  ASSUME NEW s, NEW e \in Elements, NEW meant \in [Elements -> BOOLEAN], NEW D, NEW C,
         AllFine(s, meant, D, C), NEW clearQueue, NEW gotoEnd \in BOOLEAN,
         NEW r, r = stop(s, e, clearQueue, gotoEnd),
         NEW E, E = D \cup {e}, NEW B, B = IF InProgress(s, e) /\ ~gotoEnd THEN C \cup {e} ELSE C
  PROVE  AllFine(r, meant, E, B)
<1>1. s \in FxStates /\ ElementFine(s, e, meant, D, C) /\ TicksOn(s)
      /\ \A x \in Elements : ElementFine(s, x, meant, D, C)
  BY DEF AllFine, FxFine, ElementFine
<1> PICK c : c = IF clearQueue THEN [s EXCEPT !.queue[e] = <<>>] ELSE s
  OBVIOUS
<1>2. Waiting(s.queue[e]) \in Seq(Jobs) /\ Waiting(<<>>) = <<>> /\ <<>> \in Seq(Jobs) /\ <<>> \in Seq(Jobs \cup {Sentinel})
  <2>1. Waiting(<<>>) = <<>> /\ <<>> \in Seq(Jobs) /\ <<>> \in Seq(Jobs \cup {Sentinel})
    BY DEF Waiting
  <2>2. CASE s.queue[e] = <<>>
    BY ONLY <2>1, <2>2
  <2>3. CASE s.queue[e] # <<>>
    BY ONLY <1>1, <2>1, <2>3 DEF ElementFine, Faded, Waiting
  <2> QED BY ONLY <2>2, <2>3
<1>3. /\ c \in FxStates /\ KeptElse(s, c, e) /\ c.timers = s.timers /\ c.ticking = s.ticking
      /\ c.hidden[e] = s.hidden[e] /\ c.opacity[e] = s.opacity[e] /\ c.fxshow[e] = s.fxshow[e]
      /\ Waiting(c.queue[e]) \in Seq(Jobs) /\ (s.queue[e] = <<>> => c.queue[e] = <<>>)
  <2>1. CASE clearQueue
    <3>1. c = [s EXCEPT !.queue[e] = <<>>]
      BY <2>1
    <3>2. IsRenewed(s, e, s.hidden[e], s.opacity[e], s.fxshow[e], <<>>, s.timers, s.ticking, c)
      BY ONLY <1>1, <1>2, <3>1, QueueSet, e \in Elements
    <3>3. KeptElse(s, c, e)
      BY ONLY <3>2, RenewedKeeps
    <3> QED BY ONLY <1>2, <3>2, <3>3 DEF IsRenewed
  <2>2. CASE ~clearQueue
    <3>1. c = s
      BY <2>2
    <3> QED BY ONLY <1>1, <1>2, <3>1 DEF KeptElse, Kept
  <2> QED BY ONLY <2>1, <2>2
<1>4. \A x \in Elements : x # e => /\ x \in E <=> x \in D
                                   /\ x \in B <=> x \in C
  OBVIOUS
<1>5. e \in E
  OBVIOUS
<1>6. ASSUME NEW a, KeptElse(s, a, e) PROVE \A x \in Elements : x # e => ElementFine(a, x, meant, E, B)
  <2> SUFFICES ASSUME NEW x \in Elements, x # e PROVE ElementFine(a, x, meant, E, B)
    OBVIOUS
  <2>1. ElementFine(s, x, meant, E, B)
    BY ONLY <1>1, <1>4, x \in Elements, x # e DEF ElementFine
  <2> QED BY ONLY <1>6, <2>1, x \in Elements, x # e, KeptFine DEF KeptElse
<1>7. OneTimer(s.timers, e) /\ (s.fxshow[e] = NoValue => s.opacity[e] = Opaque)
  BY ONLY <1>1 DEF ElementFine, Faded
<1>8. Stopped(s, c, e, gotoEnd, r)
  BY <1>1, <1>7, StopIs
<1>9. CASE TimersOf(s.timers, e) = {} /\ r = dequeue(c, e)
  <2>1. s.queue[e] = <<>> /\ (e \notin C => s.fxshow[e] = NoValue)
    BY ONLY <1>1, <1>9 DEF ElementFine, Faded, Clean
  <2>2. B = C
    BY <2>1 DEF InProgress
  <2>3. Ready(c, e) /\ TicksOn(c)
    BY ONLY <1>1, <1>3, <1>7, <1>9 DEF Ready, TicksOn
  <2>4. Dequeued(c, r, e)
    BY ONLY <1>9, <2>3, DequeueIs, e \in Elements
  <2>5. e \notin B => c.fxshow[e] = NoValue
    BY ONLY <1>3, <2>1, <2>2
  <2>6. \A x \in Elements : x # e => ElementFine(c, x, meant, E, B)
    BY ONLY <1>3, <1>6
  <2> QED BY ONLY <1>5, <2>3, <2>4, <2>5, <2>6, DequeuedFine, e \in Elements, meant \in [Elements -> BOOLEAN]
<1>10. ASSUME NEW i \in 1..Len(s.timers), s.timers[i].elem = e,
              r = IF gotoEnd THEN complete(Without(c, i), s.timers[i]) ELSE dequeue(Without(c, i), e)
       PROVE  AllFine(r, meant, E, B)
  <2>1. s.timers[i] \in Tweens /\ s.timers[i] \in TimersOf(s.timers, e)
    <3>1. s.timers \in Seq(Tweens)
      BY ONLY <1>1, StateIs
    <3> QED BY ONLY <1>10, <3>1, TimerIs
  <2> PICK a : a = Without(c, i)
    OBVIOUS
  <2>2. TakenOut(c, a, e)
    <3>1. a = [c EXCEPT !.timers = RemoveAt(@, i)] /\ i \in 1..Len(c.timers) /\ e = c.timers[i].elem
          /\ OneTimer(c.timers, e)
      BY <1>3, <1>7, <1>10 DEF Without
    <3> QED BY ONLY <1>3, <3>1, TakeOut
  <2>3. KeptElse(s, a, e)
    BY ONLY <1>3, <2>2, KeptAfter DEF TakenOut
  <2>4. \A x \in Elements : x # e => ElementFine(a, x, meant, E, B)
    BY ONLY <1>6, <2>3
  <2>5. TicksOn(a) /\ a \in FxStates /\ TimersOf(a.timers, e) = {} /\ Waiting(a.queue[e]) \in Seq(Jobs)
    BY ONLY <1>1, <1>3, <2>2 DEF TakenOut, TicksOn
  <2>6. CASE gotoEnd
    <3>1. r = complete(a, s.timers[i])
      BY <1>10, <2>6
    <3> QED BY ONLY <1>5, <1>10, <2>1, <2>4, <2>5, <3>1, CompleteFine, meant \in [Elements -> BOOLEAN]
  <2>7. CASE ~gotoEnd
    <3>1. r = dequeue(a, e)
      BY <1>10, <2>7
    <3>2. Ready(a, e)
      BY ONLY <1>3, <1>7, <2>2, <2>5 DEF Ready, TakenOut
    <3>3. Dequeued(a, r, e)
      BY ONLY <3>1, <3>2, DequeueIs, e \in Elements
    <3>4. e \in B
      <4>1. s.queue[e] # <<>> /\ Head(s.queue[e]) = Sentinel
        BY ONLY <1>1, <2>1 DEF ElementFine, Faded
      <4> QED BY <2>7, <4>1 DEF InProgress
    <3> QED BY ONLY <1>5, <2>4, <2>5, <3>2, <3>3, <3>4, DequeuedFine, e \in Elements, meant \in [Elements -> BOOLEAN]
  <2> QED BY ONLY <2>6, <2>7
<1> QED BY ONLY <1>8, <1>9, <1>10 DEF Stopped

-------------------------------------------------------------------------------
(* The queue of fades: one call of a timer, and all of a tick *)

SteppedFine(s, r, e, meant, D, C) == AllFine(r, meant, D, C) /\ KeptElse(s, r, e)

LEMMA StepFine ==
  ASSUME NEW s, NEW meant \in [Elements -> BOOLEAN], NEW D, NEW C, AllFine(s, meant, D, C), s.ticking,
         NEW e \in Elements, NEW t, t \in TimersOf(s.timers, e), NEW r, r = step(s, t)
  PROVE  SteppedFine(s, r, e, meant, D, C)
<1>1. /\ s \in FxStates /\ ElementFine(s, e, meant, D, C) /\ TicksOn(s)
      /\ \A x \in Elements : ElementFine(s, x, meant, D, C)
  BY DEF AllFine, FxFine, ElementFine
<1>2. /\ s.hidden[e] \in BOOLEAN /\ s.opacity[e] \in 0..Opaque /\ s.fxshow[e] \in {NoValue, Opaque}
      /\ s.queue[e] \in Seq(Jobs \cup {Sentinel}) /\ s.timers \in Seq(Tweens) /\ s.ticking \in BOOLEAN
  BY ONLY <1>1, StateIs, e \in Elements
<1>3. DOMAIN s.timers = 1..Len(s.timers) /\ \A i \in 1..Len(s.timers) : s.timers[i] \in Tweens
  BY ONLY <1>2, LenProperties, ElementOfSeq
<1>4. t.elem = e /\ \E i \in DOMAIN s.timers : s.timers[i] = t
  BY DEF TimersOf, Range
<1> PICK index : index = CHOOSE i \in DOMAIN s.timers : s.timers[i] = t
  OBVIOUS
<1>5. index \in 1..Len(s.timers) /\ s.timers[index] = t
  BY <1>3, <1>4
<1>6. t \in Tweens
  BY ONLY <1>3, <1>5
<1>7. t.left \in 1..Frames /\ t.from \in 0..Opaque /\ t.to \in {0, Opaque} /\ t.hides \in BOOLEAN
  BY ONLY <1>6 DEF Tweens
<1> PICK u : u = [t EXCEPT !.left = t.left - 1]
  OBVIOUS
<1> PICK v : v = t.to + ((t.from - t.to) * u.left) \div Frames
  OBVIOUS
<1>8. t = [elem |-> t.elem, hides |-> t.hides, left |-> t.left, orig |-> t.orig, from |-> t.from, to |-> t.to]
  BY ONLY <1>6 DEF Tweens
<1>9. u = [elem |-> t.elem, hides |-> t.hides, left |-> t.left - 1, orig |-> t.orig, from |-> t.from, to |-> t.to]
  BY ONLY <1>8, u = [t EXCEPT !.left = t.left - 1]
<1>10. u.elem = e /\ u.hides = t.hides /\ u.left = t.left - 1
  BY ONLY <1>4, <1>9
<1>11. r = IF u.left > 0
             THEN [s EXCEPT !.timers[index] = u, !.opacity[e] = v]
             ELSE complete([s EXCEPT !.timers = RemoveAt(@, index)], t)
  BY <1>4 DEF step
<1>12. OneTimer(s.timers, e) /\ s.queue[e] # <<>>
  BY ONLY <1>1, t \in TimersOf(s.timers, e) DEF ElementFine, Faded
<1>13. Head(s.queue[e]) = Sentinel /\ Tail(s.queue[e]) \in Seq(Jobs) /\ s.fxshow[e] = Opaque
  BY ONLY <1>1, <1>12 DEF ElementFine, Faded
<1>14. e \notin D => ~s.hidden[e] /\ Leads(t.hides, Tail(s.queue[e]), meant[e])
  BY ONLY <1>1, <1>12, t \in TimersOf(s.timers, e) DEF ElementFine, Comes
<1>15. CASE u.left > 0
  <2>1. t.left = 2 /\ u.left = 1
    BY ONLY <1>7, <1>10, <1>15 DEF Frames
  <2>2. v \in 0..Opaque
    <3>1. v = t.to + (t.from - t.to) \div 2
      BY ONLY <1>7, <2>1, v = t.to + ((t.from - t.to) * u.left) \div Frames DEF Frames, Opaque
    <3>2. CASE t.to = 0
      BY ONLY <1>7, <3>1, <3>2 DEF Opaque
    <3>3. CASE t.to = Opaque
      BY ONLY <1>7, <3>1, <3>3 DEF Opaque
    <3> QED BY ONLY <1>7, <3>2, <3>3
  <2>3. u \in Tweens
    <3>1. u.left \in 1..Frames /\ t.elem \in Elements /\ t.orig \in {Opaque}
      BY ONLY <1>6, <2>1 DEF Frames, Tweens
    <3> QED BY ONLY <1>7, <1>9, <1>10, <3>1 DEF Tweens
  <2> PICK us : us = [s.timers EXCEPT ![index] = u]
    OBVIOUS
  <2>4. \A x : TimersRenewed(s.timers, index, u, us, x)
    BY ONLY <1>2, <1>4, <1>5, <1>10, <2>3, us = [s.timers EXCEPT ![index] = u], RenewTimer
  <2>5. /\ us \in Seq(Tweens) /\ us # <<>> /\ TimersOf(us, e) = {u} /\ OneTimer(us, e)
        /\ \A x \in Elements : x # e => /\ TimersOf(us, x) = TimersOf(s.timers, x)
                                        /\ OneTimer(s.timers, x) => OneTimer(us, x)
    BY ONLY <1>10, <1>12, <2>4 DEF TimersRenewed
  <2>6. r = Renewed(s, e, s.hidden[e], v, s.fxshow[e], s.queue[e], us, s.ticking)
    <3>1. s = [hidden |-> s.hidden, opacity |-> s.opacity, fxshow |-> s.fxshow, queue |-> s.queue,
               timers |-> s.timers, ticking |-> s.ticking]
      BY ONLY <1>1, StateIs
    <3>2. r = [s EXCEPT !.timers[index] = u, !.opacity[e] = v]
      BY ONLY <1>11, <1>15
    <3>3. r = [hidden |-> s.hidden, opacity |-> [s.opacity EXCEPT ![e] = v], fxshow |-> s.fxshow,
               queue |-> s.queue, timers |-> [s.timers EXCEPT ![index] = u], ticking |-> s.ticking]
      BY ONLY <3>1, <3>2
    <3> QED BY ONLY <1>1, <3>3, us = [s.timers EXCEPT ![index] = u], Unchanged, e \in Elements DEF Renewed
  <2>7. IsRenewed(s, e, s.hidden[e], v, s.fxshow[e], s.queue[e], us, s.ticking, r)
    BY ONLY <1>1, <1>2, <2>2, <2>5, <2>6, RenewedIs, e \in Elements, ZenonT(60)
  <2>8. KeptElse(s, r, e)
    BY ONLY <2>5, <2>7, RenewedKeeps
  <2>9. \A x \in Elements : x # e => ElementFine(r, x, meant, D, C)
    BY ONLY <1>1, <2>8, KeptFine DEF KeptElse
  <2>10. ElementFine(r, e, meant, D, C)
    <3>1. Faded(r, e) /\ (e \notin C => Clean(r, e))
      <4>1. Opaque # NoValue
        BY DEF Opaque, NoValue
      <4> QED BY ONLY <1>12, <1>13, <2>5, <2>7, <4>1 DEF Faded, Clean, IsRenewed
    <3>2. e \notin D => Comes(r, e, meant[e])
      BY ONLY <1>10, <1>12, <1>14, <2>5, <2>7 DEF Comes, IsRenewed
    <3> QED BY ONLY <3>1, <3>2 DEF ElementFine
  <2>11. r \in FxStates /\ TicksOn(r)
    BY ONLY <2>7, s.ticking DEF IsRenewed, TicksOn
  <2> QED BY ONLY <2>8, <2>9, <2>10, <2>11 DEF SteppedFine, AllFine, FxFine, ElementFine
<1>16. CASE ~(u.left > 0)
  <2> PICK a : a = [s EXCEPT !.timers = RemoveAt(@, index)]
    OBVIOUS
  <2>1. TakenOut(s, a, e)
    BY ONLY <1>1, <1>4, <1>5, <1>12, a = [s EXCEPT !.timers = RemoveAt(@, index)], TakeOut
  <2>2. r = complete(a, t)
    BY ONLY <1>11, <1>16, a = [s EXCEPT !.timers = RemoveAt(@, index)]
  <2>3. \A x \in Elements : x # e => ElementFine(a, x, meant, D, C)
    BY ONLY <1>1, <2>1, KeptFine DEF KeptElse, TakenOut
  <2>4. a \in FxStates /\ TicksOn(a) /\ TimersOf(a.timers, e) = {} /\ Waiting(a.queue[e]) \in Seq(Jobs)
        /\ KeptElse(s, a, e)
    BY ONLY <1>1, <1>12, <1>13, <2>1 DEF TakenOut, TicksOn, Waiting
  <2>5. e \notin D => ~a.hidden[e] /\ Leads(t.hides, Waiting(a.queue[e]), meant[e])
    BY ONLY <1>12, <1>13, <1>14, <2>1 DEF TakenOut, Waiting
  <2>6. AllFine(r, meant, D, C) /\ KeptElse(a, r, e)
    BY ONLY <1>4, <1>6, <2>2, <2>3, <2>4, <2>5, CompleteFine, meant \in [Elements -> BOOLEAN]
  <2>7. KeptElse(s, r, e)
    BY ONLY <2>4, <2>6, KeptAfter
  <2> QED BY ONLY <2>6, <2>7 DEF SteppedFine
<1> QED BY ONLY <1>15, <1>16

LEMMA TickFine ==
  ASSUME NEW s, NEW meant \in [Elements -> BOOLEAN], NEW D, NEW C, AllFine(s, meant, D, C), s.ticking,
         NEW r, r = tick(s),
         NEW B, B = {e \in C : r.queue[e] # <<>> \/ r.fxshow[e] # NoValue}
  PROVE  AllFine(r, meant, D, B)
<1> DEFINE N == Len(s.timers)
           ticked == CHOOSE g : g = [k \in 0..N |-> IF k = 0 THEN s ELSE step(g[k - 1], s.timers[k])]
<1>1. s \in FxStates /\ \A x \in Elements : ElementFine(s, x, meant, D, C)
  BY DEF AllFine, FxFine, ElementFine
<1>2. s.timers \in Seq(Tweens) /\ N \in Nat /\ DOMAIN s.timers = 1..N
      /\ \A i \in 1..N : s.timers[i] \in Tweens /\ s.timers[i].elem \in Elements
                         /\ s.timers[i] \in TimersOf(s.timers, s.timers[i].elem)
  <2>1. s.timers \in Seq(Tweens)
    BY ONLY <1>1, StateIs
  <2> QED BY ONLY <2>1, LenProperties, TimerIs
<1>3. r = [ticked[N] EXCEPT !.ticking = ticked[N].timers # <<>>]
  BY DEF tick
<1>4. ticked = [k \in 0..N |-> IF k = 0 THEN s ELSE step(ticked[k - 1], s.timers[k])]
  <2> HIDE DEF N
  <2> QED BY <1>2, TickLoop
<1> HIDE DEF ticked, N
<1>5. ticked[0] = s /\ \A k \in 1..N : ticked[k] = step(ticked[k - 1], s.timers[k])
  <2>1. ASSUME NEW k \in 0..N PROVE ticked[k] = IF k = 0 THEN s ELSE step(ticked[k - 1], s.timers[k])
    BY ONLY <1>4, k \in 0..N
  <2>2. 0 \in 0..N /\ \A k \in 1..N : k \in 0..N /\ k # 0
    BY ONLY <1>2
  <2> QED BY ONLY <2>1, <2>2
<1>6. \A i \in 1..N, j \in 1..N : s.timers[i].elem = s.timers[j].elem => i = j
  <2> SUFFICES ASSUME NEW i \in 1..N, NEW j \in 1..N, s.timers[i].elem = s.timers[j].elem PROVE i = j
    OBVIOUS
  <2>1. OneTimer(s.timers, s.timers[i].elem)
    BY ONLY <1>1, <1>2, i \in 1..N DEF ElementFine, Faded
  <2> QED BY ONLY <1>2, <2>1, s.timers[i].elem = s.timers[j].elem, i \in 1..N, j \in 1..N DEF OneTimer
<1> DEFINE Good(k, x) == /\ AllFine(x, meant, D, C) /\ (x.ticking \/ x.timers = <<>>)
                         /\ \A i \in 1..N : i > k => s.timers[i] \in TimersOf(x.timers, s.timers[i].elem)
           A == {k \in Nat : k <= N => Good(k, ticked[k])}
<1>7. 0 \in A
  BY ONLY <1>2, <1>5, AllFine(s, meant, D, C), s.ticking
<1>8. ASSUME NEW k \in Nat, k \in A PROVE k + 1 \in A
  <2> SUFFICES ASSUME k + 1 <= N PROVE Good(k + 1, ticked[k + 1])
    OBVIOUS
  <2>1. k + 1 \in 1..N /\ (k + 1) - 1 = k /\ k <= N /\ k + 1 > k
    BY ONLY <1>2, k \in Nat, k + 1 <= N
  <2>2. Good(k, ticked[k])
    BY ONLY <1>8, <2>1
  <2> DEFINE t == s.timers[k + 1]
             e == t.elem
  <2>3. t \in TimersOf(ticked[k].timers, e) /\ e \in Elements
    BY ONLY <1>2, <2>1, <2>2
  <2>4. ticked[k].ticking
    <3>1. ticked[k].timers # <<>>
      BY ONLY <2>3 DEF TimersOf, Range
    <3> QED BY ONLY <2>2, <3>1
  <2>5. ticked[k + 1] = step(ticked[k], t)
    BY ONLY <1>5, <2>1
  <2> HIDE DEF t, e
  <2>6. SteppedFine(ticked[k], ticked[k + 1], e, meant, D, C)
    BY ONLY <2>2, <2>3, <2>4, <2>5, StepFine, meant \in [Elements -> BOOLEAN]
  <2>7. ASSUME NEW i \in 1..N, i > k + 1 PROVE s.timers[i] \in TimersOf(ticked[k + 1].timers, s.timers[i].elem)
    <3>1. i > k /\ i # k + 1
      BY ONLY <2>7, k \in Nat, <1>2
    <3>2. s.timers[i].elem # e /\ s.timers[i].elem \in Elements
      BY ONLY <1>2, <1>6, <2>1, <3>1, i \in 1..N DEF e, t
    <3>3. Kept(ticked[k], ticked[k + 1], s.timers[i].elem)
      BY ONLY <2>6, <3>2 DEF SteppedFine, KeptElse
    <3> QED BY ONLY <2>2, <3>1, <3>3, i \in 1..N DEF Kept
  <2>8. ticked[k + 1].ticking \/ ticked[k + 1].timers = <<>>
    BY ONLY <2>6 DEF SteppedFine, AllFine, TicksOn
  <2> QED BY ONLY <2>6, <2>7, <2>8 DEF SteppedFine
<1> HIDE DEF A
<1>9. N \in A
  BY ONLY <1>2, <1>7, <1>8, SetInduction
<1>10. Good(N, ticked[N])
  BY ONLY <1>2, <1>9 DEF A
<1> PICK w : w = ticked[N]
  OBVIOUS
<1>11. AllFine(w, meant, D, C) /\ w \in FxStates /\ \A x \in Elements : ElementFine(w, x, meant, D, C)
  BY <1>10 DEF AllFine, FxFine, ElementFine
<1>12. w = [hidden |-> w.hidden, opacity |-> w.opacity, fxshow |-> w.fxshow, queue |-> w.queue,
            timers |-> w.timers, ticking |-> w.ticking]
  BY ONLY <1>11, StateIs
<1> PICK on \in BOOLEAN : on <=> w.timers # <<>>
  <2>1. CASE w.timers # <<>>
    <3>1. TRUE \in BOOLEAN
      OBVIOUS
    <3> QED BY ONLY <2>1, <3>1
  <2>2. CASE ~(w.timers # <<>>)
    <3>1. FALSE \in BOOLEAN
      OBVIOUS
    <3> QED BY ONLY <2>2, <3>1
  <2> QED BY ONLY <2>1, <2>2
<1>13. r = [w EXCEPT !.ticking = w.timers # <<>>]
  BY <1>3
<1>14. r = [w EXCEPT !.ticking = on]
  <2>1. (w.timers # <<>>) = on
    OBVIOUS
  <2> QED BY ONLY <1>13, <2>1
<1>15. r = [hidden |-> w.hidden, opacity |-> w.opacity, fxshow |-> w.fxshow, queue |-> w.queue,
            timers |-> w.timers, ticking |-> on]
  BY ONLY <1>12, <1>14
<1>16. r.hidden = w.hidden /\ r.opacity = w.opacity /\ r.fxshow = w.fxshow /\ r.queue = w.queue
       /\ r.timers = w.timers /\ r.ticking = on
  BY ONLY <1>15
<1>17. r \in FxStates
  BY ONLY <1>11, <1>15, StateIs, on \in BOOLEAN DEF FxStates
<1>18. TicksOn(r)
  BY <1>16 DEF TicksOn
<1>19. ASSUME NEW x \in Elements PROVE ElementFine(r, x, meant, D, B)
  <2>1. ElementFine(w, x, meant, D, C)
    BY <1>11
  <2>2. Kept(w, r, x)
    BY ONLY <1>16 DEF Kept
  <2>3. ElementFine(r, x, meant, D, C)
    BY ONLY <2>1, <2>2, KeptFine
  <2>4. x \notin B => Clean(r, x)
    BY <2>3 DEF ElementFine, Clean
  <2> QED BY ONLY <2>3, <2>4 DEF ElementFine
<1> QED BY ONLY <1>17, <1>18, <1>19 DEF AllFine, FxFine, ElementFine

-------------------------------------------------------------------------------
(* The queue of fades: the invariant *)

LEMMA FxInitOK == FxInit => FxOK
<1> SUFFICES ASSUME FxInit PROVE FxOK
  OBVIOUS
<1>1. wanted \in [Elements -> BOOLEAN] /\ wanted = [e \in Elements |-> FALSE]
  BY DEF FxInit
<1>2. /\ fx.hidden = [e \in Elements |-> FALSE] /\ fx.opacity = [e \in Elements |-> Opaque]
      /\ fx.fxshow = [e \in Elements |-> NoValue] /\ fx.queue = [e \in Elements |-> <<>>]
      /\ fx.timers = <<>> /\ fx.ticking = FALSE
  BY DEF FxInit
<1>3. fx \in FxStates
  <2>1. fx.queue \in [Elements -> Seq(Jobs \cup {Sentinel})]
    <3>1. <<>> \in Seq(Jobs \cup {Sentinel})
      OBVIOUS
    <3> QED BY ONLY <1>2, <3>1
  <2>2. fx.timers \in Seq(Tweens) /\ fx.ticking \in BOOLEAN
    <3>1. <<>> \in Seq(Tweens)
      OBVIOUS
    <3>2. fx.timers \in Seq(Tweens)
      BY ONLY <1>2, <3>1
    <3>3. fx.ticking \in BOOLEAN
      BY ONLY <1>2
    <3> QED BY ONLY <3>2, <3>3
  <2>3. fx.hidden \in [Elements -> BOOLEAN] /\ fx.opacity \in [Elements -> 0..Opaque]
        /\ fx.fxshow \in [Elements -> {NoValue, Opaque}]
    BY ONLY <1>2 DEF Opaque
  <2>4. fx = [hidden |-> fx.hidden, opacity |-> fx.opacity, fxshow |-> fx.fxshow, queue |-> fx.queue,
              timers |-> fx.timers, ticking |-> fx.ticking]
    BY DEF FxInit
  <2> DEFINE Q == Seq(Jobs \cup {Sentinel})
             T == Seq(Tweens)
  <2>5. fx.queue \in [Elements -> Q] /\ fx.timers \in T
    BY <2>1, <2>2
  <2> HIDE DEF Q, T
  <2>6. fx \in [hidden : [Elements -> BOOLEAN], opacity : [Elements -> 0..Opaque],
                fxshow : [Elements -> {NoValue, Opaque}], queue : [Elements -> Q], timers : T, ticking : BOOLEAN]
    BY ONLY <2>2, <2>3, <2>4, <2>5
  <2> QED BY ONLY <2>6 DEF FxStates, Q, T
<1>4. \A e \in Elements : TimersOf(fx.timers, e) = {} /\ OneTimer(fx.timers, e)
  BY ONLY <1>2 DEF TimersOf, OneTimer, Range
<1>5. ASSUME NEW e \in Elements PROVE ElementFine(fx, e, wanted, disturbed, cut)
  BY ONLY <1>1, <1>2, <1>4, e \in Elements DEF ElementFine, Faded, Clean, Comes
<1> QED BY <1>1, <1>2, <1>3, <1>5 DEF FxOK, FxFine, ElementFine, TimersTick

LEMMA FxNow == FxOK <=> wanted \in [Elements -> BOOLEAN] /\ AllFine(fx, wanted, disturbed, cut)
  BY DEF FxOK, AllFine, TicksOn, TimersTick

LEMMA FxThen == FxOK' <=> wanted' \in [Elements -> BOOLEAN] /\ AllFine(fx', wanted', disturbed', cut')
  BY DEF FxOK, AllFine, TicksOn, TimersTick, FxFine, Faded, Clean, Comes, FxStates

LEMMA FxNextOK ==
  ASSUME FxOK, [FxNext]_fxVars
  PROVE  FxOK'
<1>1. wanted \in [Elements -> BOOLEAN] /\ AllFine(fx, wanted, disturbed, cut)
  BY FxNow
<1>2. ASSUME NEW e \in Elements, NEW job \in Jobs, Animate(e, job) PROVE FxOK'
  <2>1. fx' = animate(fx, e, job) /\ disturbed' = disturbed
    BY <1>2 DEF Animate
  <2>2. wanted' = [wanted EXCEPT ![e] = Wants(job.kind, wanted[e])]
    <3>1. job.kind \in Kinds
      BY DEF Jobs, Kinds
    <3>2. (CASE job.kind = "hide" -> TRUE [] job.kind = "show" -> FALSE [] job.kind = "toggle" -> ~wanted[e])
             = Wants(job.kind, wanted[e])
      BY ONLY <3>1 DEF Wants, Kinds
    <3> QED BY ONLY <1>2, <3>2 DEF Animate
  <2>3. AllFine(fx', wanted', disturbed', cut)
    BY ONLY <1>1, <2>1, <2>2, e \in Elements, job \in Jobs, AnimateFine
  <2>4. cut' = IF fx'.queue[e] = <<>> /\ fx'.fxshow[e] = NoValue THEN cut \ {e} ELSE cut
    BY <1>2 DEF Animate
  <2>5. ASSUME NEW x \in Elements, x \notin cut' PROVE Clean(fx', x)
    <3>1. CASE x \in cut
      BY ONLY <2>4, <2>5, <3>1 DEF Clean
    <3>2. CASE x \notin cut
      BY ONLY <2>3, <3>2, x \in Elements DEF AllFine, FxFine
    <3> QED BY ONLY <3>1, <3>2
  <2>6. AllFine(fx', wanted', disturbed', cut')
    BY ONLY <2>3, <2>5 DEF AllFine, FxFine
  <2>7. wanted' \in [Elements -> BOOLEAN]
    BY ONLY <1>1, <2>2, WantsBool
  <2> QED BY <2>6, <2>7, FxThen
<1>3. ASSUME NEW e \in Elements, NEW hide \in BOOLEAN, ShowHide(e, hide) PROVE FxOK'
  <2>1. /\ fx' = [fx EXCEPT !.hidden[e] = hide] /\ wanted' = [wanted EXCEPT ![e] = hide] /\ cut' = cut
        /\ disturbed' = IF fx.queue[e] = <<>> THEN disturbed \ {e} ELSE disturbed \cup {e}
    BY <1>3 DEF ShowHide
  <2>2. AllFine(fx', wanted', disturbed', cut')
    BY <1>1, <2>1, ShowHideFine
  <2>3. wanted' \in [Elements -> BOOLEAN]
    BY ONLY <1>1, <2>1, hide \in BOOLEAN
  <2> QED BY <2>2, <2>3, FxThen
<1>4. ASSUME NEW e \in Elements, NEW clearQueue \in BOOLEAN, NEW gotoEnd \in BOOLEAN,
             Stop(e, clearQueue, gotoEnd)
      PROVE  FxOK'
  <2>1. /\ fx' = stop(fx, e, clearQueue, gotoEnd) /\ wanted' = wanted /\ disturbed' = disturbed \cup {e}
        /\ cut' = IF InProgress(fx, e) /\ ~gotoEnd THEN cut \cup {e} ELSE cut
    BY <1>4 DEF Stop
  <2>2. AllFine(fx', wanted, disturbed', cut')
    BY <1>1, <2>1, StopFine
  <2> QED BY <1>1, <2>1, <2>2, FxThen
<1>5. ASSUME Tick PROVE FxOK'
  <2>1. /\ fx' = tick(fx) /\ wanted' = wanted /\ disturbed' = disturbed /\ fx.ticking
        /\ cut' = {e \in cut : fx'.queue[e] # <<>> \/ fx'.fxshow[e] # NoValue}
    BY <1>5 DEF Tick
  <2>2. AllFine(fx', wanted, disturbed, cut')
    BY <1>1, <2>1, TickFine
  <2> QED BY <1>1, <2>1, <2>2, FxThen
<1>6. CASE UNCHANGED fxVars
  BY <1>1, <1>6, FxThen DEF fxVars
<1> QED BY <1>2, <1>3, <1>4, <1>5, <1>6 DEF FxNext

LEMMA FadesAre == FxOK => FadesCorrect
<1> SUFFICES ASSUME FxOK PROVE FadesCorrect
  OBVIOUS
<1>1. fx \in FxStates /\ \A e \in Elements : ElementFine(fx, e, wanted, disturbed, cut)
  BY DEF FxOK, FxFine, ElementFine
<1>2. /\ fx.hidden \in [Elements -> BOOLEAN] /\ fx.opacity \in [Elements -> 0..Opaque]
      /\ fx.fxshow \in [Elements -> {NoValue, Opaque}]
      /\ fx.queue \in [Elements -> Seq(Jobs \cup {Sentinel})]
      /\ fx.timers \in Seq(Tweens) /\ fx.ticking \in BOOLEAN
  BY ONLY <1>1, StateIs
<1>3. FxTypeOK
  <2>1. fx.fxshow \in [Elements -> {NoValue} \cup 0..Opaque]
    <3>1. {NoValue, Opaque} \subseteq {NoValue} \cup 0..Opaque
      BY DEF Opaque
    <3> QED BY ONLY <1>2, <3>1
  <2>2. ASSUME NEW e \in Elements PROVE Range(fx.queue[e]) \subseteq Jobs \cup {Sentinel}
    <3>1. fx.queue[e] \in Seq(Jobs \cup {Sentinel})
      BY ONLY <1>2, e \in Elements
    <3>2. \A i \in DOMAIN fx.queue[e] : fx.queue[e][i] \in Jobs \cup {Sentinel}
      BY ONLY <3>1, ElementOfSeq, LenProperties
    <3> QED BY ONLY <3>2 DEF Range
  <2> QED BY <1>2, <2>1, <2>2 DEF FxTypeOK
<1>4. SentinelHeld
  <2> SUFFICES ASSUME NEW e \in Elements
               PROVE  Cardinality({i \in DOMAIN fx.timers : fx.timers[i].elem = e}) =
                        IF InProgress(fx, e) THEN 1 ELSE 0
    BY DEF SentinelHeld
  <2>1. Faded(fx, e)
    BY <1>1 DEF ElementFine
  <2> DEFINE P == {i \in DOMAIN fx.timers : fx.timers[i].elem = e}
  <2>2. CASE fx.queue[e] = <<>>
    <3>1. P = {}
      BY <2>1, <2>2 DEF Faded, TimersOf, Range
    <3>2. ~InProgress(fx, e)
      BY <2>2 DEF InProgress
    <3> QED BY <3>1, <3>2, FS_EmptySet
  <2>3. CASE fx.queue[e] # <<>>
    <3>1. \E i \in P : P = {i}
      BY <2>1, <2>3 DEF Faded, TimersOf, OneTimer, Range
    <3>2. InProgress(fx, e)
      BY <2>1, <2>3 DEF InProgress, Faded
    <3> HIDE DEF P
    <3>3. Cardinality(P) = 1
      BY <3>1, FS_Singleton
    <3> QED BY <3>2, <3>3 DEF P
  <2> QED BY <2>2, <2>3
<1>5. TimersTick
  BY DEF FxOK
<1>6. OpacityRestored
  BY <1>1 DEF OpacityRestored, ElementFine, Faded, Clean
<1>7. ShownAsAsked
  BY <1>1 DEF ShownAsAsked, ElementFine, Comes
<1> QED BY <1>3, <1>4, <1>5, <1>6, <1>7 DEF FadesCorrect

-------------------------------------------------------------------------------
(* The scripts together: a step is one of a script, and leaves the others  *)
(* alone.                                                                  *)

EachSteps ==
  /\ [AjaxNext]_ajaxVars /\ [ListNext]_listVars /\ [DeferredNext]_deferredVars
  /\ [FxNext]_fxVars /\ [EventNext]_eventVars

LEMMA StepOfEach == [Next]_scriptVars => EachSteps
<1> SUFFICES ASSUME [Next]_scriptVars PROVE EachSteps
  OBVIOUS
<1>1. CASE UNCHANGED scriptVars
  BY <1>1 DEF scriptVars, EachSteps
<1>2. CASE AjaxStep
  BY <1>2 DEF AjaxStep, EachSteps
<1>3. CASE ListStep
  BY <1>3 DEF ListStep, EachSteps
<1>4. CASE DeferredStep
  BY <1>4 DEF DeferredStep, EachSteps
<1>5. CASE FxStep
  BY <1>5 DEF FxStep, EachSteps
<1>6. CASE EventStep
  BY <1>6 DEF EventStep, EachSteps
<1>7. CASE EffectsStep
  BY <1>7 DEF EffectsStep, EachSteps
<1> QED BY <1>1, <1>2, <1>3, <1>4, <1>5, <1>6, <1>7 DEF Next

(* What each of them keeps, as one invariant. *)
ScriptsOK == RequestsCounted /\ CallsOK /\ DeferredOK /\ FxOK /\ EventsOK

(* The first states of the scripts, and every step of one of them, are as  *)
(* their lemmas say.                                                       *)
THEOREM ScriptsInvariant == Spec => []ScriptsOK
<1>1. Init => ScriptsOK
  <2>1. ASSUME Init PROVE AjaxInit /\ ListInit /\ DeferredInit /\ FxInit /\ EventInit
    BY <2>1 DEF Init
  <2> QED BY <2>1, RequestsInit, ListInitOK, DeferredInitOK, FxInitOK, EventInitOK DEF ScriptsOK
<1>2. ScriptsOK /\ [Next]_scriptVars => ScriptsOK'
  <2> SUFFICES ASSUME ScriptsOK, [Next]_scriptVars PROVE ScriptsOK'
    OBVIOUS
  <2>1. EachSteps
    BY StepOfEach
  <2>2. RequestsCounted'
    BY <2>1, AjaxStepCounts DEF EachSteps, ScriptsOK
  <2>3. CallsOK'
    BY <2>1, ListNextOK DEF EachSteps, ScriptsOK
  <2>4. DeferredOK'
    BY <2>1, DeferredNextOK DEF EachSteps, ScriptsOK
  <2>5. FxOK'
    BY <2>1, FxNextOK DEF EachSteps, ScriptsOK
  <2>6. EventsOK'
    BY <2>1, EventNextOK DEF EachSteps, ScriptsOK
  <2> QED BY <2>2, <2>3, <2>4, <2>5, <2>6 DEF ScriptsOK
<1> QED BY <1>1, <1>2, PTL DEF Spec

(* The counter of jQuery counts the requests under way and those whose     *)
(* callback threw, and the bar's progress is under way exactly while it is *)
(* above zero, for any requests and however they end.                      *)
THEOREM Counted == Spec => []RequestsCounted
<1>1. ScriptsOK => RequestsCounted
  BY DEF ScriptsOK
<1> QED BY <1>1, ScriptsInvariant, PTL

(* A round of a list calls each of its callbacks once, and a deferred      *)
(* settles in one way and calls every handler of that way once, for any    *)
(* callbacks and handlers that add, remove, fire, settle and throw while   *)
(* lists are being fired.                                                  *)
THEOREM EachIsCalled == Spec => []CallbacksCorrect
<1>1. ScriptsOK => CallbacksCorrect
  BY CallsTyped, DeferredCorrect DEF ScriptsOK, CallbacksCorrect
<1> QED BY <1>1, ScriptsInvariant, PTL

(* However fades, shows, hides and stops overlap, the queue of an element  *)
(* goes on, its timer runs, and it ends as it was asked to, with its       *)
(* opacity: for any elements, stops and numbers of jobs that wait.         *)
THEOREM FadesEndAsAsked == Spec => []FadesCorrect
<1>1. ScriptsOK => FadesCorrect
  BY FadesAre DEF ScriptsOK
<1> QED BY <1>1, ScriptsInvariant, PTL

(* The delegated handlers stay in front of the list of their node, as many *)
(* as it counts, and a handler runs only where it was bound or delegated   *)
(* to, whatever handlers add and remove during a dispatch, on a path of    *)
(* any length.                                                             *)
THEOREM HandlersAreKept == Spec => []HandlersCorrect
<1>1. ScriptsOK => HandlersCorrect
  BY EventsHandled DEF ScriptsOK
<1> QED BY <1>1, ScriptsInvariant, PTL

(* A list calls in the order of its fires, a deferred says no progress     *)
(* after it is settled, and an event goes from its target outwards, at     *)
(* most as far as a handler lets it.                                       *)
THEOREM CallsComeInOrder == Spec => CallsInOrder
<1>1. ScriptsOK /\ [Next]_scriptVars =>
        [fires' # 0 => /\ cbList'.data >= cbList.data
                       /\ "once" \in cbList.options /\ cbList.fired => cbList'.data = cbList.data]_listVars
  <2> SUFFICES ASSUME ScriptsOK, [Next]_scriptVars PROVE fires' # 0 => InOrder
    BY DEF InOrder
  <2>1. CallsOK /\ [ListNext]_listVars
    BY StepOfEach DEF EachSteps, ScriptsOK
  <2> QED BY <2>1, ListNextOK
<1>2. ScriptsOK /\ [Next]_scriptVars =>
        [dstate # "pending" /\ notices' # notices =>
           frames' = frames /\ lists'["progress"].data = lists["progress"].data]_deferredVars
  <2> SUFFICES ASSUME ScriptsOK, [Next]_scriptVars, dstate # "pending", notices' # notices
               PROVE  frames' = frames /\ lists'["progress"].data = lists["progress"].data
    OBVIOUS
  <2>1. DeferredOK /\ [DeferredNext]_deferredVars
    BY StepOfEach DEF EachSteps, ScriptsOK
  <2> QED BY <2>1, DeferredNextOK
<1>3. ScriptsOK /\ [Next]_scriptVars =>
        [run' # run /\ run'.at = run.at /\ run.at # 0 /\ node # 0 =>
           /\ run'.elem >= run.elem
           /\ stopped = "propagation" => run'.elem = run.elem
           /\ stopped # "immediate"]_eventVars
  <2> SUFFICES ASSUME ScriptsOK, [Next]_scriptVars,
                      run' # run, run'.at = run.at, run.at # 0, node # 0
               PROVE  /\ run'.elem >= run.elem
                      /\ stopped = "propagation" => run'.elem = run.elem
                      /\ stopped # "immediate"
    OBVIOUS
  <2>1. EventsOK /\ [EventNext]_eventVars
    BY StepOfEach DEF EachSteps, ScriptsOK
  <2> QED BY <2>1, EventsGoOutwards
<1> QED
  BY <1>1, <1>2, <1>3, ScriptsInvariant, PTL
     DEF Spec, CallsInOrder, InOrderOfFires, NoNoticeAfterSettled, GoesOutwards
================================================================================
