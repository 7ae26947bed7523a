-------------------------- MODULE InteractionsProofs --------------------------
(***************************************************************************)
(* Theorems about the widgets that an answer, a timer or a hand on the     *)
(* mouse may reach at any time: the autocompletion, spinner, slider,       *)
(* tooltips, presses of the mouse, the lasso, drags and sorts.             *)
(***************************************************************************)
EXTENDS MCWidgets, FiniteSetTheorems, SequenceTheorems, WellFoundedInduction, TLAPS

-------------------------------------------------------------------------------
(* Autocompletion.                                                         *)

AcRequests == [term : Texts, newest : BOOLEAN]
Fields_ac ==
  [source : {"array", "url", "function"}, value : Texts, term : Texts, searching : BOOLEAN,
   requests : Seq(AcRequests), pending : Int, loading : BOOLEAN, cancelSearch : BOOLEAN,
   open : BOOLEAN, items : Contents, active : Nat, focused : BOOLEAN, asked : Texts, shown : Texts]

(* The newest request is for the term that was asked last. *)
NewestIsAsked(s) == \A i \in DOMAIN s.requests : s.requests[i].newest => s.requests[i].term = s.asked

MenuFollows(s) ==
  /\ s.active <= Len(s.items)
  /\ s.open => s.shown = s.asked \/ \E i \in DOMAIN s.requests : s.requests[i].newest
  /\ s.open => s.focused
  /\ ~s.focused => ~s.searching /\ (s.cancelSearch \/ s.requests = <<>>)

PendingFollows(s) ==
  /\ s.pending = Len(s.requests) /\ (s.loading <=> s.requests # <<>>)
  /\ s.source = "array" => s.requests = <<>>
  /\ s.source = "url" => Len(s.requests) <= 1

AcCorrect(s) == s \in Fields_ac /\ NewestIsAsked(s) /\ MenuFollows(s) /\ PendingFollows(s)

LEMMA ContentsAre == Contents \subseteq Seq(Texts)
<1> DEFINE S == Texts \ {Short}
           n == Cardinality(S)
<1>1. IsFiniteSet(S) /\ n \in Nat
  BY AutocompleteAssumption, FS_RemoveElement, FS_CardinalityType
<1>2. SetToSeq(S) \in Seq(S)
  <2>1. ExistsBijection(1..n, S)
    BY <1>1, FS_CardinalityType
  <2>2. \E f \in [1..n -> S] : IsInjective(f)
    BY <2>1 DEF ExistsBijection, Bijection, Injection, IsInjective
  <2>3. SetToSeq(S) \in [1..n -> S]
    BY <2>2 DEF SetToSeq
  <2> DEFINE f == SetToSeq(S)
  <2> HIDE DEF n, S, f
  <2>4. f \in [1..n -> S] => f \in Seq(S)
    BY <1>1, IsASeq
  <2> QED BY <2>3, <2>4 DEF f
<1>3. SetToSeq(S) \in Seq(Texts) /\ <<>> \in Seq(Texts) /\ \A x \in S : <<x>> \in Seq(Texts)
  <2>1. S \subseteq Texts
    OBVIOUS
  <2> HIDE DEF S
  <2>2. Seq(S) \subseteq Seq(Texts)
    BY <2>1, SeqMonotonic
  <2> QED BY <1>2, <2>1, <2>2
<1> QED BY <1>3 DEF Contents

LEMMA ResponseIs ==
  ASSUME NEW s \in Fields_ac, NEW r \in AcRequests, NEW content \in Contents,
         NEW t, t = response(s, r, content)
  PROVE  /\ t \in Fields_ac /\ t.pending = s.pending - 1 /\ t.loading = (s.pending # 1)
         /\ t.source = s.source /\ t.requests = s.requests /\ t.value = s.value /\ t.term = s.term
         /\ t.searching = s.searching /\ t.cancelSearch = s.cancelSearch
         /\ t.focused = s.focused /\ t.asked = s.asked
         /\ ~r.newest => t.open = s.open /\ t.items = s.items /\ t.active = s.active /\ t.shown = s.shown
         /\ r.newest => t.active = 0
         /\ r.newest /\ t.open => t.shown = r.term /\ ~s.cancelSearch
<1> DEFINE shown == IF ~r.newest THEN s
                    ELSE IF content # <<>> /\ ~s.cancelSearch
                    THEN [s EXCEPT !.open = TRUE, !.items = content, !.active = 0, !.shown = r.term]
                    ELSE closeMenu(s)
<1>0. r.term \in Texts /\ r.newest \in BOOLEAN
  BY DEF AcRequests
<1>1. /\ shown \in Fields_ac /\ shown.pending = s.pending
      /\ shown.source = s.source /\ shown.requests = s.requests /\ shown.value = s.value
      /\ shown.term = s.term /\ shown.searching = s.searching
      /\ shown.cancelSearch = s.cancelSearch /\ shown.focused = s.focused /\ shown.asked = s.asked
      /\ ~r.newest => shown = s
      /\ r.newest => shown.active = 0
      /\ r.newest /\ shown.open => shown.shown = r.term /\ ~s.cancelSearch
  <2>1. CASE ~r.newest
    BY <2>1
  <2>2. CASE r.newest /\ content # <<>> /\ ~s.cancelSearch
    <3>1. shown = [s EXCEPT !.open = TRUE, !.items = content, !.active = 0, !.shown = r.term]
      BY <2>2
    <3> HIDE DEF shown
    <3> QED BY <1>0, <2>2, <3>1 DEF Fields_ac
  <2>3. CASE r.newest /\ ~(content # <<>> /\ ~s.cancelSearch)
    <3>1. shown = [s EXCEPT !.open = FALSE, !.active = 0]
      BY <2>3 DEF closeMenu
    <3> HIDE DEF shown
    <3> QED BY <2>3, <3>1 DEF Fields_ac
  <2> QED BY <2>1, <2>2, <2>3
<1>2. t = [shown EXCEPT !.pending = shown.pending - 1, !.loading = (s.pending # 1)]
  BY DEF response
<1> HIDE DEF shown
<1> DEFINE fewer == shown.pending - 1
           loads == s.pending # 1
<1>3. fewer \in Int /\ fewer = s.pending - 1
  BY <1>1 DEF Fields_ac
<1>4. loads \in BOOLEAN
  OBVIOUS
<1>5. t = [shown EXCEPT !.pending = fewer, !.loading = loads]
  BY <1>2
<1>6. loads = (s.pending # 1)
  OBVIOUS
<1> HIDE DEF fewer, loads
<1>7. t \in Fields_ac /\ t.pending = fewer /\ t.loading = loads
  BY <1>1, <1>3, <1>4, <1>5 DEF Fields_ac
<1> QED BY <1>1, <1>3, <1>5, <1>6, <1>7 DEF Fields_ac

(* An answer, however late. *)
LEMMA RespondStep ==
  ASSUME AcCorrect(ac), NEW i, NEW content \in Contents, Respond(i, content)
  PROVE  AcCorrect(ac)'
<1> DEFINE n == Len(ac.requests)
           rest == RemoveAt(ac.requests, i)
           s == [ac EXCEPT !.requests = rest]
           r == ac.requests[i]
<1>1. ac \in Fields_ac /\ NewestIsAsked(ac) /\ MenuFollows(ac) /\ PendingFollows(ac)
  BY DEF AcCorrect
<1>2. ac.requests \in Seq(AcRequests) /\ n \in Nat /\ i \in 1..n /\ r \in AcRequests
  BY <1>1 DEF Respond, Fields_ac
<1>3. /\ rest \in Seq(AcRequests) /\ Len(rest) = n - 1
      /\ \A j \in 1..n - 1 : rest[j] = IF j < i THEN ac.requests[j] ELSE ac.requests[j + 1]
  <2>1. /\ SubSeq(ac.requests, 1, i - 1) \in Seq(AcRequests) /\ Len(SubSeq(ac.requests, 1, i - 1)) = i - 1
        /\ \A j \in 1..i - 1 : SubSeq(ac.requests, 1, i - 1)[j] = ac.requests[j]
    BY <1>2
  <2>2. /\ SubSeq(ac.requests, i + 1, n) \in Seq(AcRequests) /\ Len(SubSeq(ac.requests, i + 1, n)) = n - i
        /\ \A j \in 1..n - i : SubSeq(ac.requests, i + 1, n)[j] = ac.requests[i + j]
    BY <1>2
  <2> DEFINE u == SubSeq(ac.requests, 1, i - 1)
             v == SubSeq(ac.requests, i + 1, n)
  <2>3. rest = u \o v
    BY DEF RemoveAt
  <2>4. u \in Seq(AcRequests) /\ v \in Seq(AcRequests) /\ Len(u) = i - 1 /\ Len(v) = n - i
    BY <2>1, <2>2
  <2>5. rest \in Seq(AcRequests) /\ Len(rest) = n - 1
    <3> HIDE DEF u, v, rest, n
    <3>1. u \o v \in Seq(AcRequests) /\ Len(u \o v) = Len(u) + Len(v)
      BY <2>4, ConcatProperties
    <3> QED BY <1>2, <2>3, <2>4, <3>1
  <2>6. ASSUME NEW j \in 1..n - 1
        PROVE  rest[j] = IF j < i THEN ac.requests[j] ELSE ac.requests[j + 1]
    <3>1. CASE j < i
      <4>1. rest[j] = u[j]
        <5> HIDE DEF u, v, rest
        <5> QED BY <1>2, <2>3, <2>4, <3>1, ConcatProperties
      <4> QED BY <1>2, <2>1, <3>1, <4>1
    <3>2. CASE ~(j < i)
      <4>1. rest[j] = v[j - (i - 1)]
        <5> HIDE DEF u, v, rest
        <5>1. Len(u) + Len(v) = n - 1 /\ j \in 1..Len(u) + Len(v) /\ ~(j <= Len(u))
          BY <1>2, <2>4, <3>2
        <5>2. (u \o v)[j] = v[j - Len(u)]
          BY <2>4, <5>1, ConcatProperties
        <5> QED BY <2>3, <2>4, <5>2
      <4>2. j - (i - 1) \in 1..n - i /\ i + (j - (i - 1)) = j + 1
        BY <1>2, <3>2
      <4> QED BY <2>2, <3>2, <4>1, <4>2
    <3> QED BY <3>1, <3>2
  <2> QED BY <2>5, <2>6
<1>4. ac' = response(s, r, content)
  BY DEF Respond
<1> HIDE DEF rest
<1>5. /\ s \in Fields_ac /\ s.requests = rest /\ s.pending = ac.pending /\ s.source = ac.source
      /\ s.searching = ac.searching /\ s.cancelSearch = ac.cancelSearch /\ s.focused = ac.focused
      /\ s.asked = ac.asked /\ s.shown = ac.shown /\ s.open = ac.open /\ s.items = ac.items
      /\ s.active = ac.active
  BY <1>1, <1>3 DEF Fields_ac
<1> HIDE DEF s
<1>6. /\ ac' \in Fields_ac /\ ac'.pending = s.pending - 1 /\ ac'.loading = (s.pending # 1)
      /\ ac'.source = s.source /\ ac'.requests = rest
      /\ ac'.searching = s.searching /\ ac'.cancelSearch = s.cancelSearch
      /\ ac'.focused = s.focused /\ ac'.asked = s.asked
      /\ ~r.newest => ac'.open = s.open /\ ac'.items = s.items /\ ac'.active = s.active /\ ac'.shown = s.shown
      /\ r.newest => ac'.active = 0
      /\ r.newest /\ ac'.open => ac'.shown = r.term /\ ~s.cancelSearch
  BY <1>2, <1>4, <1>5, ResponseIs
<1> DEFINE e == ac'
<1>7. NewestIsAsked(e)
  <2>1. ASSUME NEW j \in DOMAIN rest, rest[j].newest PROVE rest[j].term = ac.asked
    <3>1. j \in 1..n - 1
      BY <1>3, <2>1
    <3>2. PICK k \in 1..n : rest[j] = ac.requests[k]
      BY <1>2, <1>3, <3>1
    <3> QED BY <1>1, <1>2, <2>1, <3>2 DEF NewestIsAsked
  <2> QED BY <1>5, <1>6, <2>1 DEF NewestIsAsked
<1>8. PendingFollows(e)
  <2>1. Len(rest) = n - 1 /\ n \in Nat /\ ac.pending = n /\ (rest = <<>> <=> n = 1)
    <3>1. ac.pending = n
      BY <1>1 DEF PendingFollows
    <3>2. rest = <<>> <=> Len(rest) = 0
      BY <1>3, EmptySeq
    <3> HIDE DEF n
    <3> QED BY <1>2, <1>3, <3>1, <3>2
  <2>2. ac.source # "array" /\ (ac.source = "url" => n <= 1)
    BY <1>1, <1>2 DEF PendingFollows
  <2>3. e.pending = Len(e.requests) /\ (e.source = "url" => Len(e.requests) <= 1) /\ e.source # "array"
    BY <1>2, <1>5, <1>6, <2>1, <2>2
  <2>4. e.loading <=> e.requests # <<>>
    BY <1>5, <1>6, <2>1
  <2> QED BY <2>3, <2>4 DEF PendingFollows
<1>9. MenuFollows(e)
  <2>1. n # 0 /\ ac.requests # <<>>
    BY <1>2
  <2>2. CASE ~r.newest
    <3>1. (\E j \in DOMAIN ac.requests : ac.requests[j].newest) => \E j \in DOMAIN rest : rest[j].newest
      <4>1. ASSUME NEW j \in DOMAIN ac.requests, ac.requests[j].newest
            PROVE  \E k \in DOMAIN rest : rest[k].newest
        <5>1. j \in 1..n /\ j # i
          BY <1>2, <2>2, <4>1
        <5>2. CASE j < i
          <6>1. j \in 1..n - 1 /\ rest[j] = ac.requests[j]
            BY <1>2, <1>3, <5>1, <5>2
          <6>2. j \in DOMAIN rest
            BY <1>2, <1>3, <6>1
          <6> QED BY <4>1, <6>1, <6>2
        <5>3. CASE i < j
          <6>1. j - 1 \in 1..n - 1 /\ ~(j - 1 < i) /\ (j - 1) + 1 = j
            BY <1>2, <5>1, <5>3
          <6>2. rest[j - 1] = ac.requests[j]
            BY <1>3, <6>1
          <6>3. j - 1 \in DOMAIN rest
            BY <1>2, <1>3, <6>1
          <6> QED BY <4>1, <6>2, <6>3
        <5> QED BY <1>2, <5>1, <5>2, <5>3
      <4> QED BY <4>1
    <3> QED BY <1>1, <1>5, <1>6, <2>1, <2>2, <3>1 DEF MenuFollows
  <2>3. CASE r.newest
    <3>1. r.term = ac.asked
      BY <1>1, <1>2, <2>3 DEF NewestIsAsked
    <3>2. e.items \in Contents /\ Len(e.items) \in Nat
      BY <1>6, ContentsAre DEF Fields_ac
    <3> QED BY <1>1, <1>5, <1>6, <2>1, <2>3, <3>1, <3>2 DEF MenuFollows
  <2> QED BY <1>2, <2>2, <2>3
<1> QED BY <1>6, <1>7, <1>8, <1>9 DEF AcCorrect

LEMMA CloseAllStep ==
  ASSUME NEW s, AcCorrect(s), NEW t, t = closeAll(s)
  PROVE  /\ AcCorrect(t) /\ t.requests = s.requests /\ t.cancelSearch /\ ~t.open
         /\ t.focused = s.focused /\ t.searching = s.searching /\ t.active = 0
<1>0. s \in Fields_ac /\ NewestIsAsked(s) /\ MenuFollows(s) /\ PendingFollows(s)
  BY DEF AcCorrect
<1>1. t = [s EXCEPT !.open = FALSE, !.active = 0, !.cancelSearch = TRUE]
  <2> DEFINE u == [s EXCEPT !.open = FALSE, !.active = 0]
  <2>1. t = [u EXCEPT !.cancelSearch = TRUE]
    BY DEF closeAll, closeMenu
  <2>2. s \in Fields_ac
    BY <1>0
  <2> QED BY <2>1, <2>2 DEF Fields_ac
<1>2. /\ t \in Fields_ac /\ t.requests = s.requests /\ t.pending = s.pending
      /\ t.source = s.source /\ t.searching = s.searching /\ t.focused = s.focused
      /\ t.cancelSearch /\ t.asked = s.asked /\ ~t.open /\ t.items = s.items /\ t.active = 0
      /\ t.loading = s.loading
  <2>1. s \in Fields_ac
    BY <1>0
  <2>2. t \in Fields_ac
    <3> DEFINE u == [s EXCEPT !.open = FALSE, !.active = 0]
    <3>1. u \in Fields_ac
      BY <2>1 DEF Fields_ac
    <3>2. t = [u EXCEPT !.cancelSearch = TRUE]
      BY DEF closeAll, closeMenu
    <3> HIDE DEF u
    <3> QED BY <3>1, <3>2 DEF Fields_ac
  <2>3. t.cancelSearch = TRUE /\ t.open = FALSE /\ t.active = 0
    BY <2>1, <1>1 DEF Fields_ac
  <2>4. /\ t.requests = s.requests /\ t.pending = s.pending /\ t.source = s.source
        /\ t.asked = s.asked /\ t.items = s.items
    BY <2>1, <1>1 DEF Fields_ac
  <2>5. t.searching = s.searching /\ t.focused = s.focused /\ t.loading = s.loading
    BY <2>1, <1>1 DEF Fields_ac
  <2> QED BY <2>2, <2>3, <2>4, <2>5
<1>3. Len(t.items) \in Nat
  BY <1>2, ContentsAre DEF Fields_ac
<1> QED BY <1>0, <1>2, <1>3 DEF AcCorrect, NewestIsAsked, MenuFollows, PendingFollows

LEMMA AskStep ==
  ASSUME NEW s, AcCorrect(s), s.focused, NEW content \in Contents,
         s.source # "array" => content = <<>>, NEW t, t = askSource(s, content)
  PROVE  AcCorrect(t)
<1> DEFINE request == [term |-> s.value, newest |-> TRUE]
           overtaken == [i \in DOMAIN s.requests |-> [s.requests[i] EXCEPT !.newest = FALSE]]
           asking == [s EXCEPT !.pending = @ + 1, !.loading = TRUE, !.cancelSearch = FALSE,
                               !.asked = s.value, !.requests = overtaken]
           n == Len(s.requests)
<1>0. s \in Fields_ac /\ NewestIsAsked(s) /\ MenuFollows(s) /\ PendingFollows(s)
      /\ s.requests \in Seq(AcRequests) /\ s.value \in Texts /\ n \in Nat /\ DOMAIN s.requests = 1..n
      /\ s.pending = n
  BY DEF AcCorrect, Fields_ac, PendingFollows
<1>1. request \in AcRequests /\ request.newest /\ request.term = s.value
  BY <1>0 DEF AcRequests
<1>2. /\ overtaken \in Seq(AcRequests) /\ Len(overtaken) = n
      /\ \A i \in 1..n : overtaken[i] \in AcRequests /\ ~overtaken[i].newest
  <2>1. ASSUME NEW i \in 1..n
        PROVE  overtaken[i] \in AcRequests /\ ~overtaken[i].newest
    <3>1. s.requests[i] \in AcRequests
      BY <1>0
    <3>2. overtaken[i] = [s.requests[i] EXCEPT !.newest = FALSE]
      BY <1>0
    <3> HIDE DEF overtaken
    <3> QED BY <3>1, <3>2 DEF AcRequests
  <2>2. DOMAIN overtaken = 1..n
    BY <1>0
  <2>3. overtaken = [i \in 1..n |-> overtaken[i]]
    BY <1>0
  <2> HIDE DEF overtaken, n
  <2> QED BY <1>0, <2>1, <2>3
<1>3. /\ asking \in Fields_ac /\ asking.requests = overtaken /\ asking.pending = n + 1
      /\ asking.loading /\ ~asking.cancelSearch /\ asking.asked = s.value
      /\ asking.source = s.source /\ asking.searching = s.searching /\ asking.focused = TRUE
      /\ asking.open = s.open /\ asking.items = s.items /\ asking.active = s.active
      /\ asking.shown = s.shown
  <2> DEFINE p == s.pending + 1
  <2>1. p \in Int /\ p = n + 1
    BY <1>0
  <2>2. asking = [s EXCEPT !.pending = p, !.loading = TRUE, !.cancelSearch = FALSE,
                           !.asked = s.value, !.requests = overtaken]
    OBVIOUS
  <2> DEFINE a == asking
  <2> HIDE DEF overtaken, n, p, a
  <2>3. a = [s EXCEPT !.pending = p, !.loading = TRUE, !.cancelSearch = FALSE,
                           !.asked = s.value, !.requests = overtaken]
    BY <2>2 DEF a
  <2>4. /\ a \in Fields_ac /\ a.requests = overtaken /\ a.pending = n + 1
        /\ a.loading /\ ~a.cancelSearch /\ a.asked = s.value
        /\ a.source = s.source /\ a.searching = s.searching /\ a.focused = TRUE
        /\ a.open = s.open /\ a.items = s.items /\ a.active = s.active
        /\ a.shown = s.shown
    BY <1>0, <1>2, <2>1, <2>3 DEF Fields_ac
  <2> QED BY <2>4 DEF a
<1>4. /\ s.source = "array" => t = response(asking, request, content)
      /\ s.source = "function" => t = [asking EXCEPT !.requests = Append(@, request)]
      /\ s.source = "url" => t = [IF overtaken = <<>> THEN asking ELSE response(asking, Last(overtaken), <<>>)
                                    EXCEPT !.requests = <<request>>]
  BY DEF askSource
<1>5. s.source \in {"array", "url", "function"} /\ s.active <= Len(s.items) /\ s.active \in Nat
      /\ Len(s.items) \in Nat /\ (s.open => s.focused) /\ s.items \in Contents
  BY <1>0, ContentsAre DEF Fields_ac, MenuFollows
<1> HIDE DEF asking, request, overtaken
<1>6. CASE s.source = "array"
  <2>1. n = 0 /\ overtaken = <<>>
    BY <1>0, <1>2, <1>6, EmptySeq DEF PendingFollows
  <2>2. t = response(asking, request, content)
    BY <1>4, <1>6
  <2>6. asking \in Fields_ac
    BY <1>3
  <2>7. request \in AcRequests /\ request.newest
    BY <1>1
  <2>3. /\ t \in Fields_ac /\ t.pending = asking.pending - 1 /\ t.loading = (asking.pending # 1)
        /\ t.source = asking.source /\ t.requests = asking.requests
        /\ t.searching = asking.searching /\ t.cancelSearch = asking.cancelSearch
        /\ t.focused = asking.focused /\ t.asked = asking.asked
        /\ t.active = 0
        /\ t.open => t.shown = request.term
    BY <2>2, <2>6, <2>7, ResponseIs
  <2>4. Len(t.items) \in Nat
    BY <2>3, ContentsAre DEF Fields_ac
  <2>5. t.pending = 0 /\ Len(t.requests) = 0 /\ t.requests = <<>> /\ ~t.loading
    <3>1. asking.pending = 1 /\ asking.requests = <<>>
      BY <1>3, <2>1
    <3>2. t.pending = 0 /\ t.requests = <<>>
      BY <2>3, <3>1
    <3>3. t.loading = FALSE
      BY <2>3, <3>1
    <3> QED BY <3>2, <3>3
  <2> QED BY <1>1, <1>3, <2>3, <2>4, <2>5 DEF AcCorrect, NewestIsAsked, MenuFollows, PendingFollows
<1>7. CASE s.source = "function"
  <2> DEFINE more == Append(overtaken, request)
  <2>1. /\ more \in Seq(AcRequests) /\ Len(more) = n + 1 /\ DOMAIN more = 1..n + 1
        /\ more[n + 1] = request /\ \A i \in 1..n : more[i] = overtaken[i]
    <3> HIDE DEF n
    <3> QED BY <1>0, <1>1, <1>2, AppendProperties
  <2>2. t = [asking EXCEPT !.requests = more]
    BY <1>3, <1>4, <1>7
  <2> HIDE DEF more, n
  <2>3. /\ t \in Fields_ac /\ t.requests = more /\ t.pending = asking.pending
        /\ t.loading = asking.loading
        /\ t.source = asking.source /\ t.searching = asking.searching
        /\ t.focused = asking.focused /\ t.asked = asking.asked
        /\ t.open = asking.open /\ t.active = asking.active /\ t.items = asking.items
    BY <1>3, <2>1, <2>2 DEF Fields_ac
  <2>4. n + 1 \in DOMAIN more /\ more[n + 1].newest /\ more # <<>>
    <3>1. n + 1 \in 1..n + 1
      BY <1>0
    <3> QED BY <1>1, <2>1, <3>1
  <2>5. NewestIsAsked(t)
    <3>1. ASSUME NEW i \in DOMAIN more, more[i].newest PROVE more[i].term = s.value
      <4>1. i \in 1..n \/ i = n + 1
        BY <1>0, <2>1
      <4> QED BY <1>1, <1>2, <2>1, <3>1, <4>1
    <3> QED BY <1>3, <2>3, <3>1 DEF NewestIsAsked
  <2>6. MenuFollows(t)
    BY <1>3, <1>5, <2>3, <2>4 DEF MenuFollows
  <2>7. PendingFollows(t)
    BY <1>3, <1>7, <2>1, <2>3, <2>4 DEF PendingFollows
  <2> QED BY <2>3, <2>5, <2>6, <2>7 DEF AcCorrect
<1>8. CASE s.source = "url"
  <2> DEFINE aborted == IF overtaken = <<>> THEN asking ELSE response(asking, Last(overtaken), <<>>)
             one == <<request>>
  <2>1. t = [aborted EXCEPT !.requests = one]
    BY <1>4, <1>8
  <2>2. /\ aborted \in Fields_ac /\ aborted.pending = 1 /\ aborted.loading
        /\ aborted.source = "url" /\ aborted.searching = s.searching /\ aborted.focused
        /\ aborted.asked = s.value /\ aborted.open = s.open /\ aborted.active = s.active
        /\ aborted.items = s.items
    <3>1. CASE overtaken = <<>>
      <4>1. n = 0
        BY <1>2, <3>1
      <4>2. aborted = asking
        BY <3>1
      <4> QED BY <1>3, <1>8, <4>1, <4>2
    <3>2. CASE overtaken # <<>>
      <4>1. n = 1
        <5>1. n <= 1
          BY <1>0, <1>8 DEF PendingFollows
        <5>2. n # 0
          <6> HIDE DEF n
          <6> QED BY <1>2, <3>2, EmptySeq
        <5> HIDE DEF n
        <5> QED BY <1>0, <5>1, <5>2
      <4>2. Last(overtaken) = overtaken[1] /\ overtaken[1] \in AcRequests /\ ~overtaken[1].newest
        BY <1>2, <4>1 DEF Last
      <4>3. aborted = response(asking, overtaken[1], <<>>)
        BY <3>2, <4>2
      <4>4. <<>> \in Contents
        BY DEF Contents
      <4> HIDE DEF aborted
      <4>5. /\ aborted \in Fields_ac /\ aborted.pending = asking.pending - 1
            /\ aborted.loading = (asking.pending # 1)
            /\ aborted.source = asking.source /\ aborted.searching = asking.searching
            /\ aborted.focused = asking.focused /\ aborted.asked = asking.asked
            /\ aborted.open = asking.open /\ aborted.active = asking.active
            /\ aborted.items = asking.items
        <5>1. asking \in Fields_ac
          BY <1>3
        <5> QED BY <5>1, <4>2, <4>3, <4>4, ResponseIs
      <4>6. asking.pending = 2
        BY <1>3, <4>1
      <4>7. aborted.pending = 1 /\ aborted.loading = TRUE
        <5>1. (asking.pending # 1) = TRUE /\ asking.pending - 1 = 1
          BY <4>6
        <5> QED BY <4>5, <5>1
      <4>8. asking.focused = TRUE
        BY <1>3
      <4> QED BY <1>3, <1>8, <4>5, <4>7, <4>8
    <3> QED BY <3>1, <3>2
  <2>3. one \in Seq(AcRequests) /\ Len(one) = 1 /\ one[1] = request /\ DOMAIN one = {1} /\ one # <<>>
    BY <1>1
  <2> HIDE DEF aborted, one
  <2>4. /\ t \in Fields_ac /\ t.requests = one /\ t.pending = 1 /\ t.loading
        /\ t.source = "url" /\ t.searching = s.searching /\ t.focused
        /\ t.asked = s.value /\ t.open = s.open /\ t.active = s.active /\ t.items = s.items
    BY <2>1, <2>2, <2>3 DEF Fields_ac
  <2>5. NewestIsAsked(t)
    BY <1>1, <2>3, <2>4 DEF NewestIsAsked
  <2>6. MenuFollows(t)
    BY <1>1, <1>5, <2>3, <2>4 DEF MenuFollows
  <2>7. PendingFollows(t)
    <3>1. t.source # "array" /\ Len(t.requests) = 1 /\ t.requests # <<>>
      BY <2>3, <2>4
    <3> QED BY <2>4, <3>1 DEF PendingFollows
  <2> QED BY <2>4, <2>5, <2>6, <2>7 DEF AcCorrect
<1> QED BY <1>5, <1>6, <1>7, <1>8

(* A search asks the source, or closes the menu. *)
LEMMA SearchStep ==
  ASSUME NEW s, AcCorrect(s), s.focused, NEW forbids \in BOOLEAN, NEW content \in Contents,
         s.source # "array" => content = <<>>, NEW t, t = search(s, forbids, content)
  PROVE  AcCorrect(t)
<1> DEFINE begun == [s EXCEPT !.term = s.value]
<1>0. s \in Fields_ac /\ NewestIsAsked(s) /\ MenuFollows(s) /\ PendingFollows(s) /\ s.requests \in Seq(AcRequests)
  BY DEF AcCorrect, Fields_ac
<1>1. /\ begun \in Fields_ac /\ begun.requests = s.requests /\ begun.pending = s.pending
      /\ begun.source = s.source /\ begun.searching = s.searching /\ begun.focused
      /\ begun.cancelSearch = s.cancelSearch /\ begun.asked = s.asked /\ begun.shown = s.shown
      /\ begun.open = s.open /\ begun.items = s.items /\ begun.active = s.active
      /\ begun.loading = s.loading /\ begun.value = s.value
  BY <1>0 DEF Fields_ac
<1> HIDE DEF begun
<1>2. AcCorrect(begun)
  BY <1>0, <1>1 DEF AcCorrect, NewestIsAsked, MenuFollows, PendingFollows
<1>3. CASE s.value = Short
  <2>1. t = closeAll(begun)
    BY <1>3 DEF search, begun
  <2> QED BY <1>2, <2>1, CloseAllStep
<1>4. CASE s.value # Short /\ forbids
  <2>1. t = begun
    BY <1>4 DEF search, begun
  <2> QED BY <1>2, <2>1
<1>5. CASE s.value # Short /\ ~forbids
  <2>1. t = askSource(begun, content)
    BY <1>5 DEF search, begun
  <2> QED BY <1>1, <1>2, <2>1, AskStep
<1> QED BY <1>3, <1>4, <1>5

(* A step that changes the text, the focus, the timer or the item at hand. *)
LEMMA FieldStep ==
  ASSUME NEW s, AcCorrect(s), NEW t \in Fields_ac,
         t.requests = s.requests, t.pending = s.pending, t.source = s.source,
         t.loading = s.loading, t.asked = s.asked, t.shown = s.shown,
         t.cancelSearch = s.cancelSearch, t.items = s.items, t.open = s.open,
         t.active <= Len(t.items), t.open => t.focused,
         ~t.focused => ~t.searching /\ (t.cancelSearch \/ t.requests = <<>>)
  PROVE  AcCorrect(t)
BY DEF AcCorrect, NewestIsAsked, MenuFollows, PendingFollows

LEMMA FocusStep ==
  ASSUME AcCorrect(ac), Focus
  PROVE  AcCorrect(ac)'
<1>1. ac \in Fields_ac /\ MenuFollows(ac)
  BY DEF AcCorrect
<1> DEFINE t == ac'
<1>2. t = [ac EXCEPT !.focused = TRUE]
  BY DEF Focus
<1> HIDE DEF t
<1>3. t \in Fields_ac /\ t.focused = TRUE
  BY <1>1, <1>2 DEF Fields_ac
<1>4. /\ t.requests = ac.requests /\ t.pending = ac.pending /\ t.source = ac.source
      /\ t.loading = ac.loading /\ t.asked = ac.asked /\ t.shown = ac.shown
      /\ t.cancelSearch = ac.cancelSearch /\ t.items = ac.items /\ t.open = ac.open
      /\ t.active = ac.active
  BY <1>1, <1>2 DEF Fields_ac
<1>5. t.active <= Len(t.items)
  BY <1>1, <1>4 DEF MenuFollows
<1>6. AcCorrect(t)
  BY <1>3, <1>4, <1>5, FieldStep
<1> QED BY <1>6 DEF t

LEMMA BlurStep ==
  ASSUME AcCorrect(ac), Blur
  PROVE  AcCorrect(ac)'
<1> DEFINE c == closeAll(ac)
           t == ac'
<1>1. /\ AcCorrect(c) /\ c.requests = ac.requests /\ c.cancelSearch /\ ~c.open /\ c.active = 0
  BY CloseAllStep
<1>2. t = [c EXCEPT !.focused = FALSE, !.searching = FALSE]
  BY DEF Blur
<1> HIDE DEF c, t
<1>3. c \in Fields_ac
  BY <1>1 DEF AcCorrect
<1>4. t \in Fields_ac /\ t.focused = FALSE /\ t.searching = FALSE
  BY <1>2, <1>3 DEF Fields_ac
<1>5. /\ t.requests = c.requests /\ t.pending = c.pending /\ t.source = c.source
      /\ t.loading = c.loading /\ t.asked = c.asked /\ t.shown = c.shown
      /\ t.cancelSearch = c.cancelSearch /\ t.items = c.items /\ t.open = c.open
      /\ t.active = c.active
  BY <1>2, <1>3 DEF Fields_ac
<1>6. t.active <= Len(t.items)
  BY <1>1, <1>5 DEF AcCorrect, MenuFollows
<1>7. AcCorrect(t)
  BY <1>1, <1>4, <1>5, <1>6, FieldStep
<1> QED BY <1>7 DEF t

LEMMA TypeStep ==
  ASSUME AcCorrect(ac), NEW text \in Texts, Type(text)
  PROVE  AcCorrect(ac)'
<1>1. ac \in Fields_ac /\ MenuFollows(ac) /\ ac.focused
  BY DEF AcCorrect, Type
<1> DEFINE t == ac'
<1>2. t = [ac EXCEPT !.value = text, !.searching = TRUE]
  BY DEF Type
<1> HIDE DEF t
<1>3. t \in Fields_ac /\ t.focused = ac.focused
  BY <1>1, <1>2 DEF Fields_ac
<1>4. /\ t.requests = ac.requests /\ t.pending = ac.pending /\ t.source = ac.source
      /\ t.loading = ac.loading /\ t.asked = ac.asked /\ t.shown = ac.shown
      /\ t.cancelSearch = ac.cancelSearch /\ t.items = ac.items /\ t.open = ac.open
      /\ t.active = ac.active
  BY <1>1, <1>2 DEF Fields_ac
<1>5. t.active <= Len(t.items)
  BY <1>1, <1>4 DEF MenuFollows
<1>6. AcCorrect(t)
  BY <1>1, <1>3, <1>4, <1>5, FieldStep
<1> QED BY <1>6 DEF t

LEMMA SearchingStep ==
  ASSUME AcCorrect(ac), NEW modifier \in BOOLEAN, NEW forbids \in BOOLEAN, NEW content \in Contents,
         ac.source # "array" => content = <<>>, Searching(modifier, forbids, content)
  PROVE  AcCorrect(ac)'
<1>1. ac \in Fields_ac /\ MenuFollows(ac) /\ ac.searching
  BY DEF AcCorrect, Searching
<1>2. ac.focused
  BY <1>1 DEF MenuFollows
<1> DEFINE paused == [ac EXCEPT !.searching = FALSE]
           t == ac'
<1>3. t = IF ac.term # ac.value \/ (~ac.open /\ ~modifier) THEN search(paused, forbids, content)
          ELSE paused
  BY DEF Searching
<1>4. paused \in Fields_ac /\ paused.focused = ac.focused /\ paused.source = ac.source
  BY <1>1 DEF Fields_ac
<1>5. /\ paused.requests = ac.requests /\ paused.pending = ac.pending
      /\ paused.loading = ac.loading /\ paused.asked = ac.asked /\ paused.shown = ac.shown
      /\ paused.cancelSearch = ac.cancelSearch /\ paused.items = ac.items /\ paused.open = ac.open
      /\ paused.active = ac.active
  BY <1>1 DEF Fields_ac
<1> HIDE DEF paused, t
<1>6. paused.active <= Len(paused.items)
  BY <1>1, <1>5 DEF MenuFollows
<1>7. AcCorrect(paused)
  BY <1>2, <1>4, <1>5, <1>6, FieldStep
<1>8. AcCorrect(t)
  <2>1. CASE t = search(paused, forbids, content)
    BY <1>2, <1>4, <1>7, <2>1, SearchStep
  <2>2. CASE t = paused
    BY <1>7, <2>2
  <2> QED BY <1>3, <2>1, <2>2
<1> QED BY <1>8 DEF t

(* The item at hand, and the text. *)
LEMMA ItemStep ==
  ASSUME AcCorrect(ac), NEW t, NEW i \in Nat, i <= Len(ac.items), NEW v \in Texts,
         t = [ac EXCEPT !.active = i, !.value = v]
  PROVE  AcCorrect(t)
<1>1. ac \in Fields_ac /\ MenuFollows(ac)
  BY DEF AcCorrect
<1>2. t \in Fields_ac /\ t.focused = ac.focused /\ t.searching = ac.searching
  BY <1>1 DEF Fields_ac
<1>3. /\ t.requests = ac.requests /\ t.pending = ac.pending /\ t.source = ac.source
      /\ t.loading = ac.loading /\ t.asked = ac.asked /\ t.shown = ac.shown
      /\ t.cancelSearch = ac.cancelSearch /\ t.items = ac.items /\ t.open = ac.open
      /\ t.active = i
  BY <1>1 DEF Fields_ac
<1>4. t.active <= Len(t.items)
  BY <1>3
<1>5. /\ t.open => t.focused
      /\ ~t.focused => ~t.searching /\ (t.cancelSearch \/ t.requests = <<>>)
  BY <1>1, <1>2, <1>3 DEF MenuFollows
<1> QED BY <1>2, <1>3, <1>4, <1>5, FieldStep

LEMMA ItemsAre ==
  ASSUME AcCorrect(ac)
  PROVE  /\ Len(ac.items) \in Nat /\ DOMAIN ac.items = 1..Len(ac.items)
         /\ \A i \in 1..Len(ac.items) : ac.items[i] \in Texts
         /\ ac.active \in 0..Len(ac.items)
         /\ ac.term \in Texts /\ ac.value \in Texts
<1>1. /\ ac.items \in Contents /\ ac.active \in Nat /\ ac.active <= Len(ac.items)
      /\ ac.term \in Texts /\ ac.value \in Texts
  BY DEF AcCorrect, Fields_ac, MenuFollows
<1>2. ac.items \in Seq(Texts)
  BY <1>1, ContentsAre
<1> QED BY <1>1, <1>2

LEMMA MoveKeyStep ==
  ASSUME AcCorrect(ac), NEW forward \in BOOLEAN, NEW forbids \in BOOLEAN, NEW content \in Contents,
         ac.source # "array" => content = <<>>, MoveKey(forward, forbids, content)
  PROVE  AcCorrect(ac)'
<1> DEFINE last == Len(ac.items)
           next == IF ac.active = 0 THEN IF forward THEN 1 ELSE last
                   ELSE IF forward THEN ac.active + 1 ELSE ac.active - 1
           t == ac'
<1>1. ac \in Fields_ac /\ ac.focused
  BY DEF AcCorrect, MoveKey
<1>2. \/ t = search(ac, forbids, content)
      \/ next \in 1..last /\ t = [ac EXCEPT !.active = next, !.value = ac.items[next]]
      \/ t = [ac EXCEPT !.active = 0, !.value = ac.term]
  BY DEF MoveKey
<1>3. CASE t = search(ac, forbids, content)
  <2> HIDE DEF t
  <2>1. AcCorrect(t)
    BY <1>1, <1>3, SearchStep
  <2> QED BY <2>1 DEF t
<1>4. CASE next \in 1..last /\ t = [ac EXCEPT !.active = next, !.value = ac.items[next]]
  <2> DEFINE v == ac.items[next]
  <2>1. next \in Nat /\ next <= last /\ v \in Texts
    BY <1>4, ItemsAre
  <2>2. t = [ac EXCEPT !.active = next, !.value = v]
    BY <1>4
  <2> HIDE DEF next, v, t
  <2>3. AcCorrect(t)
    BY <2>1, <2>2, ItemStep
  <2> QED BY <2>3 DEF t
<1>5. CASE t = [ac EXCEPT !.active = 0, !.value = ac.term]
  <2> HIDE DEF t
  <2>1. 0 \in Nat /\ 0 <= last /\ ac.term \in Texts
    BY ItemsAre
  <2>2. AcCorrect(t)
    BY <1>5, <2>1, ItemStep
  <2> QED BY <2>2 DEF t
<1> QED BY <1>2, <1>3, <1>4, <1>5

LEMMA MouseOnItemStep ==
  ASSUME AcCorrect(ac), NEW i, MouseOnItem(i)
  PROVE  AcCorrect(ac)'
<1> DEFINE t == ac'
<1>1. ac \in Fields_ac /\ i \in DOMAIN ac.items /\ t = [ac EXCEPT !.active = i]
  BY DEF AcCorrect, MouseOnItem
<1>2. i \in Nat /\ i <= Len(ac.items) /\ ac.value \in Texts
  BY <1>1, ItemsAre
<1>3. t = [ac EXCEPT !.active = i, !.value = ac.value]
  BY <1>1 DEF Fields_ac
<1> HIDE DEF t
<1>4. AcCorrect(t)
  BY <1>2, <1>3, ItemStep
<1> QED BY <1>4 DEF t

(* The term and the text change, and the menu closes. *)
LEMMA CloseWith ==
  ASSUME AcCorrect(ac), NEW t, NEW u, NEW v \in Texts, NEW w \in Texts,
         u = [ac EXCEPT !.value = v, !.term = w], t = closeAll(u)
  PROVE  AcCorrect(t)
<1>1. ac \in Fields_ac /\ MenuFollows(ac)
  BY DEF AcCorrect
<1>2. u \in Fields_ac /\ u.focused = ac.focused /\ u.searching = ac.searching
  BY <1>1 DEF Fields_ac
<1>3. /\ u.requests = ac.requests /\ u.pending = ac.pending /\ u.source = ac.source
      /\ u.loading = ac.loading /\ u.asked = ac.asked /\ u.shown = ac.shown
      /\ u.cancelSearch = ac.cancelSearch /\ u.items = ac.items /\ u.open = ac.open
      /\ u.active = ac.active
  BY <1>1 DEF Fields_ac
<1>4. /\ u.active <= Len(u.items) /\ (u.open => u.focused)
      /\ ~u.focused => ~u.searching /\ (u.cancelSearch \/ u.requests = <<>>)
  BY <1>1, <1>2, <1>3 DEF MenuFollows
<1>5. AcCorrect(u)
  BY <1>2, <1>3, <1>4, FieldStep
<1> QED BY <1>5, CloseAllStep

LEMMA SelectItemStep ==
  ASSUME AcCorrect(ac), SelectItem
  PROVE  AcCorrect(ac)'
<1> DEFINE item == ac.items[ac.active]
           u == [ac EXCEPT !.value = item, !.term = item]
           t == ac'
<1>1. t = closeAll(u) /\ ac.active # 0
  BY DEF SelectItem
<1>2. item \in Texts
  BY <1>1, ItemsAre
<1> HIDE DEF item, t
<1>3. AcCorrect(t)
  BY <1>1, <1>2, CloseWith
<1> QED BY <1>3 DEF t

LEMMA EscapeStep ==
  ASSUME AcCorrect(ac), Escape
  PROVE  AcCorrect(ac)'
<1> DEFINE u == [ac EXCEPT !.value = ac.term]
           t == ac'
<1>1. t = closeAll(u) /\ ac.term \in Texts /\ ac \in Fields_ac
  BY ItemsAre DEF Escape, AcCorrect
<1>2. u = [ac EXCEPT !.value = ac.term, !.term = ac.term]
  BY <1>1 DEF Fields_ac
<1> HIDE DEF u, t
<1>3. AcCorrect(t)
  BY <1>1, <1>2, CloseWith
<1> QED BY <1>3 DEF t

LEMMA ClickOutsideStep ==
  ASSUME AcCorrect(ac), ClickOutside
  PROVE  AcCorrect(ac)'
<1> DEFINE t == ac'
<1>1. t = closeAll(ac)
  BY DEF ClickOutside
<1> HIDE DEF t
<1>2. AcCorrect(t)
  BY <1>1, CloseAllStep
<1> QED BY <1>2 DEF t

LEMMA AutocompleteStepKeeps ==
  ASSUME AcCorrect(ac), AutocompleteNext
  PROVE  AcCorrect(ac)'
<1>1. CASE Focus \/ Blur \/ SelectItem \/ Escape \/ ClickOutside
  BY <1>1, FocusStep, BlurStep, SelectItemStep, EscapeStep, ClickOutsideStep
<1>2. CASE \E text \in Texts : Type(text)
  BY <1>2, TypeStep
<1>3. CASE \E i \in 1..MaxPending, content \in Contents : Respond(i, content)
  BY <1>3, RespondStep
<1>4. ASSUME NEW b \in BOOLEAN, NEW forbids \in BOOLEAN,
             NEW content \in IF ac.source = "array" THEN Contents ELSE {<<>>},
             Searching(b, forbids, content) \/ MoveKey(b, forbids, content)
      PROVE  AcCorrect(ac)'
  <2>1. content \in Contents /\ (ac.source # "array" => content = <<>>)
    BY DEF Contents
  <2> QED BY <1>4, <2>1, SearchingStep, MoveKeyStep
<1>5. CASE \E i \in 1..2 : MouseOnItem(i)
  BY <1>5, MouseOnItemStep
<1> QED BY <1>1, <1>2, <1>3, <1>4, <1>5 DEF AutocompleteNext

LEMMA AutocompleteBegins ==
  ASSUME AutocompleteInit
  PROVE  AcCorrect(ac)
<1>1. Short \in Texts /\ <<>> \in Contents /\ <<>> \in Seq(AcRequests)
  BY AutocompleteAssumption DEF Contents
<1>2. ac \in Fields_ac
  BY <1>1 DEF AutocompleteInit, Fields_ac
<1>3. /\ ac.requests = <<>> /\ ac.pending = 0 /\ ac.loading = FALSE /\ ac.open = FALSE
      /\ ac.items = <<>> /\ ac.active = 0 /\ ac.searching = FALSE
  BY DEF AutocompleteInit
<1> QED BY <1>2, <1>3 DEF AcCorrect, NewestIsAsked, MenuFollows, PendingFollows

LEMMA AutocompleteHolds ==
  ASSUME AcCorrect(ac)
  PROVE  AutocompleteTypeOK /\ LoadingWhilePending /\ NewestShown /\ OpenHasFocus
<1>1. AutocompleteTypeOK
  BY ItemsAre DEF AcCorrect, Fields_ac, AutocompleteTypeOK
<1> QED BY <1>1 DEF AcCorrect, PendingFollows, MenuFollows, LoadingWhilePending, NewestShown, OpenHasFocus

-------------------------------------------------------------------------------
(* Spinner. *)

Spinners ==
  [state : {"enabled", "disabled", "destroyed"}, text : Inputs, previous : Inputs,
   focused : BOOLEAN, spinning : BOOLEAN, counter : 0..Fast, timer : Turns \cup {0},
   wheel : BOOLEAN, cancel : BOOLEAN, check : BOOLEAN, keep : Inputs,
   key : BOOLEAN, button : BOOLEAN, unheard : BOOLEAN, told : Inputs, meddled : BOOLEAN, slow : BOOLEAN]

(* Only a spin under way turns; one that turns is held or could not hear   *)
(* that it is let go, and the user is in the input, is about to be or the  *)
(* page meddled.                                                           *)
TurnFollows(s) ==
  /\ s.timer # 0 \/ s.wheel => s.spinning
  /\ s.timer # 0 => /\ s.key \/ s.button \/ s.unheard
                    /\ s.focused \/ s.check \/ (s.unheard /\ s.meddled)
                    /\ s.state # "enabled" => s.unheard /\ s.meddled
  /\ s.slow /\ (~s.spinning => s.counter = 0)

(* What the page was told is the value the input had when it got the focus *)
(* or, between a press of a button and the call it has delayed, the value  *)
(* to be restored; the focus then stays until a blur is undone.  A spinner *)
(* that hears nothing is left, or was meddled with.                        *)
ToldFollows(s) ==
  /\ s.cancel => s.check
  /\ s.state # "enabled" => (s.focused \/ s.check => s.meddled)
  /\ ~s.meddled => /\ s.check => (s.cancel <=> s.focused)
                   /\ s.focused => s.told = s.previous
                   /\ s.check => s.told = s.keep
                   /\ ~s.focused /\ ~s.check => s.told = s.text

SpinnerCorrect(s) == s \in Spinners /\ TurnFollows(s) /\ ToldFollows(s)

LEMMA InputsAre == Inputs \subseteq Int /\ 0 \in Inputs /\ NoNumber \in Inputs
                   /\ \A v \in Int : adjust(v) \in Inputs
                   /\ Turns \subseteq Int
BY SpinnerAssumption DEF Inputs, NoNumber, adjust, Turns

LEMMA StopSpinIs ==
  ASSUME NEW s \in Spinners, TurnFollows(s), NEW t, t = stopSpin(s)
  PROVE  /\ t \in Spinners /\ TurnFollows(t) /\ t.timer = 0 /\ t.wheel = FALSE
         /\ t.text = s.text /\ t.previous = s.previous /\ t.focused = s.focused
         /\ t.cancel = s.cancel /\ t.check = s.check /\ t.keep = s.keep /\ t.told = s.told
         /\ t.meddled = s.meddled /\ t.state = s.state /\ t.key = s.key /\ t.button = s.button
<1>1. CASE ~s.spinning
  <2>1. t = s
    BY <1>1 DEF stopSpin
  <2> QED BY <1>1, <2>1 DEF TurnFollows, Spinners
<1>2. CASE s.spinning
  <2>1. t = [s EXCEPT !.timer = 0, !.wheel = FALSE, !.counter = 0, !.spinning = FALSE,
                      !.unheard = FALSE]
    BY <1>2 DEF stopSpin
  <2>2. 0 \in 0..Fast
    BY SpinnerAssumption
  <2>3. t \in Spinners
    BY <2>1, <2>2 DEF Spinners
  <2>4. t.timer = 0 /\ t.wheel = FALSE /\ t.counter = 0 /\ t.spinning = FALSE /\ t.slow = s.slow
    BY <2>1 DEF Spinners
  <2>5. /\ t.text = s.text /\ t.previous = s.previous /\ t.focused = s.focused
        /\ t.cancel = s.cancel /\ t.check = s.check /\ t.keep = s.keep /\ t.told = s.told
        /\ t.meddled = s.meddled /\ t.state = s.state /\ t.key = s.key /\ t.button = s.button
    BY <2>1 DEF Spinners
  <2>6. TurnFollows(t)
    BY <2>4 DEF TurnFollows
  <2> QED BY <2>3, <2>4, <2>5, <2>6
<1> QED BY <1>1, <1>2

LEMMA StartedIs ==
  ASSUME NEW s \in Spinners, TurnFollows(s), NEW t, t = started(s)
  PROVE  /\ t \in Spinners /\ TurnFollows(t) /\ t.spinning = TRUE
         /\ t.text = s.text /\ t.previous = s.previous /\ t.focused = s.focused
         /\ t.cancel = s.cancel /\ t.check = s.check /\ t.keep = s.keep /\ t.told = s.told
         /\ t.meddled = s.meddled /\ t.state = s.state /\ t.key = s.key /\ t.button = s.button
         /\ t.unheard = s.unheard
         /\ t.timer = s.timer
<1> DEFINE n == IF s.counter = 0 THEN 1 ELSE s.counter
           b == IF s.spinning THEN s.slow ELSE s.counter <= 1
<1>1. n \in 0..Fast
  BY SpinnerAssumption DEF Spinners
<1>2. b \in BOOLEAN /\ b = TRUE
  <2>1. s.slow = TRUE
    BY DEF TurnFollows, Spinners
  <2>2. CASE s.spinning
    BY <2>1, <2>2
  <2>3. CASE ~s.spinning
    <3>1. s.counter = 0
      BY <2>3 DEF TurnFollows
    <3>2. (s.counter <= 1) = TRUE
      BY <3>1
    <3> QED BY <2>3, <3>2
  <2> QED BY <2>2, <2>3
<1>3. t = [s EXCEPT !.counter = n, !.spinning = TRUE, !.slow = b]
  BY DEF started
<1> HIDE DEF n, b
<1>4. t \in Spinners
  BY <1>1, <1>2, <1>3 DEF Spinners
<1>5. t.spinning = TRUE /\ t.slow = b /\ t.timer = s.timer /\ t.wheel = s.wheel
  BY <1>3 DEF Spinners
<1>6. /\ t.text = s.text /\ t.previous = s.previous /\ t.focused = s.focused
      /\ t.cancel = s.cancel /\ t.check = s.check /\ t.keep = s.keep /\ t.told = s.told
      /\ t.meddled = s.meddled /\ t.state = s.state /\ t.key = s.key /\ t.button = s.button
      /\ t.unheard = s.unheard
  BY <1>3 DEF Spinners
<1>7. TurnFollows(t)
  BY <1>2, <1>5, <1>6 DEF TurnFollows
<1> QED BY <1>4, <1>5, <1>6, <1>7

LEMMA SpinIs ==
  ASSUME NEW s \in Spinners, TurnFollows(s), s.spinning, NEW turn \in Int, NEW allow \in BOOLEAN,
         NEW t, t = spin(s, turn, allow)
  PROVE  /\ t \in Spinners /\ TurnFollows(t) /\ t.spinning = s.spinning /\ t.timer = s.timer
         /\ t.wheel = s.wheel
         /\ t.previous = s.previous /\ t.focused = s.focused
         /\ t.cancel = s.cancel /\ t.check = s.check /\ t.keep = s.keep /\ t.told = s.told
         /\ t.meddled = s.meddled /\ t.state = s.state /\ t.key = s.key /\ t.button = s.button
         /\ t.unheard = s.unheard
<1> DEFINE from == IF s.text = NoNumber THEN 0 ELSE s.text
           i == IF s.counter = 0 THEN 1 ELSE s.counter
           text == adjust(from + turn * increment(i))
           n == IF i < Fast THEN i + 1 ELSE i
<1>1. i \in 0..Fast /\ n \in 0..Fast
  BY SpinnerAssumption DEF Spinners
<1>2. text \in Inputs
  <2>1. from \in Int
    BY InputsAre DEF Spinners
  <2>2. turn * increment(i) \in Int
    BY DEF increment
  <2> HIDE DEF from
  <2> QED BY <2>1, <2>2, InputsAre
<1>3. t = [s EXCEPT !.counter = i] \/ t = [s EXCEPT !.text = text, !.counter = n]
  BY DEF spin
<1> HIDE DEF i, n, text
<1>4. t \in Spinners
  BY <1>1, <1>2, <1>3 DEF Spinners
<1>5. /\ t.spinning = s.spinning /\ t.timer = s.timer /\ t.wheel = s.wheel /\ t.slow = s.slow
  BY <1>3 DEF Spinners
<1>6. /\ t.previous = s.previous /\ t.focused = s.focused
      /\ t.cancel = s.cancel /\ t.check = s.check /\ t.keep = s.keep /\ t.told = s.told
      /\ t.meddled = s.meddled /\ t.state = s.state /\ t.key = s.key /\ t.button = s.button
      /\ t.unheard = s.unheard
  BY <1>3 DEF Spinners
<1>7. TurnFollows(t)
  BY <1>5, <1>6 DEF TurnFollows
<1> QED BY <1>4, <1>5, <1>6, <1>7

(* A turn that repeats: the timer is set, and a key or button is held. *)
LEMMA RepeatIs ==
  ASSUME NEW s \in Spinners, TurnFollows(s), s.spinning,
         s.key \/ s.button \/ s.unheard, s.focused \/ s.check \/ (s.unheard /\ s.meddled),
         s.state # "enabled" => s.unheard /\ s.meddled,
         NEW turn \in Turns, NEW allow \in BOOLEAN, NEW t, t = repeat(s, turn, allow)
  PROVE  /\ t \in Spinners /\ TurnFollows(t)
         /\ t.previous = s.previous /\ t.focused = s.focused
         /\ t.cancel = s.cancel /\ t.check = s.check /\ t.keep = s.keep /\ t.told = s.told
         /\ t.meddled = s.meddled /\ t.state = s.state
<1> DEFINE u == [s EXCEPT !.timer = turn]
<1>1. t = spin(u, turn, allow)
  BY DEF repeat
<1>2. u \in Spinners /\ u.timer = turn /\ u.spinning = s.spinning /\ u.slow = s.slow /\ u.wheel = s.wheel
  BY DEF Spinners
<1>3. /\ u.previous = s.previous /\ u.focused = s.focused
      /\ u.cancel = s.cancel /\ u.check = s.check /\ u.keep = s.keep /\ u.told = s.told
      /\ u.meddled = s.meddled /\ u.state = s.state /\ u.key = s.key /\ u.button = s.button
      /\ u.unheard = s.unheard
  BY DEF Spinners
<1> HIDE DEF u
<1>4. TurnFollows(u)
  BY <1>2, <1>3 DEF TurnFollows
<1>5. turn \in Int
  BY InputsAre
<1>6. /\ t \in Spinners /\ TurnFollows(t)
      /\ t.previous = u.previous /\ t.focused = u.focused
      /\ t.cancel = u.cancel /\ t.check = u.check /\ t.keep = u.keep /\ t.told = u.told
      /\ t.meddled = u.meddled /\ t.state = u.state
  <2>1. u \in Spinners /\ u.spinning
    BY <1>2
  <2> QED BY <1>1, <1>4, <1>5, <2>1, SpinIs
<1> QED BY <1>3, <1>6

(* A key or a button that is held begins to turn. *)
LEMMA TurnedIs ==
  ASSUME NEW s \in Spinners, TurnFollows(s), s.key \/ s.button, s.focused \/ s.check,
         s.state = "enabled", NEW turn \in Turns, NEW allow \in BOOLEAN, NEW t, t = turned(s, turn, allow)
  PROVE  /\ t \in Spinners /\ TurnFollows(t)
         /\ t.previous = s.previous /\ t.focused = s.focused
         /\ t.cancel = s.cancel /\ t.check = s.check /\ t.keep = s.keep /\ t.told = s.told
         /\ t.meddled = s.meddled /\ t.state = s.state
<1> DEFINE u == started(s)
           v == [u EXCEPT !.timer = turn, !.unheard = FALSE]
<1>1. /\ u \in Spinners /\ TurnFollows(u) /\ u.spinning = TRUE
      /\ u.previous = s.previous /\ u.focused = s.focused
      /\ u.cancel = s.cancel /\ u.check = s.check /\ u.keep = s.keep /\ u.told = s.told
      /\ u.meddled = s.meddled /\ u.state = s.state /\ u.key = s.key /\ u.button = s.button
  BY StartedIs
<1>2. t = spin(v, turn, allow)
  <2>1. t = spin([[u EXCEPT !.unheard = FALSE] EXCEPT !.timer = turn], turn, allow)
    BY DEF turned, repeat
  <2> HIDE DEF u
  <2>2. [[u EXCEPT !.unheard = FALSE] EXCEPT !.timer = turn] = v
    BY <1>1 DEF Spinners
  <2> QED BY <2>1, <2>2
<1> HIDE DEF u
<1>3. v \in Spinners /\ v.timer = turn /\ v.spinning = TRUE /\ v.slow = u.slow /\ v.wheel = u.wheel
  BY <1>1 DEF Spinners
<1>4. /\ v.previous = u.previous /\ v.focused = u.focused
      /\ v.cancel = u.cancel /\ v.check = u.check /\ v.keep = u.keep /\ v.told = u.told
      /\ v.meddled = u.meddled /\ v.state = u.state /\ v.key = u.key /\ v.button = u.button
  BY <1>1 DEF Spinners
<1> HIDE DEF v
<1>5. TurnFollows(v)
  BY <1>1, <1>3, <1>4 DEF TurnFollows
<1>6. turn \in Int
  BY InputsAre
<1>7. /\ t \in Spinners /\ TurnFollows(t)
      /\ t.previous = v.previous /\ t.focused = v.focused
      /\ t.cancel = v.cancel /\ t.check = v.check /\ t.keep = v.keep /\ t.told = v.told
      /\ t.meddled = v.meddled /\ t.state = v.state
  <2>1. v \in Spinners /\ v.spinning
    BY <1>3
  <2> QED BY <1>2, <1>5, <1>6, <2>1, SpinIs
<1> QED BY <1>1, <1>4, <1>7

(* checkFocus puts the focus back where it was, with the value it had. *)
LEMMA CheckFocusIs ==
  ASSUME NEW s \in Spinners, TurnFollows(s), NEW previous \in Inputs,
         NEW t, t = checkFocus(s, previous)
  PROVE  /\ t \in Spinners /\ t.focused = (s.focused \/ s.state # "disabled")
         /\ (s.focused \/ s.meddled \/ s.state = "enabled" => TurnFollows(t))
         /\ (s.focused => t.previous = s.previous) /\ (~s.focused => t.previous = previous)
         /\ t.text = s.text /\ t.cancel = s.cancel /\ t.check = s.check /\ t.keep = s.keep
         /\ t.told = s.told /\ t.meddled = s.meddled /\ t.state = s.state /\ t.timer = s.timer
         /\ t.wheel = s.wheel
         /\ t.spinning = s.spinning /\ t.counter = s.counter /\ t.slow = s.slow
         /\ t.key = s.key /\ t.button = s.button /\ t.unheard = s.unheard
<1>1. CASE s.focused
  <2>1. t = s
    BY <1>1 DEF checkFocus
  <2> QED BY <1>1, <2>1 DEF Spinners
<1>2. CASE ~s.focused
  <2>2. t = [s EXCEPT !.focused = s.state # "disabled", !.previous = previous]
    BY <1>2 DEF checkFocus
  <2>3. t \in Spinners /\ t.focused = (s.state # "disabled") /\ t.previous = previous
    BY <2>2 DEF Spinners
  <2>4. /\ t.text = s.text /\ t.cancel = s.cancel /\ t.check = s.check /\ t.keep = s.keep
        /\ t.told = s.told /\ t.meddled = s.meddled /\ t.state = s.state /\ t.timer = s.timer
        /\ t.wheel = s.wheel
        /\ t.spinning = s.spinning /\ t.counter = s.counter /\ t.slow = s.slow
        /\ t.key = s.key /\ t.button = s.button /\ t.unheard = s.unheard
    BY <2>2 DEF Spinners
  <2>5. s.meddled \/ s.state = "enabled" => TurnFollows(t)
    BY <2>3, <2>4 DEF TurnFollows
  <2> QED BY <1>2, <2>3, <2>4, <2>5
<1> QED BY <1>1, <1>2

LEMMA CheckFocusPuts ==
  ASSUME NEW s \in Spinners, NEW previous, ~s.focused, NEW t, t = checkFocus(s, previous)
  PROVE  t.previous = previous
<1>1. t = [s EXCEPT !.focused = s.state # "disabled", !.previous = previous]
  BY DEF checkFocus
<1> QED BY <1>1 DEF Spinners

(* A step that leaves the text, the focus and what the page was told. *)
LEMMA TurnKeeps ==
  ASSUME NEW s, SpinnerCorrect(s), NEW t \in Spinners, TurnFollows(t),
         t.previous = s.previous, t.focused = s.focused, t.cancel = s.cancel,
         t.check = s.check, t.keep = s.keep, t.told = s.told, t.meddled = s.meddled,
         t.state = s.state,
         t.text = s.text \/ s.focused \/ s.check \/ s.meddled
  PROVE  SpinnerCorrect(t)
BY DEF SpinnerCorrect, ToldFollows

LEMMA FocusSpinnerStep ==
  ASSUME SpinnerCorrect(spinner), FocusSpinner
  PROVE  SpinnerCorrect(spinner)'
<1> DEFINE s == spinner
           t == spinner'
<1>1. s \in Spinners /\ TurnFollows(s) /\ ToldFollows(s) /\ ~s.focused /\ ~s.check
      /\ s.state = "enabled"
  BY DEF SpinnerCorrect, FocusSpinner, Hears
<1>2. t = [s EXCEPT !.focused = TRUE, !.previous = s.text]
  BY DEF FocusSpinner, focused
<1> HIDE DEF s, t
<1>3. t \in Spinners /\ t.focused = TRUE /\ t.previous = s.text
  BY <1>1, <1>2 DEF Spinners
<1>4. /\ t.text = s.text /\ t.cancel = s.cancel /\ t.check = s.check /\ t.keep = s.keep
      /\ t.told = s.told /\ t.meddled = s.meddled /\ t.state = s.state /\ t.timer = s.timer
      /\ t.wheel = s.wheel
      /\ t.spinning = s.spinning /\ t.counter = s.counter /\ t.slow = s.slow
      /\ t.key = s.key /\ t.button = s.button /\ t.unheard = s.unheard
  BY <1>1, <1>2 DEF Spinners
<1>5. TurnFollows(t)
  BY <1>1, <1>3, <1>4 DEF TurnFollows
<1>6. ToldFollows(t)
  BY <1>1, <1>3, <1>4 DEF ToldFollows
<1>7. SpinnerCorrect(t)
  BY <1>3, <1>5, <1>6 DEF SpinnerCorrect
<1> QED BY <1>7 DEF t

LEMMA BlurSpinnerStep ==
  ASSUME SpinnerCorrect(spinner), BlurSpinner
  PROVE  SpinnerCorrect(spinner)'
<1> DEFINE s == spinner
           t == spinner'
           u == stopSpin(s)
           gone == [u EXCEPT !.focused = FALSE, !.key = FALSE]
<1>1. s \in Spinners /\ TurnFollows(s) /\ ToldFollows(s) /\ s.focused /\ s.state = "enabled"
  BY DEF SpinnerCorrect, BlurSpinner, Hears
<1>2. t = IF s.cancel THEN [s EXCEPT !.cancel = FALSE, !.focused = FALSE]
          ELSE IF gone.text # gone.previous THEN [gone EXCEPT !.told = gone.text]
          ELSE gone
  BY DEF BlurSpinner
<1> HIDE DEF s
<1>3. CASE s.cancel
  <2>1. t = [s EXCEPT !.cancel = FALSE, !.focused = FALSE]
    BY <1>2, <1>3
  <2> HIDE DEF t
  <2>2. t \in Spinners /\ t.cancel = FALSE /\ t.focused = FALSE
    BY <1>1, <2>1 DEF Spinners
  <2>3. /\ t.text = s.text /\ t.check = s.check /\ t.keep = s.keep
        /\ t.told = s.told /\ t.meddled = s.meddled /\ t.state = s.state /\ t.timer = s.timer
        /\ t.wheel = s.wheel
        /\ t.spinning = s.spinning /\ t.counter = s.counter /\ t.slow = s.slow
        /\ t.key = s.key /\ t.button = s.button /\ t.unheard = s.unheard
    BY <1>1, <2>1 DEF Spinners
  <2>4. s.check
    BY <1>1, <1>3 DEF ToldFollows
  <2>5. TurnFollows(t)
    BY <1>1, <2>2, <2>3, <2>4 DEF TurnFollows
  <2>6. ToldFollows(t)
    BY <1>1, <2>2, <2>3, <2>4 DEF ToldFollows
  <2>7. SpinnerCorrect(t)
    BY <2>2, <2>5, <2>6 DEF SpinnerCorrect
  <2> QED BY <2>7 DEF t
<1>4. CASE ~s.cancel
  <2> DEFINE told == IF gone.text # gone.previous THEN gone.text ELSE gone.told
  <2>1. /\ u \in Spinners /\ TurnFollows(u) /\ u.timer = 0 /\ u.wheel = FALSE
        /\ u.text = s.text /\ u.previous = s.previous /\ u.focused = s.focused
        /\ u.cancel = s.cancel /\ u.check = s.check /\ u.keep = s.keep /\ u.told = s.told
        /\ u.meddled = s.meddled /\ u.state = s.state /\ u.key = s.key /\ u.button = s.button
    BY <1>1, StopSpinIs
  <2> HIDE DEF u
  <2>2. gone \in Spinners /\ gone.focused = FALSE /\ gone.key = FALSE
    BY <2>1 DEF Spinners
  <2>3. /\ gone.text = u.text /\ gone.previous = u.previous /\ gone.cancel = u.cancel
        /\ gone.check = u.check /\ gone.keep = u.keep /\ gone.told = u.told
        /\ gone.meddled = u.meddled /\ gone.state = u.state /\ gone.timer = u.timer
        /\ gone.wheel = u.wheel
        /\ gone.spinning = u.spinning /\ gone.counter = u.counter /\ gone.slow = u.slow
    BY <2>1 DEF Spinners
  <2>4. t = [gone EXCEPT !.told = told]
    <3> HIDE DEF gone
    <3> QED BY <1>2, <1>4, <2>2 DEF Spinners
  <2>5. told \in Inputs
    BY <2>2 DEF Spinners
  <2>6. told = IF s.text # s.previous THEN s.text ELSE s.told
    BY <2>1, <2>3
  <2> HIDE DEF gone, told, t
  <2>7. t \in Spinners /\ t.told = told
    BY <2>2, <2>4, <2>5 DEF Spinners
  <2>8. /\ t.text = s.text /\ t.previous = s.previous /\ t.cancel = s.cancel
        /\ t.check = s.check /\ t.keep = s.keep /\ t.meddled = s.meddled /\ t.state = s.state
        /\ t.timer = 0
        /\ t.wheel = FALSE /\ t.spinning = u.spinning /\ t.counter = u.counter /\ t.slow = u.slow
        /\ t.focused = FALSE
    BY <2>1, <2>2, <2>3, <2>4 DEF Spinners
  <2>9. ~s.check \/ s.meddled
    BY <1>1, <1>4 DEF ToldFollows
  <2>10. TurnFollows(t)
    BY <2>1, <2>8 DEF TurnFollows
  <2>11. ToldFollows(t)
    BY <1>1, <1>4, <2>6, <2>7, <2>8, <2>9 DEF ToldFollows
  <2>12. SpinnerCorrect(t)
    BY <2>7, <2>10, <2>11 DEF SpinnerCorrect
  <2> QED BY <2>12 DEF t
<1> QED BY <1>3, <1>4

LEMMA SpinKeyStep ==
  ASSUME SpinnerCorrect(spinner), NEW turn \in Turns \cup {0}, NEW allow \in BOOLEAN,
         SpinKey(turn, allow)
  PROVE  SpinnerCorrect(spinner)'
<1> DEFINE s == spinner
           t == spinner'
           v == [s EXCEPT !.key = TRUE]
<1>1. s \in Spinners /\ TurnFollows(s) /\ ToldFollows(s) /\ s.focused /\ SpinnerCorrect(s)
      /\ s.state = "enabled"
  BY DEF SpinnerCorrect, SpinKey, Hears
<1>2. t = IF turn = 0 THEN started(v) ELSE turned(v, turn, allow)
  BY DEF SpinKey
<1> HIDE DEF s
<1>3. v \in Spinners /\ v.key = TRUE
  BY <1>1 DEF Spinners
<1>4. /\ v.text = s.text /\ v.previous = s.previous /\ v.focused = s.focused
      /\ v.cancel = s.cancel /\ v.check = s.check /\ v.keep = s.keep /\ v.told = s.told
      /\ v.meddled = s.meddled /\ v.state = s.state /\ v.timer = s.timer /\ v.wheel = s.wheel
      /\ v.spinning = s.spinning /\ v.counter = s.counter /\ v.slow = s.slow
  BY <1>1 DEF Spinners
<1> HIDE DEF v, t
<1>5. TurnFollows(v)
  BY <1>1, <1>3, <1>4 DEF TurnFollows
<1>6. CASE turn = 0
  <2>1. t = started(v)
    BY <1>2, <1>6
  <2>2. /\ t \in Spinners /\ TurnFollows(t) /\ t.text = v.text
        /\ t.previous = v.previous /\ t.focused = v.focused
        /\ t.cancel = v.cancel /\ t.check = v.check /\ t.keep = v.keep /\ t.told = v.told
        /\ t.meddled = v.meddled /\ t.state = v.state
    BY <1>3, <1>5, <2>1, StartedIs
  <2>3. SpinnerCorrect(t)
    BY <1>1, <1>4, <2>2, TurnKeeps
  <2> QED BY <2>3 DEF t
<1>7. CASE turn # 0
  <2>1. turn \in Turns /\ (v.key \/ v.button) /\ (v.focused \/ v.check) /\ v.state = "enabled"
    BY <1>1, <1>3, <1>4, <1>7
  <2>2. t = turned(v, turn, allow)
    BY <1>2, <1>7
  <2>3. /\ t \in Spinners /\ TurnFollows(t)
        /\ t.previous = v.previous /\ t.focused = v.focused
        /\ t.cancel = v.cancel /\ t.check = v.check /\ t.keep = v.keep /\ t.told = v.told
        /\ t.meddled = v.meddled /\ t.state = v.state
    BY <1>3, <1>5, <2>1, <2>2, TurnedIs
  <2>4. SpinnerCorrect(t)
    BY <1>1, <1>4, <2>3, TurnKeeps
  <2> QED BY <2>4 DEF t
<1> QED BY <1>6, <1>7

LEMMA SpinKeyRefusedStep ==
  ASSUME SpinnerCorrect(spinner), SpinKeyRefused
  PROVE  SpinnerCorrect(spinner)'
<1> DEFINE s == spinner
           t == spinner'
<1>1. SpinnerCorrect(s) /\ s \in Spinners /\ TurnFollows(s) /\ t = [s EXCEPT !.key = TRUE]
  BY DEF SpinnerCorrect, SpinKeyRefused
<1> HIDE DEF s, t
<1>2. t \in Spinners /\ t.key = TRUE
  BY <1>1 DEF Spinners
<1>3. /\ t.text = s.text /\ t.previous = s.previous /\ t.focused = s.focused
      /\ t.cancel = s.cancel /\ t.check = s.check /\ t.keep = s.keep /\ t.told = s.told
      /\ t.meddled = s.meddled /\ t.state = s.state /\ t.timer = s.timer /\ t.wheel = s.wheel
      /\ t.spinning = s.spinning /\ t.counter = s.counter /\ t.slow = s.slow
      /\ t.button = s.button /\ t.unheard = s.unheard
  BY <1>1 DEF Spinners
<1>4. TurnFollows(t)
  BY <1>1, <1>2, <1>3 DEF TurnFollows
<1>5. SpinnerCorrect(t)
  BY <1>1, <1>2, <1>3, <1>4, TurnKeeps
<1> QED BY <1>5 DEF t

(* A key or button is let go, or the wheel rests. *)
LEMMA LetGoStep ==
  ASSUME SpinnerCorrect(spinner), SpinKeyUp \/ LeaveButton \/ WheelRests
  PROVE  SpinnerCorrect(spinner)'
<1> DEFINE s == spinner
           t == spinner'
           u == stopSpin(s)
<1>1. s \in Spinners /\ TurnFollows(s) /\ SpinnerCorrect(s)
  BY DEF SpinnerCorrect
<1>2. \/ t = [u EXCEPT !.key = FALSE]
      \/ t = [u EXCEPT !.button = FALSE]
      \/ t = [u EXCEPT !.wheel = FALSE]
  BY DEF SpinKeyUp, LeaveButton, WheelRests
<1> HIDE DEF s
<1>3. /\ u \in Spinners /\ TurnFollows(u) /\ u.timer = 0 /\ u.wheel = FALSE
      /\ u.text = s.text /\ u.previous = s.previous /\ u.focused = s.focused
      /\ u.cancel = s.cancel /\ u.check = s.check /\ u.keep = s.keep /\ u.told = s.told
      /\ u.meddled = s.meddled /\ u.state = s.state /\ u.key = s.key /\ u.button = s.button
  BY <1>1, StopSpinIs
<1> HIDE DEF u, t
<1>4. t \in Spinners /\ t.wheel = FALSE
  BY <1>2, <1>3 DEF Spinners
<1>5. /\ t.text = u.text /\ t.previous = u.previous /\ t.focused = u.focused
      /\ t.cancel = u.cancel /\ t.check = u.check /\ t.keep = u.keep /\ t.told = u.told
      /\ t.meddled = u.meddled /\ t.state = u.state /\ t.timer = u.timer
      /\ t.spinning = u.spinning /\ t.counter = u.counter /\ t.slow = u.slow
  BY <1>2, <1>3 DEF Spinners
<1>6. TurnFollows(t)
  BY <1>3, <1>4, <1>5 DEF TurnFollows
<1>7. SpinnerCorrect(t)
  BY <1>1, <1>3, <1>4, <1>5, <1>6, TurnKeeps
<1> QED BY <1>7 DEF t

LEMMA TypeInSpinnerStep ==
  ASSUME SpinnerCorrect(spinner), NEW text \in Inputs, TypeInSpinner(text)
  PROVE  SpinnerCorrect(spinner)'
<1> DEFINE s == spinner
           t == spinner'
<1>1. SpinnerCorrect(s) /\ s \in Spinners /\ TurnFollows(s) /\ s.focused /\ t = [s EXCEPT !.text = text]
  BY DEF SpinnerCorrect, TypeInSpinner
<1> HIDE DEF s, t
<1>2. t \in Spinners
  BY <1>1 DEF Spinners
<1>3. /\ t.previous = s.previous /\ t.focused = s.focused
      /\ t.cancel = s.cancel /\ t.check = s.check /\ t.keep = s.keep /\ t.told = s.told
      /\ t.meddled = s.meddled /\ t.state = s.state /\ t.timer = s.timer /\ t.wheel = s.wheel
      /\ t.spinning = s.spinning /\ t.counter = s.counter /\ t.slow = s.slow
      /\ t.button = s.button /\ t.unheard = s.unheard /\ t.key = s.key
  BY <1>1 DEF Spinners
<1>4. TurnFollows(t)
  BY <1>1, <1>3 DEF TurnFollows
<1>5. SpinnerCorrect(t)
  BY <1>1, <1>2, <1>3, <1>4, TurnKeeps
<1> QED BY <1>5 DEF t

LEMMA PressButtonStep ==
  ASSUME SpinnerCorrect(spinner), NEW turn \in Turns, NEW refuse \in BOOLEAN, NEW allow \in BOOLEAN,
         PressButton(turn, refuse, allow)
  PROVE  SpinnerCorrect(spinner)'
<1> DEFINE s == spinner
           t == spinner'
           was == IF s.focused THEN s.previous ELSE s.text
           c == checkFocus(s, was)
           here == [c EXCEPT !.cancel = TRUE, !.check = TRUE, !.keep = was, !.button = TRUE]
<1>1. s \in Spinners /\ TurnFollows(s) /\ ToldFollows(s) /\ ~s.check
      /\ s.state = "enabled"
  BY DEF SpinnerCorrect, PressButton, Hears
<1>2. t = IF refuse THEN here ELSE turned(here, turn, allow)
  BY DEF PressButton
<1>3. was \in Inputs
  BY <1>1 DEF Spinners
<1>4. ~s.meddled => s.told = was
  BY <1>1 DEF ToldFollows
<1>5. s.focused => was = s.previous
  OBVIOUS
<1> HIDE DEF s, was
<1>6. /\ c \in Spinners /\ TurnFollows(c) /\ c.focused = TRUE
      /\ (s.focused => c.previous = s.previous) /\ (~s.focused => c.previous = was)
      /\ c.told = s.told /\ c.meddled = s.meddled /\ c.state = s.state
  <2>1. s \in Spinners /\ TurnFollows(s)
    BY <1>1
  <2>2. c = checkFocus(s, was)
    OBVIOUS
  <2> HIDE DEF c
  <2>3. c \in Spinners /\ TurnFollows(c) /\ c.focused = TRUE
    BY <1>1, <1>3, <2>1, <2>2, CheckFocusIs
  <2>4. (s.focused => c.previous = s.previous) /\ (~s.focused => c.previous = was)
    <3>1. CASE s.focused
      <4>1. c.previous = s.previous
        BY <1>3, <2>1, <2>2, <3>1, CheckFocusIs
      <4> QED BY <3>1, <4>1
    <3>2. CASE ~s.focused
      <4>1. c.previous = was
        BY <2>1, <2>2, <3>2, CheckFocusPuts
      <4> QED BY <3>2, <4>1
    <3> QED BY <3>1, <3>2
  <2>5. c.told = s.told /\ c.meddled = s.meddled /\ c.state = s.state
    BY <1>3, <2>1, <2>2, CheckFocusIs
  <2> QED BY <2>3, <2>4, <2>5
<1>7. c.previous = was
  BY <1>5, <1>6
<1> HIDE DEF c
<1>8. here \in Spinners /\ here.cancel = TRUE /\ here.check = TRUE /\ here.keep = was /\ here.button = TRUE
  BY <1>3, <1>6 DEF Spinners
<1>9. /\ here.previous = c.previous /\ here.focused = c.focused /\ here.told = c.told
      /\ here.meddled = c.meddled /\ here.state = c.state /\ here.timer = c.timer
      /\ here.wheel = c.wheel
      /\ here.spinning = c.spinning /\ here.counter = c.counter /\ here.slow = c.slow
      /\ here.key = c.key
  BY <1>6 DEF Spinners
<1> HIDE DEF here
<1>10. TurnFollows(here)
  BY <1>1, <1>6, <1>8, <1>9 DEF TurnFollows
<1>11. ToldFollows(here)
  BY <1>1, <1>4, <1>6, <1>7, <1>8, <1>9 DEF ToldFollows
<1>12. SpinnerCorrect(here)
  BY <1>8, <1>10, <1>11 DEF SpinnerCorrect
<1> HIDE DEF t
<1>14. CASE refuse
  <2>1. SpinnerCorrect(t)
    BY <1>2, <1>12, <1>14
  <2> QED BY <2>1 DEF t
<1>15. CASE ~refuse
  <2>1. (here.key \/ here.button) /\ (here.focused \/ here.check) /\ here.state = "enabled"
    BY <1>1, <1>6, <1>8, <1>9
  <2>2. t = turned(here, turn, allow)
    BY <1>2, <1>15
  <2>3. /\ t \in Spinners /\ TurnFollows(t)
        /\ t.previous = here.previous /\ t.focused = here.focused
        /\ t.cancel = here.cancel /\ t.check = here.check /\ t.keep = here.keep
        /\ t.told = here.told
        /\ t.meddled = here.meddled /\ t.state = here.state
    BY <1>8, <1>10, <2>1, <2>2, TurnedIs
  <2>4. SpinnerCorrect(t)
    BY <1>8, <1>12, <2>3, TurnKeeps
  <2> QED BY <2>4 DEF t
<1> QED BY <1>14, <1>15

LEMMA FocusCheckedStep ==
  ASSUME SpinnerCorrect(spinner), FocusChecked
  PROVE  SpinnerCorrect(spinner)'
<1> DEFINE s == spinner
           t == spinner'
           keep == s.keep
           c == checkFocus(s, keep)
<1>1. s \in Spinners /\ TurnFollows(s) /\ ToldFollows(s) /\ s.check /\ keep \in Inputs
  BY DEF SpinnerCorrect, FocusChecked, Spinners
<1>2. t = [c EXCEPT !.cancel = FALSE, !.check = FALSE]
  BY DEF FocusChecked
<1>3. /\ ~s.meddled => s.told = keep /\ (s.focused => s.told = s.previous)
      /\ s.meddled \/ s.state = "enabled"
  BY <1>1 DEF ToldFollows
<1> HIDE DEF s, keep
<1>4. /\ c \in Spinners /\ TurnFollows(c) /\ c.focused = (s.focused \/ s.state # "disabled")
      /\ (s.focused => c.previous = s.previous) /\ (~s.focused => c.previous = keep)
      /\ c.told = s.told /\ c.meddled = s.meddled /\ c.state = s.state
  BY <1>1, <1>3, CheckFocusIs
<1> HIDE DEF c, t
<1>5. t \in Spinners /\ t.cancel = FALSE /\ t.check = FALSE
  BY <1>2, <1>4 DEF Spinners
<1>6. /\ t.previous = c.previous /\ t.focused = c.focused /\ t.told = c.told
      /\ t.meddled = c.meddled /\ t.state = c.state /\ t.timer = c.timer /\ t.wheel = c.wheel
      /\ t.spinning = c.spinning /\ t.counter = c.counter /\ t.slow = c.slow
      /\ t.key = c.key /\ t.button = c.button /\ t.unheard = c.unheard
  BY <1>2, <1>4 DEF Spinners
<1>7. TurnFollows(t)
  BY <1>4, <1>6 DEF TurnFollows
<1>8. ToldFollows(t)
  BY <1>3, <1>4, <1>5, <1>6 DEF ToldFollows
<1>9. SpinnerCorrect(t)
  BY <1>5, <1>7, <1>8 DEF SpinnerCorrect
<1> QED BY <1>9 DEF t

LEMMA AgainStep ==
  ASSUME SpinnerCorrect(spinner), NEW allow \in BOOLEAN, Again(allow)
  PROVE  SpinnerCorrect(spinner)'
<1> DEFINE s == spinner
           t == spinner'
           turn == s.timer
<1>1. s \in Spinners /\ TurnFollows(s) /\ SpinnerCorrect(s) /\ turn # 0
  BY DEF SpinnerCorrect, Again
<1>2. t = repeat(s, turn, allow)
  BY DEF Again
<1>3. /\ turn \in Turns /\ s.spinning /\ (s.key \/ s.button \/ s.unheard)
      /\ s.focused \/ s.check \/ (s.unheard /\ s.meddled)
      /\ s.state # "enabled" => s.unheard /\ s.meddled
  BY <1>1 DEF TurnFollows, Spinners
<1> HIDE DEF s, t, turn
<1>4. /\ t \in Spinners /\ TurnFollows(t)
      /\ t.previous = s.previous /\ t.focused = s.focused
      /\ t.cancel = s.cancel /\ t.check = s.check /\ t.keep = s.keep /\ t.told = s.told
      /\ t.meddled = s.meddled /\ t.state = s.state
  BY <1>1, <1>2, <1>3, RepeatIs
<1>5. SpinnerCorrect(t)
  BY <1>1, <1>3, <1>4, TurnKeeps
<1> QED BY <1>5 DEF t

LEMMA WheelStep ==
  ASSUME SpinnerCorrect(spinner), NEW turn \in Turns, NEW allow \in BOOLEAN, Wheel(turn, allow)
  PROVE  SpinnerCorrect(spinner)'
<1> DEFINE s == spinner
           t == spinner'
           u == started(s)
           v == spin(u, turn, allow)
<1>1. s \in Spinners /\ TurnFollows(s) /\ SpinnerCorrect(s) /\ s.focused
  BY DEF SpinnerCorrect, Wheel
<1>2. t = [v EXCEPT !.wheel = TRUE]
  BY DEF Wheel
<1> HIDE DEF s
<1>3. /\ u \in Spinners /\ TurnFollows(u) /\ u.spinning = TRUE
      /\ u.previous = s.previous /\ u.focused = s.focused
      /\ u.cancel = s.cancel /\ u.check = s.check /\ u.keep = s.keep /\ u.told = s.told
      /\ u.meddled = s.meddled /\ u.state = s.state
  BY <1>1, StartedIs
<1> HIDE DEF u
<1>4. u \in Spinners /\ TurnFollows(u) /\ u.spinning /\ turn \in Int
  BY <1>3, InputsAre
<1>5. /\ v \in Spinners /\ TurnFollows(v) /\ v.spinning = u.spinning
      /\ v.previous = u.previous /\ v.focused = u.focused
      /\ v.cancel = u.cancel /\ v.check = u.check /\ v.keep = u.keep /\ v.told = u.told
      /\ v.meddled = u.meddled /\ v.state = u.state
  <2>1. v = spin(u, turn, allow)
    OBVIOUS
  <2>2. u \in Spinners /\ TurnFollows(u) /\ u.spinning
    BY <1>4
  <2> HIDE DEF v
  <2>3. v \in Spinners /\ TurnFollows(v) /\ v.spinning = u.spinning
    BY <1>4, <2>1, <2>2, SpinIs
  <2>4. /\ v.previous = u.previous /\ v.focused = u.focused
        /\ v.cancel = u.cancel /\ v.check = u.check /\ v.keep = u.keep /\ v.told = u.told
        /\ v.meddled = u.meddled /\ v.state = u.state
    BY <1>4, <2>1, <2>2, SpinIs
  <2> QED BY <2>3, <2>4
<1> HIDE DEF v, t
<1>6. t \in Spinners
  BY <1>2, <1>5 DEF Spinners
<1>7. /\ t.previous = v.previous /\ t.focused = v.focused
      /\ t.cancel = v.cancel /\ t.check = v.check /\ t.keep = v.keep /\ t.told = v.told
      /\ t.meddled = v.meddled /\ t.state = v.state /\ t.timer = v.timer
      /\ t.spinning = v.spinning /\ t.counter = v.counter /\ t.slow = v.slow
      /\ t.key = v.key /\ t.button = v.button /\ t.unheard = v.unheard
  BY <1>2, <1>5 DEF Spinners
<1>8. TurnFollows(t)
  BY <1>3, <1>5, <1>7 DEF TurnFollows
<1>9. SpinnerCorrect(t)
  BY <1>1, <1>3, <1>5, <1>6, <1>7, <1>8, TurnKeeps
<1> QED BY <1>9 DEF t

(* A method changes the text, and tells the page if it did. *)
LEMMA ModifiedKeeps ==
  ASSUME NEW s, SpinnerCorrect(s), NEW u \in Spinners, TurnFollows(u),
         u.previous = s.previous, u.focused = s.focused, u.cancel = s.cancel,
         u.check = s.check, u.keep = s.keep, u.told = s.told, u.meddled = s.meddled,
         u.state = s.state,
         NEW t, t = modified(s, u)
  PROVE  SpinnerCorrect(t)
<1> DEFINE told == u.text
           m == u.meddled \/ s.focused \/ s.check
<1>1. CASE u.text = s.text
  <2>1. t = u
    BY <1>1 DEF modified
  <2> QED BY <1>1, <2>1, TurnKeeps
<1>2. CASE u.text # s.text
  <2>1. t = [u EXCEPT !.told = told, !.meddled = m]
    BY <1>2 DEF modified
  <2>2. told \in Inputs /\ m \in BOOLEAN
    BY DEF Spinners
  <2>3. ToldFollows(s) /\ (~m => ~s.focused /\ ~s.check) /\ (u.meddled => m)
    BY DEF SpinnerCorrect
  <2>4. told = u.text
    OBVIOUS
  <2> HIDE DEF told, m
  <2>5. t \in Spinners /\ t.told = told /\ t.meddled = m
    BY <2>1, <2>2 DEF Spinners
  <2>6. /\ t.text = u.text /\ t.previous = u.previous /\ t.focused = u.focused
        /\ t.cancel = u.cancel /\ t.check = u.check /\ t.keep = u.keep
        /\ t.state = u.state /\ t.timer = u.timer /\ t.wheel = u.wheel
        /\ t.spinning = u.spinning /\ t.counter = u.counter /\ t.slow = u.slow
        /\ t.key = u.key /\ t.button = u.button /\ t.unheard = u.unheard
    BY <2>1 DEF Spinners
  <2>7. TurnFollows(t)
    BY <2>3, <2>5, <2>6 DEF TurnFollows
  <2>8. ToldFollows(t)
    BY <2>3, <2>4, <2>5, <2>6 DEF ToldFollows
  <2> QED BY <2>5, <2>7, <2>8 DEF SpinnerCorrect
<1> QED BY <1>1, <1>2

LEMMA MethodStep ==
  ASSUME SpinnerCorrect(spinner), NEW turn \in Turns, NEW allow \in BOOLEAN, Step(turn, allow)
  PROVE  SpinnerCorrect(spinner)'
<1> DEFINE s == spinner
           t == spinner'
           u == started(s)
           v == spin(u, turn, allow)
           w == stopSpin(v)
<1>1. s \in Spinners /\ TurnFollows(s) /\ SpinnerCorrect(s)
  BY DEF SpinnerCorrect
<1>2. t = modified(s, w)
  BY DEF Step
<1> HIDE DEF s
<1>3. /\ u \in Spinners /\ TurnFollows(u) /\ u.spinning = TRUE
      /\ u.previous = s.previous /\ u.focused = s.focused
      /\ u.cancel = s.cancel /\ u.check = s.check /\ u.keep = s.keep /\ u.told = s.told
      /\ u.meddled = s.meddled /\ u.state = s.state
  BY <1>1, StartedIs
<1> HIDE DEF u
<1>4. u \in Spinners /\ TurnFollows(u) /\ u.spinning /\ turn \in Int
  BY <1>3, InputsAre
<1>5. /\ v \in Spinners /\ TurnFollows(v)
      /\ v.previous = u.previous /\ v.focused = u.focused
      /\ v.cancel = u.cancel /\ v.check = u.check /\ v.keep = u.keep /\ v.told = u.told
      /\ v.meddled = u.meddled /\ v.state = u.state
  BY <1>4, SpinIs
<1> HIDE DEF v
<1>6. /\ w \in Spinners /\ TurnFollows(w)
      /\ w.previous = v.previous /\ w.focused = v.focused
      /\ w.cancel = v.cancel /\ w.check = v.check /\ w.keep = v.keep /\ w.told = v.told
      /\ w.meddled = v.meddled /\ w.state = v.state
  BY <1>5, StopSpinIs
<1> HIDE DEF w, t
<1>7. SpinnerCorrect(t)
  BY <1>1, <1>2, <1>3, <1>5, <1>6, ModifiedKeeps
<1> QED BY <1>7 DEF t

LEMMA SetSpinnerStep ==
  ASSUME SpinnerCorrect(spinner), NEW v \in Inputs, SetSpinner(v)
  PROVE  SpinnerCorrect(spinner)'
<1> DEFINE s == spinner
           t == spinner'
           text == IF v = NoNumber THEN v ELSE adjust(v)
           u == [s EXCEPT !.text = text]
<1>1. s \in Spinners /\ TurnFollows(s) /\ SpinnerCorrect(s)
  BY DEF SpinnerCorrect
<1>2. t = modified(s, u)
  BY DEF SetSpinner
<1>3. text \in Inputs
  BY InputsAre
<1> HIDE DEF s, text
<1>4. u \in Spinners
  BY <1>1, <1>3 DEF Spinners
<1>5. /\ u.previous = s.previous /\ u.focused = s.focused
      /\ u.cancel = s.cancel /\ u.check = s.check /\ u.keep = s.keep /\ u.told = s.told
      /\ u.meddled = s.meddled /\ u.state = s.state /\ u.timer = s.timer /\ u.wheel = s.wheel
      /\ u.spinning = s.spinning /\ u.counter = s.counter /\ u.slow = s.slow
      /\ u.key = s.key /\ u.button = s.button /\ u.unheard = s.unheard
  BY <1>1 DEF Spinners
<1> HIDE DEF u, t
<1>6. TurnFollows(u)
  BY <1>1, <1>5 DEF TurnFollows
<1>7. SpinnerCorrect(t)
  BY <1>1, <1>2, <1>4, <1>5, <1>6, ModifiedKeeps
<1> QED BY <1>7 DEF t

(* The page disables or destroys the spinner, or enables it again. *)
LEMMA DeafenStep ==
  ASSUME SpinnerCorrect(spinner), DisableSpinner \/ DestroySpinner \/ EnableSpinner
  PROVE  SpinnerCorrect(spinner)'
<1> DEFINE s == spinner
           t == spinner'
           m == s.meddled \/ s.focused \/ s.check
           h == s.unheard \/ s.timer # 0
<1>1. s \in Spinners /\ TurnFollows(s) /\ ToldFollows(s)
  BY DEF SpinnerCorrect
<1>2. m \in BOOLEAN /\ h \in BOOLEAN
  BY <1>1 DEF Spinners
<1>3. /\ (s.meddled \/ s.focused \/ s.check => m) /\ (s.unheard => h) /\ (s.timer # 0 => h)
      /\ (m => s.meddled \/ s.focused \/ s.check)
  OBVIOUS
<1>4. CASE EnableSpinner
  <2>1. t = [s EXCEPT !.state = "enabled"]
    BY <1>4 DEF EnableSpinner
  <2> HIDE DEF s, t
  <2>2. t \in Spinners /\ t.state = "enabled"
    BY <1>1, <2>1 DEF Spinners
  <2>3. /\ t.text = s.text /\ t.previous = s.previous /\ t.focused = s.focused
        /\ t.cancel = s.cancel /\ t.check = s.check /\ t.keep = s.keep /\ t.told = s.told
        /\ t.meddled = s.meddled /\ t.timer = s.timer /\ t.wheel = s.wheel
        /\ t.spinning = s.spinning /\ t.counter = s.counter /\ t.slow = s.slow
        /\ t.button = s.button /\ t.key = s.key /\ t.unheard = s.unheard
    BY <1>1, <2>1 DEF Spinners
  <2>4. TurnFollows(t)
    BY <1>1, <2>2, <2>3 DEF TurnFollows
  <2>5. ToldFollows(t)
    BY <1>1, <2>2, <2>3 DEF ToldFollows
  <2>6. SpinnerCorrect(t)
    BY <2>2, <2>4, <2>5 DEF SpinnerCorrect
  <2> QED BY <2>6 DEF t
<1>5. ASSUME NEW state \in {"disabled", "destroyed"}, Deafen(state)
      PROVE  SpinnerCorrect(spinner)'
  <2>1. t = [s EXCEPT !.state = state, !.unheard = h, !.meddled = m]
    BY <1>5 DEF Deafen
  <2> HIDE DEF s, t, m, h
  <2>2. t \in Spinners /\ t.state = state /\ t.unheard = h /\ t.meddled = m
    BY <1>1, <1>2, <2>1 DEF Spinners
  <2>3. /\ t.text = s.text /\ t.previous = s.previous /\ t.focused = s.focused
        /\ t.cancel = s.cancel /\ t.check = s.check /\ t.keep = s.keep /\ t.told = s.told
        /\ t.timer = s.timer /\ t.wheel = s.wheel
        /\ t.spinning = s.spinning /\ t.counter = s.counter /\ t.slow = s.slow
        /\ t.button = s.button /\ t.key = s.key
    BY <1>1, <2>1 DEF Spinners
  <2>4. TurnFollows(t)
    BY <1>1, <1>3, <2>2, <2>3 DEF TurnFollows
  <2>5. ToldFollows(t)
    BY <1>1, <1>3, <2>2, <2>3 DEF ToldFollows
  <2>6. SpinnerCorrect(t)
    BY <2>2, <2>4, <2>5 DEF SpinnerCorrect
  <2> QED BY <2>6 DEF t
<1> QED BY <1>4, <1>5 DEF DisableSpinner, DestroySpinner

(* The user lets go of what the spinner does not hear. *)
LEMMA LetGoUnheardStep ==
  ASSUME SpinnerCorrect(spinner), NEW focus \in BOOLEAN, NEW key \in BOOLEAN,
         NEW button \in BOOLEAN, LetGo(focus, key, button)
  PROVE  SpinnerCorrect(spinner)'
<1> DEFINE s == spinner
           t == spinner'
           h == s.unheard \/ (s.state = "enabled" /\ s.check /\ s.timer # 0)
<1>1. s \in Spinners /\ TurnFollows(s) /\ ToldFollows(s)
  BY DEF SpinnerCorrect
<1>2. h \in BOOLEAN /\ (s.unheard => h)
  BY <1>1 DEF Spinners
<1>3. /\ s.state = "enabled" => ~s.focused /\ button = s.button
      /\ focus => s.focused
      /\ key => s.key
      /\ button => s.button
  BY DEF LetGo, Hears
<1>10. t = [s EXCEPT !.focused = focus, !.key = key, !.button = button, !.unheard = h]
  BY DEF LetGo, Hears
<1>4. s.state = "enabled" /\ s.check /\ s.timer # 0 => h
  OBVIOUS
<1> HIDE DEF s, t, h
<1>5. t \in Spinners /\ t.focused = focus /\ t.key = key /\ t.button = button /\ t.unheard = h
  <2>1. h \in BOOLEAN /\ s \in Spinners
    BY <1>1, <1>2
  <2> DEFINE q == [s EXCEPT !.focused = focus, !.key = key]
  <2>4. q \in Spinners
    BY ONLY <2>1, focus \in BOOLEAN, key \in BOOLEAN DEF Spinners
  <2>5. t = [q EXCEPT !.button = button, !.unheard = h]
    BY ONLY <2>1, <1>10 DEF Spinners
  <2> HIDE DEF q
  <2>2. t \in Spinners
    BY ONLY <2>1, <2>4, <2>5, button \in BOOLEAN DEF Spinners
  <2>3. t.focused = focus /\ t.key = key /\ t.button = button /\ t.unheard = h
    BY ONLY <2>1, <1>10 DEF Spinners
  <2> QED BY <2>2, <2>3
<1>6. /\ t.text = s.text /\ t.previous = s.previous /\ t.state = s.state
      /\ t.cancel = s.cancel /\ t.check = s.check /\ t.keep = s.keep /\ t.told = s.told
      /\ t.meddled = s.meddled /\ t.timer = s.timer /\ t.wheel = s.wheel
      /\ t.spinning = s.spinning /\ t.counter = s.counter /\ t.slow = s.slow
  BY <1>1, <1>10 DEF Spinners
<1>7. TurnFollows(t)
  BY <1>1, <1>2, <1>3, <1>4, <1>5, <1>6 DEF TurnFollows
<1>8. ToldFollows(t)
  BY <1>1, <1>3, <1>5, <1>6 DEF ToldFollows
<1>9. SpinnerCorrect(t)
  BY <1>5, <1>7, <1>8 DEF SpinnerCorrect
<1> QED BY <1>9 DEF t

LEMMA SpinnerStepKeeps ==
  ASSUME SpinnerCorrect(spinner), SpinnerNext
  PROVE  SpinnerCorrect(spinner)'
<1>1. CASE FocusSpinner \/ BlurSpinner \/ SpinKeyRefused \/ FocusChecked
  BY <1>1, FocusSpinnerStep, BlurSpinnerStep, SpinKeyRefusedStep, FocusCheckedStep
<1>2. CASE SpinKeyUp \/ LeaveButton \/ WheelRests
  BY <1>2, LetGoStep
<1>3. CASE \E turn \in Turns \cup {0}, allow \in BOOLEAN : SpinKey(turn, allow)
  BY <1>3, SpinKeyStep
<1>4. CASE \E turn \in {1, -1}, refuse, allow \in BOOLEAN : PressButton(turn, refuse, allow)
  <2>1. {1, -1} \subseteq Turns
    BY DEF Turns
  <2> QED BY <1>4, <2>1, PressButtonStep
<1>5. CASE \E turn \in {1, -1}, allow \in BOOLEAN : Wheel(turn, allow)
  <2>1. {1, -1} \subseteq Turns
    BY DEF Turns
  <2> QED BY <1>5, <2>1, WheelStep
<1>6. CASE \E turn \in Turns, allow \in BOOLEAN : Step(turn, allow)
  BY <1>6, MethodStep
<1>7. CASE \E allow \in BOOLEAN : Again(allow)
  BY <1>7, AgainStep
<1>8. CASE \E text \in Inputs : TypeInSpinner(text) \/ SetSpinner(text)
  BY <1>8, TypeInSpinnerStep, SetSpinnerStep
<1>9. CASE DisableSpinner \/ EnableSpinner \/ DestroySpinner
  BY <1>9, DeafenStep
<1>10. CASE \E focus, key, button \in BOOLEAN : LetGo(focus, key, button)
  BY <1>10, LetGoUnheardStep
<1> QED BY <1>1, <1>2, <1>3, <1>4, <1>5, <1>6, <1>7, <1>8, <1>9, <1>10 DEF SpinnerNext

LEMMA SpinnerBegins ==
  ASSUME SpinnerInit
  PROVE  SpinnerCorrect(spinner)
<1>1. 0 \in 0..Fast
  BY SpinnerAssumption
<1>2. spinner \in Spinners
  BY <1>1 DEF SpinnerInit, Spinners
<1>3. TurnFollows(spinner) /\ ToldFollows(spinner)
  BY DEF SpinnerInit, TurnFollows, ToldFollows
<1> QED BY <1>2, <1>3 DEF SpinnerCorrect

LEMMA SpinnerHolds ==
  ASSUME SpinnerCorrect(spinner)
  PROVE  SpinnerTypeOK /\ TurnsWhileHeld /\ LeftIsTold /\ BeginsSlowly
BY DEF SpinnerCorrect, Spinners, TurnFollows, ToldFollows, SpinnerTypeOK, TurnsWhileHeld,
       LeftIsTold, BeginsSlowly

-------------------------------------------------------------------------------
(* Slider.  First the arithmetic of values that are multiples of the step. *)

Sliders ==
  [vals : [Handles -> 0..Limit], two : BOOLEAN, range : BOOLEAN, step : Steps, max : 1..Limit,
   last : Handles \cup {None}, mouse : Handles \cup {None}, key : BOOLEAN, focus : Handles,
   told : [Handles -> 0..Limit], orderly : BOOLEAN, byMouse : BOOLEAN, limited : BOOLEAN]

(* No division rounds up, and what it leaves is less than the divisor. *)
LEMMA DivisionIs ==
  ASSUME NEW f \in Nat, NEW n \in Nat \ {0}
  PROVE  f \div n \in Nat /\ f % n \in 0..(n - 1) /\ f = n * (f \div n) + (f % n)
<1>1. f \div n \in Int /\ f % n \in 0..(n - 1)
  OBVIOUS
<1>2. f = n * (f \div n) + (f % n)
  OBVIOUS
<1>3. f \div n >= 0
  <2> DEFINE q == f \div n
             r == f % n
  <2>1. q \in Int /\ r \in 0..(n - 1) /\ f = n * q + r
    BY <1>1, <1>2
  <2> HIDE DEF q, r
  <2>2. ASSUME q < 0 PROVE FALSE
    <3>1. PICK d \in Nat : q = -1 - d
      <4>1. -1 - q \in Nat /\ q = -1 - (-1 - q)
        BY <2>1, <2>2
      <4> QED BY <4>1
    <3>2. n * q = -n - n * d
      BY <3>1
    <3>3. n * d \in Nat
      OBVIOUS
    <3> QED BY <2>1, <3>2, <3>3
  <2>3. q >= 0
    BY <2>1, <2>2
  <2> QED BY <2>3 DEF q
<1> QED BY <1>1, <1>2, <1>3

(* Multiples of a step are a step apart. *)
LEMMA MultiplesApart ==
  ASSUME NEW k \in Nat \ {0}, NEW i \in Nat, NEW j \in Nat, k * i < k * j
  PROVE  k * i + k <= k * j
<1>1. i < j
  <2> SUFFICES ASSUME j <= i PROVE FALSE
    OBVIOUS
  <2>1. PICK d \in Nat : i = j + d
    <3>1. i - j \in Nat /\ i = j + (i - j)
      OBVIOUS
    <3> QED BY <3>1
  <2>2. k * i = k * j + k * d
    BY <2>1
  <2>3. k * d \in Nat /\ k * j \in Nat
    OBVIOUS
  <2> QED BY <2>2, <2>3
<1>2. PICK d \in Nat : j = i + 1 + d
  <2>1. j - i - 1 \in Nat /\ j = i + 1 + (j - i - 1)
    BY <1>1
  <2> QED BY <2>1
<1>3. k * j = k * i + k + k * d
  BY <1>2
<1>4. k * d \in Nat /\ k * i \in Nat
  OBVIOUS
<1> QED BY <1>3, <1>4

LEMMA MultipleLeavesNothing ==
  ASSUME NEW k \in Nat \ {0}, NEW j \in Nat
  PROVE  (k * j) % k = 0
<1> DEFINE a == k * j
           q == a \div k
           r == a % k
<1>1. a \in Nat
  OBVIOUS
<1> HIDE DEF a
<1>2. q \in Nat /\ r \in 0..(k - 1) /\ a = k * q + r
  BY <1>1, DivisionIs
<1> HIDE DEF q, r
<1>3. k * q \in Nat /\ k * j \in Nat /\ k * q + r = k * j
  BY <1>2 DEF a
<1>4. CASE k * q < k * j
  BY <1>2, <1>3, <1>4, MultiplesApart
<1>5. CASE ~(k * q < k * j)
  BY <1>2, <1>3, <1>5
<1>6. r = 0
  BY <1>2, <1>3, <1>4, <1>5
<1> QED BY <1>6 DEF r, a

(* The multiple a of step that is nearest to fifths, within the limits. *)
Nearest(step, largest, fifths, a) ==
  /\ a \in 0..largest
  /\ \E j \in Nat : a = step * j
  /\ a > 0 => 10 * a <= 2 * fifths + 5 * step
  /\ a < largest => 2 * fifths < 10 * a + 5 * step

Limits(s) == s.max \in 1..Limit /\ s.step \in Steps /\ s.step <= s.max

LEMMA AlignedMaxIs ==
  ASSUME NEW s, Limits(s)
  PROVE  /\ s.step \in Nat \ {0} /\ s.max \in Nat
         /\ alignedMax(s) \in s.step..s.max
         /\ \E j \in Nat : alignedMax(s) = s.step * j
<1> DEFINE k == s.step
           q == s.max \div k
           r == s.max % k
<1> HIDE DEF q, r
<1>1. k \in Nat \ {0} /\ s.max \in Nat /\ k <= s.max
  <2>1. Limit \in Nat /\ Steps \subseteq 1..Limit
    BY SliderAssumption
  <2>2. s.max \in 1..Limit /\ k \in Steps /\ k <= s.max
    BY DEF Limits
  <2>3. k \in 1..Limit
    BY <2>1, <2>2
  <2> HIDE DEF k
  <2> QED BY <2>1, <2>2, <2>3
<1> USE DEF q, r
<1>2. q \in Nat /\ r \in 0..(k - 1) /\ s.max = k * q + r
  BY <1>1, DivisionIs
<1>3. alignedMax(s) = k * q
  <2>1. alignedMax(s) = q * k
    BY DEF alignedMax
  <2> QED BY <1>1, <1>2, <2>1
<1> HIDE DEF k, q, r
<1>4. q # 0
  <2>1. q = 0 => k * q = 0
    BY <1>1
  <2> QED BY <1>1, <1>2, <2>1
<1>5. k * q \in Nat /\ k <= k * q
  <2>1. PICK d \in Nat : q = 1 + d
    <3>1. q - 1 \in Nat /\ q = 1 + (q - 1)
      BY <1>2, <1>4
    <3> QED BY <3>1
  <2>2. k * q = k + k * d
    BY <1>1, <2>1
  <2>3. k * d \in Nat
    BY <1>1
  <2> QED BY <1>1, <2>2, <2>3
<1>6. k * q \in k..s.max
  BY <1>1, <1>2, <1>5
<1> QED BY <1>1, <1>2, <1>3, <1>6 DEF k

LEMMA TrimIs ==
  ASSUME NEW s, Limits(s), NEW fifths \in Int
  PROVE  Nearest(s.step, alignedMax(s), fifths, trimAlign(s, fifths))
<1> DEFINE k == s.step
           largest == alignedMax(s)
           n == numPages * k
           rest == fifths % n
           q == fifths \div n
           a == trimAlign(s, fifths)
           up == IF 2 * rest >= n THEN n ELSE 0
<1>1. k \in Nat \ {0} /\ largest \in Nat /\ k <= largest /\ \E j \in Nat : largest = k * j
  BY AlignedMaxIs
<1>2. n = 5 * k /\ n \in Nat \ {0}
  BY <1>1 DEF numPages
<1>3. a = IF fifths <= 0 THEN 0 ELSE IF fifths >= 5 * largest THEN largest ELSE (fifths - rest + up) \div 5
  BY DEF trimAlign, numPages
<1>4. up = IF 2 * rest >= n THEN n ELSE 0
  OBVIOUS
<1> HIDE DEF k, largest, a, up, n
<1>5. CASE fifths <= 0
  <2>1. a = 0
    BY <1>3, <1>5
  <2>2. a = k * 0
    BY <1>1, <2>1
  <2> QED BY <1>1, <1>5, <2>1, <2>2 DEF Nearest, k, largest, a
<1>6. CASE fifths > 0 /\ fifths >= 5 * largest
  <2>1. a = largest
    BY <1>3, <1>6
  <2> QED BY <1>1, <1>6, <2>1 DEF Nearest, k, largest, a
<1>7. CASE fifths > 0 /\ fifths < 5 * largest
  <2>1. q \in Nat /\ rest \in 0..(n - 1) /\ fifths = n * q + rest
    <3>1. fifths \in Nat
      BY <1>7
    <3> QED BY <1>2, <3>1, DivisionIs
  <2>2. a = (fifths - rest + up) \div 5
    BY <1>3, <1>7, <1>1
  <2> HIDE DEF q, rest
  <2>3. n * q = 5 * (k * q) /\ k * q \in Nat
    BY <1>1, <1>2, <2>1
  <2>4. k * (q + 1) = k * q + k
    BY <1>1, <2>1
  <2>5. k * q + k <= largest
    <3>1. PICK j \in Nat : largest = k * j
      BY <1>1
    <3>2. k * q < k * j
      BY <1>1, <1>7, <2>1, <2>3, <3>1, <1>2
    <3> QED BY <1>1, <2>1, <3>1, <3>2, MultiplesApart
  <2>6. CASE 2 * rest >= n
    <3>1. fifths - rest + up = 5 * (k * q + k)
      BY <1>1, <1>2, <1>4, <2>1, <2>3, <2>6
    <3>2. a = k * q + k
      BY <1>1, <2>2, <2>3, <3>1
    <3>3. \E j \in Nat : a = k * j
      BY <2>1, <2>4, <3>2
    <3>4. 10 * a <= 2 * fifths + 5 * k /\ 2 * fifths < 10 * a + 5 * k
      BY <1>1, <1>2, <2>1, <2>3, <2>6, <3>2
    <3>5. a \in 0..largest
      BY <1>1, <2>3, <2>5, <3>2
    <3> QED BY <3>3, <3>4, <3>5 DEF Nearest, k, largest, a
  <2>7. CASE 2 * rest < n
    <3>1. fifths - rest + up = 5 * (k * q)
      BY <1>1, <1>2, <1>4, <2>1, <2>3, <2>7
    <3>2. a = k * q
      BY <1>1, <2>2, <2>3, <3>1
    <3>3. \E j \in Nat : a = k * j
      BY <2>1, <3>2
    <3>4. 10 * a <= 2 * fifths + 5 * k /\ 2 * fifths < 10 * a + 5 * k
      BY <1>1, <1>2, <2>1, <2>3, <2>7, <3>2
    <3>5. a \in 0..largest
      BY <1>1, <2>3, <2>5, <3>2
    <3> QED BY <3>3, <3>4, <3>5 DEF Nearest, k, largest, a
  <2>8. 2 * rest >= n \/ 2 * rest < n
    BY <1>2, <2>1
  <2> QED BY <2>6, <2>7, <2>8
<1> QED BY <1>1, <1>5, <1>6, <1>7

LEMMA NearestOrder ==
  ASSUME NEW k \in Nat \ {0}, NEW largest \in Nat, NEW f \in Int, NEW g \in Int, f <= g,
         NEW a, NEW b, Nearest(k, largest, f, a), Nearest(k, largest, g, b)
  PROVE  a <= b
<1>1. PICK i \in Nat : a = k * i
  BY DEF Nearest
<1>2. PICK j \in Nat : b = k * j
  BY DEF Nearest
<1>3. a \in 0..largest /\ b \in 0..largest
  BY DEF Nearest
<1>4. ASSUME b < a PROVE FALSE
  <2>1. b + k <= a
    BY <1>1, <1>2, <1>4, MultiplesApart
  <2>2. 10 * a <= 2 * f + 5 * k /\ 2 * g < 10 * b + 5 * k
    BY <1>3, <1>4 DEF Nearest
  <2> QED BY <1>3, <2>1, <2>2
<1> QED BY <1>3, <1>4

LEMMA NearestOfMultiple ==
  ASSUME NEW k \in Nat \ {0}, NEW largest \in Nat, NEW a \in 0..largest, \E i \in Nat : a = k * i,
         NEW b, Nearest(k, largest, 5 * a, b)
  PROVE  b = a
<1>1. PICK i \in Nat : a = k * i
  OBVIOUS
<1>2. PICK j \in Nat : b = k * j
  BY DEF Nearest
<1>3. b \in 0..largest
  BY DEF Nearest
<1>4. ASSUME b < a PROVE FALSE
  <2>1. b + k <= a
    BY <1>1, <1>2, <1>4, MultiplesApart
  <2>2. 2 * (5 * a) < 10 * b + 5 * k
    BY <1>3, <1>4 DEF Nearest
  <2> QED BY <1>3, <2>1, <2>2
<1>5. ASSUME a < b PROVE FALSE
  <2>1. a + k <= b
    BY <1>1, <1>2, <1>5, MultiplesApart
  <2>2. 10 * b <= 2 * (5 * a) + 5 * k
    BY <1>3, <1>5 DEF Nearest
  <2> QED BY <1>3, <2>1, <2>2
<1> QED BY <1>3, <1>4, <1>5

(* A value that the slider can show. *)
Values(s) == {a \in 0..alignedMax(s) : \E j \in Nat : a = s.step * j}

LEMMA TrimmedIsValue ==
  ASSUME NEW s, Limits(s), NEW fifths \in Int
  PROVE  trimAlign(s, fifths) \in Values(s)
BY TrimIs DEF Nearest, Values

LEMMA AlignedIs ==
  ASSUME NEW s, Limits(s)
  PROVE  /\ \A v \in Int : aligned(s, v) \in Values(s)
         /\ \A a \in Values(s) : aligned(s, a) = a
         /\ \A v, w \in Int : v <= w => aligned(s, v) <= aligned(s, w)
<1>1. s.step \in Nat \ {0} /\ alignedMax(s) \in Nat
  BY AlignedMaxIs
<1>2. ASSUME NEW v \in Int
      PROVE  Nearest(s.step, alignedMax(s), 5 * v, aligned(s, v)) /\ aligned(s, v) \in Values(s)
  <2>1. 5 * v \in Int /\ aligned(s, v) = trimAlign(s, 5 * v)
    BY DEF aligned, numPages
  <2> QED BY <2>1, TrimIs, TrimmedIsValue
<1>3. ASSUME NEW a \in Values(s)
      PROVE  aligned(s, a) = a
  <2>1. a \in 0..alignedMax(s) /\ a \in Int /\ \E i \in Nat : a = s.step * i
    BY <1>1 DEF Values
  <2> QED BY <1>1, <1>2, <2>1, NearestOfMultiple
<1>4. ASSUME NEW v \in Int, NEW w \in Int, v <= w
      PROVE  aligned(s, v) <= aligned(s, w)
  <2>1. 5 * v \in Int /\ 5 * w \in Int /\ 5 * v <= 5 * w
    BY <1>4
  <2>2. Nearest(s.step, alignedMax(s), 5 * v, aligned(s, v)) /\ Nearest(s.step, alignedMax(s), 5 * w, aligned(s, w))
    BY <1>2
  <2> QED BY <1>1, <2>1, <2>2, NearestOrder
<1> QED BY <1>2, <1>3, <1>4

LEMMA ValuesAre ==
  ASSUME NEW s, Limits(s), NEW a \in Values(s)
  PROVE  /\ a \in 0..s.max /\ a \in 0..Limit /\ a % s.step = 0
         /\ 0 \in Values(s) /\ alignedMax(s) \in Values(s) /\ alignedMax(s) > 0 /\ a <= alignedMax(s)
<1>1. /\ s.step \in Nat \ {0} /\ s.max \in Nat /\ alignedMax(s) \in s.step..s.max
      /\ \E j \in Nat : alignedMax(s) = s.step * j
  BY AlignedMaxIs
<1>2. a \in 0..alignedMax(s) /\ \E j \in Nat : a = s.step * j
  BY DEF Values
<1>3. a % s.step = 0
  BY <1>1, <1>2, MultipleLeavesNothing
<1>4. s.max <= Limit /\ Limit \in Nat
  BY SliderAssumption DEF Limits
<1>5. 0 = s.step * 0
  BY <1>1
<1>6. 0 \in Values(s) /\ alignedMax(s) \in Values(s)
  BY <1>1, <1>5 DEF Values
<1> QED BY <1>1, <1>2, <1>3, <1>4, <1>6

(* The handles of a range are in order, unless the limits have changed     *)
(* since the values were set.                                              *)
HandlesOrdered(s) ==
  s.range /\ (~s.limited \/ s.byMouse) => valueOf(s, 1) <= valueOf(s, 2)

(* By mouse, the second handle is taken only when the first is not at the  *)
(* end, and the one changed last can leave where it is.                    *)
FirstCanPart(s) ==
  /\ s.byMouse => ~s.key
  /\ s.range /\ s.byMouse /\ s.mouse = 2 => valueOf(s, 1) # alignedMax(s)
  /\ s.range /\ s.byMouse /\ Idle(s) /\ valueOf(s, 1) = alignedMax(s) => s.last # 2

(* The page was told every value but that of the handle that slides.       *)
ToldButSliding(s) ==
  s.orderly =>
    /\ s.mouse \in There(s) \cup {None} /\ (s.mouse = None \/ ~s.key)
    /\ \A i \in There(s) : s.mouse = i \/ (s.key /\ s.focus = i) \/ s.told[i] = valueOf(s, i)

SliderCorrect(s) ==
  /\ s \in Sliders /\ Limits(s) /\ (s.range => s.two)
  /\ HandlesOrdered(s) /\ FirstCanPart(s) /\ ToldButSliding(s)

LEMMA HandlesAre ==
  /\ Handles = {1, 2} /\ None = 0 /\ Limit \in Nat
  /\ Other(1) = 2 /\ Other(2) = 1
BY SliderAssumption DEF Handles, None, Other

LEMMA ValueIs ==
  ASSUME NEW s \in Sliders, Limits(s), NEW i \in Handles
  PROVE  valueOf(s, i) \in Values(s)
<1>1. s.vals[i] \in 0..Limit /\ Limit \in Nat
  BY HandlesAre DEF Sliders
<1>2. s.vals[i] \in Int
  BY <1>1
<1> QED BY <1>2, AlignedIs DEF valueOf

(* What depends on step and maximum alone. *)
LEMMA LimitsFix ==
  ASSUME NEW s, NEW t, t.step = s.step, t.max = s.max, Limits(s)
  PROVE  /\ Limits(t) /\ alignedMax(t) = alignedMax(s) /\ Values(t) = Values(s)
         /\ \A v : aligned(t, v) = aligned(s, v)
         /\ \A i : t.vals[i] = s.vals[i] => valueOf(t, i) = valueOf(s, i)
<1>1. Limits(t)
  BY DEF Limits
<1>2. alignedMax(t) = alignedMax(s)
  BY DEF alignedMax
<1>3. Values(t) = Values(s)
  BY <1>2 DEF Values
<1>4. \A f : trimAlign(t, f) = trimAlign(s, f)
  BY <1>2 DEF trimAlign
<1>5. \A v : aligned(t, v) = aligned(s, v)
  BY <1>4 DEF aligned
<1> QED BY <1>1, <1>2, <1>3, <1>5 DEF valueOf

(* A step that leaves the values alone, and tells the page nothing. *)
LEMMA ValuesKeep ==
  ASSUME NEW s \in Sliders, Limits(s), NEW t, t.step = s.step, t.max = s.max, t.vals = s.vals
  PROVE  /\ Limits(t) /\ alignedMax(t) = alignedMax(s)
         /\ valueOf(t, 1) = valueOf(s, 1) /\ valueOf(t, 2) = valueOf(s, 2)
BY LimitsFix

WithValue(s, i, x) == [s EXCEPT !.vals[i] = x]

LEMMA WithValueIs ==
  ASSUME NEW s \in Sliders, Limits(s), NEW i \in Handles, NEW x \in Values(s),
         NEW t, t = WithValue(s, i, x)
  PROVE  /\ t \in Sliders /\ Limits(t) /\ alignedMax(t) = alignedMax(s)
         /\ t.two = s.two /\ t.range = s.range /\ t.last = s.last /\ t.mouse = s.mouse
         /\ t.key = s.key /\ t.focus = s.focus /\ t.told = s.told /\ t.orderly = s.orderly
         /\ t.byMouse = s.byMouse /\ t.limited = s.limited
         /\ valueOf(t, i) = x /\ valueOf(t, Other(i)) = valueOf(s, Other(i))
         /\ \A j \in Handles \ {i} : valueOf(t, j) = valueOf(s, j)
<1>1. x \in 0..Limit
  BY ValuesAre
<1>2. t = [s EXCEPT !.vals = [s.vals EXCEPT ![i] = x]]
  BY DEF WithValue
<1>3. [s.vals EXCEPT ![i] = x] \in [Handles -> 0..Limit]
  BY <1>1 DEF Sliders
<1>4. t \in Sliders /\ t.vals = [s.vals EXCEPT ![i] = x]
  BY <1>2, <1>3 DEF Sliders
<1>5. /\ t.two = s.two /\ t.range = s.range /\ t.last = s.last /\ t.mouse = s.mouse
      /\ t.key = s.key /\ t.focus = s.focus /\ t.told = s.told /\ t.orderly = s.orderly
      /\ t.byMouse = s.byMouse /\ t.limited = s.limited /\ t.step = s.step /\ t.max = s.max
  BY <1>2 DEF Sliders
<1>6. t.vals[i] = x /\ \A j \in Handles \ {i} : t.vals[j] = s.vals[j]
  BY <1>4 DEF Sliders
<1>7. valueOf(t, i) = x
  <2>1. valueOf(t, i) = aligned(s, x)
    BY <1>5, <1>6, LimitsFix DEF valueOf
  <2> QED BY <2>1, AlignedIs
<1>8. \A j \in Handles \ {i} : valueOf(t, j) = valueOf(s, j)
  BY <1>5, <1>6, LimitsFix
<1>9. valueOf(t, Other(i)) = valueOf(s, Other(i))
  BY <1>8, HandlesAre
<1>10. Limits(t) /\ alignedMax(t) = alignedMax(s)
  BY <1>5, LimitsFix
<1> QED BY <1>4, <1>5, <1>7, <1>8, <1>9, <1>10

LEMMA ChangeIs ==
  ASSUME NEW s \in Sliders, Limits(s), NEW i \in Handles, NEW t, t = change(s, i)
  PROVE  /\ t \in Sliders /\ Limits(t) /\ alignedMax(t) = alignedMax(s)
         /\ t.two = s.two /\ t.range = s.range /\ t.mouse = s.mouse /\ t.key = s.key
         /\ t.focus = s.focus /\ t.orderly = s.orderly /\ t.byMouse = s.byMouse
         /\ t.limited = s.limited
         /\ valueOf(t, 1) = valueOf(s, 1) /\ valueOf(t, 2) = valueOf(s, 2)
         /\ Idle(s) => t.last = i /\ t.told[i] = valueOf(s, i)
         /\ \A j \in Handles \ {i} : t.told[j] = s.told[j]
         /\ ~Idle(s) => t = s
<1>1. CASE ~Idle(s)
  <2>1. t = s
    BY <1>1 DEF change
  <2> QED BY <1>1, <2>1
<1>2. CASE Idle(s)
  <2> DEFINE x == valueOf(s, i)
             w == [s.told EXCEPT ![i] = x]
  <2>1. x \in 0..Limit
    BY ValueIs, ValuesAre
  <2>2. t = [s EXCEPT !.last = i, !.told = w]
    BY <1>2 DEF change
  <2> HIDE DEF x
  <2>3. w \in [Handles -> 0..Limit] /\ w[i] = x /\ \A j \in Handles \ {i} : w[j] = s.told[j]
    BY <2>1 DEF Sliders
  <2> HIDE DEF w
  <2>4. t \in Sliders /\ t.last = i /\ t.told = w
    BY <2>2, <2>3 DEF Sliders
  <2>5. /\ t.two = s.two /\ t.range = s.range /\ t.mouse = s.mouse /\ t.key = s.key
        /\ t.focus = s.focus /\ t.orderly = s.orderly /\ t.byMouse = s.byMouse
        /\ t.limited = s.limited /\ t.step = s.step /\ t.max = s.max /\ t.vals = s.vals
    BY <2>2 DEF Sliders
  <2>6. /\ Limits(t) /\ alignedMax(t) = alignedMax(s)
        /\ valueOf(t, 1) = valueOf(s, 1) /\ valueOf(t, 2) = valueOf(s, 2)
    BY <2>5, ValuesKeep
  <2> QED BY <1>2, <2>3, <2>4, <2>5, <2>6 DEF x
<1> QED BY <1>1, <1>2

(* A slide is refused, or it moves its handle as far as the other lets it. *)
LEMMA SlideIs ==
  ASSUME NEW s \in Sliders, Limits(s), ~Idle(s), NEW i \in Handles, NEW v \in Values(s),
         NEW allow \in BOOLEAN, NEW t, t = slide(s, i, v, allow)
  PROVE  \/ t = s
         \/ \E x \in Values(s) :
              /\ t = WithValue(s, i, x)
              /\ s.range => IF i = 1 THEN x <= valueOf(s, 2) ELSE x >= valueOf(s, 1)
<1> DEFINE a == valueOf(s, Other(i))
           new == IF ~s.range THEN v
                  ELSE IF i = 1 THEN (IF v < a THEN v ELSE a) ELSE (IF v > a THEN v ELSE a)
<1>1. a \in Values(s)
  BY HandlesAre, ValueIs
<1>2. t = IF new = valueOf(s, i) \/ ~allow THEN s
          ELSE change([s EXCEPT !.vals[i] = aligned(s, new)], i)
  BY DEF slide
<1>3. i = 1 => a = valueOf(s, 2)
  BY HandlesAre
<1>4. i = 2 => a = valueOf(s, 1)
  BY HandlesAre
<1> HIDE DEF a
<1>5. a \in Int /\ v \in Int
  BY <1>1, ValuesAre
<1>6. new \in Values(s)
  BY <1>1
<1>7. s.range => IF i = 1 THEN new <= valueOf(s, 2) ELSE new >= valueOf(s, 1)
  BY <1>3, <1>4, <1>5, HandlesAre
<1> HIDE DEF new
<1>8. aligned(s, new) = new
  BY <1>6, AlignedIs
<1>9. CASE new = valueOf(s, i) \/ ~allow
  BY <1>2, <1>9
<1>10. CASE ~(new = valueOf(s, i) \/ ~allow)
  <2> DEFINE u == WithValue(s, i, new)
  <2>1. t = change(u, i)
    BY <1>2, <1>8, <1>10 DEF WithValue
  <2>2. u \in Sliders /\ Limits(u) /\ u.mouse = s.mouse /\ u.key = s.key
    BY <1>6, WithValueIs
  <2> HIDE DEF u
  <2>3. ~Idle(u)
    BY <2>2 DEF Idle
  <2>4. t = u
    BY <2>1, <2>2, <2>3, ChangeIs
  <2>5. t = WithValue(s, i, new)
    BY <2>4 DEF u
  <2> QED BY <1>6, <1>7, <2>5
<1> QED BY <1>9, <1>10

LEMMA SlideKeeps ==
  ASSUME NEW s, SliderCorrect(s), ~Idle(s), NEW i \in Handles, NEW v \in Values(s),
         NEW allow \in BOOLEAN, NEW t, t = slide(s, i, v, allow),
         s.orderly => s.mouse = i \/ (s.key /\ s.focus = i),
         s.range /\ s.byMouse => s.mouse = i
  PROVE  SliderCorrect(t)
<1>1. s \in Sliders /\ Limits(s) /\ (s.range => s.two)
      /\ HandlesOrdered(s) /\ FirstCanPart(s) /\ ToldButSliding(s)
  BY DEF SliderCorrect
<1>2. SUFFICES ASSUME NEW x \in Values(s), t = WithValue(s, i, x),
                      s.range => IF i = 1 THEN x <= valueOf(s, 2) ELSE x >= valueOf(s, 1)
               PROVE  SliderCorrect(t)
  BY <1>1, SlideIs
<1>3. /\ t \in Sliders /\ Limits(t) /\ alignedMax(t) = alignedMax(s)
      /\ t.two = s.two /\ t.range = s.range /\ t.last = s.last /\ t.mouse = s.mouse
      /\ t.key = s.key /\ t.focus = s.focus /\ t.told = s.told /\ t.orderly = s.orderly
      /\ t.byMouse = s.byMouse /\ t.limited = s.limited
      /\ valueOf(t, i) = x /\ \A j \in Handles \ {i} : valueOf(t, j) = valueOf(s, j)
  BY <1>1, <1>2, WithValueIs
<1>4. i \in {1, 2}
  BY HandlesAre
<1>5. ~Idle(t)
  BY <1>3 DEF Idle
<1>6. HandlesOrdered(t)
  <2> SUFFICES ASSUME t.range PROVE valueOf(t, 1) <= valueOf(t, 2)
    BY DEF HandlesOrdered
  <2>1. CASE i = 1
    <3>1. valueOf(t, 1) = x /\ valueOf(t, 2) = valueOf(s, 2)
      BY <1>3, <2>1, HandlesAre
    <3> QED BY <1>2, <1>3, <2>1, <3>1
  <2>2. CASE i = 2
    <3>1. valueOf(t, 2) = x /\ valueOf(t, 1) = valueOf(s, 1)
      BY <1>3, <2>2, HandlesAre
    <3>2. x >= valueOf(s, 1)
      BY <1>2, <1>3, <2>2
    <3>3. x \in Int /\ valueOf(s, 1) \in Int
      BY <1>1, HandlesAre, ValueIs, ValuesAre
    <3> QED BY <3>1, <3>2, <3>3
  <2> QED BY <1>4, <2>1, <2>2
<1>7. FirstCanPart(t)
  <2>1. ASSUME t.range, t.byMouse, t.mouse = 2 PROVE valueOf(t, 1) # alignedMax(t)
    <3>1. i = 2 /\ s.range /\ s.byMouse /\ s.mouse = 2
      BY <1>3, <2>1
    <3>2. valueOf(t, 1) = valueOf(s, 1)
      BY <1>3, <3>1, HandlesAre
    <3> QED BY <1>1, <1>3, <3>1, <3>2 DEF FirstCanPart
  <2> QED BY <1>1, <1>3, <1>5, <2>1 DEF FirstCanPart
<1>8. ToldButSliding(t)
  <2>1. SUFFICES ASSUME t.orderly
                 PROVE  /\ t.mouse \in There(t) \cup {None} /\ (t.mouse = None \/ ~t.key)
                        /\ \A j \in There(t) : t.mouse = j \/ (t.key /\ t.focus = j) \/ t.told[j] = valueOf(t, j)
    BY DEF ToldButSliding
  <2>2. There(t) = There(s) /\ There(s) \subseteq Handles
    BY <1>3, HandlesAre DEF There
  <2>3. /\ s.mouse \in There(s) \cup {None} /\ (s.mouse = None \/ ~s.key)
        /\ \A j \in There(s) : s.mouse = j \/ (s.key /\ s.focus = j) \/ s.told[j] = valueOf(s, j)
    BY <1>1, <1>3, <2>1 DEF ToldButSliding
  <2>4. t.mouse = i \/ (t.key /\ t.focus = i)
    BY <1>3, <2>1
  <2>5. ASSUME NEW j \in There(t)
        PROVE  t.mouse = j \/ (t.key /\ t.focus = j) \/ t.told[j] = valueOf(t, j)
    BY <1>3, <2>2, <2>3, <2>4
  <2> QED BY <1>3, <2>2, <2>3, <2>5
<1> QED BY <1>1, <1>3, <1>6, <1>7, <1>8 DEF SliderCorrect

LEMMA MeddledCorrect ==
  ASSUME NEW t \in Sliders, Limits(t), t.range => t.two, HandlesOrdered(t), ~t.byMouse, ~t.orderly
  PROVE  SliderCorrect(t)
BY DEF SliderCorrect, FirstCanPart, ToldButSliding

LEMMA PressSliderStep ==
  ASSUME SliderCorrect(slider), NEW v \in 0..Limit, NEW hovered \in BOOLEAN, NEW allow \in BOOLEAN,
         PressSlider(v, hovered, allow)
  PROVE  SliderCorrect(slider)'
<1> DEFINE s == slider
           t == slider'
           a == aligned(s, v)
           i == closest(s, a)
           begun == [s EXCEPT !.mouse = i, !.focus = i, !.orderly = @ /\ ~s.key]
<1>1. s \in Sliders /\ Limits(s) /\ (s.range => s.two)
      /\ HandlesOrdered(s) /\ FirstCanPart(s) /\ ToldButSliding(s) /\ s.mouse = None
  BY DEF SliderCorrect, PressSlider
<1>2. t = IF hovered THEN begun ELSE slide(begun, i, a, allow)
  BY DEF PressSlider
<1>3. i \in {1, 2} /\ (i = 2 => s.two)
  BY DEF closest
<1>4. i = 2 => \/ Away(s, 2, a) # Away(s, 1, a)
               \/ s.last = 2 \/ valueOf(s, 2) = 0
  <2>1. Away(s, 2, a) < Away(s, 1, a) => Away(s, 2, a) # Away(s, 1, a)
    <3>1. v \in Int /\ 1 \in Handles /\ 2 \in Handles
      BY HandlesAre
    <3>2. a \in Int /\ valueOf(s, 1) \in Int /\ valueOf(s, 2) \in Int
      BY <1>1, <3>1, AlignedIs, ValueIs, ValuesAre
    <3>3. Away(s, 1, a) \in Int /\ Away(s, 2, a) \in Int
      <4> HIDE DEF a
      <4> QED BY <3>2 DEF Away
    <3> HIDE DEF a
    <3> QED BY <3>3
  <2> QED BY <2>1 DEF closest
<1>5. a \in Values(s)
  BY <1>1, AlignedIs
<1>6. valueOf(s, 1) = valueOf(s, 2) => Away(s, 2, a) = Away(s, 1, a)
  BY DEF Away
<1> HIDE DEF s, t, i, a
<1>7. begun \in Sliders
  <2>1. i \in Handles /\ (s.orderly /\ ~s.key) \in BOOLEAN
    BY <1>3, HandlesAre
  <2> QED BY <1>1, <2>1 DEF Sliders
<1>8. /\ begun.mouse = i /\ begun.focus = i
      /\ begun.two = s.two /\ begun.range = s.range /\ begun.last = s.last
      /\ begun.key = s.key /\ begun.told = s.told /\ begun.byMouse = s.byMouse
      /\ begun.limited = s.limited /\ begun.step = s.step /\ begun.max = s.max
      /\ begun.vals = s.vals
  BY <1>1 DEF Sliders
<1>9. begun.orderly => s.orderly /\ ~s.key
  BY <1>1 DEF Sliders
<1> HIDE DEF begun
<1>10. /\ Limits(begun) /\ alignedMax(begun) = alignedMax(s)
       /\ valueOf(begun, 1) = valueOf(s, 1) /\ valueOf(begun, 2) = valueOf(s, 2)
       /\ Values(begun) = Values(s)
  BY <1>1, <1>8, ValuesKeep, LimitsFix
<1>11. ~Idle(begun)
  BY <1>3, <1>8, HandlesAre DEF Idle
<1>12. HandlesOrdered(begun)
  BY <1>1, <1>8, <1>10 DEF HandlesOrdered
<1>13. ASSUME begun.range, begun.byMouse, i = 2, valueOf(s, 1) = alignedMax(s)
       PROVE  FALSE
  <2>1. s.range /\ s.byMouse /\ ~s.key
    BY <1>1, <1>8, <1>13 DEF FirstCanPart
  <2>2. Idle(s)
    BY <1>1, <2>1 DEF Idle
  <2>3. s.last # 2
    BY <1>1, <1>13, <2>1, <2>2 DEF FirstCanPart
  <2>4. valueOf(s, 1) <= valueOf(s, 2)
    BY <1>1, <2>1 DEF HandlesOrdered
  <2>5. valueOf(s, 2) \in Values(s) /\ valueOf(s, 1) \in Values(s)
    BY <1>1, HandlesAre, ValueIs
  <2>6. /\ valueOf(s, 2) \in Int /\ alignedMax(s) \in Int /\ alignedMax(s) > 0
        /\ valueOf(s, 2) <= alignedMax(s)
    BY <1>1, <2>5, ValuesAre, AlignedMaxIs
  <2>7. valueOf(s, 2) = alignedMax(s)
    BY <1>13, <2>4, <2>6
  <2>8. valueOf(s, 2) # 0
    BY <2>6, <2>7
  <2>9. Away(s, 2, a) = Away(s, 1, a)
    BY <1>6, <1>13, <2>7
  <2> QED BY <1>4, <1>13, <2>3, <2>8, <2>9
<1>14. FirstCanPart(begun)
  BY <1>1, <1>8, <1>10, <1>11, <1>13 DEF FirstCanPart
<1>15. ToldButSliding(begun)
  <2>1. There(begun) = There(s) /\ There(s) \subseteq Handles
    BY <1>8, HandlesAre DEF There
  <2>2. i \in There(s)
    BY <1>3, HandlesAre DEF There
  <2>3. ASSUME begun.orderly, NEW j \in There(begun)
        PROVE  begun.told[j] = valueOf(begun, j)
    <3>1. s.told[j] = valueOf(s, j)
      BY <1>1, <1>9, <2>1, <2>3, HandlesAre DEF ToldButSliding
    <3>2. valueOf(begun, j) = valueOf(s, j)
      BY <1>10, <2>1, <2>3, HandlesAre
    <3> QED BY <1>8, <3>1, <3>2
  <2> QED BY <1>8, <1>9, <2>1, <2>2, <2>3 DEF ToldButSliding
<1>16. SliderCorrect(begun)
  BY <1>1, <1>7, <1>8, <1>10, <1>12, <1>14, <1>15 DEF SliderCorrect
<1>17. SliderCorrect(t)
  <2>1. CASE hovered
    BY <1>2, <1>16, <2>1
  <2>2. CASE ~hovered
    <3>1. t = slide(begun, i, a, allow) /\ i \in Handles /\ a \in Values(begun)
      BY <1>2, <1>3, <1>5, <1>10, <2>2, HandlesAre
    <3> QED BY <1>8, <1>11, <1>16, <3>1, SlideKeeps
  <2> QED BY <2>1, <2>2
<1> QED BY <1>17 DEF t

LEMMA DragSliderStep ==
  ASSUME SliderCorrect(slider), NEW v \in 0..Limit, NEW allow \in BOOLEAN, DragSlider(v, allow)
  PROVE  SliderCorrect(slider)'
<1> DEFINE s == slider
           t == slider'
           i == IF s.two THEN s.mouse ELSE 1
           a == aligned(s, v)
<1>1. s \in Sliders /\ Limits(s) /\ (s.range => s.two) /\ ToldButSliding(s) /\ s.mouse # None
      /\ SliderCorrect(s)
  BY DEF SliderCorrect, DragSlider
<1>2. t = slide(s, i, a, allow)
  BY DEF DragSlider
<1>3. i \in Handles
  BY <1>1, HandlesAre DEF Sliders
<1>4. s.orderly => s.mouse = i
  BY <1>1, HandlesAre DEF ToldButSliding, There
<1>5. s.range => s.mouse = i
  BY <1>1
<1>6. a \in Values(s)
  BY <1>1, AlignedIs
<1>7. ~Idle(s)
  BY <1>1 DEF Idle
<1> HIDE DEF s, t, i, a
<1>8. SliderCorrect(t)
  BY <1>1, <1>2, <1>3, <1>4, <1>5, <1>6, <1>7, SlideKeeps
<1> QED BY <1>8 DEF t

LEMMA ReleaseSliderStep ==
  ASSUME SliderCorrect(slider), ReleaseSlider
  PROVE  SliderCorrect(slider)'
<1> DEFINE s == slider
           t == slider'
           i == IF s.two THEN s.mouse ELSE 1
           u == [s EXCEPT !.mouse = None]
<1>1. s \in Sliders /\ Limits(s) /\ (s.range => s.two) /\ s.mouse # None
      /\ HandlesOrdered(s) /\ FirstCanPart(s) /\ ToldButSliding(s)
  BY DEF SliderCorrect, ReleaseSlider
<1>2. t = change(u, i)
  BY DEF ReleaseSlider, mouseStop
<1>3. i \in Handles
  BY <1>1, HandlesAre DEF Sliders
<1>4. s.orderly => s.mouse = i /\ s.key = FALSE
  BY <1>1, HandlesAre DEF ToldButSliding, There, Sliders
<1>5. s.range => s.mouse = i
  BY <1>1
<1> HIDE DEF s, t, i
<1>6. u \in Sliders /\ u.mouse = None
  BY <1>1 DEF Sliders
<1>7. /\ u.two = s.two /\ u.range = s.range /\ u.last = s.last /\ u.key = s.key
      /\ u.focus = s.focus /\ u.told = s.told /\ u.orderly = s.orderly /\ u.byMouse = s.byMouse
      /\ u.limited = s.limited /\ u.step = s.step /\ u.max = s.max /\ u.vals = s.vals
  BY <1>1 DEF Sliders
<1> HIDE DEF u
<1>8. /\ Limits(u) /\ alignedMax(u) = alignedMax(s)
      /\ valueOf(u, 1) = valueOf(s, 1) /\ valueOf(u, 2) = valueOf(s, 2)
  BY <1>1, <1>7, ValuesKeep
<1>9. Idle(u) <=> ~u.key
  BY <1>6 DEF Idle
<1>10. /\ t \in Sliders /\ Limits(t) /\ alignedMax(t) = alignedMax(u)
       /\ t.two = u.two /\ t.range = u.range /\ t.mouse = u.mouse /\ t.key = u.key
       /\ t.focus = u.focus /\ t.orderly = u.orderly /\ t.byMouse = u.byMouse
       /\ t.limited = u.limited
       /\ valueOf(t, 1) = valueOf(u, 1) /\ valueOf(t, 2) = valueOf(u, 2)
       /\ (Idle(u) => t.last = i /\ t.told[i] = valueOf(u, i))
       /\ \A j \in Handles \ {i} : t.told[j] = u.told[j]
  BY <1>2, <1>3, <1>6, <1>8, ChangeIs
<1>11. HandlesOrdered(t)
  BY <1>1, <1>7, <1>8, <1>10 DEF HandlesOrdered
<1>12. FirstCanPart(t)
  <2>1. t.byMouse => ~t.key
    BY <1>1, <1>7, <1>10 DEF FirstCanPart
  <2>2. t.mouse # 2
    BY <1>6, <1>10, HandlesAre
  <2>3. ASSUME t.range, t.byMouse, Idle(t), valueOf(t, 1) = alignedMax(t), t.last = 2 PROVE FALSE
    <3>1. s.range /\ s.byMouse /\ valueOf(s, 1) = alignedMax(s) /\ ~u.key
      BY <1>7, <1>8, <1>10, <2>3 DEF Idle
    <3>2. s.mouse = 2
      BY <1>5, <1>9, <1>10, <2>3, <3>1
    <3> QED BY <1>1, <3>1, <3>2 DEF FirstCanPart
  <2> QED BY <2>1, <2>2, <2>3 DEF FirstCanPart
<1>13. ToldButSliding(t)
  <2>1. There(t) = There(s) /\ There(s) \subseteq Handles
    BY <1>7, <1>10, HandlesAre DEF There
  <2>2. ASSUME t.orderly, NEW j \in There(t)
        PROVE  t.told[j] = valueOf(t, j)
    <3>1. s.orderly /\ s.mouse = i /\ ~u.key
      BY <1>4, <1>7, <1>10, <2>2
    <3>2. valueOf(t, j) = valueOf(s, j) /\ valueOf(u, j) = valueOf(s, j)
      BY <1>8, <1>10, <2>1, <2>2, HandlesAre
    <3>3. CASE j = i
      BY <1>9, <1>10, <3>1, <3>2, <3>3
    <3>4. CASE j # i
      <4>1. s.told[j] = valueOf(s, j)
        BY <1>1, <1>7, <2>1, <2>2, <3>1, <3>4 DEF ToldButSliding
      <4> QED BY <1>7, <1>10, <2>1, <2>2, <3>2, <3>4, <4>1
    <3> QED BY <3>3, <3>4
  <2> QED BY <1>6, <1>10, <2>2 DEF ToldButSliding
<1>14. SliderCorrect(t)
  BY <1>1, <1>7, <1>10, <1>11, <1>12, <1>13 DEF SliderCorrect
<1> QED BY <1>14 DEF t

LEMMA KeyDownStep ==
  ASSUME SliderCorrect(slider), NEW key \in KeysOfSlider, NEW refuse \in BOOLEAN,
         NEW allow \in BOOLEAN, KeyDownOnHandle(key, refuse, allow)
  PROVE  SliderCorrect(slider)'
<1> DEFINE s == slider
           t == slider'
           i == s.focus
           begun == [s EXCEPT !.key = TRUE, !.orderly = @ /\ s.mouse = None, !.byMouse = FALSE]
           value == valueOf(s, i)
           new == CASE key = "home" -> 0
                    [] key = "end" -> alignedMax(s)
                    [] key = "page up" -> trimAlign(s, numPages * value + alignedMax(s))
                    [] key = "page down" -> trimAlign(s, numPages * value - alignedMax(s))
                    [] key = "up" -> IF value = alignedMax(s) THEN value ELSE aligned(s, value + s.step)
                    [] key = "down" -> IF value = 0 THEN value ELSE aligned(s, value - s.step)
<1>1. s \in Sliders /\ Limits(s) /\ (s.range => s.two)
      /\ HandlesOrdered(s) /\ FirstCanPart(s) /\ ToldButSliding(s) /\ i \in There(s)
  BY DEF SliderCorrect, KeyDownOnHandle
<1>2. t = IF refuse /\ ~s.key THEN begun ELSE slide(begun, i, new, allow)
  BY DEF KeyDownOnHandle
<1>3. i \in Handles
  BY <1>1 DEF Sliders
<1> HIDE DEF s, t, i
<1>4. new \in Values(s)
  <2>1. value \in Values(s)
    BY <1>1, <1>3, ValueIs
  <2>2. /\ value \in Int /\ s.step \in Int /\ alignedMax(s) \in Int
        /\ 0 \in Values(s) /\ alignedMax(s) \in Values(s)
    BY <1>1, <2>1, ValuesAre, AlignedMaxIs
  <2> HIDE DEF value
  <2>3. /\ numPages * value + alignedMax(s) \in Int /\ numPages * value - alignedMax(s) \in Int
        /\ value + s.step \in Int /\ value - s.step \in Int
    BY <2>2 DEF numPages
  <2>4. /\ trimAlign(s, numPages * value + alignedMax(s)) \in Values(s)
        /\ trimAlign(s, numPages * value - alignedMax(s)) \in Values(s)
    BY <1>1, <2>3, TrimmedIsValue
  <2>5. aligned(s, value + s.step) \in Values(s) /\ aligned(s, value - s.step) \in Values(s)
    BY <1>1, <2>3, AlignedIs
  <2>6. key \in {"home", "end", "page up", "page down", "up", "down"}
    BY DEF KeysOfSlider
  <2>7. CASE key \in {"home", "end", "page up"}
    BY <2>1, <2>2, <2>4, <2>5, <2>7
  <2>8. CASE key \in {"page down", "up", "down"}
    BY <2>1, <2>2, <2>4, <2>5, <2>8
  <2> QED BY <2>6, <2>7, <2>8
<1> HIDE DEF new, value
<1>5. begun \in Sliders
  <2>1. (s.orderly /\ s.mouse = None) \in BOOLEAN
    OBVIOUS
  <2> QED BY <1>1, <2>1 DEF Sliders
<1>6. begun.key = TRUE /\ begun.byMouse = FALSE /\ (begun.orderly => s.orderly /\ s.mouse = None)
  BY <1>1 DEF Sliders
<1>7. /\ begun.two = s.two /\ begun.range = s.range /\ begun.mouse = s.mouse
      /\ begun.focus = i /\ begun.told = s.told /\ begun.limited = s.limited
      /\ begun.step = s.step /\ begun.max = s.max /\ begun.vals = s.vals
  BY <1>1 DEF Sliders, i
<1> HIDE DEF begun
<1>8. /\ Limits(begun) /\ alignedMax(begun) = alignedMax(s)
      /\ valueOf(begun, 1) = valueOf(s, 1) /\ valueOf(begun, 2) = valueOf(s, 2)
      /\ Values(begun) = Values(s)
  BY <1>1, <1>7, ValuesKeep, LimitsFix
<1>9. ~Idle(begun)
  BY <1>6 DEF Idle
<1>10. HandlesOrdered(begun) /\ FirstCanPart(begun)
  BY <1>1, <1>6, <1>7, <1>8 DEF HandlesOrdered, FirstCanPart
<1>11. ToldButSliding(begun)
  <2>1. There(begun) = There(s) /\ There(s) \subseteq Handles
    BY <1>7, HandlesAre DEF There
  <2>2. ASSUME begun.orderly, NEW j \in There(begun), j # i
        PROVE  begun.told[j] = valueOf(begun, j)
    <3>1. s.told[j] = valueOf(s, j)
      <4>1. s.mouse # j /\ s.focus # j
        BY <1>6, <2>1, <2>2, HandlesAre DEF i
      <4> QED BY <1>1, <1>6, <2>1, <2>2, <4>1 DEF ToldButSliding
    <3>2. valueOf(begun, j) = valueOf(s, j)
      BY <1>8, <2>1, <2>2, HandlesAre
    <3> QED BY <1>7, <3>1, <3>2
  <2> QED BY <1>6, <1>7, <2>2 DEF ToldButSliding
<1>12. SliderCorrect(begun)
  BY <1>1, <1>5, <1>7, <1>8, <1>10, <1>11 DEF SliderCorrect
<1>13. SliderCorrect(t)
  <2>1. CASE refuse /\ ~s.key
    BY <1>2, <1>12, <2>1
  <2>2. CASE ~(refuse /\ ~s.key)
    <3>1. t = slide(begun, i, new, allow) /\ new \in Values(begun)
      BY <1>2, <1>4, <1>8, <2>2
    <3> QED BY <1>3, <1>6, <1>7, <1>9, <1>12, <3>1, SlideKeeps
  <2> QED BY <2>1, <2>2
<1> QED BY <1>13 DEF t

LEMMA KeyUpStep ==
  ASSUME SliderCorrect(slider), KeyUpOnHandle
  PROVE  SliderCorrect(slider)'
<1> DEFINE s == slider
           t == slider'
           i == s.focus
           u == [s EXCEPT !.key = FALSE]
<1>1. s \in Sliders /\ Limits(s) /\ (s.range => s.two) /\ s.key /\ i \in There(s)
      /\ HandlesOrdered(s) /\ FirstCanPart(s) /\ ToldButSliding(s)
  BY DEF SliderCorrect, KeyUpOnHandle
<1>2. t = change(u, i)
  BY DEF KeyUpOnHandle
<1>3. i \in Handles
  BY <1>1 DEF Sliders
<1> HIDE DEF s, t, i
<1>4. u \in Sliders /\ u.key = FALSE
  BY <1>1 DEF Sliders
<1>5. /\ u.two = s.two /\ u.range = s.range /\ u.last = s.last /\ u.mouse = s.mouse
      /\ u.focus = i /\ u.told = s.told /\ u.orderly = s.orderly /\ u.byMouse = s.byMouse
      /\ u.limited = s.limited /\ u.step = s.step /\ u.max = s.max /\ u.vals = s.vals
  BY <1>1 DEF Sliders, i
<1> HIDE DEF u
<1>6. /\ Limits(u) /\ alignedMax(u) = alignedMax(s)
      /\ valueOf(u, 1) = valueOf(s, 1) /\ valueOf(u, 2) = valueOf(s, 2)
  BY <1>1, <1>5, ValuesKeep
<1>7. u.mouse = None => Idle(u)
  BY <1>4 DEF Idle
<1>8. /\ t \in Sliders /\ Limits(t) /\ alignedMax(t) = alignedMax(u)
      /\ t.two = u.two /\ t.range = u.range /\ t.mouse = u.mouse /\ t.key = u.key
      /\ t.focus = u.focus /\ t.orderly = u.orderly /\ t.byMouse = u.byMouse
      /\ t.limited = u.limited
      /\ valueOf(t, 1) = valueOf(u, 1) /\ valueOf(t, 2) = valueOf(u, 2)
      /\ (Idle(u) => t.last = i /\ t.told[i] = valueOf(u, i))
      /\ \A j \in Handles \ {i} : t.told[j] = u.told[j]
  BY <1>2, <1>3, <1>4, <1>6, ChangeIs
<1>9. ~t.byMouse
  BY <1>1, <1>5, <1>8 DEF FirstCanPart
<1>10. HandlesOrdered(t) /\ FirstCanPart(t)
  BY <1>1, <1>5, <1>6, <1>8, <1>9 DEF HandlesOrdered, FirstCanPart
<1>11. ToldButSliding(t)
  <2>1. There(t) = There(s) /\ There(s) \subseteq Handles
    BY <1>5, <1>8, HandlesAre DEF There
  <2>2. t.orderly => s.orderly /\ s.mouse = None
    BY <1>1, <1>5, <1>8 DEF ToldButSliding
  <2>3. ASSUME t.orderly, NEW j \in There(t)
        PROVE  t.told[j] = valueOf(t, j)
    <3>1. valueOf(t, j) = valueOf(s, j) /\ valueOf(u, j) = valueOf(s, j)
      BY <1>6, <1>8, <2>1, <2>3, HandlesAre
    <3>2. CASE j = i
      BY <1>5, <1>7, <1>8, <2>2, <2>3, <3>1, <3>2
    <3>3. CASE j # i
      <4>1. s.mouse # j /\ s.focus # j
        BY <2>1, <2>2, <2>3, <3>3, HandlesAre DEF i
      <4>2. s.told[j] = valueOf(s, j)
        BY <1>1, <2>1, <2>2, <2>3, <4>1 DEF ToldButSliding
      <4> QED BY <1>5, <1>8, <2>1, <2>3, <3>1, <3>3, <4>2
    <3> QED BY <3>2, <3>3
  <2> QED BY <1>4, <1>5, <1>8, <2>2, <2>3 DEF ToldButSliding
<1>12. SliderCorrect(t)
  BY <1>1, <1>5, <1>8, <1>10, <1>11 DEF SliderCorrect
<1> QED BY <1>12 DEF t

LEMMA FocusHandleStep ==
  ASSUME SliderCorrect(slider), NEW i \in Handles, FocusHandle(i)
  PROVE  SliderCorrect(slider)'
<1> DEFINE s == slider
           t == slider'
<1>1. s \in Sliders /\ Limits(s) /\ (s.range => s.two)
      /\ HandlesOrdered(s) /\ FirstCanPart(s) /\ ToldButSliding(s)
  BY DEF SliderCorrect
<1>2. t = [s EXCEPT !.focus = i, !.orderly = @ /\ ~s.key]
  BY DEF FocusHandle
<1> HIDE DEF s, t
<1>3. t \in Sliders
  <2>1. (s.orderly /\ ~s.key) \in BOOLEAN
    OBVIOUS
  <2> QED BY <1>1, <1>2, <2>1 DEF Sliders
<1>4. /\ t.two = s.two /\ t.range = s.range /\ t.last = s.last /\ t.mouse = s.mouse
      /\ t.key = s.key /\ t.told = s.told /\ t.byMouse = s.byMouse
      /\ t.limited = s.limited /\ t.step = s.step /\ t.max = s.max /\ t.vals = s.vals
  BY <1>1, <1>2 DEF Sliders
<1>5. t.orderly => s.orderly /\ ~s.key
  BY <1>1, <1>2 DEF Sliders
<1>6. /\ Limits(t) /\ alignedMax(t) = alignedMax(s)
      /\ valueOf(t, 1) = valueOf(s, 1) /\ valueOf(t, 2) = valueOf(s, 2)
  BY <1>1, <1>4, ValuesKeep
<1>7. HandlesOrdered(t)
  BY <1>1, <1>4, <1>6 DEF HandlesOrdered
<1>8. FirstCanPart(t)
  BY <1>1, <1>4, <1>6 DEF FirstCanPart, Idle
<1>9. ToldButSliding(t)
  <2>1. There(t) = There(s) /\ There(s) \subseteq Handles
    BY <1>4, HandlesAre DEF There
  <2>2. ASSUME t.orderly, NEW j \in There(t)
        PROVE  t.mouse = j \/ t.told[j] = valueOf(t, j)
    <3>1. valueOf(t, j) = valueOf(s, j)
      BY <1>6, <2>1, <2>2, HandlesAre
    <3> QED BY <1>1, <1>4, <1>5, <2>1, <2>2, <3>1 DEF ToldButSliding
  <2> QED BY <1>1, <1>4, <1>5, <2>1, <2>2 DEF ToldButSliding
<1>10. SliderCorrect(t)
  BY <1>1, <1>3, <1>4, <1>6, <1>7, <1>8, <1>9 DEF SliderCorrect
<1> QED BY <1>10 DEF t

LEMMA SetValuesStep ==
  ASSUME SliderCorrect(slider), NEW first \in 0..Limit, NEW second \in 0..Limit,
         SetValues(first, second)
  PROVE  SliderCorrect(slider)'
<1> DEFINE s == slider
           t == slider'
           w == [i \in Handles |-> IF i = 1 THEN first ELSE second]
           u == [s EXCEPT !.vals = w, !.orderly = Idle(s), !.byMouse = Idle(s)]
           c == change(u, 2)
<1>1. s \in Sliders /\ Limits(s) /\ s.two /\ first <= second
  BY DEF SliderCorrect, SetValues
<1>2. t = change(c, 1)
  BY DEF SetValues
<1>3. w \in [Handles -> 0..Limit] /\ w[1] = first /\ w[2] = second
  BY HandlesAre
<1> HIDE DEF s, t, w
<1>4. u \in Sliders /\ u.vals = w /\ u.orderly = Idle(s) /\ u.byMouse = Idle(s)
  <2>1. Idle(s) \in BOOLEAN
    BY DEF Idle
  <2> QED BY <1>1, <1>3, <2>1 DEF Sliders
<1>5. /\ u.two = s.two /\ u.range = s.range /\ u.mouse = s.mouse /\ u.key = s.key
      /\ u.limited = s.limited /\ u.step = s.step /\ u.max = s.max
  BY <1>1 DEF Sliders
<1> HIDE DEF u
<1>6. Limits(u) /\ (Idle(u) <=> Idle(s))
  BY <1>1, <1>5, LimitsFix DEF Idle
<1>7. valueOf(u, 1) <= valueOf(u, 2)
  <2>1. first \in Int /\ second \in Int
    BY HandlesAre
  <2> QED BY <1>1, <1>3, <1>4, <1>6, <2>1, AlignedIs DEF valueOf
<1>8. 1 \in Handles /\ 2 \in Handles
  BY HandlesAre
<1>9. /\ c \in Sliders /\ Limits(c) /\ alignedMax(c) = alignedMax(u)
      /\ c.two = u.two /\ c.range = u.range /\ c.mouse = u.mouse /\ c.key = u.key
      /\ c.orderly = u.orderly /\ c.byMouse = u.byMouse /\ c.limited = u.limited
      /\ valueOf(c, 1) = valueOf(u, 1) /\ valueOf(c, 2) = valueOf(u, 2)
      /\ (Idle(u) => c.told[2] = valueOf(u, 2))
  BY <1>4, <1>6, <1>8, ChangeIs
<1> HIDE DEF c
<1>10. Idle(c) <=> Idle(s)
  BY <1>6, <1>9 DEF Idle
<1>11. /\ t \in Sliders /\ Limits(t) /\ alignedMax(t) = alignedMax(c)
       /\ t.two = c.two /\ t.range = c.range /\ t.mouse = c.mouse /\ t.key = c.key
       /\ t.orderly = c.orderly /\ t.byMouse = c.byMouse /\ t.limited = c.limited
       /\ valueOf(t, 1) = valueOf(c, 1) /\ valueOf(t, 2) = valueOf(c, 2)
       /\ (Idle(c) => t.last = 1 /\ t.told[1] = valueOf(c, 1))
       /\ (\A j \in Handles \ {1} : t.told[j] = c.told[j])
  BY <1>2, <1>8, <1>9, ChangeIs
<1>12. HandlesOrdered(t)
  BY <1>7, <1>9, <1>11 DEF HandlesOrdered
<1>13. CASE Idle(s)
  <2>1. s.mouse = None /\ ~s.key /\ t.mouse = None /\ ~t.key
    BY <1>5, <1>9, <1>11, <1>13 DEF Idle
  <2>2. FirstCanPart(t)
    BY <1>10, <1>11, <1>13, <2>1, HandlesAre DEF FirstCanPart
  <2>3. t.told[2] = valueOf(t, 2) /\ t.told[1] = valueOf(t, 1)
    <3>1. t.told[2] = c.told[2]
      BY <1>11, HandlesAre
    <3> QED BY <1>6, <1>9, <1>10, <1>11, <1>13, <3>1
  <2>4. ToldButSliding(t)
    BY <2>1, <2>3, HandlesAre DEF ToldButSliding, There
  <2> QED BY <1>1, <1>5, <1>9, <1>11, <1>12, <2>2, <2>4 DEF SliderCorrect, t
<1>14. CASE ~Idle(s)
  <2>1. ~t.orderly /\ ~t.byMouse
    BY <1>4, <1>9, <1>11, <1>14
  <2>2. SliderCorrect(t)
    BY <1>1, <1>5, <1>9, <1>11, <1>12, <2>1, MeddledCorrect
  <2> QED BY <2>2 DEF t
<1> QED BY <1>13, <1>14

LEMMA SetValueOfStep ==
  ASSUME SliderCorrect(slider), NEW i \in Handles, NEW v \in 0..Limit, SetValueOf(i, v)
  PROVE  SliderCorrect(slider)'
<1> DEFINE s == slider
           t == slider'
           x == aligned(s, v)
           u == WithValue(s, i, x)
           c == [u EXCEPT !.orderly = FALSE, !.byMouse = FALSE]
           d == [s EXCEPT !.vals[i] = x, !.orderly = FALSE, !.byMouse = FALSE]
<1>1. s \in Sliders /\ Limits(s) /\ (s.range => s.two)
  BY DEF SliderCorrect
<1>2. t = change(d, i) /\ (s.two => valueOf(d, 1) <= valueOf(d, 2))
  BY DEF SetValueOf
<1>3. x \in Values(s)
  <2>1. v \in Int
    BY HandlesAre
  <2> QED BY <1>1, <2>1, AlignedIs
<1> HIDE DEF s, t, x
<1>4. d = c
  BY <1>1 DEF WithValue, Sliders
<1>5. /\ u \in Sliders /\ Limits(u) /\ u.two = s.two /\ u.range = s.range /\ u.limited = s.limited
  BY <1>1, <1>3, WithValueIs
<1> HIDE DEF u, d
<1>6. c \in Sliders /\ c.orderly = FALSE /\ c.byMouse = FALSE
  BY <1>5 DEF Sliders
<1>7. c.two = u.two /\ c.range = u.range /\ c.limited = u.limited /\ c.step = u.step /\ c.max = u.max
  BY <1>5 DEF Sliders
<1> HIDE DEF c
<1>8. Limits(c)
  BY <1>5, <1>7, LimitsFix
<1>9. /\ t \in Sliders /\ Limits(t) /\ t.two = c.two /\ t.range = c.range
      /\ t.orderly = c.orderly /\ t.byMouse = c.byMouse /\ t.limited = c.limited
      /\ valueOf(t, 1) = valueOf(c, 1) /\ valueOf(t, 2) = valueOf(c, 2)
  BY <1>2, <1>4, <1>6, <1>8, ChangeIs
<1>10. s.two => valueOf(t, 1) <= valueOf(t, 2)
  BY <1>2, <1>4, <1>9
<1>11. HandlesOrdered(t)
  BY <1>1, <1>5, <1>7, <1>9, <1>10 DEF HandlesOrdered
<1>12. SliderCorrect(t)
  BY <1>1, <1>5, <1>6, <1>7, <1>9, <1>11, MeddledCorrect
<1> QED BY <1>12 DEF t

LEMMA SetLimitsStep ==
  ASSUME SliderCorrect(slider), NEW step \in Steps, NEW max \in 1..Limit, SetLimits(step, max)
  PROVE  SliderCorrect(slider)'
<1> DEFINE s == slider
           t == slider'
<1>1. s \in Sliders /\ (s.range => s.two) /\ step <= max
  BY DEF SliderCorrect, SetLimits
<1>2. t = [s EXCEPT !.step = step, !.max = max, !.limited = TRUE,
                   !.orderly = FALSE, !.byMouse = FALSE]
  BY DEF SetLimits
<1> HIDE DEF s, t
<1>3. t \in Sliders
  BY <1>1, <1>2 DEF Sliders
<1>4. t.step = step /\ t.max = max /\ t.limited = TRUE /\ t.orderly = FALSE /\ t.byMouse = FALSE
  BY <1>1, <1>2 DEF Sliders
<1>5. t.two = s.two /\ t.range = s.range
  BY <1>1, <1>2 DEF Sliders
<1>6. Limits(t)
  BY <1>1, <1>4 DEF Limits
<1>7. HandlesOrdered(t)
  BY <1>4 DEF HandlesOrdered
<1>8. SliderCorrect(t)
  BY <1>1, <1>3, <1>4, <1>5, <1>6, <1>7, MeddledCorrect
<1> QED BY <1>8 DEF t

LEMMA SetSliderRangeStep ==
  ASSUME SliderCorrect(slider), SetSliderRange
  PROVE  SliderCorrect(slider)'
<1> DEFINE s == slider
           t == slider'
           one == [s.vals EXCEPT ![1] = valueOf(s, 1), ![2] = 0]
           zeros == [i \in Handles |-> 0]
           w == IF s.two THEN one ELSE zeros
<1>1. s \in Sliders /\ Limits(s) /\ s.two = s.range
  BY DEF SliderCorrect, SetSliderRange
<1>2. valueOf(s, 1) \in 0..Limit /\ 0 \in 0..Limit
  BY <1>1, HandlesAre, ValueIs, ValuesAre
<1>3. t = [s EXCEPT !.two = ~@, !.range = ~@, !.orderly = FALSE, !.byMouse = FALSE, !.vals = w]
  <2>1. CASE s.two
    BY <1>1, <2>1 DEF SetSliderRange, Sliders
  <2>2. CASE ~s.two
    BY <1>1, <2>2 DEF SetSliderRange, Sliders
  <2> QED BY <2>1, <2>2
<1> HIDE DEF s, t
<1>4. w \in [Handles -> 0..Limit] /\ (~s.two => w[1] = 0 /\ w[2] = 0)
  <2>1. one \in [Handles -> 0..Limit]
    BY <1>1, <1>2 DEF Sliders
  <2> QED BY <1>2, <2>1, HandlesAre
<1> HIDE DEF w
<1>5. t \in Sliders
  BY <1>1, <1>3, <1>4 DEF Sliders
<1>6. t.two = ~s.two /\ t.range = ~s.range /\ t.vals = w /\ t.orderly = FALSE /\ t.byMouse = FALSE
  BY <1>1, <1>3 DEF Sliders
<1>7. t.step = s.step /\ t.max = s.max
  BY <1>1, <1>3 DEF Sliders
<1>8. Limits(t)
  BY <1>1, <1>7, LimitsFix
<1>9. HandlesOrdered(t)
  <2> SUFFICES ASSUME t.range PROVE valueOf(t, 1) <= valueOf(t, 2)
    BY DEF HandlesOrdered
  <2>1. valueOf(t, 1) = valueOf(t, 2)
    BY <1>1, <1>4, <1>6 DEF valueOf
  <2>2. valueOf(t, 1) \in Int
    BY <1>5, <1>8, HandlesAre, ValueIs, ValuesAre
  <2> QED BY <2>1, <2>2
<1>10. SliderCorrect(t)
  BY <1>1, <1>5, <1>6, <1>8, <1>9, MeddledCorrect
<1> QED BY <1>10 DEF t

LEMMA SliderStepKeeps ==
  ASSUME SliderCorrect(slider), SliderNext
  PROVE  SliderCorrect(slider)'
<1>1. CASE \E v \in 0..Limit, b, allow \in BOOLEAN : PressSlider(v, b, allow)
  BY <1>1, PressSliderStep
<1>2. CASE \E v \in 0..Limit, allow \in BOOLEAN : DragSlider(v, allow)
  BY <1>2, DragSliderStep
<1>3. CASE \E key \in KeysOfSlider, refuse, allow \in BOOLEAN : KeyDownOnHandle(key, refuse, allow)
  BY <1>3, KeyDownStep
<1>4. CASE \E i \in Handles : FocusHandle(i)
  BY <1>4, FocusHandleStep
<1>5. CASE ReleaseSlider \/ KeyUpOnHandle \/ SetSliderRange
  BY <1>5, ReleaseSliderStep, KeyUpStep, SetSliderRangeStep
<1>6. CASE \E first, second \in 0..Limit : SetValues(first, second)
  BY <1>6, SetValuesStep
<1>7. CASE \E i \in Handles, v \in 0..Limit : SetValueOf(i, v)
  BY <1>7, SetValueOfStep
<1>8. CASE \E step \in Steps, max \in 1..Limit : SetLimits(step, max)
  BY <1>8, SetLimitsStep
<1> QED BY <1>1, <1>2, <1>3, <1>4, <1>5, <1>6, <1>7, <1>8 DEF SliderNext

LEMMA SliderBegins ==
  ASSUME SliderInit
  PROVE  SliderCorrect(slider)
<1> DEFINE s == slider
<1>1. PICK two \in BOOLEAN, range \in BOOLEAN, step \in Steps, max \in 1..Limit :
        /\ step <= max
        /\ range => two
        /\ s = [vals |-> [i \in Handles |-> 0], two |-> two, range |-> range, step |-> step,
                max |-> max, last |-> None, mouse |-> None, key |-> FALSE, focus |-> 1,
                told |-> [i \in Handles |-> 0], orderly |-> TRUE, byMouse |-> TRUE,
                limited |-> FALSE]
  BY DEF SliderInit
<1> HIDE DEF s
<1>2. 0 \in 0..Limit /\ 1 \in Handles /\ 2 \in Handles
  BY HandlesAre
<1>3. s \in Sliders
  BY <1>1, <1>2 DEF Sliders
<1>4. Limits(s)
  BY <1>1 DEF Limits
<1>5. \A i \in Handles : valueOf(s, i) = 0
  <2>1. aligned(s, 0) = 0
    <3>1. 0 \in Values(s)
      BY <1>2, <1>3, <1>4, ValueIs, ValuesAre
    <3> QED BY <1>4, <3>1, AlignedIs
  <2> QED BY <1>1, <2>1 DEF valueOf
<1>6. alignedMax(s) # 0
  BY <1>2, <1>3, <1>4, ValueIs, ValuesAre
<1>7. HandlesOrdered(s)
  BY <1>2, <1>5 DEF HandlesOrdered
<1>8. FirstCanPart(s)
  <2>1. s.key = FALSE /\ s.mouse = None /\ s.last = None
    BY <1>1
  <2> QED BY <2>1, HandlesAre DEF FirstCanPart
<1>9. ToldButSliding(s)
  <2>1. There(s) \subseteq Handles
    BY HandlesAre DEF There
  <2>2. s.mouse = None /\ s.told = [i \in Handles |-> 0]
    BY <1>1
  <2> QED BY <1>5, <2>1, <2>2 DEF ToldButSliding
<1>10. s.range => s.two
  BY <1>1
<1>11. SliderCorrect(s)
  BY <1>3, <1>4, <1>7, <1>8, <1>9, <1>10 DEF SliderCorrect
<1> QED BY <1>11 DEF s

LEMMA SliderHolds ==
  ASSUME SliderCorrect(slider)
  PROVE  SliderTypeOK /\ HandlesInOrder /\ ChangeIsTold /\ HandlesPart
<1> DEFINE s == slider
<1>1. s \in Sliders /\ Limits(s) /\ (s.range => s.two)
      /\ HandlesOrdered(s) /\ FirstCanPart(s) /\ ToldButSliding(s)
  BY DEF SliderCorrect
<1>2. \A i \in Handles : /\ valueOf(s, i) \in 0..s.max /\ valueOf(s, i) % s.step = 0
                         /\ valueOf(s, i) \in Int /\ valueOf(s, i) >= 0
                         /\ valueOf(s, i) <= alignedMax(s)
  BY <1>1, ValueIs, ValuesAre
<1>3. alignedMax(s) \in Int /\ alignedMax(s) > 0
  BY <1>1, AlignedMaxIs, HandlesAre, ValueIs, ValuesAre
<1>4. SliderTypeOK
  BY <1>1, <1>2 DEF SliderTypeOK, Sliders
<1>5. HandlesInOrder
  BY <1>1 DEF HandlesInOrder, HandlesOrdered
<1>6. ChangeIsTold
  <2> SUFFICES ASSUME Idle(s), s.orderly, NEW i \in There(s)
               PROVE  s.told[i] = valueOf(s, i)
    BY DEF ChangeIsTold
  <2>1. s.mouse = None /\ ~s.key /\ i # None
    BY HandlesAre DEF Idle, There
  <2> QED BY <1>1, <2>1 DEF ToldButSliding
<1>7. HandlesPart
  <2> SUFFICES ASSUME s.range, Idle(s), s.byMouse, valueOf(s, 1) = valueOf(s, 2),
                      NEW v \in 0..Limit
               PROVE  IF closest(s, v) = 1 THEN valueOf(s, 1) > 0
                      ELSE valueOf(s, 2) < alignedMax(s)
    BY DEF HandlesPart
  <2>1. s.two /\ Away(s, 2, v) = Away(s, 1, v) /\ ~(Away(s, 2, v) < Away(s, 1, v))
    <3>1. Away(s, 1, v) \in Int
      BY <1>2, HandlesAre DEF Away
    <3>2. Away(s, 2, v) = Away(s, 1, v)
      BY DEF Away
    <3> HIDE DEF s
    <3> QED BY <1>1, <3>1, <3>2
  <2>2. closest(s, v) = IF s.last = 2 \/ valueOf(s, 2) = 0 THEN 2 ELSE 1
    BY <2>1 DEF closest
  <2>3. valueOf(s, 1) = alignedMax(s) => s.last # 2
    BY <1>1 DEF FirstCanPart
  <2> QED BY <1>2, <1>3, <2>2, <2>3, HandlesAre
<1> QED BY <1>4, <1>5, <1>6, <1>7

-------------------------------------------------------------------------------
(* Tooltips.                                                               *)

LEMMA TipDistinct == Parent # Child /\ Parent # Off /\ Child # Off
<1>1. ASSUME Parent = Child PROVE FALSE
  <2>1. {Parent, Child, Off} = {Child, Off}
    BY <1>1
  <2>2. IsFiniteSet({Off}) /\ Cardinality({Off}) = 1
    BY FS_Singleton
  <2>3. Cardinality({Off} \cup {Child}) \in {1, 2}
    BY <2>2, FS_AddElement
  <2>4. {Off} \cup {Child} = {Child, Off}
    OBVIOUS
  <2> QED BY <2>1, <2>3, <2>4, TooltipAssumption
<1>2. ASSUME Off \in Owners PROVE FALSE
  <2>1. {Parent, Child, Off} = Owners
    BY <1>2 DEF Owners
  <2>2. IsFiniteSet({Parent}) /\ Cardinality({Parent}) = 1
    BY FS_Singleton
  <2>3. Cardinality({Parent} \cup {Child}) \in {1, 2}
    BY <2>2, FS_AddElement
  <2>4. {Parent} \cup {Child} = Owners
    BY DEF Owners
  <2> QED BY <2>1, <2>3, <2>4, TooltipAssumption
<1> QED BY <1>1, <1>2 DEF Owners

(* A tooltip is marked open for as long as pointer or focus may close it,  *)
(* and a title that is away is saved or kept for the element further in.   *)
TipTitles == {"own", "empty", "none"}
Closers == {"mouseleave", "focusout"}
Openers == {"mouseover", "focusin"}

TipTyped(t) ==
  t \in [async : BOOLEAN, title : [Owners -> TipTitles], saved : [Owners -> TipTitles],
         open : SUBSET Owners, shown : SUBSET Owners, asked : SUBSET (Owners \X Openers),
         closers : [Owners -> SUBSET Closers], parents : SUBSET Owners, disabled : BOOLEAN,
         silenced : SUBSET Owners, pointer : Owners \cup {Off}, focus : Owners \cup {Off}]

HasCause(t, x) ==
  \/ "mouseleave" \in t.closers[x] /\ x \in Around(t.pointer)
  \/ "focusout" \in t.closers[x] /\ x \in Around(t.focus)

(* Both can be open only if one of them has the focus.                     *)
OneOpen(t) == Owners \subseteq t.open => \E x \in Owners : "focusout" \in t.closers[x]

(* A title is on its element, saved while its tooltip is shown, or kept for *)
(* the element inside; while tooltips are disabled, saved by that.         *)
KeptTitle(t, x) ==
  t.title[x] = "own" \/ (x \in t.shown /\ t.saved[x] = "own") \/ x \in t.parents

SilencedTitle(t, x) == (x \in t.silenced /\ t.saved[x] = "own") \/ x \in t.parents

TitlesKept(t) ==
  ~t.async => /\ t.asked = {}
              /\ ~t.disabled => \A x \in Owners : KeptTitle(t, x)
              /\ t.disabled => t.shown = {} /\ \A x \in Owners : SilencedTitle(t, x)

TipKept(t) == TipTyped(t) /\ t.shown \subseteq t.open /\ OneOpen(t) /\ TitlesKept(t)

TipOK(t) == TipKept(t) /\ \A x \in t.open : HasCause(t, x)

(* What the steps of an event do not touch. *)
SameEvent(t, u) ==
  /\ u.async = t.async /\ u.disabled = t.disabled /\ u.silenced = t.silenced
  /\ u.pointer = t.pointer /\ u.focus = t.focus

LEMMA CloseTipIs ==
  ASSUME NEW t, TipTyped(t), NEW e \in Owners, NEW event
  PROVE  LET u == closeTip(t, e, event)
         IN  /\ TipTyped(u) /\ SameEvent(t, u) /\ u.saved = t.saved /\ u.asked = t.asked
             /\ u.open = t.open \ {e} /\ u.shown = t.shown \ {e}
             /\ \A x \in Owners : x # e => u.closers[x] = t.closers[x]
             /\ \A x \in Owners : KeptTitle(t, x) => KeptTitle(u, x)
             /\ e \notin t.shown => u = [t EXCEPT !.open = @ \ {e}]
<1>1. CASE e \notin t.shown
  <2> DEFINE u == [t EXCEPT !.open = @ \ {e}]
  <2>1. closeTip(t, e, event) = u
    BY <1>1 DEF closeTip
  <2>2. TipTyped(u) /\ u.open = t.open \ {e} /\ SameEvent(t, u)
        /\ u.saved = t.saved /\ u.asked = t.asked /\ u.shown = t.shown /\ u.closers = t.closers
        /\ u.title = t.title /\ u.parents = t.parents
    BY DEF TipTyped, SameEvent
  <2> HIDE DEF u
  <2>3. t.shown \ {e} = t.shown
    BY <1>1
  <2> QED BY <1>1, <2>1, <2>2, <2>3 DEF KeptTitle, u
<1>2. CASE e \in t.shown
  <2> DEFINE title == [p \in Owners |->
                         IF (p = e /\ t.saved[e] = "own") \/ (event = "mouseleave" /\ p \in t.parents)
                           THEN "own" ELSE t.title[p]]
             closers == [t.closers EXCEPT ![e] = {}]
             parents == IF event = "mouseleave" THEN {} ELSE t.parents
             u == [t EXCEPT !.title = title, !.shown = @ \ {e}, !.open = @ \ {e},
                            !.closers = closers, !.parents = parents]
  <2>1. closeTip(t, e, event) = u
    BY <1>2 DEF closeTip
  <2>2. title \in [Owners -> TipTitles] /\ closers \in [Owners -> SUBSET Closers] /\ parents \in SUBSET Owners
        /\ \A x \in Owners : x # e => closers[x] = t.closers[x]
    BY DEF TipTyped, TipTitles
  <2>3. \A x \in Owners : /\ title[x] = IF (x = e /\ t.saved[e] = "own") \/ (event = "mouseleave" /\ x \in t.parents)
                                          THEN "own" ELSE t.title[x]
    OBVIOUS
  <2>4. event # "mouseleave" => parents = t.parents
    OBVIOUS
  <2> HIDE DEF title, closers, parents
  <2>5. TipTyped(u) /\ SameEvent(t, u) /\ u.saved = t.saved /\ u.asked = t.asked
    BY <2>2 DEF TipTyped, SameEvent
  <2>6. u.open = t.open \ {e} /\ u.shown = t.shown \ {e} /\ u.closers = closers /\ u.title = title /\ u.parents = parents
    BY DEF TipTyped
  <2> HIDE DEF u
  <2>7. ASSUME NEW x \in Owners, KeptTitle(t, x) PROVE KeptTitle(u, x)
    BY <2>3, <2>4, <2>5, <2>6, <2>7 DEF KeptTitle
  <2> QED BY <1>2, <2>1, <2>2, <2>5, <2>6, <2>7
<1> QED BY <1>1, <1>2

LEMMA ShowIs ==
  ASSUME NEW t, TipTyped(t), NEW e \in Owners, NEW event
  PROVE  LET u == show(t, e, event)
         IN  /\ TipTyped(u) /\ SameEvent(t, u) /\ u.saved = t.saved /\ u.asked = t.asked
             /\ u.open = t.open /\ u.shown = t.shown \cup {e} /\ u.closers = t.closers
             /\ u.parents = t.parents /\ \A x \in Owners : x # e => u.title[x] = t.title[x]
<1>1. CASE e \in t.shown
  <2>1. show(t, e, event) = t /\ t.shown \cup {e} = t.shown
    BY <1>1 DEF show
  <2> QED BY <2>1 DEF SameEvent
<1>2. CASE e \notin t.shown
  <2> DEFINE now == IF t.title[e] = "none" THEN t.title[e]
                    ELSE IF event = "mouseover" THEN "empty" ELSE "none"
             title == [t.title EXCEPT ![e] = now]
             u == [t EXCEPT !.shown = @ \cup {e}, !.title = title]
  <2>1. show(t, e, event) = u
    BY <1>2 DEF show
  <2>2. now \in TipTitles
    BY DEF TipTyped, TipTitles
  <2> HIDE DEF now
  <2>3. title \in [Owners -> TipTitles] /\ \A x \in Owners : x # e => title[x] = t.title[x]
    BY <2>2 DEF TipTyped
  <2> HIDE DEF title
  <2>4. TipTyped(u) /\ SameEvent(t, u) /\ u.saved = t.saved /\ u.asked = t.asked
    BY <2>3 DEF TipTyped, SameEvent
  <2>5. u.open = t.open /\ u.shown = t.shown \cup {e} /\ u.closers = t.closers
        /\ u.parents = t.parents /\ u.title = title
    BY DEF TipTyped
  <2> HIDE DEF u
  <2> QED BY <2>1, <2>3, <2>4, <2>5
<1> QED BY <1>1, <1>2

(* A hover over the inner element closes the tooltip of the outer one.     *)
LEMMA KillIs ==
  ASSUME NEW t, TipTyped(t), NEW e \in Owners
  PROVE  LET u == killAround(t, e)
         IN  /\ TipTyped(u) /\ SameEvent(t, u) /\ u.saved = t.saved /\ u.asked = t.asked
             /\ e = Parent => u = t
             /\ e = Child => u.open = t.open \ {Parent}
             /\ u.shown = t.shown \cap u.open \/ ~(t.shown \subseteq t.open)
             /\ u.closers[Child] = t.closers[Child] /\ u.title[Child] = t.title[Child]
             /\ \A x \in Owners : KeptTitle(t, x) => KeptTitle(u, x)
<1>0. Parent # Child /\ Parent \in Owners /\ Child \in Owners
  BY TipDistinct DEF Owners
<1>1. CASE e = Parent
  <2>1. killAround(t, e) = t
    BY <1>0, <1>1 DEF killAround
  <2> QED BY <1>0, <1>1, <2>1 DEF SameEvent
<1>2. CASE e = Child
  <2> DEFINE c == IF Parent \in t.open THEN closeTip(t, Parent, "blur") ELSE t
             u == IF c.title[Parent] = "own"
                    THEN [c EXCEPT !.parents = @ \cup {Parent}, !.title[Parent] = "empty"] ELSE c
  <2>1. killAround(t, e) = u
    BY <1>2 DEF killAround
  <2>2. /\ TipTyped(c) /\ SameEvent(t, c) /\ c.saved = t.saved /\ c.asked = t.asked
        /\ c.open = t.open \ {Parent} /\ c.closers[Child] = t.closers[Child]
        /\ c.shown = t.shown \ {Parent} \/ ~(t.shown \subseteq t.open)
        /\ \A x \in Owners : KeptTitle(t, x) => KeptTitle(c, x)
    <3>1. CASE Parent \in t.open
      BY <1>0, <3>1, CloseTipIs
    <3>2. CASE Parent \notin t.open
      BY <1>0, <3>2 DEF SameEvent
    <3> QED BY <3>1, <3>2
  <2>3. c.title[Child] = t.title[Child]
    <3>1. CASE Parent \in t.open /\ Parent \in t.shown
      BY <1>0, <3>1 DEF closeTip, TipTyped
    <3>2. CASE Parent \in t.open /\ Parent \notin t.shown
      BY <1>0, <3>2 DEF closeTip, TipTyped
    <3>3. CASE Parent \notin t.open
      BY <3>3
    <3> QED BY <3>1, <3>2, <3>3
  <2> HIDE DEF c
  <2>4. CASE c.title[Parent] = "own"
    <3> DEFINE title == [c.title EXCEPT ![Parent] = "empty"]
               v == [c EXCEPT !.parents = @ \cup {Parent}, !.title = title]
    <3>1. u = v
      BY <2>4
    <3>2. title \in [Owners -> TipTitles] /\ \A x \in Owners : x # Parent => title[x] = c.title[x]
      BY <1>0, <2>2 DEF TipTyped, TipTitles
    <3> HIDE DEF title, u
    <3>3. TipTyped(v) /\ SameEvent(c, v) /\ v.saved = c.saved /\ v.asked = c.asked
      BY <1>0, <2>2, <3>2 DEF TipTyped, SameEvent
    <3>4. v.open = c.open /\ v.shown = c.shown /\ v.closers = c.closers /\ v.title = title
          /\ v.parents = c.parents \cup {Parent}
      BY <2>2 DEF TipTyped
    <3> HIDE DEF v
    <3>5. ASSUME NEW x \in Owners, KeptTitle(c, x) PROVE KeptTitle(v, x)
      BY <1>0, <3>2, <3>3, <3>4, <3>5 DEF KeptTitle
    <3>6. SameEvent(t, v)
      BY <2>2, <3>3 DEF SameEvent
    <3>7. v.shown = t.shown \cap v.open \/ ~(t.shown \subseteq t.open)
      BY <2>2, <3>4
    <3> QED BY <1>0, <1>2, <2>1, <2>2, <2>3, <3>1, <3>2, <3>3, <3>4, <3>5, <3>6, <3>7
  <2>5. CASE c.title[Parent] # "own"
    <3>1. u = c
      BY <2>5
    <3>2. c.shown = t.shown \cap c.open \/ ~(t.shown \subseteq t.open)
      BY <2>2
    <3> QED BY <1>0, <1>2, <2>1, <2>2, <2>3, <3>1, <3>2
  <2> QED BY <2>4, <2>5
<1> QED BY <1>1, <1>2 DEF Owners

LEMMA CloseTipKeeps ==
  ASSUME NEW t, TipKept(t), NEW e \in Owners, NEW event
  PROVE  LET u == closeTip(t, e, event)
         IN  /\ TipKept(u) /\ SameEvent(t, u) /\ u.open = t.open \ {e}
             /\ \A x \in Owners : x # e => u.closers[x] = t.closers[x]
<1> DEFINE u == closeTip(t, e, event)
<1>1. TipTyped(t) /\ t.shown \subseteq t.open /\ OneOpen(t) /\ TitlesKept(t)
  BY DEF TipKept
<1>2. /\ TipTyped(u) /\ SameEvent(t, u) /\ u.saved = t.saved /\ u.asked = t.asked
      /\ u.open = t.open \ {e} /\ u.shown = t.shown \ {e}
      /\ \A x \in Owners : x # e => u.closers[x] = t.closers[x]
      /\ \A x \in Owners : KeptTitle(t, x) => KeptTitle(u, x)
      /\ e \notin t.shown => u = [t EXCEPT !.open = @ \ {e}]
  BY <1>1, CloseTipIs
<1> HIDE DEF u
<1>3. OneOpen(u)
  BY <1>2 DEF OneOpen
<1>4. TitlesKept(u)
  <2> SUFFICES ASSUME ~u.async PROVE TitlesKept(u)
    BY DEF TitlesKept
  <2>1. ~t.async /\ u.disabled = t.disabled /\ u.asked = {} /\ u.silenced = t.silenced
    BY <1>1, <1>2 DEF SameEvent, TitlesKept
  <2>2. CASE t.disabled
    <3>1. t.shown = {} /\ \A x \in Owners : SilencedTitle(t, x)
      BY <1>1, <2>1, <2>2 DEF TitlesKept
    <3>2. u = [t EXCEPT !.open = @ \ {e}]
      BY <1>2, <3>1
    <3>3. u.parents = t.parents
      BY <1>1, <3>2 DEF TipTyped
    <3> QED BY <1>2, <2>1, <2>2, <3>1, <3>3 DEF TitlesKept, SilencedTitle
  <2>3. CASE ~t.disabled
    BY <1>1, <1>2, <2>1, <2>3 DEF TitlesKept
  <2> QED BY <2>2, <2>3
<1> QED BY <1>1, <1>2, <1>3, <1>4 DEF TipKept, u

LEMMA ClosingKeeps ==
  ASSUME NEW t, TipKept(t), NEW elements, NEW listens, NEW event
  PROVE  LET u == closing(t, elements, listens, event)
         IN  /\ TipKept(u) /\ SameEvent(t, u)
             /\ \A x \in u.open : /\ x \in t.open /\ u.closers[x] = t.closers[x]
                                  /\ ~(x \in elements /\ t.closers[x] \cap listens # {})
<1> DEFINE hears(s, e) == e \in elements /\ s.closers[e] \cap listens # {}
           inner == IF hears(t, Child) THEN closeTip(t, Child, event) ELSE t
           u == IF hears(inner, Parent) THEN closeTip(inner, Parent, event) ELSE inner
<1>0. Parent # Child /\ Parent \in Owners /\ Child \in Owners /\ t.open \subseteq Owners
  BY TipDistinct DEF Owners, TipKept, TipTyped
<1>1. closing(t, elements, listens, event) = u
  BY DEF closing
<1>2. /\ TipKept(inner) /\ SameEvent(t, inner)
      /\ inner.open = IF hears(t, Child) THEN t.open \ {Child} ELSE t.open
      /\ inner.closers[Parent] = t.closers[Parent]
      /\ Child \in inner.open => inner.closers[Child] = t.closers[Child]
  <2>1. CASE hears(t, Child)
    BY <1>0, <2>1, CloseTipKeeps
  <2>2. CASE ~hears(t, Child)
    BY <2>2 DEF SameEvent
  <2> QED BY <2>1, <2>2
<1>3. hears(inner, Parent) <=> hears(t, Parent)
  BY <1>2
<1> HIDE DEF inner
<1>4. /\ TipKept(u) /\ SameEvent(t, u)
      /\ u.open = IF hears(t, Parent) THEN inner.open \ {Parent} ELSE inner.open
      /\ u.closers[Child] = inner.closers[Child]
      /\ Parent \in u.open => u.closers[Parent] = inner.closers[Parent]
  <2>1. CASE hears(t, Parent)
    BY <1>0, <1>2, <1>3, <2>1, CloseTipKeeps DEF SameEvent
  <2>2. CASE ~hears(t, Parent)
    BY <1>2, <1>3, <2>2 DEF SameEvent
  <2> QED BY <2>1, <2>2
<1> HIDE DEF u
<1>5. ASSUME NEW x \in u.open
      PROVE  x \in t.open /\ u.closers[x] = t.closers[x] /\ ~hears(t, x)
  <2>1. x \in {Parent, Child}
    BY <1>0, <1>2, <1>4 DEF Owners
  <2> QED BY <1>0, <1>2, <1>4, <2>1
<1> QED BY <1>1, <1>4, <1>5

LEMMA OpenTipKeeps ==
  ASSUME NEW t, TipOK(t), ~t.disabled, NEW e \in Owners, NEW event \in Openers,
         event = "mouseover" => e \in Around(t.pointer), event = "focusin" => e \in Around(t.focus),
         event = "mouseover" /\ e = Parent /\ Child \in t.open => "focusout" \in t.closers[Child]
  PROVE  TipOK(open(t, e, event))
<1> DEFINE saved == [t.saved EXCEPT ![e] = IF t.title[e] = "own" THEN "own" ELSE @]
           marked == [t EXCEPT !.saved = saved, !.open = @ \cup {e}]
           alone == IF event = "mouseover" THEN killAround(marked, e) ELSE marked
           closers == [alone.closers EXCEPT ![e] = @ \cup registerCloseHandlers(e, event)]
           ready == [alone EXCEPT !.closers = closers]
           u == IF t.async THEN [ready EXCEPT !.asked = @ \cup {<<e, event>>}]
                ELSE IF t.title[e] = "own" THEN show(ready, e, event)
                ELSE ready
<1>0. Parent # Child /\ Parent \in Owners /\ Child \in Owners /\ Owners = {Parent, Child}
  BY TipDistinct DEF Owners
<1>1. TipTyped(t) /\ t.shown \subseteq t.open /\ OneOpen(t) /\ TitlesKept(t) /\ TipKept(t)
      /\ \A x \in t.open : HasCause(t, x)
  BY DEF TipOK, TipKept
<1> SUFFICES ASSUME e \notin t.shown PROVE TipOK(u)
  BY DEF open
<1>2. saved \in [Owners -> TipTitles] /\ (t.title[e] = "own" => saved[e] = "own")
      /\ \A x \in Owners : x # e => saved[x] = t.saved[x]
  BY <1>1 DEF TipTyped, TipTitles
<1> HIDE DEF saved
<1>3. /\ TipTyped(marked) /\ SameEvent(t, marked) /\ marked.asked = t.asked
      /\ marked.open = t.open \cup {e} /\ marked.saved = saved /\ marked.shown = t.shown
      /\ marked.closers = t.closers /\ marked.title = t.title /\ marked.parents = t.parents
  <2>1. TipTyped(marked)
    BY <1>1, <1>2 DEF TipTyped
  <2>2. marked.open = t.open \cup {e} /\ marked.saved = saved
    BY <1>1 DEF TipTyped
  <2> QED BY <2>1, <2>2 DEF SameEvent
<1> HIDE DEF marked
<1>4. \A x \in Owners : KeptTitle(t, x) => KeptTitle(marked, x)
  BY <1>2, <1>3 DEF KeptTitle
<1>5. /\ TipTyped(alone) /\ SameEvent(t, alone) /\ alone.asked = t.asked /\ alone.saved = saved
      /\ alone.shown \subseteq alone.open /\ alone.open \subseteq t.open \cup {e} /\ e \in alone.open
      /\ alone.title[e] = t.title[e] /\ alone.closers[e] = t.closers[e]
      /\ \A x \in alone.open : alone.closers[x] = t.closers[x]
      /\ \A x \in Owners : KeptTitle(marked, x) => KeptTitle(alone, x)
      /\ event = "mouseover" /\ e = Child => Parent \notin alone.open
  <2>1. CASE event = "mouseover" /\ e = Parent
    BY <1>0, <1>1, <1>3, <2>1, KillIs
  <2>2. CASE event = "mouseover" /\ e = Child
    <3> DEFINE v == killAround(marked, e)
    <3>1. /\ TipTyped(v) /\ SameEvent(marked, v) /\ v.saved = marked.saved /\ v.asked = marked.asked
          /\ v.open = marked.open \ {Parent}
          /\ v.shown = marked.shown \cap v.open \/ ~(marked.shown \subseteq marked.open)
          /\ v.closers[Child] = marked.closers[Child] /\ v.title[Child] = marked.title[Child]
          /\ \A x \in Owners : KeptTitle(marked, x) => KeptTitle(v, x)
      BY <1>3, <2>2, KillIs
    <3>2. alone = v
      BY <2>2
    <3> HIDE DEF v, alone
    <3>3. v.open \subseteq {Child}
      BY <1>0, <3>1 DEF TipTyped
    <3>4. SameEvent(t, v)
      BY <1>3, <3>1 DEF SameEvent
    <3> QED BY <1>0, <1>1, <1>3, <2>2, <3>1, <3>2, <3>3, <3>4
  <2>3. CASE event # "mouseover"
    BY <1>1, <1>3, <2>3
  <2> QED BY <1>0, <2>1, <2>2, <2>3
<1> HIDE DEF alone
<1>6. closers \in [Owners -> SUBSET Closers] /\ closers[e] = t.closers[e] \cup registerCloseHandlers(e, event)
      /\ \A x \in Owners : x # e => closers[x] = alone.closers[x]
  BY <1>5 DEF TipTyped, registerCloseHandlers, Closers
<1> HIDE DEF closers
<1>7. TipTyped(ready) /\ SameEvent(alone, ready) /\ ready.asked = alone.asked /\ ready.saved = alone.saved
      /\ ready.shown = alone.shown /\ ready.open = alone.open /\ ready.title = alone.title
      /\ ready.closers = closers /\ ready.parents = alone.parents
  <2>1. TipTyped(ready)
    BY <1>5, <1>6 DEF TipTyped
  <2>2. ready.closers = closers
    BY <1>5 DEF TipTyped
  <2> QED BY <2>1, <2>2 DEF SameEvent
<1> HIDE DEF ready
<1>8. \A x \in Owners : KeptTitle(t, x) => KeptTitle(ready, x)
  BY <1>4, <1>5, <1>7 DEF KeptTitle
<1>9. /\ TipTyped(u) /\ SameEvent(ready, u) /\ u.open = ready.open /\ u.closers = ready.closers
      /\ u.shown \subseteq u.open /\ TitlesKept(u)
  <2>0. SameEvent(t, ready)
    BY <1>5, <1>7 DEF SameEvent
  <2>1. CASE t.async
    <3> DEFINE v == [ready EXCEPT !.asked = @ \cup {<<e, event>>}]
    <3>1. u = v
      BY <2>1
    <3>2. TipTyped(v) /\ SameEvent(ready, v) /\ v.open = ready.open /\ v.closers = ready.closers /\ v.shown = ready.shown
      BY <1>7 DEF TipTyped, SameEvent
    <3> HIDE DEF u, v
    <3> QED BY <1>5, <1>7, <2>0, <2>1, <3>1, <3>2 DEF TitlesKept, SameEvent
  <2>2. CASE ~t.async /\ t.title[e] = "own"
    <3> DEFINE v == show(ready, e, event)
    <3>1. u = v
      BY <2>2
    <3>2. /\ TipTyped(v) /\ SameEvent(ready, v) /\ v.saved = ready.saved /\ v.asked = ready.asked
          /\ v.open = ready.open /\ v.shown = ready.shown \cup {e} /\ v.closers = ready.closers
          /\ v.parents = ready.parents /\ \A x \in Owners : x # e => v.title[x] = ready.title[x]
      BY <1>7, ShowIs
    <3> HIDE DEF u, v
    <3>3. \A x \in Owners : KeptTitle(v, x)
      <4> SUFFICES ASSUME NEW x \in Owners PROVE KeptTitle(v, x)
        OBVIOUS
      <4>1. KeptTitle(ready, x)
        BY <1>1, <1>8, <2>2 DEF TitlesKept
      <4>2. CASE x = e
        BY <1>2, <1>5, <1>7, <2>2, <3>2, <4>2 DEF KeptTitle
      <4>3. CASE x # e
        BY <3>2, <4>1, <4>3 DEF KeptTitle
      <4> QED BY <4>2, <4>3
    <3>4. v.asked = {} /\ ~v.disabled
      BY <1>1, <1>5, <1>7, <2>0, <2>2, <3>2 DEF TitlesKept, SameEvent
    <3> QED BY <1>5, <1>7, <3>1, <3>2, <3>3, <3>4 DEF TitlesKept
  <2>3. CASE ~t.async /\ t.title[e] # "own"
    <3>1. u = ready
      BY <2>3
    <3> HIDE DEF u
    <3> QED BY <1>1, <1>5, <1>7, <1>8, <2>0, <2>3, <3>1 DEF TitlesKept, SameEvent
  <2> QED BY <2>1, <2>2, <2>3
<1> HIDE DEF u
<1>10. SameEvent(t, u)
  BY <1>5, <1>7, <1>9 DEF SameEvent
<1>11. ASSUME NEW x \in u.open PROVE HasCause(u, x)
  <2>1. CASE x = e
    <3>1. registerCloseHandlers(e, event) \subseteq u.closers[e]
      BY <1>6, <1>7, <1>9
    <3>2. event = "mouseover" \/ event = "focusin"
      BY DEF Openers
    <3> QED BY <1>10, <2>1, <3>1, <3>2 DEF HasCause, registerCloseHandlers, SameEvent
  <2>2. CASE x # e
    <3>1. x \in t.open /\ x \in Owners /\ u.closers[x] = t.closers[x]
      BY <1>1, <1>5, <1>6, <1>7, <1>9, <2>2 DEF TipTyped
    <3> QED BY <1>1, <1>10, <3>1 DEF HasCause, SameEvent
  <2> QED BY <2>1, <2>2
<1>12. OneOpen(u)
  <2> SUFFICES ASSUME Owners \subseteq u.open PROVE \E x \in Owners : "focusout" \in u.closers[x]
    BY DEF OneOpen
  <2>1. CASE event = "focusin"
    <3>1. "focusout" \in u.closers[e]
      BY <1>6, <1>7, <1>9, <2>1 DEF registerCloseHandlers
    <3> QED BY <3>1
  <2>2. CASE event = "mouseover"
    <3>1. e = Parent
      BY <1>0, <1>5, <1>7, <1>9, <2>2
    <3>2. Child \in t.open /\ u.closers[Child] = t.closers[Child]
      BY <1>0, <1>5, <1>6, <1>7, <1>9, <3>1
    <3> QED BY <1>0, <2>2, <3>1, <3>2
  <2> QED BY <2>1, <2>2 DEF Openers
<1> QED BY <1>9, <1>11, <1>12 DEF TipOK, TipKept

LEMMA AroundIs ==
  /\ Around(Child) = {Parent, Child} /\ Around(Parent) = {Parent} /\ Around(Off) = {}
  /\ \A t, x : targetOf(t, x) # {} => (CHOOSE y \in targetOf(t, x) : TRUE) \in Owners \cap Around(x) \/ x \notin Owners \cup {Off}
<1>1. Around(Child) = {Parent, Child} /\ Around(Parent) = {Parent} /\ Around(Off) = {}
  BY TipDistinct DEF Around, Owners
<1>2. ASSUME NEW t, NEW x \in Owners \cup {Off}
      PROVE  targetOf(t, x) \subseteq Owners \cap Around(x)
  <2>1. CASE x = Child
    BY <1>1, <2>1 DEF targetOf, Owners
  <2>2. CASE x = Parent
    BY <1>1, <2>2, TipDistinct DEF targetOf, Owners
  <2>3. CASE x = Off
    BY <1>1, <2>3, TipDistinct DEF targetOf, Owners
  <2> QED BY <2>1, <2>2, <2>3 DEF Owners
<1>3. ASSUME NEW t, NEW x \in Owners \cup {Off}, targetOf(t, x) # {}
      PROVE  (CHOOSE y \in targetOf(t, x) : TRUE) \in Owners \cap Around(x)
  <2>1. (CHOOSE y \in targetOf(t, x) : TRUE) \in targetOf(t, x)
    BY <1>3
  <2> HIDE DEF targetOf
  <2> QED BY <1>2, <2>1
<1> QED BY <1>1, <1>3

LEMMA TipOpenedKeeps ==
  ASSUME NEW t, TipOK(t), NEW e \in Owners \cup {Off}, NEW event \in Openers,
         event = "mouseover" => t.pointer = e, event = "focusin" => t.focus = e,
         event = "mouseover" /\ Child \in t.open => "focusout" \in t.closers[Child]
  PROVE  TipOK(tipOpened(t, e, event))
<1> DEFINE x == CHOOSE y \in targetOf(t, e) : TRUE
<1>1. CASE t.disabled \/ targetOf(t, e) = {}
  BY <1>1 DEF tipOpened
<1>2. CASE ~(t.disabled \/ targetOf(t, e) = {})
  <2>1. tipOpened(t, e, event) = open(t, x, event) /\ x \in Owners /\ x \in Around(e)
    BY <1>2, AroundIs DEF tipOpened
  <2> HIDE DEF x
  <2> QED BY <1>2, <2>1, OpenTipKeeps
<1> QED BY <1>1, <1>2

LEMMA PointerKeeps ==
  ASSUME TipOK(tip), NEW e \in Owners \cup {Off}, PointerTo(e)
  PROVE  TipOK(tip')
<1> DEFINE t == [tip EXCEPT !.pointer = e]
           gone == Around(tip.pointer) \ Around(e)
           leaving == closing(t, gone, {"mouseleave"}, "mouseleave")
<1>0. Parent # Child /\ Parent # Off /\ Child # Off
  BY TipDistinct
<1>1. e # tip.pointer /\ tip' = tipOpened(leaving, e, "mouseover")
  BY DEF PointerTo
<1>2. TipKept(tip) /\ TipTyped(tip) /\ \A x \in tip.open : HasCause(tip, x)
  BY DEF TipOK, TipKept
<1>3. TipKept(t) /\ t.pointer = e /\ t.focus = tip.focus /\ t.open = tip.open /\ t.closers = tip.closers
  <2>1. TipTyped(t)
    BY <1>2 DEF TipTyped
  <2>2. t.pointer = e /\ t.focus = tip.focus /\ t.open = tip.open /\ t.closers = tip.closers
        /\ t.shown = tip.shown /\ t.async = tip.async /\ t.disabled = tip.disabled /\ t.asked = tip.asked
        /\ t.title = tip.title /\ t.saved = tip.saved /\ t.parents = tip.parents /\ t.silenced = tip.silenced
    BY <1>2 DEF TipTyped
  <2> HIDE DEF t
  <2> QED BY <1>2, <2>1, <2>2 DEF TipKept, OneOpen, TitlesKept, KeptTitle, SilencedTitle
<1> HIDE DEF t
<1>4. /\ TipKept(leaving) /\ SameEvent(t, leaving)
      /\ \A x \in leaving.open : /\ x \in t.open /\ leaving.closers[x] = t.closers[x]
                              /\ ~(x \in gone /\ t.closers[x] \cap {"mouseleave"} # {})
  BY <1>3, ClosingKeeps
<1> HIDE DEF leaving
<1>5. ASSUME NEW x \in leaving.open PROVE HasCause(leaving, x)
  <2>1. HasCause(tip, x)
    BY <1>2, <1>3, <1>4
  <2> QED BY <1>3, <1>4, <2>1 DEF HasCause, SameEvent
<1>6. TipOK(leaving)
  BY <1>4, <1>5 DEF TipOK
<1>7. ASSUME Child \in leaving.open PROVE "focusout" \in leaving.closers[Child]
  <2>1. HasCause(tip, Child) /\ leaving.closers[Child] = tip.closers[Child]
        /\ ~(Child \in gone /\ "mouseleave" \in tip.closers[Child])
    BY <1>2, <1>3, <1>4, <1>7
  <2>2. tip.pointer \in {Parent, Child, Off} /\ e \in {Parent, Child, Off}
    BY <1>2 DEF TipTyped, Owners
  <2>3. Child \in Around(tip.pointer) => Child \in gone
    BY <1>0, <1>1, <2>2, AroundIs
  <2> QED BY <2>1, <2>3 DEF HasCause
<1> QED BY <1>1, <1>3, <1>4, <1>6, <1>7, TipOpenedKeeps DEF Openers, SameEvent

LEMMA FocusTipKeeps ==
  ASSUME TipOK(tip), NEW e \in Owners \cup {Off}, FocusTo(e)
  PROVE  TipOK(tip')
<1> DEFINE t == [tip EXCEPT !.focus = e]
           leaving == closing(t, Around(tip.focus), {"focusout"}, "focusout")
<1>1. e # tip.focus /\ tip' = tipOpened(leaving, e, "focusin")
  BY DEF FocusTo
<1>2. TipKept(tip) /\ TipTyped(tip) /\ \A x \in tip.open : HasCause(tip, x)
  BY DEF TipOK, TipKept
<1>3. TipKept(t) /\ t.focus = e /\ t.pointer = tip.pointer /\ t.open = tip.open /\ t.closers = tip.closers
  <2>1. TipTyped(t)
    BY <1>2 DEF TipTyped
  <2>2. t.focus = e /\ t.pointer = tip.pointer /\ t.open = tip.open /\ t.closers = tip.closers
        /\ t.shown = tip.shown /\ t.async = tip.async /\ t.disabled = tip.disabled /\ t.asked = tip.asked
        /\ t.title = tip.title /\ t.saved = tip.saved /\ t.parents = tip.parents /\ t.silenced = tip.silenced
    BY <1>2 DEF TipTyped
  <2> HIDE DEF t
  <2> QED BY <1>2, <2>1, <2>2 DEF TipKept, OneOpen, TitlesKept, KeptTitle, SilencedTitle
<1> HIDE DEF t
<1>4. /\ TipKept(leaving) /\ SameEvent(t, leaving)
      /\ \A x \in leaving.open : /\ x \in t.open /\ leaving.closers[x] = t.closers[x]
                              /\ ~(x \in Around(tip.focus) /\ t.closers[x] \cap {"focusout"} # {})
  BY <1>3, ClosingKeeps
<1> HIDE DEF leaving
<1>5. ASSUME NEW x \in leaving.open PROVE HasCause(leaving, x)
  <2>1. HasCause(tip, x)
    BY <1>2, <1>3, <1>4
  <2> QED BY <1>3, <1>4, <2>1 DEF HasCause, SameEvent
<1>6. TipOK(leaving)
  BY <1>4, <1>5 DEF TipOK
<1> QED BY <1>1, <1>3, <1>4, <1>6, TipOpenedKeeps DEF Openers, SameEvent

LEMMA EscapeTipKeeps == ASSUME TipOK(tip), EscapeTip PROVE TipOK(tip')
<1> DEFINE both == {"mouseleave", "focusout"}
           leaving == closing(tip, Around(tip.focus), both, "keyup")
<1>1. tip' = leaving
  BY DEF EscapeTip
<1>2. TipKept(tip) /\ \A x \in tip.open : HasCause(tip, x)
  BY DEF TipOK
<1>3. /\ TipKept(leaving) /\ SameEvent(tip, leaving)
      /\ \A x \in leaving.open : /\ x \in tip.open /\ leaving.closers[x] = tip.closers[x]
                              /\ ~(x \in Around(tip.focus) /\ tip.closers[x] \cap both # {})
  BY <1>2, ClosingKeeps
<1> HIDE DEF leaving
<1> QED BY <1>1, <1>2, <1>3 DEF TipOK, HasCause, SameEvent

LEMMA AnswerTipKeeps ==
  ASSUME TipOK(tip), NEW e \in Owners, NEW event \in Openers, AnswerTip(e, event)
  PROVE  TipOK(tip')
<1> DEFINE t == [tip EXCEPT !.asked = @ \ {<<e, event>>}]
<1>1. <<e, event>> \in tip.asked /\ tip' = IF e \in t.open THEN show(t, e, event) ELSE t
  BY DEF AnswerTip
<1>2. /\ TipTyped(tip) /\ tip.shown \subseteq tip.open /\ OneOpen(tip) /\ tip.async
      /\ \A x \in tip.open : HasCause(tip, x)
  BY <1>1 DEF TipOK, TipKept, TitlesKept, TipTyped
<1>3. TipTyped(t) /\ SameEvent(tip, t) /\ t.open = tip.open /\ t.shown = tip.shown /\ t.closers = tip.closers
  BY <1>2 DEF TipTyped, SameEvent
<1> HIDE DEF t
<1>4. TipTyped(tip') /\ SameEvent(tip, tip') /\ tip'.open = tip.open /\ tip'.shown \subseteq tip.open
      /\ tip'.closers = tip.closers
  <2>1. CASE e \in t.open
    <3> DEFINE u == show(t, e, event)
    <3>1. /\ TipTyped(u) /\ SameEvent(t, u) /\ u.open = t.open /\ u.shown = t.shown \cup {e} /\ u.closers = t.closers
      BY <1>3, ShowIs
    <3>2. tip' = u
      BY <1>1, <2>1
    <3> HIDE DEF u
    <3> QED BY <1>2, <1>3, <2>1, <3>1, <3>2 DEF SameEvent
  <2>2. CASE e \notin t.open
    BY <1>1, <1>2, <1>3, <2>2
  <2> QED BY <2>1, <2>2
<1> QED BY <1>2, <1>4 DEF TipOK, TipKept, TitlesKept, OneOpen, HasCause, SameEvent

LEMMA DisableTipsKeeps == ASSUME TipOK(tip), DisableTips PROVE TipOK(tip')
<1> DEFINE inner == IF Child \in tip.shown THEN closeTip(tip, Child, "blur") ELSE tip
           t == IF Parent \in tip.shown THEN closeTip(inner, Parent, "blur") ELSE inner
           titled == {e \in Owners : t.title[e] # "none"}
           saved == [e \in Owners |-> IF e \in titled THEN t.title[e] ELSE t.saved[e]]
           title == [e \in Owners |-> "none"]
           u == [t EXCEPT !.disabled = TRUE, !.silenced = titled, !.saved = saved, !.title = title]
<1>0. Parent # Child /\ Parent \in Owners /\ Child \in Owners /\ Owners = {Parent, Child}
  BY TipDistinct DEF Owners
<1>1. ~tip.disabled /\ tip' = u
  BY DEF DisableTips
<1>2. TipKept(tip) /\ TipTyped(tip) /\ \A x \in tip.open : HasCause(tip, x)
  BY DEF TipOK, TipKept
<1>3. /\ TipKept(inner) /\ SameEvent(tip, inner) /\ inner.open \subseteq tip.open
      /\ inner.shown = tip.shown \ {Child} /\ \A x \in inner.open : inner.closers[x] = tip.closers[x]
  <2>1. CASE Child \in tip.shown
    <3>1. inner.shown = tip.shown \ {Child}
      BY <1>0, <1>2, <2>1, CloseTipIs
    <3> QED BY <1>0, <1>2, <2>1, <3>1, CloseTipKeeps DEF TipTyped
  <2>2. CASE Child \notin tip.shown
    BY <1>2, <2>2 DEF SameEvent
  <2> QED BY <2>1, <2>2
<1> HIDE DEF inner
<1>4. /\ TipKept(t) /\ SameEvent(tip, t) /\ t.open \subseteq tip.open
      /\ t.shown = {} /\ \A x \in t.open : t.closers[x] = tip.closers[x]
  <2>1. TipTyped(inner) /\ tip.shown \subseteq {Parent, Child}
    BY <1>0, <1>2, <1>3 DEF TipKept, TipTyped
  <2>2. CASE Parent \in tip.shown
    <3> DEFINE v == closeTip(inner, Parent, "blur")
    <3>1. v.shown = inner.shown \ {Parent} /\ TipKept(v) /\ SameEvent(inner, v) /\ v.open = inner.open \ {Parent}
          /\ \A x \in Owners : x # Parent => v.closers[x] = inner.closers[x]
      BY <1>0, <1>3, <2>1, CloseTipIs, CloseTipKeeps
    <3>2. t = v
      BY <2>2
    <3> HIDE DEF v, t
    <3>3. SameEvent(tip, v)
      BY <1>3, <3>1 DEF SameEvent
    <3>4. v.open \subseteq Owners
      BY <3>1 DEF TipKept, TipTyped
    <3> QED BY <1>0, <1>3, <2>1, <3>1, <3>2, <3>3, <3>4
  <2>3. CASE Parent \notin tip.shown
    BY <1>0, <1>3, <2>1, <2>3
  <2> QED BY <2>2, <2>3
<1> HIDE DEF t
<1>5. TipTyped(t) /\ t.shown \subseteq t.open /\ OneOpen(t) /\ TitlesKept(t)
  BY <1>4 DEF TipKept
<1>6. titled \in SUBSET Owners /\ saved \in [Owners -> TipTitles] /\ title \in [Owners -> TipTitles]
      /\ \A x \in Owners : saved[x] = IF x \in titled THEN t.title[x] ELSE t.saved[x]
  BY <1>5 DEF TipTyped, TipTitles
<1>7. \A x \in Owners : x \in titled <=> t.title[x] # "none"
  OBVIOUS
<1> HIDE DEF titled, saved, title
<1>8. TipTyped(u)
  BY <1>5, <1>6 DEF TipTyped
<1>9. u.async = t.async /\ u.disabled = TRUE /\ u.silenced = titled /\ u.saved = saved /\ u.open = t.open
      /\ u.shown = t.shown /\ u.asked = t.asked /\ u.closers = t.closers /\ u.parents = t.parents
      /\ u.pointer = t.pointer /\ u.focus = t.focus
  BY <1>5 DEF TipTyped
<1> HIDE DEF u
<1>10. TitlesKept(u)
  <2> SUFFICES ASSUME ~u.async, NEW x \in Owners PROVE u.asked = {} /\ SilencedTitle(u, x)
    BY <1>0, <1>4, <1>9 DEF TitlesKept
  <2>1. KeptTitle(t, x) /\ u.asked = {}
    BY <1>1, <1>4, <1>5, <1>9 DEF TitlesKept, SameEvent
  <2>2. t.title[x] = "own" \/ x \in t.parents
    BY <1>4, <2>1 DEF KeptTitle
  <2> QED BY <1>6, <1>7, <1>9, <2>1, <2>2 DEF SilencedTitle
<1>11. \A x \in u.open : HasCause(u, x)
  BY <1>2, <1>4, <1>9 DEF HasCause, SameEvent
<1> QED BY <1>1, <1>4, <1>5, <1>8, <1>9, <1>10, <1>11 DEF TipOK, TipKept, OneOpen

LEMMA EnableTipsKeeps == ASSUME TipOK(tip), EnableTips PROVE TipOK(tip')
<1> DEFINE title == [e \in Owners |-> IF e \in tip.silenced /\ tip.saved[e] = "own" THEN "own" ELSE tip.title[e]]
           u == [tip EXCEPT !.disabled = FALSE, !.silenced = {}, !.title = title]
<1>1. tip.disabled /\ tip' = u
  BY DEF EnableTips
<1>2. TipTyped(tip) /\ tip.shown \subseteq tip.open /\ OneOpen(tip) /\ TitlesKept(tip)
      /\ \A x \in tip.open : HasCause(tip, x)
  BY DEF TipOK, TipKept
<1>3. title \in [Owners -> TipTitles]
      /\ \A x \in Owners : x \in tip.silenced /\ tip.saved[x] = "own" => title[x] = "own"
  BY <1>2 DEF TipTyped, TipTitles
<1> HIDE DEF title
<1>4. TipTyped(u)
  BY <1>2, <1>3 DEF TipTyped
<1>5. u.async = tip.async /\ u.disabled = FALSE /\ u.title = title /\ u.saved = tip.saved /\ u.open = tip.open
      /\ u.shown = tip.shown /\ u.asked = tip.asked /\ u.closers = tip.closers /\ u.parents = tip.parents
      /\ u.pointer = tip.pointer /\ u.focus = tip.focus
  BY <1>2 DEF TipTyped
<1> HIDE DEF u
<1>6. TitlesKept(u)
  BY <1>1, <1>2, <1>3, <1>5 DEF TitlesKept, KeptTitle, SilencedTitle
<1>7. \A x \in u.open : HasCause(u, x)
  BY <1>2, <1>5 DEF HasCause
<1> QED BY <1>1, <1>2, <1>4, <1>5, <1>6, <1>7 DEF TipOK, TipKept, OneOpen

LEMMA TipBegins == TooltipInit => TipOK(tip)
<1> SUFFICES ASSUME TooltipInit PROVE TipOK(tip)
  OBVIOUS
<1>1. TipTyped(tip)
  BY DEF TooltipInit, TipTyped, TipTitles
<1>2. tip.open = {} /\ tip.shown = {} /\ tip.asked = {} /\ tip.disabled = FALSE
      /\ \A x \in Owners : tip.title[x] = "own"
  BY DEF TooltipInit
<1> QED BY <1>1, <1>2, TipDistinct DEF TipOK, TipKept, OneOpen, TitlesKept, KeptTitle, Owners

LEMMA TipStepKeeps == ASSUME TipOK(tip), TooltipNext PROVE TipOK(tip')
BY PointerKeeps, FocusTipKeeps, EscapeTipKeeps, AnswerTipKeeps, DisableTipsKeeps, EnableTipsKeeps DEF TooltipNext, Openers

LEMMA TipHolds ==
  ASSUME TipOK(tip)
  PROVE  TooltipTypeOK /\ ShownForCause /\ TitleComesBack /\ HoverShowsOne
<1>1. TipTyped(tip) /\ tip.shown \subseteq tip.open /\ OneOpen(tip) /\ TitlesKept(tip)
      /\ \A x \in tip.open : HasCause(tip, x)
  BY DEF TipOK, TipKept
<1>2. TooltipTypeOK
  BY <1>1 DEF TooltipTypeOK, TipTyped, TipTitles
<1>3. ShownForCause /\ HoverShowsOne
  BY <1>1 DEF ShownForCause, HoverShowsOne, HasCause, OneOpen
<1>4. TitleComesBack
  BY <1>1 DEF TitleComesBack, TitlesKept, KeptTitle
<1> QED BY <1>2, <1>3, <1>4

-------------------------------------------------------------------------------
(* Interactions with the mouse.                                            *)

LEMMA PartsDiffer == Inner # Outer /\ Apart # Inner /\ Apart # Outer /\ MouseParts = {Inner, Outer} /\ Nobody = Apart
BY MouseAssumption DEF MouseParts, Nobody

(* What ui.mouse keeps of a press: the widget that listens is the only one *)
(* and the one that took the press; its drag can begin when its delay has  *)
(* passed; and it will swallow the click if it was dragged to where it     *)
(* was pressed, and only then.                                             *)
MouseData == [started : BOOLEAN, moved : BOOLEAN, met : BOOLEAN, held : BOOLEAN, timers : Nat,
              listening : BOOLEAN, target : Places, ignoring : BOOLEAN, swallow : SUBSET Places,
              alive : BOOLEAN]

(* A widget drags, or waits for its delay, only while it listens.          *)
WidgetOK(w) ==
  /\ w \in MouseData /\ w.timers \in 0..1
  /\ w.met => w.held
  /\ w.started => w.held
  /\ w.listening => w.alive
  /\ w.alive /\ w.started => w.listening
  /\ w.alive /\ w.timers > 0 => w.listening

MouseTyped(m) ==
  m \in [down : SUBSET BOOLEAN, handled : BOOLEAN, w : [MouseParts -> MouseData], delay : BOOLEAN,
         distance : BOOLEAN, took : Places, from : Places, drag : BOOLEAN,
         click : [seen : BOOLEAN, by : Places, took : Places, drag : BOOLEAN]]

OneListens(m) ==
  \A i \in MouseParts : m.w[i].listening => m.handled /\ \A j \in MouseParts : m.w[j].listening => i = j

(* The press was taken by widget k, which swallows the click if it dragged. *)
TookIt(m, k) ==
  /\ k = Inner => m.from = Inner
  /\ \A j \in MouseParts : m.w[j].listening => j = k
  /\ m.w[k].listening => m.w[k].target = m.from /\ ~m.drag
  /\ m.w[k].alive => (m.drag <=> m.from \in m.w[k].swallow)

(* The click that was seen last went through exactly if there was no drag. *)
ClickWas(m) ==
  LET c == m.click
  IN  c.seen /\ c.took # Nobody /\ m.w[c.took].alive =>
        /\ c.by = c.took => c.drag
        /\ c.by = Nobody => ~c.drag

Pressed(m) ==
  /\ MouseTyped(m) /\ \A i \in MouseParts : WidgetOK(m.w[i])
  /\ \A i, j \in MouseParts : m.w[i].listening /\ m.w[j].listening => i = j
  /\ m.took # Nobody => TookIt(m, m.took)

MouseOK(m) == Pressed(m) /\ \A i \in MouseParts : m.w[i].listening => m.handled

MouseAgrees(m) == MouseOK(m) /\ ClickWas(m)

LEMMA MouseUpIs ==
  ASSUME NEW m, MouseTyped(m), (\A j \in MouseParts : WidgetOK(m.w[j])), NEW i \in MouseParts, NEW place \in Places
  PROVE  LET u == mouseUp(m, i, place)
         IN  /\ MouseTyped(u) /\ \A j \in MouseParts : WidgetOK(u.w[j])
             /\ u.down = m.down /\ u.click = m.click /\ u.took = m.took /\ u.from = m.from
             /\ ~u.w[i].listening /\ \A j \in MouseParts : j # i => u.w[j] = m.w[j]
             /\ \A j \in MouseParts : u.w[j].alive <=> m.w[j].alive
             /\ u.drag <=> (m.w[i].started /\ place = m.w[i].target)
             /\ \A p \in Places : p \in u.w[i].swallow <=>
                  p \in m.w[i].swallow \/ (m.w[i].started /\ place = m.w[i].target /\ p = place)
<1> DEFINE w == m.w[i]
           same == w.started /\ place = w.target
           more == w.swallow \cup IF same THEN {place} ELSE {}
           idle == [MouseIdle EXCEPT !.alive = w.alive, !.swallow = more]
           of == [m.w EXCEPT ![i] = idle]
           u == [m EXCEPT !.handled = FALSE, !.drag = same, !.w = of]
<1>1. mouseUp(m, i, place) = u
  BY DEF mouseUp
<1>2. MouseTyped(m) /\ \A j \in MouseParts : WidgetOK(m.w[j])
  OBVIOUS
<1>3. w \in MouseData
  BY <1>2 DEF MouseTyped
<1>4. more \in SUBSET Places /\ same \in BOOLEAN
      /\ \A p \in Places : p \in more <=> p \in w.swallow \/ (w.started /\ place = w.target /\ p = place)
  BY <1>3 DEF MouseData
<1>5. same <=> (m.w[i].started /\ place = m.w[i].target)
  OBVIOUS
<1> HIDE DEF same, more
<1>6. idle \in MouseData /\ idle.listening = FALSE /\ idle.started = FALSE /\ idle.held = TRUE /\ idle.timers = 0
      /\ idle.alive = w.alive /\ idle.swallow = more /\ idle.target = Apart /\ idle.met = TRUE
  BY <1>3, <1>4 DEF MouseIdle, MouseData, Places
<1> HIDE DEF idle
<1>7. WidgetOK(idle)
  BY <1>6 DEF WidgetOK
<1>8. of \in [MouseParts -> MouseData] /\ of[i] = idle /\ \A j \in MouseParts : j # i => of[j] = m.w[j]
  BY <1>2, <1>6 DEF MouseTyped
<1> HIDE DEF of
<1>9. MouseTyped(u) /\ u.w = of /\ u.drag = same
  BY <1>2, <1>4, <1>8 DEF MouseTyped
<1>10. u.down = m.down /\ u.click = m.click /\ u.took = m.took /\ u.from = m.from
  BY <1>2 DEF MouseTyped
<1> HIDE DEF u
<1>11. ASSUME NEW j \in MouseParts PROVE WidgetOK(u.w[j]) /\ (u.w[j].alive <=> m.w[j].alive)
  <2>1. CASE j = i
    BY <1>6, <1>7, <1>8, <1>9, <2>1
  <2>2. CASE j # i
    BY <1>2, <1>8, <1>9, <2>2
  <2> QED BY <2>1, <2>2
<1> QED BY <1>1, <1>4, <1>5, <1>6, <1>8, <1>9, <1>10, <1>11

(* The widget that listens stops to: nobody listens any more.              *)
LEMMA MouseUpKeeps ==
  ASSUME NEW m, Pressed(m), NEW i \in MouseParts, m.w[i].listening, NEW place \in Places
  PROVE  LET u == mouseUp(m, i, place)
         IN  MouseOK(u) /\ \A j \in MouseParts : ~u.w[j].listening /\ (u.w[j].alive <=> m.w[j].alive)
<1> DEFINE u == mouseUp(m, i, place)
<1>1. /\ MouseTyped(u) /\ \A j \in MouseParts : WidgetOK(u.w[j])
      /\ u.took = m.took /\ u.from = m.from
      /\ ~u.w[i].listening /\ \A j \in MouseParts : j # i => u.w[j] = m.w[j]
      /\ \A j \in MouseParts : u.w[j].alive <=> m.w[j].alive
      /\ u.drag <=> (m.w[i].started /\ place = m.w[i].target)
      /\ \A p \in Places : p \in u.w[i].swallow <=>
           p \in m.w[i].swallow \/ (m.w[i].started /\ place = m.w[i].target /\ p = place)
  BY MouseUpIs DEF Pressed
<1> HIDE DEF u
<1>2. \A j \in MouseParts : ~u.w[j].listening
  BY <1>1 DEF Pressed
<1>3. ASSUME u.took # Nobody PROVE TookIt(u, u.took)
  <2>1. TookIt(m, m.took) /\ m.took = i /\ m.from \in Places
    BY <1>1, <1>3 DEF Pressed, TookIt, MouseTyped
  <2>2. WidgetOK(m.w[i])
    BY DEF Pressed
  <2>3. m.w[i].target = m.from /\ m.from \notin m.w[i].swallow
    BY <2>1, <2>2 DEF TookIt, WidgetOK
  <2> QED BY <1>1, <1>2, <2>1, <2>3 DEF TookIt
<1> QED BY <1>1, <1>2, <1>3 DEF MouseOK, Pressed, u

(* A press is taken by one widget, and only when nobody listens.           *)
LEMMA MouseDownKeeps ==
  ASSUME NEW m, MouseOK(m), NEW i \in MouseParts, NEW place \in MouseParts, NEW takes \in BOOLEAN, NEW starts \in BOOLEAN,
         takes => m.from = place /\ ~m.drag /\ (m.took # Nobody => m.handled), i = Inner => place = Inner
  PROVE  LET u == mouseDown(m, i, place, takes, starts)
         IN  MouseOK(u) /\ u.from = m.from /\ u.drag = m.drag /\ u.click = m.click /\ (takes /\ u.took # Nobody => u.handled)
<1> DEFINE w == m.w[i]
           atOnce == ~m.delay /\ ~m.distance
           timers == w.timers + IF m.delay THEN 1 ELSE 0
           rest == w.swallow \ {place}
           prompt == ~m.delay
           pressed == [MouseIdle EXCEPT !.met = prompt, !.held = prompt, !.target = place, !.timers = timers,
                                        !.started = atOnce, !.listening = TRUE, !.swallow = rest]
           of == [m.w EXCEPT ![i] = pressed]
           u == [m EXCEPT !.handled = TRUE, !.took = i, !.w = of]
<1>0. MouseTyped(m) /\ OneListens(m) /\ \A j \in MouseParts : WidgetOK(m.w[j])
  BY DEF MouseOK, Pressed, OneListens
<1>1. CASE m.handled \/ ~w.alive \/ ~takes \/ (atOnce /\ ~starts)
  <2>1. mouseDown(m, i, place, takes, starts) = m
    BY <1>1 DEF mouseDown
  <2> QED BY <2>1
<1>2. CASE ~(m.handled \/ ~w.alive \/ ~takes \/ (atOnce /\ ~starts))
  <2>1. mouseDown(m, i, place, takes, starts) = u /\ ~m.handled /\ w.alive /\ takes
    BY <1>2 DEF mouseDown
  <2>2. \A j \in MouseParts : ~m.w[j].listening
    BY <1>0, <2>1 DEF OneListens
  <2>3. w \in MouseData /\ w.timers = 0 /\ m.delay \in BOOLEAN /\ m.distance \in BOOLEAN
    BY <1>0, <2>1, <2>2 DEF WidgetOK, MouseTyped
  <2>4. timers \in 0..1 /\ timers \in Nat /\ atOnce \in BOOLEAN /\ (atOnce => prompt) /\ prompt \in BOOLEAN /\ rest \in SUBSET Places /\ place \notin rest
    BY <2>3 DEF MouseData
  <2> HIDE DEF timers, atOnce, rest, prompt
  <2>5. pressed \in MouseData
    <3>1. MouseIdle \in MouseData
      BY DEF MouseIdle, MouseData, Places
    <3>2. prompt \in BOOLEAN /\ atOnce \in BOOLEAN
      BY <2>4
    <3>3. timers \in Nat /\ place \in Places /\ rest \in SUBSET Places
      BY <2>4 DEF Places
    <3> QED BY <3>1, <3>2, <3>3 DEF MouseData
  <2>6. pressed.listening = TRUE /\ pressed.started = atOnce /\ pressed.held = prompt /\ pressed.timers = timers
        /\ pressed.alive = TRUE /\ pressed.swallow = rest /\ pressed.target = place /\ pressed.met = prompt
    BY <2>3, <2>4 DEF MouseIdle
  <2> HIDE DEF pressed
  <2>7. WidgetOK(pressed)
    BY <2>4, <2>5, <2>6 DEF WidgetOK
  <2>8. of \in [MouseParts -> MouseData] /\ of[i] = pressed /\ \A j \in MouseParts : j # i => of[j] = m.w[j]
    BY <1>0, <2>5 DEF MouseTyped
  <2> HIDE DEF of
  <2>9. MouseTyped(u)
    BY <1>0, <2>8 DEF MouseTyped, Places
  <2>10. u.w = of /\ u.handled = TRUE /\ u.took = i /\ u.from = m.from /\ u.drag = m.drag /\ u.click = m.click
    BY <1>0 DEF MouseTyped
  <2> HIDE DEF u
  <2>11. \A j \in MouseParts : WidgetOK(u.w[j])
    BY <1>0, <2>7, <2>8, <2>10
  <2>12. OneListens(u)
    BY <2>2, <2>8, <2>10 DEF OneListens
  <2>13. TookIt(u, i)
    BY <2>1, <2>2, <2>4, <2>6, <2>8, <2>10 DEF TookIt
  <2> QED BY <2>1, <2>9, <2>10, <2>11, <2>12, <2>13 DEF MouseOK, Pressed, OneListens
<1> QED BY <1>1, <1>2

LEMMA MouseMoveKeeps ==
  ASSUME NEW m, MouseOK(m), NEW i \in MouseParts, NEW place \in Places, NEW far \in BOOLEAN, NEW keys \in BOOLEAN,
         NEW starts \in BOOLEAN
  PROVE  LET u == mouseMove(m, i, place, far, keys, starts)
         IN  MouseOK(u) /\ u.click = m.click
<1> DEFINE w == m.w[i]
           missed == w.moved /\ m.down = {}
           spoilt == w.ignoring \/ (missed /\ keys)
           moved == w.moved \/ m.down # {}
           more == [w EXCEPT !.ignoring = spoilt, !.moved = moved]
           of == [m.w EXCEPT ![i] = more]
           seen == [m EXCEPT !.w = of]
           begins == ~w.started /\ w.met /\ (far \/ ~m.distance)
           begun == [more EXCEPT !.started = TRUE]
           off == [m.w EXCEPT ![i] = begun]
           u == [m EXCEPT !.w = off]
<1>0. MouseTyped(m) /\ OneListens(m) /\ (\A j \in MouseParts : WidgetOK(m.w[j])) /\ w \in MouseData /\ WidgetOK(w)
      /\ (m.took # Nobody => TookIt(m, m.took))
  BY DEF MouseOK, Pressed, WidgetOK, OneListens
<1>1. mouseMove(m, i, place, far, keys, starts) =
        IF ~w.listening THEN m
        ELSE IF missed /\ ~spoilt THEN mouseUp(m, i, place)
        ELSE IF begins /\ starts THEN u
        ELSE IF begins THEN mouseUp(seen, i, place)
        ELSE seen
  <2> DEFINE looked == [m EXCEPT !.w[i].ignoring = spoilt, !.w[i].moved = @ \/ m.down # {}]
             going == [looked EXCEPT !.w[i].started = TRUE]
  <2>1. looked = seen
    BY <1>0 DEF MouseTyped, MouseData
  <2>2. [seen EXCEPT !.w[i].started = TRUE] = u
    BY <1>0 DEF MouseTyped, MouseData
  <2>3. mouseMove(m, i, place, far, keys, starts) =
          IF ~w.listening THEN m
          ELSE IF missed /\ ~spoilt THEN mouseUp(m, i, place)
          ELSE IF begins /\ starts THEN going
          ELSE IF begins THEN mouseUp(looked, i, place)
          ELSE looked
    BY DEF mouseMove
  <2> HIDE DEF seen, looked
  <2>4. going = u
    BY <2>1, <2>2
  <2> HIDE DEF going, u, begins, missed, spoilt
  <2> QED BY <2>1, <2>3, <2>4
<1>2. spoilt \in BOOLEAN /\ moved \in BOOLEAN
  BY <1>0 DEF MouseData
<1>3. begins => w.met
  OBVIOUS
<1> HIDE DEF spoilt, missed, moved, begins
<1>4. /\ more \in MouseData /\ more.started = w.started /\ more.held = w.held /\ more.timers = w.timers /\ more.met = w.met
      /\ more.listening = w.listening /\ more.alive = w.alive /\ more.swallow = w.swallow /\ more.target = w.target
  BY <1>0, <1>2 DEF MouseData
<1> HIDE DEF more
<1>5. /\ begun \in MouseData /\ begun.started = TRUE /\ begun.held = w.held /\ begun.timers = w.timers /\ begun.met = w.met
      /\ begun.listening = w.listening /\ begun.alive = w.alive /\ begun.swallow = w.swallow /\ begun.target = w.target
  BY <1>4 DEF MouseData
<1> HIDE DEF begun
<1>6. WidgetOK(more)
  BY <1>0, <1>4 DEF WidgetOK
<1>7. ASSUME begins, w.listening PROVE WidgetOK(begun)
  BY <1>0, <1>3, <1>5, <1>7 DEF WidgetOK
<1> DEFINE like(v, d) ==        \* a widget changes where nobody else looks
       /\ d \in MouseData /\ WidgetOK(d) /\ d.listening = w.listening /\ d.alive = w.alive
       /\ d.swallow = w.swallow /\ d.target = w.target
       /\ v = [m EXCEPT !.w = [m.w EXCEPT ![i] = d]]
<1>8. ASSUME NEW v, NEW d, like(v, d) PROVE MouseOK(v) /\ v.click = m.click /\ v.w[i] = d
  <2> DEFINE ws == [m.w EXCEPT ![i] = d]
  <2>1. ws \in [MouseParts -> MouseData] /\ ws[i] = d /\ \A j \in MouseParts : j # i => ws[j] = m.w[j]
    BY <1>0, <1>8 DEF MouseTyped
  <2>2. v = [m EXCEPT !.w = ws]
    BY <1>8
  <2> HIDE DEF ws
  <2>3. MouseTyped(v) /\ v.w = ws /\ v.handled = m.handled /\ v.took = m.took /\ v.from = m.from /\ v.drag = m.drag
        /\ v.click = m.click
    BY <1>0, <2>1, <2>2 DEF MouseTyped
  <2>4. \A j \in MouseParts : /\ v.w[j].listening = m.w[j].listening /\ v.w[j].alive = m.w[j].alive
                              /\ v.w[j].swallow = m.w[j].swallow /\ v.w[j].target = m.w[j].target /\ WidgetOK(v.w[j])
    BY <1>0, <1>8, <2>1, <2>3
  <2>5. OneListens(v)
    BY <1>0, <2>3, <2>4 DEF OneListens
  <2>6. ASSUME v.took # Nobody PROVE TookIt(v, v.took)
    <3>1. m.took \in MouseParts /\ TookIt(m, m.took)
      BY <1>0, <2>3, <2>6, PartsDiffer DEF MouseTyped, Places
    <3> QED BY <2>3, <2>4, <3>1 DEF TookIt
  <2> QED BY <2>1, <2>3, <2>4, <2>5, <2>6 DEF MouseOK, Pressed
<1>9. MouseOK(seen) /\ seen.click = m.click /\ seen.w[i].listening = w.listening
  <2>1. like(seen, more)
    BY <1>4, <1>6
  <2> HIDE DEF like, seen
  <2> QED BY <1>4, <1>8, <2>1
<1>10. ASSUME begins, w.listening PROVE MouseOK(u) /\ u.click = m.click
  <2>1. like(u, begun)
    BY <1>5, <1>7, <1>10
  <2> HIDE DEF like, u
  <2> QED BY <1>8, <2>1
<1>11. ASSUME w.listening PROVE MouseOK(mouseUp(m, i, place)) /\ mouseUp(m, i, place).click = m.click
  BY <1>11, MouseUpIs, MouseUpKeeps DEF MouseOK, Pressed
<1>12. ASSUME w.listening PROVE MouseOK(mouseUp(seen, i, place)) /\ mouseUp(seen, i, place).click = m.click
  <2> HIDE DEF seen
  <2> QED BY <1>9, <1>12, MouseUpIs, MouseUpKeeps DEF MouseOK, Pressed
<1> HIDE DEF seen, u, w
<1>13. CASE ~w.listening
  BY <1>1, <1>13
<1>14. CASE w.listening
  <2>1. CASE missed /\ ~spoilt
    BY <1>1, <1>11, <1>14, <2>1
  <2>2. CASE ~(missed /\ ~spoilt) /\ begins /\ starts
    BY <1>1, <1>10, <1>14, <2>2
  <2>3. CASE ~(missed /\ ~spoilt) /\ begins /\ ~starts
    BY <1>1, <1>12, <1>14, <2>3
  <2>4. CASE ~(missed /\ ~spoilt) /\ ~begins
    BY <1>1, <1>9, <1>14, <2>4
  <2> QED BY <2>1, <2>2, <2>3, <2>4
<1> QED BY <1>13, <1>14

(* What a step does that changes no widget, but whom the press belongs to. *)
LEMMA LookKeeps ==
  ASSUME NEW m, MouseOK(m), NEW u, MouseTyped(u), u.w = m.w,
         m.handled => u.handled \/ \A i \in MouseParts : ~m.w[i].listening,
         u.took # Nobody => u.took = m.took /\ u.from = m.from /\ u.drag = m.drag
  PROVE  MouseOK(u)
<1>1. ASSUME u.took # Nobody PROVE TookIt(u, u.took)
  BY <1>1 DEF MouseOK, Pressed, TookIt
<1> QED BY <1>1 DEF MouseOK, Pressed, OneListens

LEMMA PressPartKeeps ==
  ASSUME MouseOK(mouse), NEW place \in MouseParts, NEW main \in BOOLEAN, NEW take \in SUBSET MouseParts,
         NEW starts \in BOOLEAN, PressPart(place, main, take, starts)
  PROVE  MouseAgrees(mouse')
<1> DEFINE drags == IF main THEN FALSE ELSE mouse.drag
           took == IF main THEN Nobody ELSE mouse.took
           from == IF main THEN place ELSE mouse.from
           m == [mouse EXCEPT !.down = @ \cup {main}, !.click = NoClick, !.drag = drags, !.took = took, !.from = from]
           inside == IF place = Inner THEN mouseDown(m, Inner, place, main /\ Inner \in take, starts) ELSE m
<1>1. mouse' = mouseDown(inside, Outer, place, main /\ Outer \in take, starts)
  BY DEF PressPart
<1>2. MouseTyped(mouse)
  BY DEF MouseOK, Pressed
<1>3. drags \in BOOLEAN /\ took \in Places /\ from \in Places
      /\ (took # Nobody => took = mouse.took /\ from = mouse.from /\ (drags <=> mouse.drag))
      /\ (main => took = Nobody /\ from = place /\ ~drags)
  BY <1>2, PartsDiffer DEF MouseTyped, Places
<1>4. took # Nobody => drags = mouse.drag
  OBVIOUS
<1> HIDE DEF drags, took, from
<1>5. MouseTyped(m)
  BY <1>2, <1>3 DEF MouseTyped, NoClick, Places, Nobody
<1>6. m.w = mouse.w /\ m.handled = mouse.handled /\ m.took = took /\ m.from = from /\ m.drag = drags
      /\ m.click = NoClick
  BY <1>2 DEF MouseTyped
<1> HIDE DEF m
<1>7. MouseOK(m)
  BY <1>3, <1>4, <1>5, <1>6, LookKeeps
<1>8. MouseOK(inside) /\ inside.from = from /\ inside.drag = drags /\ inside.click = NoClick
      /\ (main => (inside.took # Nobody => inside.handled))
  <2>1. CASE place = Inner
    <3> DEFINE takes == main /\ Inner \in take
               u == mouseDown(m, Inner, place, takes, starts)
    <3>1. takes \in BOOLEAN /\ (takes => main) /\ Inner \in MouseParts
      BY PartsDiffer
    <3>2. ~takes => u = m
      BY DEF mouseDown
    <3>3. inside = u
      BY <2>1
    <3> HIDE DEF takes
    <3>4. MouseOK(u) /\ u.from = m.from /\ u.drag = m.drag /\ u.click = m.click /\ (takes /\ u.took # Nobody => u.handled)
      BY <1>3, <1>6, <1>7, <2>1, <3>1, MouseDownKeeps
    <3> HIDE DEF u, inside
    <3> QED BY <1>3, <1>6, <3>2, <3>3, <3>4
  <2>2. CASE place # Inner
    BY <1>3, <1>6, <1>7, <2>2
  <2> QED BY <2>1, <2>2
<1> HIDE DEF inside
<1>9. MouseOK(mouse') /\ mouse'.click = NoClick
  <2> DEFINE takes == main /\ Outer \in take
  <2>1. takes \in BOOLEAN /\ (takes => main) /\ Outer \in MouseParts /\ Outer # Inner
    BY PartsDiffer
  <2>2. mouse' = mouseDown(inside, Outer, place, takes, starts)
    BY <1>1
  <2> HIDE DEF takes
  <2> QED BY <1>3, <1>8, <2>1, <2>2, MouseDownKeeps
<1> QED BY <1>9 DEF MouseAgrees, ClickWas, NoClick

LEMMA MoveMouseKeeps ==
  ASSUME MouseOK(mouse), NEW place \in Places, NEW far \in BOOLEAN, NEW keys \in BOOLEAN, NEW starts \in BOOLEAN,
         MoveMouse(place, far, keys, starts)
  PROVE  MouseAgrees(mouse')
<1> DEFINE m == [mouse EXCEPT !.click = NoClick]
           u == mouseMove(m, Inner, place, far, keys, starts)
<1>1. mouse' = mouseMove(u, Outer, place, far, keys, starts)
  BY DEF MoveMouse
<1>2. MouseTyped(mouse)
  BY DEF MouseOK, Pressed
<1>3. MouseTyped(m) /\ m.w = mouse.w /\ m.handled = mouse.handled /\ m.took = mouse.took /\ m.from = mouse.from
      /\ m.drag = mouse.drag /\ m.click = NoClick
  BY <1>2 DEF MouseTyped, NoClick, Places, Nobody
<1> HIDE DEF m
<1>4. MouseOK(m)
  BY <1>3, LookKeeps
<1>5. MouseOK(u) /\ u.click = NoClick
  <2>1. Inner \in MouseParts
    BY PartsDiffer
  <2>2. MouseOK(u) /\ u.click = m.click
    BY <1>4, <2>1, MouseMoveKeeps
  <2> HIDE DEF u
  <2> QED BY <1>3, <2>2
<1> HIDE DEF u
<1>6. MouseOK(mouse') /\ mouse'.click = NoClick
  <2> DEFINE v == mouseMove(u, Outer, place, far, keys, starts)
  <2>1. Outer \in MouseParts
    BY PartsDiffer
  <2>2. MouseOK(v) /\ v.click = u.click
    BY <1>5, <2>1, MouseMoveKeeps
  <2>3. mouse' = v
    BY <1>1
  <2> HIDE DEF v
  <2> QED BY <1>5, <2>2, <2>3
<1> QED BY <1>6 DEF MouseAgrees, ClickWas, NoClick

(* The delay of a press passes, or a widget is destroyed.                  *)
LEMMA AloneKeeps ==
  ASSUME MouseOK(mouse), NEW i \in MouseParts, NEW d, d \in MouseData, WidgetOK(d),
         d.listening => mouse.w[i].listening, d.alive => mouse.w[i].alive, d.swallow = mouse.w[i].swallow,
         d.target = mouse.w[i].target, mouse' = [mouse EXCEPT !.w = [mouse.w EXCEPT ![i] = d], !.click = NoClick]
  PROVE  MouseAgrees(mouse')
<1> DEFINE ws == [mouse.w EXCEPT ![i] = d]
           u == [mouse EXCEPT !.w = ws, !.click = NoClick]
<1>1. MouseTyped(mouse) /\ (\A j \in MouseParts : WidgetOK(mouse.w[j])) /\ OneListens(mouse)
  BY DEF MouseOK, Pressed, OneListens
<1>2. ws \in [MouseParts -> MouseData] /\ ws[i] = d /\ \A j \in MouseParts : j # i => ws[j] = mouse.w[j]
  BY <1>1 DEF MouseTyped
<1> HIDE DEF ws
<1>3. MouseTyped(u) /\ u.w = ws /\ u.handled = mouse.handled /\ u.took = mouse.took /\ u.from = mouse.from
      /\ u.drag = mouse.drag /\ u.click = NoClick
  BY <1>1, <1>2 DEF MouseTyped, NoClick, Places, Nobody
<1>4. mouse' = u
  BY DEF ws
<1> HIDE DEF u
<1>5. \A j \in MouseParts : /\ u.w[j].listening => mouse.w[j].listening
                            /\ u.w[j].alive => mouse.w[j].alive
                            /\ u.w[j].swallow = mouse.w[j].swallow /\ u.w[j].target = mouse.w[j].target
                            /\ WidgetOK(u.w[j])
  BY <1>1, <1>2, <1>3
<1>6. OneListens(u)
  BY <1>1, <1>3, <1>5 DEF OneListens
<1>7. ASSUME u.took # Nobody PROVE TookIt(u, u.took)
  <2>1. mouse.took \in MouseParts /\ TookIt(mouse, mouse.took)
    BY <1>1, <1>3, <1>7, PartsDiffer DEF MouseTyped, Places, MouseOK, Pressed
  <2> QED BY <1>3, <1>5, <2>1 DEF TookIt
<1> QED BY <1>3, <1>4, <1>5, <1>6, <1>7 DEF MouseAgrees, MouseOK, Pressed, ClickWas, NoClick

LEMMA DelayKeeps == ASSUME MouseOK(mouse), NEW i \in MouseParts, DelayPasses(i) PROVE MouseAgrees(mouse')
<1> DEFINE w == mouse.w[i]
           holds == w.held \/ w.timers = 1
           fewer == w.timers - 1
           d == [w EXCEPT !.met = TRUE, !.timers = fewer, !.held = holds]
           passed == [mouse EXCEPT !.w[i].met = TRUE, !.w[i].timers = fewer, !.click = NoClick, !.w[i].held = holds]
<1>0. MouseTyped(mouse) /\ WidgetOK(w) /\ w \in MouseData /\ w.timers > 0
  BY DEF MouseOK, Pressed, WidgetOK, DelayPasses
<1>1. w.timers = 1
  BY <1>0 DEF WidgetOK
<1>2. holds = TRUE /\ fewer = 0
  BY <1>1
<1>6. mouse' = passed
  BY DEF DelayPasses
<1> HIDE DEF holds, fewer
<1>3. mouse' = [mouse EXCEPT !.w = [mouse.w EXCEPT ![i] = d], !.click = NoClick]
  BY <1>0, <1>2, <1>6 DEF MouseTyped, MouseData
<1>4. /\ d \in MouseData /\ d.listening = w.listening /\ d.alive = w.alive /\ d.swallow = w.swallow /\ d.target = w.target
      /\ d.held = TRUE /\ d.timers = 0 /\ d.started = w.started
  BY <1>0, <1>2 DEF MouseData
<1> HIDE DEF d
<1>5. WidgetOK(d)
  BY <1>0, <1>4 DEF WidgetOK
<1> QED BY <1>3, <1>4, <1>5, AloneKeeps

LEMMA DestroyPartKeeps == ASSUME MouseOK(mouse), NEW i \in MouseParts, DestroyPart(i) PROVE MouseAgrees(mouse')
<1> DEFINE w == mouse.w[i]
           d == [w EXCEPT !.alive = FALSE, !.listening = FALSE]
<1>1. MouseTyped(mouse) /\ WidgetOK(w) /\ w \in MouseData
  BY DEF MouseOK, Pressed, WidgetOK
<1>2. mouse' = [mouse EXCEPT !.w = [mouse.w EXCEPT ![i] = d], !.click = NoClick]
  BY <1>1 DEF DestroyPart, MouseTyped, MouseData
<1>3. /\ d \in MouseData /\ d.listening = FALSE /\ d.alive = FALSE /\ d.swallow = w.swallow /\ d.target = w.target
      /\ d.held = w.held /\ d.timers = w.timers /\ d.started = w.started /\ d.met = w.met
  BY <1>1 DEF MouseData
<1> HIDE DEF d
<1>4. WidgetOK(d)
  BY <1>1, <1>3 DEF WidgetOK
<1> QED BY <1>2, <1>3, <1>4, AloneKeeps

LEMMA UpIs ==
  ASSUME NEW m, MouseTyped(m), NEW main \in BOOLEAN
  PROVE  LET u == Up(m, main)
         IN  /\ MouseTyped(u) /\ u.w = m.w /\ u.handled = m.handled /\ u.click = m.click
             /\ main => u.took = Nobody
             /\ ~main => u.took = m.took /\ u.from = m.from /\ u.drag = m.drag
<1> DEFINE drags == IF main THEN FALSE ELSE m.drag
           took == IF main THEN Nobody ELSE m.took
           from == IF main THEN Apart ELSE m.from
           u == [m EXCEPT !.down = @ \ {main}, !.drag = drags, !.took = took, !.from = from]
<1>1. drags \in BOOLEAN /\ took \in Places /\ from \in Places /\ (main => took = Nobody)
      /\ (~main => took = m.took /\ from = m.from)
  BY DEF MouseTyped, Places, Nobody
<1>2. ~main => drags = m.drag
  OBVIOUS
<1>3. Up(m, main) = u
  BY DEF Up
<1> HIDE DEF drags, took, from
<1>4. MouseTyped(u) /\ u.w = m.w /\ u.handled = m.handled /\ u.click = m.click /\ u.took = took /\ u.from = from
      /\ u.drag = drags
  BY <1>1 DEF MouseTyped
<1> HIDE DEF u
<1> QED BY <1>1, <1>2, <1>3, <1>4

LEMMA MissedReleaseKeeps == ASSUME MouseOK(mouse), MissedRelease PROVE MouseAgrees(mouse')
<1>1. PICK main \in mouse.down : mouse' = [Up(mouse, main) EXCEPT !.click = NoClick]
  BY DEF MissedRelease
<1> DEFINE v == Up(mouse, main)
<1>2. main \in BOOLEAN /\ MouseTyped(mouse)
  BY DEF MouseOK, Pressed, MouseTyped
<1>3. /\ MouseTyped(v) /\ v.w = mouse.w /\ v.handled = mouse.handled
      /\ main => v.took = Nobody
      /\ ~main => v.took = mouse.took /\ v.from = mouse.from /\ v.drag = mouse.drag
  BY <1>2, UpIs
<1>4. mouse' = [v EXCEPT !.click = NoClick]
  BY <1>1
<1> HIDE DEF v
<1>5. MouseTyped(mouse') /\ mouse'.w = v.w /\ mouse'.handled = v.handled /\ mouse'.took = v.took
      /\ mouse'.from = v.from /\ mouse'.drag = v.drag /\ mouse'.click = NoClick
  BY <1>3, <1>4 DEF MouseTyped, NoClick, Places, Nobody
<1>6. MouseOK(mouse')
  BY <1>3, <1>5, LookKeeps
<1> QED BY <1>5, <1>6 DEF MouseAgrees, ClickWas, NoClick

(* The click after a press: by whom it is swallowed, and that it is then   *)
(* one that a drag has left behind.                                        *)
LEMMA ClickKeeps ==
  ASSUME NEW m, MouseOK(m), \A i \in MouseParts : ~m.w[i].listening, m.from \in MouseParts
  PROVE  MouseAgrees(Up(clicked(m, m.from), TRUE))
<1> DEFINE place == m.from
           at == IF place = Inner THEN MouseParts ELSE {Outer}
           by == {i \in at : m.w[i].alive /\ place \in m.w[i].swallow}
           who == IF Inner \in by THEN Inner ELSE IF Outer \in by THEN Outer ELSE Nobody
           event == [seen |-> TRUE, by |-> who, took |-> m.took, drag |-> m.drag]
           seen == [m EXCEPT !.click = event]
           gone == m.w[who].swallow \ {place}
           d == [m.w[who] EXCEPT !.swallow = gone]
           ws == [m.w EXCEPT ![who] = d]
           u == IF who = Nobody THEN seen ELSE [seen EXCEPT !.w = ws]
           v == Up(u, TRUE)
<1>1. MouseTyped(m) /\ (\A i \in MouseParts : WidgetOK(m.w[i])) /\ (m.took # Nobody => TookIt(m, m.took))
  BY DEF MouseOK, Pressed
<1>2. clicked(m, m.from) = u
  <2>1. ASSUME who # Nobody PROVE [seen EXCEPT !.w[who].swallow = @ \ {place}] = [seen EXCEPT !.w = ws]
    OBVIOUS
  <2> QED BY <2>1 DEF clicked
<1>3. at \subseteq MouseParts /\ Outer \in at /\ (Inner \in at <=> place = Inner)
  BY PartsDiffer
<1>4. who \in Places /\ (who = Nobody => by = {}) /\ (who # Nobody => who \in by /\ who \in MouseParts)
      /\ by \subseteq MouseParts
  BY <1>3, PartsDiffer DEF Places
<1>5. \A i \in at : i \in by <=> (m.w[i].alive /\ place \in m.w[i].swallow)
  OBVIOUS
<1> HIDE DEF by, who, at
<1>6. event \in [seen : BOOLEAN, by : Places, took : Places, drag : BOOLEAN]
  BY <1>1, <1>4 DEF MouseTyped
<1>7. event.seen = TRUE /\ event.by = who /\ event.took = m.took /\ event.drag = m.drag
  OBVIOUS
<1> HIDE DEF event
<1>8. MouseTyped(seen) /\ seen.w = m.w /\ seen.click = event
  BY <1>1, <1>6 DEF MouseTyped
<1> HIDE DEF seen
<1>9. /\ MouseTyped(u) /\ u.click = event /\ \A i \in MouseParts : WidgetOK(u.w[i]) /\ ~u.w[i].listening
      /\ \A i \in MouseParts : u.w[i].alive = m.w[i].alive
  <2>1. CASE who = Nobody
    BY <1>1, <1>8, <2>1
  <2>2. CASE who # Nobody
    <3>1. m.w[who] \in MouseData /\ who \in MouseParts
      BY <1>1, <1>4, <2>2 DEF WidgetOK
    <3>2. gone \in SUBSET Places
      BY <3>1 DEF MouseData
    <3> HIDE DEF gone
    <3>3. d \in MouseData /\ d.listening = m.w[who].listening /\ d.alive = m.w[who].alive /\ d.started = m.w[who].started
          /\ d.met = m.w[who].met /\ d.held = m.w[who].held /\ d.timers = m.w[who].timers
      BY <3>1, <3>2 DEF MouseData
    <3> HIDE DEF d
    <3>4. WidgetOK(d)
      BY <1>1, <3>1, <3>3 DEF WidgetOK
    <3>5. ws \in [MouseParts -> MouseData] /\ ws[who] = d /\ \A i \in MouseParts : i # who => ws[i] = m.w[i]
      BY <1>1, <3>1, <3>3 DEF MouseTyped
    <3> HIDE DEF ws
    <3>6. MouseTyped([seen EXCEPT !.w = ws]) /\ [seen EXCEPT !.w = ws].w = ws /\ [seen EXCEPT !.w = ws].click = event
      BY <1>8, <3>5 DEF MouseTyped
    <3>7. u = [seen EXCEPT !.w = ws]
      BY <2>2
    <3> HIDE DEF u
    <3>8. ASSUME NEW i \in MouseParts PROVE WidgetOK(ws[i]) /\ ~ws[i].listening /\ ws[i].alive = m.w[i].alive
      <4>1. CASE i = who
        BY <3>3, <3>4, <3>5, <4>1
      <4>2. CASE i # who
        BY <1>1, <3>5, <4>2
      <4> QED BY <4>1, <4>2
    <3> QED BY <3>6, <3>7, <3>8
  <2> QED BY <2>1, <2>2
<1> HIDE DEF u
<1>10. MouseTyped(v) /\ v.w = u.w /\ v.click = event /\ v.took = Nobody
  BY <1>9, UpIs
<1> HIDE DEF v
<1>11. MouseOK(v)
  BY <1>9, <1>10 DEF MouseOK, Pressed, OneListens
<1>12. ClickWas(v)
  <2> SUFFICES ASSUME m.took # Nobody, v.w[m.took].alive
               PROVE  (who = m.took => m.drag) /\ (who = Nobody => ~m.drag)
    BY <1>7, <1>10 DEF ClickWas
  <2>1. m.took \in MouseParts /\ TookIt(m, m.took)
    BY <1>1, PartsDiffer DEF MouseTyped, Places
  <2>2. m.w[m.took].alive /\ (m.drag <=> place \in m.w[m.took].swallow)
    BY <1>9, <1>10, <2>1 DEF TookIt
  <2>3. m.took \in at
    BY <1>3, <2>1, PartsDiffer DEF TookIt
  <2> QED BY <1>4, <1>5, <2>2, <2>3
<1> QED BY <1>2, <1>11, <1>12 DEF MouseAgrees, v

LEMMA ReleaseKeeps ==
  ASSUME MouseOK(mouse), NEW place \in Places, NEW main \in BOOLEAN, NEW clicks \in BOOLEAN, Release(place, main, clicks)
  PROVE  MouseAgrees(mouse')
<1> DEFINE m == [mouse EXCEPT !.handled = FALSE, !.click = NoClick]
           inner == IF m.w[Inner].listening THEN mouseUp(m, Inner, place) ELSE m
           then == IF inner.w[Outer].listening THEN mouseUp(inner, Outer, place) ELSE inner
<1>1. /\ clicks => main /\ place = mouse.from /\ place # Apart
      /\ mouse' = Up(IF clicks THEN clicked(then, place) ELSE then, main)
  BY DEF Release
<1>2. Pressed(mouse) /\ MouseTyped(mouse)
  BY DEF MouseOK, Pressed
<1>3. MouseTyped(m) /\ m.w = mouse.w /\ m.took = mouse.took /\ m.from = mouse.from /\ m.drag = mouse.drag /\ m.click = NoClick
  BY <1>2 DEF MouseTyped, NoClick, Places, Nobody
<1> HIDE DEF m
<1>4. Pressed(m)
  BY <1>2, <1>3 DEF Pressed, TookIt
<1>5. /\ Pressed(inner) /\ inner.click = NoClick /\ inner.from = m.from /\ ~inner.w[Inner].listening
  <2>1. CASE m.w[Inner].listening
    <3>1. Inner \in MouseParts
      BY PartsDiffer
    <3>2. MouseOK(inner) /\ ~inner.w[Inner].listening
      BY <1>4, <2>1, <3>1, MouseUpKeeps
    <3>3. inner.click = m.click /\ inner.from = m.from
      BY <1>4, <2>1, <3>1, MouseUpIs DEF Pressed
    <3> HIDE DEF inner
    <3> QED BY <1>3, <3>2, <3>3 DEF MouseOK
  <2>2. CASE ~m.w[Inner].listening
    BY <1>3, <1>4, <2>2
  <2> QED BY <2>1, <2>2
<1> HIDE DEF inner
<1>6. MouseOK(then) /\ then.click = NoClick /\ then.from = m.from /\ \A i \in MouseParts : ~then.w[i].listening
  <2>1. CASE inner.w[Outer].listening
    <3>1. Outer \in MouseParts
      BY PartsDiffer
    <3>2. MouseOK(then) /\ \A i \in MouseParts : ~then.w[i].listening
      BY <1>5, <2>1, <3>1, MouseUpKeeps
    <3>3. then.click = inner.click /\ then.from = inner.from
      BY <1>5, <2>1, <3>1, MouseUpIs DEF Pressed
    <3> HIDE DEF then
    <3> QED BY <1>5, <3>2, <3>3
  <2>2. CASE ~inner.w[Outer].listening
    <3>1. then = inner
      BY <2>2
    <3>2. \A i \in MouseParts : ~inner.w[i].listening
      BY <1>5, <2>2, PartsDiffer
    <3> HIDE DEF then
    <3> QED BY <1>5, <3>1, <3>2 DEF MouseOK
  <2> QED BY <2>1, <2>2
<1> HIDE DEF then
<1>7. CASE clicks
  <2>1. main = TRUE /\ place = then.from /\ then.from \in MouseParts
    BY <1>1, <1>3, <1>6, <1>7 DEF Places
  <2>2. mouse' = Up(clicked(then, then.from), TRUE)
    BY <1>1, <1>7, <2>1
  <2> QED BY <1>6, <2>1, <2>2, ClickKeeps
<1>8. CASE ~clicks
  <2> DEFINE v == Up(then, main)
  <2>1. /\ MouseTyped(v) /\ v.w = then.w /\ v.handled = then.handled /\ v.click = then.click
        /\ main => v.took = Nobody
        /\ ~main => v.took = then.took /\ v.from = then.from /\ v.drag = then.drag
    BY <1>6, UpIs DEF MouseOK, Pressed
  <2>2. mouse' = v
    BY <1>1, <1>8
  <2> HIDE DEF v
  <2>3. MouseOK(v)
    BY <1>6, <2>1, LookKeeps
  <2> QED BY <1>6, <2>1, <2>2, <2>3 DEF MouseAgrees, ClickWas, NoClick
<1> QED BY <1>7, <1>8

LEMMA MouseBegins == MouseInit => MouseAgrees(mouse)
<1> SUFFICES ASSUME MouseInit PROVE MouseAgrees(mouse)
  OBVIOUS
<1>1. PICK delayed \in BOOLEAN, distance \in BOOLEAN :
        mouse = [down |-> {}, handled |-> FALSE, w |-> [i \in MouseParts |-> MouseIdle],
                 delay |-> delayed, distance |-> distance, took |-> Nobody, from |-> Apart, drag |-> FALSE,
                 click |-> NoClick]
  BY DEF MouseInit
<1>2. MouseIdle \in MouseData /\ WidgetOK(MouseIdle) /\ MouseIdle.listening = FALSE
  BY DEF MouseIdle, MouseData, Places, WidgetOK
<1>3. [i \in MouseParts |-> MouseIdle] \in [MouseParts -> MouseData]
  BY <1>2
<1>4. NoClick \in [seen : BOOLEAN, by : Places, took : Places, drag : BOOLEAN] /\ NoClick.seen = FALSE
  BY DEF NoClick, Nobody, Places
<1> HIDE DEF MouseIdle
<1>5. MouseTyped(mouse)
  BY <1>1, <1>3, <1>4 DEF MouseTyped, Nobody, Places
<1>6. mouse.took = Nobody /\ mouse.click = NoClick /\ \A i \in MouseParts : mouse.w[i] = MouseIdle
  BY <1>1
<1> QED BY <1>2, <1>4, <1>5, <1>6 DEF MouseAgrees, MouseOK, Pressed, ClickWas

LEMMA MouseStepKeeps == ASSUME MouseAgrees(mouse), MouseNext PROVE MouseAgrees(mouse')
<1>1. MouseOK(mouse)
  BY DEF MouseAgrees
<1>2. ASSUME NEW place \in MouseParts, NEW main \in BOOLEAN, NEW starts \in BOOLEAN, NEW take \in SUBSET MouseParts,
             PressPart(place, main, take, starts)
      PROVE  MouseAgrees(mouse')
  BY <1>1, <1>2, PressPartKeeps
<1>3. ASSUME NEW place \in Places, NEW far \in BOOLEAN, NEW keys \in BOOLEAN, NEW starts \in BOOLEAN,
             MoveMouse(place, far, keys, starts)
      PROVE  MouseAgrees(mouse')
  BY <1>1, <1>3, MoveMouseKeeps
<1>4. ASSUME NEW i \in MouseParts, DelayPasses(i) \/ DestroyPart(i) PROVE MouseAgrees(mouse')
  BY <1>1, <1>4, DelayKeeps, DestroyPartKeeps
<1>5. ASSUME NEW place \in Places, NEW main \in BOOLEAN, NEW clicks \in BOOLEAN, Release(place, main, clicks)
      PROVE  MouseAgrees(mouse')
  BY <1>1, <1>5, ReleaseKeeps
<1>6. ASSUME MissedRelease PROVE MouseAgrees(mouse')
  BY <1>1, <1>6, MissedReleaseKeeps
<1> QED BY <1>2, <1>3, <1>4, <1>5, <1>6 DEF MouseNext

LEMMA MouseHolds ==
  ASSUME MouseAgrees(mouse)
  PROVE  MouseTypeOK /\ DelayIsObeyed /\ OneHasThePress /\ ClickOrDrag
<1>1. MouseTyped(mouse) /\ \A i \in MouseParts : WidgetOK(mouse.w[i]) /\ mouse.w[i] \in MouseData
  BY DEF MouseAgrees, MouseOK, Pressed, WidgetOK
<1>2. MouseTypeOK
  <2>1. \A i \in MouseParts : mouse.w[i].timers \in 0..1 /\ mouse.w[i].target \in Places /\ mouse.w[i].swallow \subseteq Places
    BY <1>1 DEF WidgetOK, MouseData
  <2> QED BY <1>1, <2>1 DEF MouseTypeOK, MouseTyped
<1>3. DelayIsObeyed
  BY <1>1 DEF DelayIsObeyed, WidgetOK
<1>4. OneHasThePress
  <2> DEFINE busy == {i \in MouseParts : mouse.w[i].alive /\
                 (mouse.w[i].listening \/ mouse.w[i].started \/ mouse.w[i].timers > 0)}
  <2> SUFFICES ASSUME NEW i \in busy PROVE mouse.handled /\ busy = {i} /\ mouse.w[i].listening
    BY DEF OneHasThePress
  <2>1. \A j \in busy : j \in MouseParts /\ mouse.w[j].listening
    BY <1>1 DEF WidgetOK
  <2> HIDE DEF busy
  <2>2. \A j \in busy : j = i
    BY <2>1 DEF MouseAgrees, MouseOK, Pressed
  <2> QED BY <2>1, <2>2 DEF MouseAgrees, MouseOK
<1>5. ClickOrDrag
  BY DEF MouseAgrees, ClickWas, ClickOrDrag
<1> QED BY <1>2, <1>3, <1>4, <1>5

-------------------------------------------------------------------------------
(* The lasso of selectable items.                                          *)

HitItems(s) == {i \in Selectees : Hit(s, i)}

LassoData == [selected : SUBSET Selectees, selecting : SUBSET Selectees, unselecting : SUBSET Selectees,
              startselected : SUBSET Selectees]

LassoTyped(s) ==
  s \in [auto : BOOLEAN, tolerance : {"touch", "fit"}, disabled : BOOLEAN, selected : SUBSET Selectees,
         selecting : SUBSET Selectees, unselecting : SUBSET Selectees, data : LassoData, from : Points, at : Points,
         started : BOOLEAN, before : SUBSET Selectees, ctrl : BOOLEAN, moved : BOOLEAN, begun : BOOLEAN,
         steady : BOOLEAN, stale : BOOLEAN, told : SUBSET Selectees, expects : SUBSET Selectees]

(* The widget's data on what is on its way is that of the classes.         *)
LassoInStep(s) ==
  /\ s.data.selecting = s.selecting /\ s.data.unselecting = s.unselecting
  /\ s.selecting \cap s.unselecting = {}
  /\ ~s.started => s.selecting = {} /\ s.unselecting = {} /\ ~s.moved

(* What was selected at the press is so, or on its way to and fro.         *)
LassoFollowed(s) ==
  /\ s.selected \cap (s.selecting \cup s.unselecting) = {}
  /\ s.selected \subseteq s.data.selected /\ s.selected \subseteq s.told
  /\ s.told \subseteq s.selected \cup s.selecting \cup s.unselecting
  /\ s.expects = s.selected \cup s.selecting
  /\ s.data.startselected \subseteq s.told
  /\ s.started /\ s.begun => s.data.startselected = s.told

(* While neither the key nor the option changes: what is hit is on its way *)
(* to be selected, and with the key nothing else has gone.                 *)
LassoSteady(s) ==
  /\ s.begun /\ ~s.disabled /\ s.before = s.data.startselected
  /\ s.moved => s.selecting = HitItems(s)
  /\ ~s.ctrl => s.selected = {}
  /\ s.ctrl => /\ s.before \ {s.from} \subseteq s.selected \cup s.selecting
               /\ s.from \notin s.selected
               /\ s.tolerance = "fit" /\ s.from \in s.before => s.from \notin s.selecting

LassoOK(s) ==
  /\ LassoTyped(s) /\ LassoInStep(s)
  /\ ~s.stale => LassoFollowed(s)
  /\ ~s.stale /\ s.started /\ s.steady => LassoSteady(s)

(* The end points of a lasso: a press is hit by touch and not by fit.      *)
LEMMA PressHit ==
  ASSUME NEW s, LassoTyped(s), s.from \in Selectees
  PROVE  s.from \in HitItems(s) <=> s.tolerance = "touch"
<1>1. s.from \in Int /\ s.at \in Int /\ s.tolerance \in {"touch", "fit"}
  BY SelectableAssumption DEF LassoTyped, Points
<1> QED BY <1>1 DEF HitItems, Hit

(* What a drag does to the classes and to the data.                        *)
LEMMA DragIs ==
  ASSUME NEW s, LassoTyped(s), LassoInStep(s), NEW ctrl \in BOOLEAN
  PROVE  LET u == dragLasso(s, ctrl)
             hit == HitItems(s)
             others == Selectees \ hit
             were == others \cap s.selecting
             kept == IF ctrl THEN were \cap s.data.startselected ELSE {}
             dropped == IF ctrl THEN {} ELSE (others \cap s.data.selected) \ s.data.startselected
             undone == (were \ kept) \cap s.data.startselected
         IN  /\ LassoTyped(u)
             /\ u.selecting = hit /\ u.data.selecting = hit
             /\ u.unselecting = (s.unselecting \ hit) \cup undone \cup dropped
             /\ u.data.unselecting = u.unselecting
             /\ u.selected = ((s.selected \ (hit \cap s.data.selected)) \cup kept) \ dropped
             /\ u.data.selected = ((s.data.selected \ hit) \cup kept) \ dropped
             /\ u.expects = (s.expects \cup (hit \ s.selecting)) \ ((were \ kept) \cup dropped)
             /\ u.data.startselected = s.data.startselected
             /\ u.disabled = s.disabled /\ u.tolerance = s.tolerance /\ u.from = s.from /\ u.at = s.at
             /\ u.started = s.started /\ u.before = s.before /\ u.ctrl = s.ctrl /\ u.moved = s.moved
             /\ u.begun = s.begun /\ u.steady = s.steady /\ u.stale = s.stale /\ u.told = s.told
<1> DEFINE hit == HitItems(s)
           others == Selectees \ hit
           t == touched(s, hit)
           tsel == s.selected \ (hit \cap s.data.selected)
           tun == s.unselecting \ (hit \cap s.data.unselecting)
           tsg == s.selecting \cup (hit \ s.data.selecting)
           tex == s.expects \cup (hit \ s.data.selecting)
           td == [s.data EXCEPT !.selected = @ \ hit, !.unselecting = @ \ hit, !.selecting = @ \cup hit]
           tt == [s EXCEPT !.selected = tsel, !.unselecting = tun, !.selecting = tsg, !.data = td, !.expects = tex]
<1>1. s.data \in LassoData /\ hit \in SUBSET Selectees /\ others \in SUBSET Selectees
  BY DEF LassoTyped, HitItems
<1>2. dragLasso(s, ctrl) = left(t, others, ctrl)
  BY DEF dragLasso, HitItems
<1>3. t = tt
  BY DEF touched, LassoTyped, LassoData
<1>4. td \in LassoData /\ td.startselected = s.data.startselected /\ td.selected = s.data.selected \ hit
      /\ td.unselecting = s.data.unselecting \ hit /\ td.selecting = s.data.selecting \cup hit
  BY <1>1 DEF LassoData
<1>5. tsel \in SUBSET Selectees /\ tun \in SUBSET Selectees /\ tsg \in SUBSET Selectees /\ tex \in SUBSET Selectees
  BY <1>1 DEF LassoTyped
<1>6. tsg = s.selecting \cup hit /\ tun = s.unselecting \ hit /\ tex = s.expects \cup (hit \ s.selecting)
  BY DEF LassoInStep
<1> HIDE DEF td, tsel, tun, tsg, tex, hit, others, t
<1>7. LassoTyped(tt) /\ tt.selected = tsel /\ tt.unselecting = tun /\ tt.selecting = tsg /\ tt.data = td /\ tt.expects = tex
  BY <1>4, <1>5 DEF LassoTyped
<1>8. /\ tt.disabled = s.disabled /\ tt.tolerance = s.tolerance /\ tt.from = s.from /\ tt.at = s.at
      /\ tt.started = s.started /\ tt.before = s.before /\ tt.ctrl = s.ctrl /\ tt.moved = s.moved
      /\ tt.begun = s.begun /\ tt.steady = s.steady /\ tt.stale = s.stale /\ tt.told = s.told
  BY DEF LassoTyped
<1> HIDE DEF tt
<1> DEFINE were == others \cap tt.data.selecting
           kept == IF ctrl THEN were \cap tt.data.startselected ELSE {}
           undone == (were \ kept) \cap tt.data.startselected
           dropped == IF ctrl THEN {} ELSE (others \cap tt.data.selected) \ tt.data.startselected
           usg == tt.selecting \ were
           udsg == tt.data.selecting \ were
           usel == (tt.selected \cup kept) \ dropped
           udsel == (tt.data.selected \cup kept) \ dropped
           uun == tt.unselecting \cup undone \cup dropped
           udun == tt.data.unselecting \cup undone \cup dropped
           uex == tt.expects \ ((were \ kept) \cup dropped)
           ud == [tt.data EXCEPT !.selected = udsel, !.unselecting = udun, !.selecting = udsg]
           u == [tt EXCEPT !.selected = usel, !.unselecting = uun, !.selecting = usg, !.data = ud, !.expects = uex]
           changed == [tt EXCEPT !.selected = usel, !.unselecting = uun, !.selecting = usg, !.data.selected = udsel,
                                 !.data.unselecting = udun, !.data.selecting = udsg, !.expects = uex]
<1>9. left(tt, others, ctrl) = u
  <2>1. left(tt, others, ctrl) = changed
    BY DEF left
  <2> HIDE DEF were, kept, undone, dropped, usg, udsg, usel, udsel, uun, udun, uex
  <2>2. changed = u
    BY <1>7 DEF LassoTyped, LassoData
  <2> QED BY <2>1, <2>2
<1>10. were = others \cap s.selecting /\ usg = hit /\ udsg = hit
  <2>1. others \cap hit = {} /\ others \cup hit = Selectees /\ s.selecting \subseteq Selectees
    BY <1>1 DEF others, LassoTyped
  <2> QED BY <1>4, <1>6, <1>7, <2>1 DEF LassoInStep
<1>11. dropped = IF ctrl THEN {} ELSE (others \cap s.data.selected) \ s.data.startselected
  <2>1. others \cap (s.data.selected \ hit) = others \cap s.data.selected
    BY DEF others
  <2> QED BY <1>4, <1>7, <2>1
<1>12. usel \in SUBSET Selectees /\ udsel \in SUBSET Selectees /\ usg \in SUBSET Selectees /\ uun \in SUBSET Selectees
       /\ udun \in SUBSET Selectees /\ uex \in SUBSET Selectees /\ udsg \in SUBSET Selectees /\ tt.data \in LassoData
  <2>1. were \in SUBSET Selectees /\ kept \in SUBSET Selectees /\ undone \in SUBSET Selectees /\ dropped \in SUBSET Selectees
    BY <1>1, <1>4, <1>7
  <2> HIDE DEF were, kept, undone, dropped
  <2> QED BY <1>4, <1>5, <1>7, <2>1 DEF LassoData
<1>13. tt.data.startselected = s.data.startselected /\ udun = uun
  BY <1>4, <1>6, <1>7 DEF LassoInStep
<1>14. usel = ((s.selected \ (hit \cap s.data.selected)) \cup kept) \ dropped
       /\ udsel = ((s.data.selected \ hit) \cup kept) \ dropped
       /\ uun = (s.unselecting \ hit) \cup undone \cup dropped
       /\ uex = (s.expects \cup (hit \ s.selecting)) \ ((were \ kept) \cup dropped)
  BY <1>4, <1>6, <1>7 DEF tsel
<1>15. kept = (IF ctrl THEN were \cap s.data.startselected ELSE {}) /\ undone = (were \ kept) \cap s.data.startselected
  BY <1>13
<1> HIDE DEF were, kept, undone, dropped, usg, udsg, usel, udsel, uun, udun, uex
<1>16. ud \in LassoData /\ ud.startselected = tt.data.startselected /\ ud.selected = udsel
       /\ ud.unselecting = udun /\ ud.selecting = udsg
  BY <1>12 DEF LassoData
<1> HIDE DEF ud
<1>17. LassoTyped(u) /\ u.selected = usel /\ u.unselecting = uun /\ u.selecting = usg /\ u.data = ud /\ u.expects = uex
  BY <1>7, <1>12, <1>16 DEF LassoTyped
<1>18. /\ u.disabled = tt.disabled /\ u.tolerance = tt.tolerance /\ u.from = tt.from /\ u.at = tt.at
       /\ u.started = tt.started /\ u.before = tt.before /\ u.ctrl = tt.ctrl /\ u.moved = tt.moved
       /\ u.begun = tt.begun /\ u.steady = tt.steady /\ u.stale = tt.stale /\ u.told = tt.told
  BY <1>7 DEF LassoTyped
<1>19. dragLasso(s, ctrl) = u
  BY <1>2, <1>3, <1>9
<1> HIDE DEF u
<1>20. /\ u.selecting = hit /\ u.data.selecting = hit /\ u.data.unselecting = u.unselecting
       /\ u.unselecting = (s.unselecting \ hit) \cup undone \cup dropped
       /\ u.selected = ((s.selected \ (hit \cap s.data.selected)) \cup kept) \ dropped
       /\ u.data.selected = ((s.data.selected \ hit) \cup kept) \ dropped
       /\ u.expects = (s.expects \cup (hit \ s.selecting)) \ ((were \ kept) \cup dropped)
       /\ u.data.startselected = s.data.startselected
  BY <1>10, <1>13, <1>14, <1>16, <1>17
<1>21. /\ u.disabled = s.disabled /\ u.tolerance = s.tolerance /\ u.from = s.from /\ u.at = s.at
       /\ u.started = s.started /\ u.before = s.before /\ u.ctrl = s.ctrl /\ u.moved = s.moved
       /\ u.begun = s.begun /\ u.steady = s.steady /\ u.stale = s.stale /\ u.told = s.told
  BY <1>8, <1>18
<1> QED BY <1>10, <1>11, <1>15, <1>17, <1>19, <1>20, <1>21 DEF hit, others

LEMMA MoveLassoKeeps ==
  ASSUME LassoOK(lasso), NEW p \in Points, NEW ctrl \in BOOLEAN, MoveLasso(p, ctrl)
  PROVE  LassoOK(lasso')
<1> DEFINE steady == lasso.steady /\ ctrl = lasso.ctrl
           stale == lasso.stale \/ ~(lasso.begun \/ lasso.disabled)
           s == [lasso EXCEPT !.at = p, !.moved = TRUE, !.steady = steady, !.stale = stale]
           u == dragLasso(s, ctrl)
           hit == HitItems(s)
           others == Selectees \ hit
           were == others \cap s.selecting
           kept == IF ctrl THEN were \cap s.data.startselected ELSE {}
           dropped == IF ctrl THEN {} ELSE (others \cap s.data.selected) \ s.data.startselected
           undone == (were \ kept) \cap s.data.startselected
<1>1. lasso.started /\ lasso' = IF s.disabled THEN s ELSE u
  BY DEF MoveLasso
<1>2. LassoTyped(lasso) /\ LassoInStep(lasso)
  BY DEF LassoOK
<1>3. steady \in BOOLEAN /\ stale \in BOOLEAN
  BY <1>2 DEF LassoTyped
<1>4. steady => lasso.steady /\ ctrl = lasso.ctrl
  OBVIOUS
<1>5. ~stale => ~lasso.stale /\ (lasso.begun \/ lasso.disabled)
  OBVIOUS
<1> HIDE DEF steady, stale
<1>6. LassoTyped(s)
  BY <1>2, <1>3 DEF LassoTyped
<1>7. /\ s.at = p /\ s.moved = TRUE /\ s.steady = steady /\ s.stale = stale
      /\ s.selected = lasso.selected /\ s.selecting = lasso.selecting /\ s.unselecting = lasso.unselecting
      /\ s.data = lasso.data /\ s.told = lasso.told /\ s.expects = lasso.expects
      /\ s.disabled = lasso.disabled /\ s.tolerance = lasso.tolerance /\ s.from = lasso.from
      /\ s.started = lasso.started /\ s.before = lasso.before /\ s.ctrl = lasso.ctrl /\ s.begun = lasso.begun
  BY <1>2 DEF LassoTyped
<1> HIDE DEF s
<1>8. LassoInStep(s)
  BY <1>1, <1>2, <1>7 DEF LassoInStep
<1>9. ~stale => LassoFollowed(s)
  BY <1>5, <1>7 DEF LassoOK, LassoFollowed
<1>10. CASE s.disabled
  <2>1. ~stale => ~steady
    BY <1>1, <1>4, <1>5, <1>7, <1>10 DEF LassoOK, LassoSteady
  <2>2. lasso' = s
    BY <1>1, <1>10
  <2> QED BY <1>6, <1>7, <1>8, <1>9, <2>1, <2>2 DEF LassoOK
<1>11. CASE ~s.disabled
  <2>1. /\ LassoTyped(u)
        /\ u.selecting = hit /\ u.data.selecting = hit
        /\ u.unselecting = (s.unselecting \ hit) \cup undone \cup dropped
        /\ u.data.unselecting = u.unselecting
        /\ u.selected = ((s.selected \ (hit \cap s.data.selected)) \cup kept) \ dropped
        /\ u.data.selected = ((s.data.selected \ hit) \cup kept) \ dropped
        /\ u.expects = (s.expects \cup (hit \ s.selecting)) \ ((were \ kept) \cup dropped)
        /\ u.data.startselected = s.data.startselected
        /\ u.disabled = s.disabled /\ u.tolerance = s.tolerance /\ u.from = s.from /\ u.at = s.at
        /\ u.started = s.started /\ u.before = s.before /\ u.ctrl = s.ctrl /\ u.moved = s.moved
        /\ u.begun = s.begun /\ u.steady = s.steady /\ u.stale = s.stale /\ u.told = s.told
    BY <1>6, <1>8, DragIs
  <2>2. lasso' = u
    BY <1>1, <1>11
  <2>3. hit \cap others = {} /\ hit \subseteq Selectees /\ were \subseteq others /\ kept \subseteq were /\ dropped \subseteq others
        /\ undone \subseteq were
    BY DEF HitItems
  <2>4. hit = HitItems(u)
    BY <2>1 DEF HitItems, Hit
  <2>5. s.selecting \subseteq hit \cup were
    BY <1>6 DEF LassoTyped
  <2>6. (ctrl => kept = were \cap s.data.startselected /\ dropped = {}) /\ (~ctrl => kept = {})
        /\ dropped \cap s.data.startselected = {} /\ were \subseteq s.selecting
        /\ undone = (were \ kept) \cap s.data.startselected
    OBVIOUS
  <2> HIDE DEF u, hit, others, were, kept, dropped, undone
  <2>8. LassoInStep(u)
    BY <1>1, <1>7, <1>8, <2>1, <2>3 DEF LassoInStep
  <2>9. ASSUME ~stale PROVE LassoFollowed(u)
    <3>1. s.begun /\ s.data.startselected = s.told /\ LassoFollowed(s)
      BY <1>1, <1>5, <1>7, <1>9, <1>11, <2>9 DEF LassoFollowed
    <3>2. u.selected = ((s.selected \ hit) \cup kept) \ dropped
      BY <2>1, <3>1 DEF LassoFollowed
    <3>3. u.selected \cap (u.selecting \cup u.unselecting) = {}
      BY <1>8, <2>1, <2>3, <2>6, <3>1, <3>2 DEF LassoFollowed, LassoInStep
    <3>4. u.selected \subseteq u.data.selected /\ u.selected \subseteq u.told
      BY <2>1, <2>3, <2>6, <3>1, <3>2 DEF LassoFollowed
    <3>5. u.told \subseteq u.selected \cup u.selecting \cup u.unselecting
      BY <2>1, <2>3, <2>5, <2>6, <3>1, <3>2 DEF LassoFollowed
    <3>6. u.expects = u.selected \cup u.selecting
      BY <2>1, <2>3, <2>5, <2>6, <3>1, <3>2 DEF LassoFollowed
    <3> QED BY <2>1, <3>1, <3>3, <3>4, <3>5, <3>6 DEF LassoFollowed
  <2>10. ASSUME ~stale, steady PROVE LassoSteady(u)
    <3>1. LassoSteady(lasso) /\ LassoFollowed(s) /\ ctrl = u.ctrl
      BY <1>1, <1>4, <1>5, <1>7, <1>9, <2>1, <2>10 DEF LassoOK
    <3>2. /\ s.begun /\ ~s.disabled /\ s.before = s.data.startselected
          /\ ~ctrl => s.selected = {}
          /\ ctrl => /\ s.before \ {s.from} \subseteq s.selected \cup s.selecting
                     /\ s.from \notin s.selected
                     /\ s.tolerance = "fit" /\ s.from \in s.before => s.from \notin s.selecting
      BY <1>7, <2>1, <3>1 DEF LassoSteady
    <3>3. s.tolerance \in {"touch", "fit"}
      BY <1>6 DEF LassoTyped
    <3>4. s.from \in Selectees => (s.from \in hit <=> s.tolerance = "touch")
      BY <1>6, PressHit DEF hit
    <3>5. u.selected = ((s.selected \ hit) \cup kept) \ dropped
      BY <2>1, <3>1 DEF LassoFollowed
    <3>6. ASSUME ~ctrl PROVE u.selected = {}
      BY <2>6, <3>2, <3>5, <3>6
    <3>7. ASSUME ctrl
          PROVE  /\ s.before \ {s.from} \subseteq u.selected \cup u.selecting
                 /\ s.from \notin u.selected
                 /\ s.tolerance = "fit" /\ s.from \in s.before => s.from \notin u.selecting
      <4>1. s.before \ {s.from} \subseteq u.selected \cup u.selecting
        BY <2>1, <2>5, <2>6, <3>2, <3>5, <3>7
      <4>2. ASSUME s.from \in u.selected PROVE FALSE
        <5>1. s.from \in kept /\ s.from \in s.before /\ s.from \in s.selecting /\ s.from \notin hit
          BY <2>3, <2>6, <3>2, <3>5, <3>7, <4>2
        <5>2. s.from \in Selectees
          BY <1>6, <5>1 DEF LassoTyped
        <5> QED BY <3>2, <3>3, <3>4, <3>7, <5>1, <5>2
      <4>3. s.tolerance = "fit" /\ s.from \in s.before => s.from \notin u.selecting
        BY <1>6, <2>1, <3>4 DEF LassoTyped
      <4> QED BY <4>1, <4>2, <4>3
    <3> QED BY <2>1, <2>4, <3>1, <3>2, <3>6, <3>7 DEF LassoSteady
  <2> QED BY <1>7, <2>1, <2>2, <2>8, <2>9, <2>10 DEF LassoOK
<1> QED BY <1>10, <1>11

(* A press of an enabled widget on something of the items or beside them.  *)
LEMMA StartAllIs ==
  ASSUME NEW r, LassoTyped(r), NEW ctrl \in BOOLEAN
  PROVE  LET u == startAll(r, ctrl)
         IN  /\ LassoTyped(u)
             /\ u.selecting = r.selecting /\ u.data.selecting = r.data.selecting
             /\ u.data.startselected = r.data.startselected \cup r.selected
             /\ ctrl => /\ u.selected = r.selected /\ u.unselecting = r.unselecting /\ u.expects = r.expects
                        /\ u.data.selected = r.data.selected /\ u.data.unselecting = r.data.unselecting
             /\ ~ctrl => /\ u.selected = {} /\ u.unselecting = r.unselecting \cup r.selected
                         /\ u.expects = r.expects \ r.selected
                         /\ u.data.selected = r.data.selected \ r.selected
                         /\ u.data.unselecting = r.data.unselecting \cup r.selected
             /\ u.disabled = r.disabled /\ u.tolerance = r.tolerance /\ u.from = r.from /\ u.at = r.at
             /\ u.started = r.started /\ u.before = r.before /\ u.ctrl = r.ctrl /\ u.moved = r.moved
             /\ u.begun = r.begun /\ u.steady = r.steady /\ u.stale = r.stale /\ u.told = r.told
<1> DEFINE nd == [r.data EXCEPT !.startselected = @ \cup r.selected]
           n == [r EXCEPT !.data = nd]
<1>1. nd \in LassoData /\ nd.startselected = r.data.startselected \cup r.selected /\ nd.selected = r.data.selected
      /\ nd.selecting = r.data.selecting /\ nd.unselecting = r.data.unselecting
  BY DEF LassoTyped, LassoData
<1>2. [r EXCEPT !.data.startselected = @ \cup r.selected] = n
  BY DEF LassoTyped, LassoData
<1> HIDE DEF nd
<1>3. LassoTyped(n) /\ n.data = nd
  BY <1>1 DEF LassoTyped
<1>4. /\ n.selected = r.selected /\ n.selecting = r.selecting /\ n.unselecting = r.unselecting /\ n.expects = r.expects
      /\ n.disabled = r.disabled /\ n.tolerance = r.tolerance /\ n.from = r.from /\ n.at = r.at
      /\ n.started = r.started /\ n.before = r.before /\ n.ctrl = r.ctrl /\ n.moved = r.moved
      /\ n.begun = r.begun /\ n.steady = r.steady /\ n.stale = r.stale /\ n.told = r.told
  BY DEF LassoTyped
<1> HIDE DEF n
<1>5. CASE ctrl
  <2>1. startAll(r, ctrl) = n
    BY <1>2, <1>5 DEF startAll
  <2> QED BY <1>1, <1>3, <1>4, <1>5, <2>1
<1>6. CASE ~ctrl
  <2> DEFINE d == [nd EXCEPT !.selected = @ \ r.selected, !.unselecting = @ \cup r.selected]
             un == r.unselecting \cup r.selected
             ex == r.expects \ r.selected
             u == [n EXCEPT !.selected = {}, !.unselecting = un, !.data = d, !.expects = ex]
  <2>1. startAll(r, ctrl) = [n EXCEPT !.selected = {}, !.unselecting = @ \cup r.selected,
                                      !.data.selected = @ \ r.selected,
                                      !.data.unselecting = @ \cup r.selected,
                                      !.expects = @ \ r.selected]
    BY <1>2, <1>6, Zenon DEF startAll
  <2>2. d \in LassoData /\ d.startselected = nd.startselected /\ d.selected = nd.selected \ r.selected
        /\ d.selecting = nd.selecting /\ d.unselecting = nd.unselecting \cup r.selected
    BY <1>1 DEF LassoTyped, LassoData
  <2>3. startAll(r, ctrl) = u
    BY <1>3, <1>4, <2>1 DEF LassoTyped, LassoData
  <2>4. un \in SUBSET Selectees /\ ex \in SUBSET Selectees
    BY DEF LassoTyped
  <2> HIDE DEF d, un, ex
  <2>5. LassoTyped(u) /\ u.selected = {} /\ u.unselecting = un /\ u.data = d /\ u.expects = ex
    BY <1>3, <2>2, <2>4 DEF LassoTyped
  <2>6. /\ u.disabled = n.disabled /\ u.tolerance = n.tolerance /\ u.from = n.from /\ u.at = n.at
        /\ u.started = n.started /\ u.before = n.before /\ u.ctrl = n.ctrl /\ u.moved = n.moved
        /\ u.begun = n.begun /\ u.steady = n.steady /\ u.stale = n.stale /\ u.told = n.told
        /\ u.selecting = n.selecting
    BY <1>3 DEF LassoTyped
  <2> HIDE DEF u
  <2> QED BY <1>1, <1>4, <1>6, <2>2, <2>3, <2>5, <2>6 DEF un, ex
<1> QED BY <1>5, <1>6

LEMMA StartTargetIs ==
  ASSUME NEW r, LassoTyped(r), NEW i \in Selectees, NEW ctrl \in BOOLEAN
  PROVE  LET u == startTarget(r, i, ctrl)
         IN  /\ LassoTyped(u) /\ u.data.startselected = r.data.startselected
             /\ ctrl /\ i \in r.selected =>
                  /\ u.selected = r.selected \ {i} /\ u.unselecting = r.unselecting \cup {i}
                  /\ u.selecting = r.selecting /\ u.expects = r.expects \ {i}
                  /\ u.data.selected = r.data.selected \ {i} /\ u.data.selecting = r.data.selecting \ {i}
                  /\ u.data.unselecting = r.data.unselecting \cup {i}
             /\ ~(ctrl /\ i \in r.selected) =>
                  /\ u.selected = r.selected /\ u.unselecting = r.unselecting \ {i}
                  /\ u.selecting = r.selecting \cup {i} /\ u.expects = r.expects \cup {i}
                  /\ u.data.selected = r.data.selected \cup {i} /\ u.data.selecting = r.data.selecting \cup {i}
                  /\ u.data.unselecting = r.data.unselecting \ {i}
             /\ u.disabled = r.disabled /\ u.tolerance = r.tolerance /\ u.from = r.from /\ u.at = r.at
             /\ u.started = r.started /\ u.before = r.before /\ u.ctrl = r.ctrl /\ u.moved = r.moved
             /\ u.begun = r.begun /\ u.steady = r.steady /\ u.stale = r.stale /\ u.told = r.told
<1>1. CASE ctrl /\ i \in r.selected
  <2> DEFINE d == [r.data EXCEPT !.unselecting = @ \cup {i}, !.selecting = @ \ {i}, !.selected = @ \ {i}]
             sel == r.selected \ {i}
             un == r.unselecting \cup {i}
             ex == r.expects \ {i}
             u == [r EXCEPT !.selected = sel, !.unselecting = un, !.data = d, !.expects = ex]
  <2>1. startTarget(r, i, ctrl) = u
    BY <1>1 DEF startTarget, LassoTyped, LassoData
  <2>2. d \in LassoData /\ d.startselected = r.data.startselected /\ d.selected = r.data.selected \ {i}
        /\ d.selecting = r.data.selecting \ {i} /\ d.unselecting = r.data.unselecting \cup {i}
    BY DEF LassoTyped, LassoData
  <2>3. sel \in SUBSET Selectees /\ un \in SUBSET Selectees /\ ex \in SUBSET Selectees
    BY DEF LassoTyped
  <2> HIDE DEF d, sel, un, ex
  <2>4. LassoTyped(u) /\ u.selected = sel /\ u.unselecting = un /\ u.data = d /\ u.expects = ex
    BY <2>2, <2>3 DEF LassoTyped
  <2>5. /\ u.disabled = r.disabled /\ u.tolerance = r.tolerance /\ u.from = r.from /\ u.at = r.at
        /\ u.started = r.started /\ u.before = r.before /\ u.ctrl = r.ctrl /\ u.moved = r.moved
        /\ u.begun = r.begun /\ u.steady = r.steady /\ u.stale = r.stale /\ u.told = r.told
        /\ u.selecting = r.selecting
    BY DEF LassoTyped
  <2> HIDE DEF u
  <2> QED BY <1>1, <2>1, <2>2, <2>4, <2>5 DEF sel, un, ex
<1>2. CASE ~(ctrl /\ i \in r.selected)
  <2> DEFINE d == [r.data EXCEPT !.unselecting = @ \ {i}, !.selecting = @ \cup {i}, !.selected = @ \cup {i}]
             un == r.unselecting \ {i}
             sg == r.selecting \cup {i}
             ex == r.expects \cup {i}
             u == [r EXCEPT !.unselecting = un, !.selecting = sg, !.data = d, !.expects = ex]
  <2>1. startTarget(r, i, ctrl) = u
    BY <1>2 DEF startTarget, LassoTyped, LassoData
  <2>2. d \in LassoData /\ d.startselected = r.data.startselected /\ d.selected = r.data.selected \cup {i}
        /\ d.selecting = r.data.selecting \cup {i} /\ d.unselecting = r.data.unselecting \ {i}
    BY DEF LassoTyped, LassoData
  <2>3. sg \in SUBSET Selectees /\ un \in SUBSET Selectees /\ ex \in SUBSET Selectees
    BY DEF LassoTyped
  <2> HIDE DEF d, sg, un, ex
  <2>4. LassoTyped(u) /\ u.selecting = sg /\ u.unselecting = un /\ u.data = d /\ u.expects = ex
    BY <2>2, <2>3 DEF LassoTyped
  <2>5. /\ u.disabled = r.disabled /\ u.tolerance = r.tolerance /\ u.from = r.from /\ u.at = r.at
        /\ u.started = r.started /\ u.before = r.before /\ u.ctrl = r.ctrl /\ u.moved = r.moved
        /\ u.begun = r.begun /\ u.steady = r.steady /\ u.stale = r.stale /\ u.told = r.told
        /\ u.selected = r.selected
    BY DEF LassoTyped
  <2> HIDE DEF u
  <2> QED BY <1>2, <2>1, <2>2, <2>4, <2>5 DEF sg, un, ex
<1> QED BY <1>1, <1>2

LEMMA ReadClassesIs ==
  ASSUME NEW s, LassoTyped(s)
  PROVE  LET u == readClasses(s)
         IN  /\ LassoTyped(u) /\ u.stale = FALSE /\ u.told = s.selected /\ u.expects = s.selected
             /\ u.data.selected = s.selected /\ u.data.selecting = s.selecting /\ u.data.unselecting = s.unselecting
             /\ u.data.startselected = {}
             /\ u.selected = s.selected /\ u.selecting = s.selecting /\ u.unselecting = s.unselecting
             /\ u.disabled = s.disabled /\ u.tolerance = s.tolerance /\ u.from = s.from /\ u.at = s.at
             /\ u.started = s.started /\ u.before = s.before /\ u.ctrl = s.ctrl /\ u.moved = s.moved
             /\ u.begun = s.begun /\ u.steady = s.steady
<1> DEFINE d == [selected |-> s.selected, selecting |-> s.selecting, unselecting |-> s.unselecting,
                 startselected |-> {}]
           u == [s EXCEPT !.data = d, !.stale = FALSE, !.told = s.selected, !.expects = s.selected]
<1>1. readClasses(s) = u
  BY DEF readClasses
<1>2. d \in LassoData /\ d.selected = s.selected /\ d.selecting = s.selecting /\ d.unselecting = s.unselecting
      /\ d.startselected = {}
  BY DEF LassoTyped, LassoData
<1> HIDE DEF d
<1>3. LassoTyped(u) /\ u.data = d /\ u.stale = FALSE /\ u.told = s.selected /\ u.expects = s.selected
  BY <1>2 DEF LassoTyped
<1>4. /\ u.selected = s.selected /\ u.selecting = s.selecting /\ u.unselecting = s.unselecting
      /\ u.disabled = s.disabled /\ u.tolerance = s.tolerance /\ u.from = s.from /\ u.at = s.at
      /\ u.started = s.started /\ u.before = s.before /\ u.ctrl = s.ctrl /\ u.moved = s.moved
      /\ u.begun = s.begun /\ u.steady = s.steady
  BY DEF LassoTyped
<1> HIDE DEF u
<1> QED BY <1>1, <1>2, <1>3, <1>4

(* An enabled widget at a press, before it looks at its items.             *)
AtPress(r, p, ctrl) ==
  /\ r.selecting = {} /\ r.unselecting = {} /\ r.from = p /\ r.started /\ ~r.moved /\ r.ctrl = ctrl
  /\ r.begun /\ r.steady /\ ~r.disabled /\ r.before = r.selected
  /\ ~r.stale => /\ r.told = r.selected /\ r.expects = r.selected
                 /\ r.selected \subseteq r.data.selected /\ r.data.startselected \subseteq r.selected

LEMMA PressSelects ==
  ASSUME NEW r, LassoTyped(r), LassoInStep(r), NEW ctrl \in BOOLEAN, NEW p \in Points, AtPress(r, p, ctrl)
  PROVE  LET all == startAll(r, ctrl)
         IN  LassoOK(IF p \in Selectees THEN startTarget(all, p, ctrl) ELSE all)
<1> DEFINE all == startAll(r, ctrl)
           u == startTarget(all, p, ctrl)
<1>1. /\ LassoTyped(all) /\ all.selecting = {} /\ all.data.selecting = {}
      /\ all.data.startselected = r.data.startselected \cup r.selected
      /\ ctrl => /\ all.selected = r.selected /\ all.unselecting = {} /\ all.expects = r.expects
                 /\ all.data.selected = r.data.selected /\ all.data.unselecting = {}
      /\ ~ctrl => /\ all.selected = {} /\ all.unselecting = r.selected
                  /\ all.expects = r.expects \ r.selected
                  /\ all.data.selected = r.data.selected \ r.selected
                  /\ all.data.unselecting = r.selected
      /\ ~all.disabled /\ all.from = p /\ all.started /\ all.before = r.selected /\ all.ctrl = ctrl /\ ~all.moved
      /\ all.begun /\ all.steady /\ all.stale = r.stale /\ all.told = r.told
  <2> HIDE DEF all
  <2>1. /\ LassoTyped(all)
        /\ all.selecting = r.selecting /\ all.data.selecting = r.data.selecting
        /\ all.data.startselected = r.data.startselected \cup r.selected
        /\ ctrl => /\ all.selected = r.selected /\ all.unselecting = r.unselecting /\ all.expects = r.expects
                   /\ all.data.selected = r.data.selected /\ all.data.unselecting = r.data.unselecting
        /\ ~ctrl => /\ all.selected = {} /\ all.unselecting = r.unselecting \cup r.selected
                    /\ all.expects = r.expects \ r.selected
                    /\ all.data.selected = r.data.selected \ r.selected
                    /\ all.data.unselecting = r.data.unselecting \cup r.selected
        /\ all.disabled = r.disabled /\ all.from = r.from /\ all.started = r.started /\ all.before = r.before
        /\ all.ctrl = r.ctrl /\ all.moved = r.moved /\ all.begun = r.begun /\ all.steady = r.steady
        /\ all.stale = r.stale /\ all.told = r.told
    BY StartAllIs DEF all
  <2>2. r.data.selecting = {} /\ r.data.unselecting = {} /\ {} \cup r.selected = r.selected
    BY DEF LassoInStep, AtPress
  <2> QED BY <2>1, <2>2 DEF AtPress
<1> HIDE DEF all
<1>2. r.selected \subseteq Selectees
  BY DEF LassoTyped
<1>3. ASSUME p \notin Selectees PROVE LassoOK(all)
  <2>1. LassoInStep(all)
    BY <1>1 DEF LassoInStep
  <2>2. ~all.stale => LassoFollowed(all)
    BY <1>1 DEF LassoFollowed, AtPress
  <2>3. ~all.stale => LassoSteady(all)
    BY <1>1, <1>2, <1>3 DEF LassoSteady, AtPress
  <2> QED BY <1>1, <1>3, <2>1, <2>2, <2>3 DEF LassoOK
<1>4. ASSUME p \in Selectees PROVE LassoOK(u)
  <2>1. /\ LassoTyped(u) /\ u.data.startselected = all.data.startselected
        /\ ctrl /\ p \in all.selected =>
             /\ u.selected = all.selected \ {p} /\ u.unselecting = all.unselecting \cup {p}
             /\ u.selecting = all.selecting /\ u.expects = all.expects \ {p}
             /\ u.data.selected = all.data.selected \ {p} /\ u.data.selecting = all.data.selecting \ {p}
             /\ u.data.unselecting = all.data.unselecting \cup {p}
        /\ ~(ctrl /\ p \in all.selected) =>
             /\ u.selected = all.selected /\ u.unselecting = all.unselecting \ {p}
             /\ u.selecting = all.selecting \cup {p} /\ u.expects = all.expects \cup {p}
             /\ u.data.selected = all.data.selected \cup {p} /\ u.data.selecting = all.data.selecting \cup {p}
             /\ u.data.unselecting = all.data.unselecting \ {p}
        /\ ~u.disabled /\ u.from = p /\ u.started /\ u.before = r.selected /\ u.ctrl = ctrl /\ ~u.moved
        /\ u.begun /\ u.steady /\ u.stale = r.stale /\ u.told = r.told
    BY <1>1, <1>4, StartTargetIs
  <2> HIDE DEF u
  <2>2. LassoInStep(u)
    <3>1. all.data.unselecting = all.unselecting
      BY <1>1
    <3>2. CASE ctrl /\ p \in all.selected
      BY <1>1, <2>1, <3>1, <3>2 DEF LassoInStep
    <3>3. CASE ~(ctrl /\ p \in all.selected)
      BY <1>1, <2>1, <3>1, <3>3 DEF LassoInStep
    <3> QED BY <3>2, <3>3
  <2>3. ASSUME ~r.stale PROVE LassoFollowed(u)
    <3>1. CASE ctrl /\ p \in all.selected
      BY <1>1, <2>1, <2>3, <3>1 DEF LassoFollowed, AtPress
    <3>2. CASE ctrl /\ p \notin all.selected
      BY <1>1, <2>1, <2>3, <3>2 DEF LassoFollowed, AtPress
    <3>3. CASE ~ctrl
      BY <1>1, <2>1, <2>3, <3>3 DEF LassoFollowed, AtPress
    <3> QED BY <3>1, <3>2, <3>3
  <2>4. ASSUME ~r.stale PROVE LassoSteady(u)
    BY <1>1, <2>1, <2>4 DEF LassoSteady, AtPress
  <2> QED BY <1>4, <2>1, <2>2, <2>3, <2>4 DEF LassoOK
<1> QED BY <1>3, <1>4 DEF all, u

LEMMA StartLassoKeeps ==
  ASSUME LassoOK(lasso), NEW p \in Points, NEW ctrl \in BOOLEAN, StartLasso(p, ctrl)
  PROVE  LassoOK(lasso')
<1> DEFINE enabled == ~lasso.disabled
           s == [lasso EXCEPT !.from = p, !.at = p, !.started = TRUE, !.before = lasso.selected,
                              !.ctrl = ctrl, !.begun = enabled, !.steady = enabled]
           r == IF s.auto THEN readClasses(s) ELSE s
           all == startAll(r, ctrl)
<1>1. ~lasso.started /\ lasso' = IF s.disabled THEN s ELSE IF p \in Selectees THEN startTarget(all, p, ctrl) ELSE all
  BY DEF StartLasso
<1>2. LassoTyped(lasso) /\ LassoInStep(lasso)
  BY DEF LassoOK
<1>3. enabled \in BOOLEAN /\ enabled = ~lasso.disabled
  OBVIOUS
<1> HIDE DEF enabled
<1>4. LassoTyped(s)
  BY <1>2, <1>3 DEF LassoTyped
<1>5. /\ s.from = p /\ s.started = TRUE /\ s.before = lasso.selected /\ s.ctrl = ctrl /\ s.begun = enabled
      /\ s.steady = enabled
      /\ s.selected = lasso.selected /\ s.selecting = lasso.selecting /\ s.unselecting = lasso.unselecting
      /\ s.data = lasso.data /\ s.told = lasso.told /\ s.expects = lasso.expects
      /\ s.disabled = lasso.disabled /\ s.moved = lasso.moved /\ s.stale = lasso.stale
  BY <1>2 DEF LassoTyped
<1> HIDE DEF s
<1>6. LassoInStep(s) /\ s.selecting = {} /\ s.unselecting = {} /\ ~s.moved
  BY <1>1, <1>2, <1>5 DEF LassoInStep
<1>7. ~s.stale => LassoFollowed(lasso)
  BY <1>5 DEF LassoOK
<1>8. CASE s.disabled
  <2>1. ~s.stale => LassoFollowed(s)
    BY <1>3, <1>5, <1>7, <1>8 DEF LassoFollowed
  <2> QED BY <1>1, <1>3, <1>4, <1>5, <1>6, <1>8, <2>1 DEF LassoOK
<1>9. CASE ~s.disabled
  <2>1. LassoTyped(r) /\ LassoInStep(r) /\ AtPress(r, p, ctrl)
    <3>1. CASE s.auto
      <4>1. r = readClasses(s)
        BY <3>1
      <4> HIDE DEF r
      <4>2. /\ LassoTyped(r) /\ r.stale = FALSE /\ r.told = s.selected /\ r.expects = s.selected
            /\ r.data.selected = s.selected /\ r.data.selecting = s.selecting
            /\ r.data.unselecting = s.unselecting /\ r.data.startselected = {}
            /\ r.selected = s.selected /\ r.selecting = s.selecting /\ r.unselecting = s.unselecting
            /\ r.disabled = s.disabled /\ r.from = s.from /\ r.started = s.started /\ r.before = s.before
            /\ r.ctrl = s.ctrl /\ r.moved = s.moved /\ r.begun = s.begun /\ r.steady = s.steady
        BY <1>4, <4>1, ReadClassesIs
      <4>3. r.started
        BY <1>5, <4>2
      <4> QED BY <1>3, <1>5, <1>6, <1>9, <4>2, <4>3 DEF LassoInStep, AtPress
    <3>2. CASE ~s.auto
      <4>1. r = s
        BY <3>2
      <4> HIDE DEF r
      <4>2. ~s.stale => /\ s.told = s.selected /\ s.expects = s.selected
                        /\ s.selected \subseteq s.data.selected /\ s.data.startselected \subseteq s.selected
        BY <1>5, <1>6, <1>7 DEF LassoFollowed
      <4>3. s.started /\ s.begun /\ s.steady
        BY <1>3, <1>5, <1>9
      <4> QED BY <1>4, <1>5, <1>6, <1>9, <4>1, <4>2, <4>3 DEF AtPress
    <3> QED BY <3>1, <3>2
  <2> HIDE DEF r
  <2>2. LassoOK(IF p \in Selectees THEN startTarget(all, p, ctrl) ELSE all)
    BY <2>1, PressSelects
  <2> QED BY <1>1, <1>9, <2>2
<1> QED BY <1>8, <1>9

LEMMA StopLassoKeeps ==
  ASSUME LassoOK(lasso), StopLasso
  PROVE  LassoOK(lasso')
<1> DEFINE S == lasso.selected
           G == lasso.selecting
           U == lasso.unselecting
           d == [lasso.data EXCEPT !.unselecting = @ \ U, !.startselected = (@ \ U) \cup G,
                                   !.selecting = @ \ G, !.selected = @ \cup G]
           sel == S \cup G
           told == (lasso.told \ U) \cup G
           u == [lasso EXCEPT !.unselecting = {}, !.selecting = {}, !.selected = sel, !.data = d, !.told = told,
                              !.started = FALSE, !.from = 0, !.at = 0, !.before = {}, !.ctrl = FALSE, !.moved = FALSE,
                              !.begun = FALSE, !.steady = TRUE]
<1>1. LassoTyped(lasso) /\ LassoInStep(lasso)
  BY DEF LassoOK
<1>2. lasso' = u
  <2> DEFINE t == [lasso EXCEPT !.unselecting = {}, !.selecting = {}, !.selected = sel, !.data = d, !.told = told]
  <2>1. stopLasso(lasso) = t
    <3> DEFINE sl == lasso.data.selected \cup G
               sg == lasso.data.selecting \ G
               un == lasso.data.unselecting \ U
               ss == (lasso.data.startselected \ U) \cup G
    <3>1. stopLasso(lasso) = [lasso EXCEPT !.unselecting = {}, !.selecting = {}, !.selected = sel,
                                !.data.unselecting = un, !.data.startselected = ss, !.data.selecting = sg,
                                !.data.selected = sl, !.told = told]
      BY DEF stopLasso
    <3>2. d = [lasso.data EXCEPT !.unselecting = un, !.startselected = ss, !.selecting = sg, !.selected = sl]
      OBVIOUS
    <3> HIDE DEF sl, sg, un, ss, sel, told, d
    <3>3. [lasso EXCEPT !.unselecting = {}, !.selecting = {}, !.selected = sel, !.data.unselecting = un,
                        !.data.startselected = ss, !.data.selecting = sg, !.data.selected = sl, !.told = told]
          = [lasso EXCEPT !.unselecting = {}, !.selecting = {}, !.selected = sel,
               !.data = [lasso.data EXCEPT !.unselecting = un, !.startselected = ss, !.selecting = sg, !.selected = sl],
               !.told = told]
      BY <1>1 DEF LassoTyped
    <3> QED BY <3>1, <3>2, <3>3
  <2> HIDE DEF sel, told, d
  <2>2. lasso' = [t EXCEPT !.started = FALSE, !.from = 0, !.at = 0, !.before = {}, !.ctrl = FALSE, !.moved = FALSE,
                           !.begun = FALSE, !.steady = TRUE]
    BY <2>1 DEF StopLasso
  <2> QED BY <1>1, <2>2 DEF LassoTyped
<1>3. d \in LassoData /\ d.selecting = {} /\ d.unselecting = {} /\ d.selected = lasso.data.selected \cup G
      /\ d.startselected = (lasso.data.startselected \ U) \cup G
  BY <1>1 DEF LassoTyped, LassoData, LassoInStep
<1>4. sel \in SUBSET Selectees /\ told \in SUBSET Selectees
  BY <1>1 DEF LassoTyped
<1>5. 0 \in Points
  BY SelectableAssumption DEF Points
<1> HIDE DEF d, sel, told
<1>6. LassoTyped(u)
  BY <1>1, <1>3, <1>4, <1>5 DEF LassoTyped
<1>7. /\ u.selected = sel /\ u.selecting = {} /\ u.unselecting = {} /\ u.data = d /\ u.told = told /\ u.started = FALSE
      /\ u.moved = FALSE /\ u.expects = lasso.expects /\ u.stale = lasso.stale
  BY <1>1 DEF LassoTyped
<1> HIDE DEF u
<1>8. LassoInStep(u)
  BY <1>3, <1>7 DEF LassoInStep
<1>9. ASSUME ~u.stale PROVE LassoFollowed(u)
  <2>1. LassoFollowed(lasso)
    BY <1>7, <1>9 DEF LassoOK
  <2>2. told = sel
    BY <2>1 DEF LassoFollowed, told, sel
  <2>3. d.startselected \subseteq told /\ sel \subseteq d.selected
    BY <1>3, <2>1 DEF LassoFollowed, told, sel
  <2> QED BY <1>7, <2>1, <2>2, <2>3 DEF LassoFollowed, sel
<1> QED BY <1>2, <1>6, <1>7, <1>8, <1>9 DEF LassoOK

LEMMA DisableLassoKeeps ==
  ASSUME LassoOK(lasso), NEW disabled \in BOOLEAN, DisableLasso(disabled)
  PROVE  LassoOK(lasso')
<1> DEFINE steady == lasso.steady /\ ~lasso.started
           u == [lasso EXCEPT !.disabled = disabled, !.steady = steady]
<1>1. LassoTyped(lasso) /\ LassoInStep(lasso) /\ lasso' = u
  BY DEF LassoOK, DisableLasso
<1>2. steady \in BOOLEAN /\ (steady => ~lasso.started)
  BY <1>1 DEF LassoTyped
<1> HIDE DEF steady
<1>3. LassoTyped(u)
  BY <1>1, <1>2 DEF LassoTyped
<1>4. /\ u.steady = steady /\ u.selected = lasso.selected /\ u.selecting = lasso.selecting
      /\ u.unselecting = lasso.unselecting /\ u.data = lasso.data /\ u.told = lasso.told /\ u.expects = lasso.expects
      /\ u.started = lasso.started /\ u.moved = lasso.moved /\ u.stale = lasso.stale /\ u.begun = lasso.begun
  BY <1>1 DEF LassoTyped
<1> HIDE DEF u
<1>5. LassoInStep(u) /\ (~u.stale => LassoFollowed(u))
  BY <1>1, <1>4 DEF LassoOK, LassoInStep, LassoFollowed
<1> QED BY <1>1, <1>2, <1>3, <1>4, <1>5 DEF LassoOK

LEMMA MarkItemKeeps ==
  ASSUME LassoOK(lasso), NEW i \in Selectees, MarkItem(i)
  PROVE  LassoOK(lasso')
<1> DEFINE other(items) == IF i \in items THEN items \ {i} ELSE items \cup {i}
           sel == other(lasso.selected)
           told == other(lasso.told)
           ex == other(lasso.expects)
           u == [lasso EXCEPT !.selected = sel, !.stale = TRUE, !.told = told, !.expects = ex]
<1>1. LassoTyped(lasso) /\ LassoInStep(lasso) /\ lasso' = u
  BY DEF LassoOK, MarkItem
<1>2. sel \in SUBSET Selectees /\ told \in SUBSET Selectees /\ ex \in SUBSET Selectees
  BY <1>1 DEF LassoTyped
<1> HIDE DEF sel, told, ex
<1>3. LassoTyped(u) /\ u.stale = TRUE
  BY <1>1, <1>2 DEF LassoTyped
<1>4. u.selecting = lasso.selecting /\ u.unselecting = lasso.unselecting /\ u.data = lasso.data
      /\ u.started = lasso.started /\ u.moved = lasso.moved
  BY <1>1 DEF LassoTyped
<1> HIDE DEF u
<1> QED BY <1>1, <1>3, <1>4 DEF LassoOK, LassoInStep

LEMMA RefreshLassoKeeps ==
  ASSUME LassoOK(lasso), RefreshLasso
  PROVE  LassoOK(lasso')
<1> DEFINE u == readClasses(lasso)
<1>1. LassoTyped(lasso) /\ LassoInStep(lasso) /\ ~lasso.started /\ lasso' = u
  BY DEF LassoOK, RefreshLasso
<1>2. /\ LassoTyped(u) /\ u.stale = FALSE /\ u.told = lasso.selected /\ u.expects = lasso.selected
      /\ u.data.selected = lasso.selected /\ u.data.selecting = lasso.selecting
      /\ u.data.unselecting = lasso.unselecting /\ u.data.startselected = {}
      /\ u.selected = lasso.selected /\ u.selecting = lasso.selecting /\ u.unselecting = lasso.unselecting
      /\ u.started = lasso.started /\ u.moved = lasso.moved
  BY <1>1, ReadClassesIs
<1> HIDE DEF u
<1>3. LassoInStep(u) /\ LassoFollowed(u)
  BY <1>1, <1>2 DEF LassoInStep, LassoFollowed
<1> QED BY <1>1, <1>2, <1>3 DEF LassoOK

LEMMA LassoBegins == ASSUME SelectableInit PROVE LassoOK(lasso)
<1>1. PICK auto \in BOOLEAN, tolerance \in {"touch", "fit"}, marked \in SUBSET Selectees :
        lasso = [auto |-> auto, tolerance |-> tolerance, disabled |-> FALSE, selected |-> marked, selecting |-> {},
                 unselecting |-> {},
                 data |-> [selected |-> marked, selecting |-> {}, unselecting |-> {}, startselected |-> {}],
                 from |-> 0, at |-> 0, started |-> FALSE, before |-> {}, ctrl |-> FALSE, moved |-> FALSE,
                 begun |-> FALSE, steady |-> TRUE, stale |-> FALSE, told |-> marked, expects |-> marked]
  BY DEF SelectableInit
<1>2. 0 \in Points
  BY SelectableAssumption DEF Points
<1>3. lasso.data = [selected |-> marked, selecting |-> {}, unselecting |-> {}, startselected |-> {}]
  BY <1>1
<1>4. lasso.data \in LassoData /\ lasso.data.selected = marked /\ lasso.data.selecting = {}
      /\ lasso.data.unselecting = {} /\ lasso.data.startselected = {}
  BY <1>3 DEF LassoData
<1>5. LassoTyped(lasso)
  <2> DEFINE d == [selected |-> marked, selecting |-> {}, unselecting |-> {}, startselected |-> {}]
  <2>1. d \in LassoData
    BY DEF LassoData
  <2> HIDE DEF d
  <2> QED BY <1>1, <1>2, <2>1 DEF LassoTyped, d
<1>6. /\ lasso.selected = marked /\ lasso.selecting = {} /\ lasso.unselecting = {} /\ lasso.started = FALSE
      /\ lasso.moved = FALSE /\ lasso.told = marked /\ lasso.expects = marked
  BY <1>1
<1> QED BY <1>4, <1>5, <1>6 DEF LassoOK, LassoInStep, LassoFollowed

LEMMA LassoStepKeeps == ASSUME LassoOK(lasso), SelectableNext PROVE LassoOK(lasso')
<1>1. ASSUME NEW p \in Points, NEW ctrl \in BOOLEAN, StartLasso(p, ctrl) \/ MoveLasso(p, ctrl)
      PROVE  LassoOK(lasso')
  BY <1>1, StartLassoKeeps, MoveLassoKeeps
<1>2. ASSUME StopLasso \/ RefreshLasso PROVE LassoOK(lasso')
  BY <1>2, StopLassoKeeps, RefreshLassoKeeps
<1>3. ASSUME NEW disabled \in BOOLEAN, DisableLasso(disabled) PROVE LassoOK(lasso')
  BY <1>3, DisableLassoKeeps
<1>4. ASSUME NEW i \in Selectees, MarkItem(i) PROVE LassoOK(lasso')
  BY <1>4, MarkItemKeeps
<1> QED BY <1>1, <1>2, <1>3, <1>4 DEF SelectableNext

LEMMA LassoHolds ==
  ASSUME LassoOK(lasso)
  PROVE  SelectableTypeOK /\ EventsTellSelection /\ LassoDecides
<1>1. LassoTyped(lasso) /\ LassoInStep(lasso) /\ (~lasso.stale => LassoFollowed(lasso))
  BY DEF LassoOK
<1>2. SelectableTypeOK
  <2>1. {lasso.from, lasso.at} \subseteq Points
        /\ lasso.selected \cup lasso.selecting \cup lasso.unselecting \subseteq Selectees
    BY <1>1 DEF LassoTyped
  <2> QED BY <1>1, <2>1 DEF SelectableTypeOK, LassoInStep, LassoFollowed
<1>3. EventsTellSelection
  BY <1>1 DEF EventsTellSelection, LassoInStep, LassoFollowed
<1>4. LassoDecides
  <2> SUFFICES ASSUME lasso.started, lasso.moved, lasso.steady, ~lasso.stale
               PROVE  lasso.selected \cup lasso.selecting =
                        HitItems(lasso) \cup IF lasso.ctrl THEN lasso.before \ {lasso.from} ELSE {}
    BY DEF LassoDecides, HitItems
  <2>1. LassoSteady(lasso) /\ lasso.selecting = HitItems(lasso)
    BY DEF LassoOK, LassoSteady
  <2>2. lasso.selected \subseteq lasso.before
    BY <1>1, <2>1 DEF LassoFollowed, LassoSteady
  <2>3. CASE lasso.ctrl
    BY <2>1, <2>2, <2>3 DEF LassoSteady
  <2>4. CASE ~lasso.ctrl
    BY <2>1, <2>4 DEF LassoSteady
  <2> QED BY <2>3, <2>4
<1> QED BY <1>2, <1>3, <1>4

-------------------------------------------------------------------------------
(* Drags.                                                                  *)

(* The values that drag takes. *)
DragRec ==
  [helper : {"none", "dragging", "reverting", "kept"}, at : Where, alive : BOOLEAN, doomed : BOOLEAN,
   accepts : SUBSET Droppables, disabled : SUBSET Droppables, greedy : BOOLEAN, parentFirst : BOOLEAN,
   visible : SUBSET Droppables, isover : SUBSET Droppables, hover : SUBSET Droppables,
   active : SUBSET Droppables, greedyChild : BOOLEAN, dropped : SUBSET Droppables]

(* A parent that is listed before its greedy child may keep its highlight. *)
Spare(d) == IF d.greedy /\ d.parentFirst THEN {Outside} ELSE {}

(* A greedy child that the helper is over has it for itself, and what is   *)
(* highlighted is what the helper is over.                                 *)
Nested(d) ==
  /\ Inside \in d.isover => Inside \in Live(d)
  /\ d.greedyChild => d.greedy /\ Outside \notin d.isover
  /\ d.greedy /\ Inside \in d.isover => d.greedyChild
  /\ d.hover \cap Live(d) \subseteq d.isover \cup Spare(d)

(* The page was told of the droppables that the helper is over.            *)
InsideTold(d) == Inside \in Live(d) => (Inside \in d.isover <=> Inside \in Hits(d.at))
OutsideTold(d) == Outside \in Live(d) /\ ~d.greedyChild => (Outside \in d.isover <=> Outside \in Hits(d.at))
OverTold(d) == InsideTold(d) /\ (OutsideTold(d) \/ (d.greedy /\ d.parentFirst /\ d.at = "away"))

DragOK ==
  /\ drag \in DragRec
  /\ drag.helper # "none" => drag.alive
  /\ drag.doomed => drag.alive = (drag.helper # "none")
  /\ drag.visible \subseteq Live(drag)
  /\ Nested(drag)
  /\ drag.helper = "dragging" =>
       drag.visible = Live(drag) /\ Live(drag) \subseteq drag.active /\ OverTold(drag)
  /\ drag.helper # "dragging" => (drag.active \cup drag.isover) \cap Live(drag) = {}

-------------------------------------------------------------------------------

(* All that moving the helper does not change. *)
Unmoved(r, d) ==
  /\ r.helper = d.helper /\ r.at = d.at /\ r.alive = d.alive /\ r.doomed = d.doomed
  /\ r.accepts = d.accepts /\ r.disabled = d.disabled /\ r.greedy = d.greedy
  /\ r.parentFirst = d.parentFirst /\ r.visible = d.visible /\ r.active = d.active
  /\ r.dropped = d.dropped

LEMMA UnmovedIs ==
  ASSUME NEW d, NEW r, Unmoved(r, d)
  PROVE  Live(r) = Live(d) /\ Spare(r) = Spare(d) /\ Hits(r.at) = Hits(d.at)
BY DEF Unmoved, Live, Spare

(* The four ways in which one droppable is told. *)
Told(d, r, isover, hover, greedyChild) ==
  /\ r \in DragRec /\ Unmoved(r, d)
  /\ r.isover = isover /\ r.hover = hover /\ r.greedyChild = greedyChild

LEMMA OverIs ==
  ASSUME NEW d \in DragRec, NEW p \in Droppables
  PROVE  Told(d, over(d, p), d.isover \cup {p}, d.hover \cup ({p} \cap d.accepts), d.greedyChild)
BY DEF over, DragRec, Told, Unmoved

LEMMA OutIs ==
  ASSUME NEW d \in DragRec, NEW p \in Droppables
  PROVE  Told(d, out(d, p), d.isover \ {p}, d.hover \ ({p} \cap d.accepts), d.greedyChild)
BY DEF out, DragRec, Told, Unmoved

LEMMA PassIs ==
  ASSUME NEW d \in DragRec, NEW c \in BOOLEAN, NEW p \in Droppables, NEW q \in Droppables
  PROVE  LET r == over(out([d EXCEPT !.greedyChild = c], p), q)
         IN  Told(d, r, (d.isover \ {p}) \cup {q},
                  (d.hover \ ({p} \cap d.accepts)) \cup ({q} \cap d.accepts), c)
<1> DEFINE e == [d EXCEPT !.greedyChild = c]
           f == out(e, p)
           r == over(f, q)
<1>1. Told(d, e, d.isover, d.hover, c)
  BY DEF Told, Unmoved, DragRec
<1> HIDE DEF e
<1>2. Told(e, f, e.isover \ {p}, e.hover \ ({p} \cap e.accepts), e.greedyChild)
  BY <1>1, OutIs DEF Told
<1> HIDE DEF f
<1>3. Told(f, r, f.isover \cup {q}, f.hover \cup ({q} \cap f.accepts), f.greedyChild)
  BY <1>2, OverIs DEF Told
<1> HIDE DEF r
<1>4. Told(d, r, (d.isover \ {p}) \cup {q}, (d.hover \ ({p} \cap d.accepts)) \cup ({q} \cap d.accepts), c)
  BY <1>1, <1>2, <1>3 DEF Told, Unmoved
<1> QED BY <1>4 DEF r, f, e

(* What a drag is when the manager looks at one of its droppables. *)
Moving(d) == d \in DragRec /\ Nested(d) /\ d.visible = Live(d)

LEMMA HitsAre ==
  ASSUME NEW at \in Where
  PROVE  /\ Inside \in Hits(at) => Outside \in Hits(at)
         /\ Inside \notin Hits(at) /\ at # "away" => Outside \in Hits(at)
BY DragDropAssumption DEF Where, Hits, Droppables

(* The parent is told, unless its child has the helper for itself.         *)
ParentTold(d, r) ==
  /\ Moving(r) /\ Unmoved(r, d) /\ OutsideTold(r)
  /\ r.greedyChild = d.greedyChild /\ (Inside \in r.isover <=> Inside \in d.isover)

LEMMA TellParent ==
  ASSUME NEW d, Moving(d), NEW r, r = dragOver(d, Outside)
  PROVE  ParentTold(d, r)
<1>1. /\ d \in DragRec /\ Nested(d) /\ d.visible = Live(d) /\ Outside \in Droppables
      /\ Outside # Inside /\ Live(d) = d.accepts \ d.disabled /\ d.greedyChild \in BOOLEAN
  BY DragDropAssumption DEF Moving, Droppables, DragRec, Live
<1> DEFINE hit == Outside \in Hits(d.at)
           skips == Outside \in d.disabled \/ Outside \notin d.visible \/ d.greedyChild
                      \/ hit = (Outside \in d.isover)
<1>2. CASE skips
  <2>1. r = d
    BY <1>1, <1>2 DEF dragOver
  <2>2. Unmoved(r, d)
    BY <2>1 DEF Unmoved
  <2> QED BY <1>1, <1>2, <2>1, <2>2 DEF ParentTold, Moving, OutsideTold
<1>3. CASE ~skips /\ hit
  <2>1. r = over(d, Outside)
    BY <1>1, <1>3 DEF dragOver
  <2>2. Told(d, r, d.isover \cup {Outside}, d.hover \cup ({Outside} \cap d.accepts), d.greedyChild)
    BY <1>1, <2>1, OverIs
  <2> HIDE DEF hit
  <2>3. Live(r) = Live(d) /\ Spare(r) = Spare(d) /\ Hits(r.at) = Hits(d.at)
    BY <2>2, UnmovedIs DEF Told
  <2>4. Nested(r)
    BY <1>1, <1>3, <2>2, <2>3 DEF Nested, Told, Unmoved
  <2>5. OutsideTold(r)
    BY <1>3, <2>2, <2>3 DEF OutsideTold, Told, hit
  <2> QED BY <1>1, <2>2, <2>3, <2>4, <2>5 DEF ParentTold, Moving, Told, Unmoved
<1>4. CASE ~skips /\ ~hit
  <2>1. r = out(d, Outside)
    BY <1>1, <1>4 DEF dragOver
  <2>2. Told(d, r, d.isover \ {Outside}, d.hover \ ({Outside} \cap d.accepts), d.greedyChild)
    BY <1>1, <2>1, OutIs
  <2> HIDE DEF hit
  <2>3. Live(r) = Live(d) /\ Spare(r) = Spare(d) /\ Hits(r.at) = Hits(d.at)
    BY <2>2, UnmovedIs DEF Told
  <2>4. Nested(r)
    BY <1>1, <1>4, <2>2, <2>3 DEF Nested, Told, Unmoved
  <2>5. OutsideTold(r)
    BY <1>4, <2>2, <2>3 DEF OutsideTold, Told, hit
  <2> QED BY <1>1, <2>2, <2>3, <2>4, <2>5 DEF ParentTold, Moving, Told, Unmoved
<1> QED BY <1>2, <1>3, <1>4

(* The child is told.  A greedy one that is left gives the helper back to  *)
(* its parent.                                                             *)
ChildTold(d, r) ==
  /\ Moving(r) /\ Unmoved(r, d) /\ InsideTold(r)
  /\ \/ r.greedyChild = d.greedyChild /\ (Outside \in r.isover <=> Outside \in d.isover)
     \/ r.greedyChild
     \/ d.greedy /\ Outside \in r.isover /\ Inside \notin Hits(r.at) /\ d.greedyChild

LEMMA TellChild ==
  ASSUME NEW d, Moving(d), NEW r, r = dragOver(d, Inside)
  PROVE  ChildTold(d, r)
<1>1. /\ d \in DragRec /\ Nested(d) /\ d.visible = Live(d) /\ Inside \in Droppables
      /\ Outside \in Droppables
      /\ Outside # Inside /\ Live(d) = d.accepts \ d.disabled /\ d.greedyChild \in BOOLEAN
      /\ d.greedy \in BOOLEAN
  BY DragDropAssumption DEF Moving, Droppables, DragRec, Live
<1> DEFINE hit == Inside \in Hits(d.at)
           skips == Inside \in d.disabled \/ Inside \notin d.visible \/ hit = (Inside \in d.isover)
<1>2. CASE skips
  <2>1. r = d
    BY <1>1, <1>2 DEF dragOver
  <2>2. Unmoved(r, d)
    BY <2>1 DEF Unmoved
  <2> QED BY <1>1, <1>2, <2>1, <2>2 DEF ChildTold, Moving, InsideTold
<1>3. CASE ~skips /\ ~d.greedy /\ hit
  <2>1. r = over(d, Inside)
    BY <1>1, <1>3 DEF dragOver
  <2>2. Told(d, r, d.isover \cup {Inside}, d.hover \cup ({Inside} \cap d.accepts), d.greedyChild)
    BY <1>1, <2>1, OverIs
  <2> HIDE DEF hit
  <2>3. Live(r) = Live(d) /\ Spare(r) = Spare(d) /\ Hits(r.at) = Hits(d.at)
    BY <2>2, UnmovedIs DEF Told
  <2>4. Nested(r)
    BY <1>1, <1>3, <2>2, <2>3 DEF Nested, Told, Unmoved
  <2>5. InsideTold(r)
    BY <1>3, <2>2, <2>3 DEF InsideTold, Told, hit
  <2> QED BY <1>1, <2>2, <2>3, <2>4, <2>5 DEF ChildTold, Moving, Told, Unmoved
<1>4. CASE ~skips /\ ~d.greedy /\ ~hit
  <2>1. r = out(d, Inside)
    BY <1>1, <1>4 DEF dragOver
  <2>2. Told(d, r, d.isover \ {Inside}, d.hover \ ({Inside} \cap d.accepts), d.greedyChild)
    BY <1>1, <2>1, OutIs
  <2> HIDE DEF hit
  <2>3. Live(r) = Live(d) /\ Spare(r) = Spare(d) /\ Hits(r.at) = Hits(d.at)
    BY <2>2, UnmovedIs DEF Told
  <2>4. Nested(r)
    BY <1>1, <1>4, <2>2, <2>3 DEF Nested, Told, Unmoved
  <2>5. InsideTold(r)
    BY <1>4, <2>2, <2>3 DEF InsideTold, Told, hit
  <2> QED BY <1>1, <2>2, <2>3, <2>4, <2>5 DEF ChildTold, Moving, Told, Unmoved
<1>5. CASE ~skips /\ d.greedy /\ hit
  <2>1. r = over(out([d EXCEPT !.greedyChild = TRUE], Outside), Inside)
    BY <1>1, <1>5 DEF dragOver
  <2>2. Told(d, r, (d.isover \ {Outside}) \cup {Inside},
             (d.hover \ ({Outside} \cap d.accepts)) \cup ({Inside} \cap d.accepts), TRUE)
    BY <1>1, <2>1, PassIs
  <2> HIDE DEF hit
  <2>3. Live(r) = Live(d) /\ Spare(r) = Spare(d) /\ Hits(r.at) = Hits(d.at)
    BY <2>2, UnmovedIs DEF Told
  <2>4. Nested(r)
    BY <1>1, <1>5, <2>2, <2>3 DEF Nested, Told, Unmoved
  <2>5. InsideTold(r)
    BY <1>5, <2>2, <2>3 DEF InsideTold, Told, hit
  <2> QED BY <1>1, <2>2, <2>3, <2>4, <2>5 DEF ChildTold, Moving, Told, Unmoved
<1>6. CASE ~skips /\ d.greedy /\ ~hit
  <2>1. r = over(out([d EXCEPT !.greedyChild = FALSE], Inside), Outside)
    BY <1>1, <1>6 DEF dragOver
  <2>2. Told(d, r, (d.isover \ {Inside}) \cup {Outside},
             (d.hover \ ({Inside} \cap d.accepts)) \cup ({Outside} \cap d.accepts), FALSE)
    BY <1>1, <2>1, PassIs
  <2>6. d.greedyChild
    BY <1>1, <1>6 DEF Nested
  <2> HIDE DEF hit
  <2>3. Live(r) = Live(d) /\ Spare(r) = Spare(d) /\ Hits(r.at) = Hits(d.at)
    BY <2>2, UnmovedIs DEF Told
  <2>4. Nested(r)
    BY <1>1, <1>6, <2>2, <2>3 DEF Nested, Told, Unmoved
  <2>5. InsideTold(r)
    BY <1>1, <1>6, <2>2, <2>3 DEF InsideTold, Told, hit
  <2> QED BY <1>1, <1>6, <2>2, <2>3, <2>4, <2>5, <2>6 DEF ChildTold, Moving, Told, Unmoved, hit
<1> QED BY <1>1, <1>2, <1>3, <1>4, <1>5, <1>6

(* Then both are told, in either order. *)
BothTold(d, r) == Moving(r) /\ Unmoved(r, d) /\ OverTold(r)

LEMMA ManagerTells ==
  ASSUME NEW d, Moving(d), NEW r, r = managerDrag(d)
  PROVE  BothTold(d, r)
<1>1. d \in DragRec /\ d.parentFirst \in BOOLEAN /\ d.at \in Where
  BY DEF Moving, DragRec
<1>2. CASE d.parentFirst
  <2> DEFINE m == dragOver(d, Outside)
  <2>1. ParentTold(d, m)
    BY TellParent
  <2>2. r = dragOver(m, Inside)
    BY <1>2 DEF managerDrag
  <2> HIDE DEF m
  <2>3. ChildTold(m, r)
    BY <2>1, <2>2, TellChild DEF ParentTold
  <2>4. Unmoved(r, d) /\ Live(r) = Live(m) /\ Hits(r.at) = Hits(m.at) /\ r.at \in Where
    BY <1>1, <2>1, <2>3, UnmovedIs DEF ParentTold, ChildTold, Unmoved
  <2>5. CASE r.greedyChild
    BY <2>3, <2>4, <2>5 DEF BothTold, ChildTold, OverTold, OutsideTold
  <2>6. CASE r.greedyChild = m.greedyChild /\ (Outside \in r.isover <=> Outside \in m.isover)
    <3>1. OutsideTold(r)
      BY <2>1, <2>4, <2>6 DEF ParentTold, OutsideTold
    <3> QED BY <2>3, <2>4, <3>1 DEF BothTold, ChildTold, OverTold
  <2>7. CASE m.greedy /\ Outside \in r.isover /\ Inside \notin Hits(r.at)
    <3>1. r.greedy /\ r.parentFirst
      BY <1>2, <2>1, <2>3, <2>7 DEF ParentTold, ChildTold, Unmoved
    <3>2. r.at # "away" => OutsideTold(r)
      BY <2>4, <2>7, HitsAre DEF OutsideTold
    <3> QED BY <2>3, <2>4, <3>1, <3>2 DEF BothTold, ChildTold, OverTold
  <2> QED BY <2>3, <2>5, <2>6, <2>7 DEF ChildTold
<1>3. CASE ~d.parentFirst
  <2> DEFINE m == dragOver(d, Inside)
  <2>1. ChildTold(d, m)
    BY TellChild
  <2>2. r = dragOver(m, Outside)
    BY <1>3 DEF managerDrag
  <2> HIDE DEF m
  <2>3. ParentTold(m, r)
    BY <2>1, <2>2, TellParent DEF ChildTold
  <2>4. Unmoved(r, d) /\ Live(r) = Live(m) /\ Hits(r.at) = Hits(m.at)
    BY <1>1, <2>1, <2>3, UnmovedIs DEF ParentTold, ChildTold, Unmoved
  <2>5. InsideTold(r)
    BY <2>1, <2>3, <2>4 DEF ParentTold, ChildTold, InsideTold
  <2> QED BY <2>3, <2>4, <2>5 DEF BothTold, ParentTold, OverTold
<1> QED BY <1>1, <1>2, <1>3

(* The drop goes to what the helper is over, as far as the page was told.  *)
DropAgrees(d, r) ==
  \A p \in Live(d) :
    \/ p \in r.dropped <=> p \in d.isover
    \/ p = Outside /\ d.greedyChild /\ Inside \notin d.isover
    \/ p = Outside /\ d.parentFirst /\ d.at = "away"

DropStep == drag.helper = "dragging" /\ drag'.helper # "dragging" => DropAgrees(drag, drag')

Dropped(d, r) ==
  /\ r \in DragRec /\ Nested(r) /\ DropAgrees(d, r)
  /\ r.helper = d.helper /\ r.alive = d.alive /\ r.doomed = d.doomed /\ r.visible = d.visible
  /\ Live(r) = Live(d)
  /\ (r.active \cup r.isover) \cap Live(r) = {}

LEMMA DropTells ==
  ASSUME NEW d \in DragRec, d.visible = Live(d), Nested(d), OverTold(d), NEW r, r = managerDrop(d)
  PROVE  Dropped(d, r)
<1> DEFINE L == Live(d)
           H == Hits(d.at)
           taken == IF d.greedy /\ Inside \in L \cap H THEN (L \cap H) \ {Outside} ELSE L \cap H
<1>1. /\ Outside # Inside /\ L \subseteq Droppables /\ taken \subseteq Droppables
      /\ Droppables = {Outside, Inside} /\ d.greedy \in BOOLEAN /\ d.greedyChild \in BOOLEAN
      /\ (Inside \in H => Outside \in H)
  <2>1. L \subseteq Droppables
    BY DEF DragRec, Live
  <2>2. taken \subseteq Droppables
    BY <2>1
  <2>3. Inside \in H => Outside \in H
    BY HitsAre DEF DragRec
  <2> QED BY <2>1, <2>2, <2>3, DragDropAssumption DEF DragRec, Droppables
<1>2. r = [d EXCEPT !.dropped = taken, !.hover = @ \ taken, !.active = @ \ L, !.isover = @ \ L]
  BY DEF managerDrop
<1>3. \A p \in L : p \in taken <=> p \in H /\ ~(p = Outside /\ d.greedy /\ Inside \in L \cap H)
  BY <1>1
<1>4. /\ Inside \in d.isover => Inside \in L
      /\ d.greedyChild => d.greedy /\ Outside \notin d.isover
      /\ d.greedy /\ Inside \in d.isover => d.greedyChild
      /\ d.hover \cap L \subseteq d.isover \cup Spare(d)
  BY DEF Nested
<1>5. /\ Inside \in L => (Inside \in d.isover <=> Inside \in H)
      /\ \/ Outside \in L /\ ~d.greedyChild => (Outside \in d.isover <=> Outside \in H)
         \/ d.greedy /\ d.parentFirst /\ d.at = "away"
  BY DEF OverTold, InsideTold, OutsideTold
<1> HIDE DEF taken
<1>6. /\ r \in DragRec /\ r.dropped = taken /\ r.hover = d.hover \ taken /\ r.active = d.active \ L
      /\ r.isover = d.isover \ L /\ r.helper = d.helper /\ r.alive = d.alive /\ r.doomed = d.doomed
      /\ r.visible = d.visible /\ r.accepts = d.accepts /\ r.disabled = d.disabled
      /\ r.greedy = d.greedy /\ r.parentFirst = d.parentFirst /\ r.greedyChild = d.greedyChild
  <2> HIDE DEF L
  <2> QED BY ONLY <1>1, <1>2, d \in DragRec DEF DragRec
<1>7. Live(r) = L /\ Spare(r) = Spare(d)
  BY <1>6 DEF Live, Spare
<1> HIDE DEF L, H
<1>8. \A p \in L : \/ p \in taken <=> p \in d.isover
                   \/ p = Outside /\ d.greedyChild /\ Inside \notin d.isover
                   \/ p = Outside /\ d.greedy /\ d.parentFirst /\ d.at = "away"
  BY <1>1, <1>3, <1>4, <1>5
<1>9. DropAgrees(d, r)
  BY <1>6, <1>8 DEF DropAgrees, L
<1>10. Nested(r)
  <2>1. ASSUME NEW p \in d.hover \cap L, p \notin taken PROVE p \in Spare(d)
    <3>1. p \in d.isover \/ p \in Spare(d)
      BY <1>4
    <3>2. p \in d.isover => p = Outside /\ d.greedy /\ d.parentFirst
      BY <1>4, <1>8, <2>1
    <3> QED BY <3>1, <3>2 DEF Spare
  <2> QED BY <1>4, <1>6, <1>7, <2>1 DEF Nested
<1> QED BY <1>6, <1>7, <1>9, <1>10 DEF Dropped, L

-------------------------------------------------------------------------------
(* Drags: the invariant *)

LEMMA DragInitOK == DragInit => DragOK
<1> SUFFICES ASSUME DragInit PROVE DragOK
  OBVIOUS
<1> USE DragDropAssumption
<1>1. PICK accepts \in SUBSET Droppables, disabled \in SUBSET Droppables,
           greedy \in BOOLEAN, parentFirst \in BOOLEAN :
        drag = [helper |-> "none", at |-> "away", alive |-> TRUE, doomed |-> FALSE,
                accepts |-> accepts, disabled |-> disabled, greedy |-> greedy,
                parentFirst |-> parentFirst, visible |-> {}, isover |-> {}, hover |-> {},
                active |-> {}, greedyChild |-> FALSE, dropped |-> {}]
  BY DEF DragInit
<1>2. drag \in DragRec
  BY <1>1 DEF DragRec, Where
<1> QED BY <1>1, <1>2 DEF DragOK, Nested, Live, Spare

LEMMA DragNow ==
  ASSUME DragOK
  PROVE  /\ drag \in DragRec /\ Nested(drag) /\ drag.visible \subseteq Live(drag)
         /\ drag.helper \in {"none", "dragging", "reverting", "kept"}
         /\ drag.alive \in BOOLEAN /\ drag.doomed \in BOOLEAN
         /\ drag.helper # "none" => drag.alive
         /\ drag.doomed => drag.alive = (drag.helper # "none")
BY DEF DragOK, DragRec

(* What follows a drag: the helper goes or is kept.                        *)
LEMMA StoppedKeeps ==
  ASSUME NEW d, d \in DragRec, Nested(d), d.visible \subseteq Live(d), d.alive,
         (d.active \cup d.isover) \cap Live(d) = {},
         NEW keep \in BOOLEAN, drag' = stopped(d, keep)
  PROVE  DragOK'
<1> DEFINE h == IF keep THEN "kept" ELSE "none"
           a == IF keep THEN TRUE ELSE ~d.doomed
<1>1. /\ drag' \in DragRec /\ drag'.helper = h /\ drag'.alive = a
      /\ drag'.doomed = d.doomed /\ drag'.visible = d.visible /\ drag'.isover = d.isover
      /\ drag'.hover = d.hover /\ drag'.active = d.active /\ drag'.greedy = d.greedy
      /\ drag'.parentFirst = d.parentFirst /\ drag'.greedyChild = d.greedyChild
      /\ drag'.accepts = d.accepts /\ drag'.disabled = d.disabled
  <2>1. CASE keep
    <3>1. drag' = [d EXCEPT !.helper = "kept"]
      BY <2>1 DEF stopped
    <3> QED BY <2>1, <3>1 DEF DragRec
  <2>2. CASE ~keep
    <3>1. drag' = [d EXCEPT !.helper = "none", !.alive = d.alive /\ ~d.doomed]
      BY <2>2 DEF stopped, clear
    <3> QED BY <2>2, <3>1 DEF DragRec
  <2> QED BY <2>1, <2>2
<1>2. Live(drag') = Live(d) /\ Spare(drag') = Spare(d)
  BY <1>1 DEF Live, Spare
<1>3. Nested(drag')
  BY <1>1, <1>2 DEF Nested
<1>4. d.doomed \in BOOLEAN
  BY DEF DragRec
<1> QED BY <1>1, <1>2, <1>3, <1>4 DEF DragOK

LEMMA DragStartKeeps ==
  ASSUME DragOK, NEW at \in Where, NEW refuse \in BOOLEAN, StartDrag(at, refuse)
  PROVE  DragOK'
<1> DEFINE b == [drag EXCEPT !.helper = "dragging", !.at = at, !.dropped = {}]
<1>1. drag.alive /\ drag.helper = "none" /\ ~drag.doomed
      /\ drag' = IF refuse THEN clear(b) ELSE managerDrag(prepareOffsets(b))
  BY DragNow DEF StartDrag
<1>2. /\ b \in DragRec /\ b.helper = "dragging" /\ b.alive /\ ~b.doomed
      /\ b.visible = drag.visible /\ b.isover = drag.isover
      /\ b.hover = drag.hover /\ b.active = drag.active /\ b.greedy = drag.greedy
      /\ b.parentFirst = drag.parentFirst /\ b.greedyChild = drag.greedyChild
      /\ b.accepts = drag.accepts /\ b.disabled = drag.disabled
  BY <1>1, DragNow DEF DragRec
<1> HIDE DEF b
<1>3. Live(b) = Live(drag) /\ Spare(b) = Spare(drag)
  BY <1>2 DEF Live, Spare
<1>4. Nested(b)
  BY <1>2, <1>3, DragNow DEF Nested
<1>5. b.visible \subseteq Live(b) /\ (b.active \cup b.isover) \cap Live(b) = {}
  BY <1>1, <1>2, <1>3 DEF DragOK
<1>6. CASE refuse
  <2>1. drag' = stopped(b, FALSE)
    BY <1>1, <1>6 DEF stopped
  <2> QED BY <1>2, <1>4, <1>5, <2>1, StoppedKeeps
<1>7. CASE ~refuse
  <2> DEFINE p == prepareOffsets(b)
  <2>1. /\ p \in DragRec /\ p.visible = b.visible \cup Live(b) /\ p.active = b.active \cup Live(b)
        /\ p.helper = b.helper /\ p.alive = b.alive /\ p.doomed = b.doomed /\ p.isover = b.isover
        /\ p.hover = b.hover /\ p.greedy = b.greedy /\ p.parentFirst = b.parentFirst
        /\ p.greedyChild = b.greedyChild /\ p.accepts = b.accepts /\ p.disabled = b.disabled
    <3>1. Live(b) \subseteq Droppables
      BY <1>2 DEF DragRec, Live
    <3>2. p = [b EXCEPT !.visible = @ \cup Live(b), !.active = @ \cup Live(b)]
      BY DEF prepareOffsets
    <3> QED BY ONLY <1>2, <3>1, <3>2 DEF DragRec
  <2>2. drag' = managerDrag(p)
    BY <1>1, <1>7
  <2> HIDE DEF p
  <2>3. Live(p) = Live(b) /\ Spare(p) = Spare(b)
    BY <2>1 DEF Live, Spare
  <2>4. Moving(p)
    BY <1>4, <1>5, <2>1, <2>3 DEF Moving, Nested
  <2>5. BothTold(p, drag')
    BY <2>2, <2>4, ManagerTells
  <2>6. /\ Live(drag') = Live(p) /\ drag' \in DragRec /\ Nested(drag') /\ drag'.visible = Live(drag')
        /\ drag'.helper = "dragging" /\ drag'.alive /\ ~drag'.doomed /\ drag'.active = p.active
        /\ OverTold(drag')
    BY <1>2, <2>1, <2>5, UnmovedIs DEF BothTold, Moving, Unmoved
  <2> QED BY <2>1, <2>3, <2>6 DEF DragOK
<1> QED BY <1>6, <1>7

LEMMA DragMoveKeeps ==
  ASSUME DragOK, NEW at \in Where, MoveHelper(at)
  PROVE  DragOK' /\ drag'.helper = "dragging"
<1> DEFINE p == [drag EXCEPT !.at = at]
<1>1. drag.helper = "dragging" /\ drag' = managerDrag(p)
  BY DEF MoveHelper
<1>2. /\ p \in DragRec /\ p.visible = drag.visible /\ p.active = drag.active
      /\ p.helper = drag.helper /\ p.alive = drag.alive /\ p.doomed = drag.doomed
      /\ p.isover = drag.isover /\ p.hover = drag.hover /\ p.greedy = drag.greedy
      /\ p.parentFirst = drag.parentFirst /\ p.greedyChild = drag.greedyChild
      /\ p.accepts = drag.accepts /\ p.disabled = drag.disabled
  BY DragNow DEF DragRec
<1> HIDE DEF p
<1>3. Live(p) = Live(drag) /\ Spare(p) = Spare(drag)
  BY <1>2 DEF Live, Spare
<1>4. Moving(p)
  BY <1>1, <1>2, <1>3, DragNow DEF Moving, Nested, DragOK
<1>5. BothTold(p, drag')
  BY <1>1, <1>4, ManagerTells
<1>6. /\ Live(drag') = Live(p) /\ drag' \in DragRec /\ Nested(drag') /\ drag'.visible = Live(drag')
      /\ drag'.helper = "dragging" /\ drag'.alive = drag.alive /\ drag'.doomed = drag.doomed
      /\ drag'.active = drag.active /\ OverTold(drag')
  BY <1>1, <1>2, <1>5, UnmovedIs DEF BothTold, Moving, Unmoved
<1> QED BY <1>1, <1>3, <1>6 DEF DragOK

LEMMA DragStopKeeps ==
  ASSUME DragOK, NEW revert \in BOOLEAN, NEW keep \in BOOLEAN, StopDrag(revert, keep)
  PROVE  DragOK' /\ DropAgrees(drag, drag')
<1> DEFINE d == managerDrop(drag)
<1>1. /\ drag.helper = "dragging" /\ drag.alive /\ drag.visible = Live(drag) /\ OverTold(drag)
      /\ drag' = IF revert THEN [d EXCEPT !.helper = "reverting"] ELSE stopped(d, keep)
  BY DEF StopDrag, DragOK
<1>2. Dropped(drag, d)
  BY <1>1, DragNow, DropTells
<1> HIDE DEF d
<1>3. CASE revert
  <2>1. /\ drag' \in DragRec /\ drag'.helper = "reverting" /\ drag'.alive = d.alive
        /\ drag'.doomed = d.doomed /\ drag'.visible = d.visible /\ drag'.isover = d.isover
        /\ drag'.hover = d.hover /\ drag'.active = d.active /\ drag'.greedy = d.greedy
        /\ drag'.parentFirst = d.parentFirst /\ drag'.greedyChild = d.greedyChild
        /\ drag'.accepts = d.accepts /\ drag'.disabled = d.disabled /\ drag'.dropped = d.dropped
    BY <1>1, <1>2, <1>3 DEF Dropped, DragRec
  <2>2. Live(drag') = Live(d) /\ Spare(drag') = Spare(d)
    BY <2>1 DEF Live, Spare
  <2>3. Nested(drag')
    BY <1>2, <2>1, <2>2 DEF Nested, Dropped
  <2>4. drag.doomed => drag.alive = TRUE
    BY <1>1, DragNow
  <2>5. DragOK'
    BY <1>1, <1>2, <2>1, <2>2, <2>3, DragNow DEF DragOK, Dropped
  <2>6. DropAgrees(drag, drag')
    BY <1>2, <2>1 DEF Dropped, DropAgrees
  <2> QED BY <2>5, <2>6
<1>4. CASE ~revert
  <2>1. drag' = stopped(d, keep)
    BY <1>1, <1>4
  <2>2. d.alive /\ d \in DragRec
    BY <1>1, <1>2 DEF Dropped
  <2>3. DragOK'
    BY <1>1, <1>2, <2>1, <2>2, StoppedKeeps, Zenon DEF Dropped
  <2>4. drag'.dropped = d.dropped
    BY <2>1, <2>2 DEF stopped, clear, DragRec
  <2>5. DropAgrees(drag, drag')
    BY <1>2, <2>4 DEF Dropped, DropAgrees
  <2> QED BY <2>3, <2>5
<1> QED BY <1>3, <1>4

LEMMA DestroyKeeps ==
  ASSUME DragOK, DestroyDraggable
  PROVE  DragOK' /\ drag'.helper = drag.helper
<1>1. /\ drag.alive /\ ~drag.doomed
      /\ drag' = IF drag.helper = "none" THEN [drag EXCEPT !.alive = FALSE] ELSE [drag EXCEPT !.doomed = TRUE]
  BY DEF DestroyDraggable
<1>2. /\ drag' \in DragRec /\ drag'.helper = drag.helper /\ drag'.at = drag.at
      /\ drag'.visible = drag.visible /\ drag'.isover = drag.isover
      /\ drag'.hover = drag.hover /\ drag'.active = drag.active /\ drag'.greedy = drag.greedy
      /\ drag'.parentFirst = drag.parentFirst /\ drag'.greedyChild = drag.greedyChild
      /\ drag'.accepts = drag.accepts /\ drag'.disabled = drag.disabled
      /\ IF drag.helper = "none" THEN ~drag'.alive /\ ~drag'.doomed ELSE drag'.alive /\ drag'.doomed
  BY <1>1, DragNow DEF DragRec
<1>3. Live(drag') = Live(drag) /\ Spare(drag') = Spare(drag) /\ Hits(drag'.at) = Hits(drag.at)
  BY <1>2 DEF Live, Spare
<1>4. Nested(drag')
  BY <1>2, <1>3, DragNow DEF Nested
<1>5. OverTold(drag) => OverTold(drag')
  BY <1>2, <1>3 DEF OverTold, InsideTold, OutsideTold
<1> QED BY <1>2, <1>3, <1>4, <1>5 DEF DragOK

LEMMA DragNextOK ==
  ASSUME DragOK, [DragNext]_drag
  PROVE  /\ DragOK'
         /\ drag.helper = "dragging" /\ drag'.helper # "dragging" => DropAgrees(drag, drag')
<1>1. CASE UNCHANGED drag
  BY <1>1 DEF DragOK
<1>2. ASSUME NEW at \in Where, NEW refuse \in BOOLEAN, StartDrag(at, refuse) PROVE DragOK' /\ drag.helper = "none"
  BY <1>2, DragStartKeeps DEF StartDrag
<1>3. ASSUME NEW at \in Where, MoveHelper(at) PROVE DragOK' /\ drag'.helper = "dragging"
  BY <1>3, DragMoveKeeps
<1>4. ASSUME NEW revert \in BOOLEAN, NEW keep \in BOOLEAN, StopDrag(revert, keep)
      PROVE  DragOK' /\ DropAgrees(drag, drag')
  BY <1>4, DragStopKeeps
<1>5. ASSUME NEW keep \in BOOLEAN, Reverted(keep) PROVE DragOK' /\ drag.helper = "reverting"
  <2>1. drag.helper = "reverting" /\ drag' = stopped(drag, keep)
    BY <1>5 DEF Reverted
  <2>2. (drag.active \cup drag.isover) \cap Live(drag) = {} /\ drag.alive
    BY <2>1, DragNow DEF DragOK
  <2> QED BY <2>1, <2>2, DragNow, StoppedKeeps, Zenon
<1>6. CASE DestroyDraggable
  BY <1>6, DestroyKeeps
<1> QED BY <1>1, <1>2, <1>3, <1>4, <1>5, <1>6 DEF DragNext

LEMMA DragsAre == DragOK => DragTypeOK /\ NothingLeftOver /\ OneIsGreedy
<1> SUFFICES ASSUME DragOK PROVE DragTypeOK /\ NothingLeftOver /\ OneIsGreedy
  OBVIOUS
<1>1. DragTypeOK
  BY DragNow DEF DragTypeOK, DragRec
<1>2. NothingLeftOver
  BY DragNow DEF NothingLeftOver, DragOK, Nested, Spare
<1>3. OneIsGreedy
  BY DragNow DEF OneIsGreedy, DragOK, Nested, Droppables
<1> QED BY <1>1, <1>2, <1>3

-------------------------------------------------------------------------------
(* Sorting.                                                                *)

(* Taking from a sequence and inserting into it moves what is behind.      *)
LEMMA RemoveAtIs ==
  ASSUME NEW S, NEW q \in Seq(S), NEW i \in 1..Len(q), NEW w, w = RemoveAt(q, i)
  PROVE  /\ w \in Seq(S) /\ Len(w) = Len(q) - 1
         /\ \A j \in 1..Len(w) : w[j] = IF j < i THEN q[j] ELSE q[j + 1]
<1> DEFINE a == SubSeq(q, 1, i - 1)
           b == SubSeq(q, i + 1, Len(q))
<1>1. Len(q) \in Nat /\ i \in Int /\ i - 1 \in Int /\ i + 1 \in Int /\ 1 \in Int
  BY LenProperties
<1>2. \A j \in 1..Len(q) : q[j] \in S
  BY ElementOfSeq
<1>3. \A j \in 1..i - 1 : q[j] \in S
  BY <1>1, <1>2
<1>4. /\ a \in Seq(S)
      /\ Len(a) = IF 1 <= i - 1 THEN (i - 1) - 1 + 1 ELSE 0
      /\ \A j \in 1..(i - 1) - 1 + 1 : a[j] = q[1 + j - 1]
  BY <1>1, <1>3, SubSeqProperties
<1>5. \A j \in i + 1..Len(q) : q[j] \in S
  BY <1>1, <1>2
<1>6. /\ b \in Seq(S)
      /\ Len(b) = IF i + 1 <= Len(q) THEN Len(q) - (i + 1) + 1 ELSE 0
      /\ \A j \in 1..Len(q) - (i + 1) + 1 : b[j] = q[i + 1 + j - 1]
  BY <1>1, <1>5, SubSeqProperties
<1>7. w = a \o b
  BY DEF RemoveAt
<1>8. Len(a) = i - 1 /\ Len(b) = Len(q) - i
  BY <1>1, <1>4, <1>6
<1> HIDE DEF a, b
<1>20. a \in Seq(S)
  BY <1>4
<1>21. b \in Seq(S)
  BY <1>6
<1>9. /\ w \in Seq(S)
      /\ Len(w) = Len(a) + Len(b)
      /\ \A j \in 1..Len(a) + Len(b) : w[j] = IF j <= Len(a) THEN a[j] ELSE b[j - Len(a)]
  BY ONLY <1>7, <1>20, <1>21, ConcatProperties
<1>10. Len(w) = Len(q) - 1
  BY <1>1, <1>8, <1>9
<1>11. ASSUME NEW j \in 1..Len(w) PROVE w[j] = IF j < i THEN q[j] ELSE q[j + 1]
  <2>1. j \in Int /\ 1 <= j /\ j <= Len(q) - 1
    BY <1>1, <1>10
  <2>2. CASE j < i
    <3>1. j \in 1..(i - 1) - 1 + 1 /\ 1 + j - 1 = j /\ j <= Len(a)
      BY <1>1, <1>8, <2>1, <2>2
    <3> QED BY <1>4, <1>9, <2>2, <3>1
  <2>3. CASE ~(j < i)
    <3> DEFINE m == j - Len(a)
    <3>1. m \in 1..Len(q) - (i + 1) + 1 /\ i + 1 + m - 1 = j + 1 /\ ~(j <= Len(a))
      BY <1>1, <1>8, <2>1, <2>3
    <3>2. w[j] = b[m]
      BY <1>9, <3>1
    <3>3. b[m] = q[i + 1 + m - 1]
      BY <1>6, <3>1
    <3> HIDE DEF m
    <3> QED BY <2>3, <3>1, <3>2, <3>3
  <2> QED BY <2>2, <2>3
<1> QED BY <1>9, <1>10, <1>11

LEMMA InsertAtIs ==
  ASSUME NEW T, NEW s \in Seq(T), NEW e \in T, NEW i \in 1..Len(s) + 1
  PROVE  /\ InsertAt(s, i, e) \in Seq(T) /\ Len(InsertAt(s, i, e)) = Len(s) + 1
         /\ InsertAt(s, i, e)[i] = e
         /\ \A j \in 1..Len(s) + 1 : /\ j < i => InsertAt(s, i, e)[j] = s[j]
                                     /\ j > i => InsertAt(s, i, e)[j] = s[j - 1]
<1> DEFINE u == SubSeq(s, 1, i - 1)
           v == SubSeq(s, i, Len(s))
<1>1. Len(s) \in Nat /\ \A j \in 1..Len(s) : s[j] \in T
  BY LenProperties, ElementOfSeq
<1>2. u \in Seq(T) /\ Len(u) = i - 1 /\ \A j \in 1..i - 1 : u[j] = s[j]
  <2>1. 1 \in Int /\ i - 1 \in Int /\ \A j \in 1..i - 1 : s[j] \in T
    BY <1>1
  <2>2. /\ u \in Seq(T) /\ Len(u) = IF 1 <= i - 1 THEN (i - 1) - 1 + 1 ELSE 0
        /\ \A j \in 1..(i - 1) - 1 + 1 : u[j] = s[1 + j - 1]
    BY <2>1, SubSeqProperties
  <2> HIDE DEF u
  <2>3. Len(u) = i - 1
    BY <1>1, <2>2
  <2>4. ASSUME NEW j \in 1..i - 1 PROVE u[j] = s[j]
    <3>1. j \in 1..(i - 1) - 1 + 1 /\ 1 + j - 1 = j
      BY <1>1
    <3>2. u[j] = s[1 + j - 1]
      BY <2>2, <3>1
    <3> QED BY <3>1, <3>2
  <2> QED BY <2>2, <2>3, <2>4
<1>3. v \in Seq(T) /\ Len(v) = Len(s) - i + 1 /\ \A j \in 1..Len(s) - i + 1 : v[j] = s[i + j - 1]
  <2>1. i \in Int /\ Len(s) \in Int /\ \A j \in i..Len(s) : s[j] \in T
    BY <1>1
  <2>2. /\ v \in Seq(T) /\ Len(v) = IF i <= Len(s) THEN Len(s) - i + 1 ELSE 0
        /\ \A j \in 1..Len(s) - i + 1 : v[j] = s[i + j - 1]
    BY <2>1, SubSeqProperties
  <2> HIDE DEF v
  <2>3. Len(v) = Len(s) - i + 1
    BY <1>1, <2>2
  <2> QED BY <2>2, <2>3
<1>4. <<e>> \in Seq(T) /\ Len(<<e>>) = 1 /\ <<e>>[1] = e
  OBVIOUS
<1> DEFINE w == u \o <<e>>
           r == w \o v
<1>5. InsertAt(s, i, e) = r
  BY DEF InsertAt
<1> HIDE DEF u, v
<1>6. w \in Seq(T) /\ Len(w) = i /\ \A j \in 1..i - 1 : w[j] = s[j]
  <2>1. w \in Seq(T) /\ Len(w) = Len(u) + 1
    BY <1>2, <1>4, ConcatProperties
  <2>2. ASSUME NEW j \in 1..i - 1 PROVE w[j] = s[j]
    <3>1. j \in 1..Len(u) /\ j \in 1..Len(u) + Len(<<e>>) /\ j <= Len(u)
      BY <1>1, <1>2, <1>4
    <3>2. w[j] = u[j]
      BY <1>2, <1>4, <3>1, ConcatProperties
    <3> QED BY <1>2, <3>2
  <2> QED BY <1>1, <1>2, <2>1, <2>2
<1>7. w[i] = e
  <2>1. i \in 1..Len(u) + Len(<<e>>) /\ ~(i <= Len(u)) /\ i - Len(u) = 1
    BY <1>1, <1>2, <1>4
  <2>2. w[i] = <<e>>[i - Len(u)]
    BY <1>2, <1>4, <2>1, ConcatProperties
  <2> QED BY <1>4, <2>1, <2>2
<1> HIDE DEF w
<1>8. r \in Seq(T) /\ Len(r) = Len(s) + 1
  <2>1. r \in Seq(T) /\ Len(r) = Len(w) + Len(v)
    BY <1>3, <1>6, ConcatProperties
  <2> QED BY <1>1, <1>3, <1>6, <2>1
<1>9. \A j \in 1..i : r[j] = w[j]
  <2> SUFFICES ASSUME NEW j \in 1..i PROVE r[j] = w[j]
    OBVIOUS
  <2>1. j \in 1..Len(w) + Len(v) /\ j <= Len(w)
    BY <1>1, <1>3, <1>6
  <2> QED BY <1>3, <1>6, <2>1, ConcatProperties
<1>10. \A j \in i + 1..Len(s) + 1 : r[j] = s[j - 1]
  <2> SUFFICES ASSUME NEW j \in i + 1..Len(s) + 1 PROVE r[j] = s[j - 1]
    OBVIOUS
  <2>1. j \in 1..Len(w) + Len(v) /\ ~(j <= Len(w)) /\ j - Len(w) \in 1..Len(s) - i + 1
        /\ i + (j - Len(w)) - 1 = j - 1
    BY <1>1, <1>3, <1>6
  <2>2. r[j] = v[j - Len(w)]
    BY <1>3, <1>6, <2>1, ConcatProperties
  <2> QED BY <1>3, <2>1, <2>2
<1> HIDE DEF r
<1> QED
  <2>1. \A j \in 1..Len(s) + 1 : /\ j < i => j \in 1..i - 1 /\ j \in 1..i
                                 /\ j > i => j \in i + 1..Len(s) + 1
    BY <1>1
  <2>2. i \in 1..i
    BY <1>1
  <2> QED BY <1>5, <1>6, <1>7, <1>8, <1>9, <1>10, <2>1, <2>2

Nodes == SortItems \cup Lists

(* A sequence of nodes, each at most once. *)
Line(q) == q \in Seq(Nodes) /\ IsInjective(q)

LEMMA LineIs ==
  ASSUME NEW q \in Seq(Nodes)
  PROVE  /\ Len(q) \in Nat /\ DOMAIN q = 1..Len(q) /\ \A i \in 1..Len(q) : q[i] \in Nodes
         /\ ToSet(q) = {q[i] : i \in 1..Len(q)} /\ ToSet(q) \subseteq Nodes
         /\ IsInjective(q) <=> \A i, j \in 1..Len(q) : q[i] = q[j] => i = j
<1>1. Len(q) \in Nat /\ DOMAIN q = 1..Len(q) /\ \A i \in 1..Len(q) : q[i] \in Nodes
  BY LenProperties, ElementOfSeq
<1> HIDE DEF Nodes
<1>2. ToSet(q) = {q[i] : i \in 1..Len(q)}
  BY <1>1 DEF ToSet
<1>3. IsInjective(q) <=> \A i, j \in 1..Len(q) : q[i] = q[j] => i = j
  BY <1>1 DEF IsInjective
<1> QED BY <1>1, <1>2, <1>3

LEMMA AtIs ==
  ASSUME NEW q, Line(q), NEW n \in ToSet(q)
  PROVE  At(q, n) \in 1..Len(q) /\ q[At(q, n)] = n /\ \A i \in 1..Len(q) : q[i] = n => i = At(q, n)
<1>1. /\ DOMAIN q = 1..Len(q) /\ ToSet(q) = {q[i] : i \in 1..Len(q)}
      /\ \A i, j \in 1..Len(q) : q[i] = q[j] => i = j
  BY LineIs DEF Line
<1>2. \E i \in 1..Len(q) : q[i] = n
  BY <1>1
<1>3. At(q, n) = CHOOSE j \in 1..Len(q) : q[j] = n
  BY <1>1 DEF At
<1>4. At(q, n) \in 1..Len(q) /\ q[At(q, n)] = n
  BY <1>2, <1>3
<1> QED BY <1>1, <1>4

(* Without a node the others are still there. *)
LEMMA WithoutIs ==
  ASSUME NEW q, Line(q), NEW n, NEW r, r = Without(q, n)
  PROVE  Line(r) /\ ToSet(r) = ToSet(q) \ {n}
<1>1. /\ q \in Seq(Nodes) /\ Len(q) \in Nat /\ ToSet(q) = {q[i] : i \in 1..Len(q)}
      /\ \A i, j \in 1..Len(q) : q[i] = q[j] => i = j
  BY LineIs DEF Line
<1>2. CASE n \notin ToSet(q)
  <2>1. r = q
    BY <1>2 DEF Without
  <2> QED BY <1>2, <2>1
<1>3. CASE n \in ToSet(q)
  <2> DEFINE k == At(q, n)
  <2>1. k \in 1..Len(q) /\ q[k] = n /\ \A i \in 1..Len(q) : q[i] = n => i = k
    BY <1>3, AtIs
  <2>2. r = RemoveAt(q, k)
    BY <1>3 DEF Without
  <2> HIDE DEF k
  <2>3. /\ r \in Seq(Nodes) /\ Len(r) = Len(q) - 1
        /\ \A j \in 1..Len(r) : r[j] = IF j < k THEN q[j] ELSE q[j + 1]
    BY <1>1, <2>1, <2>2, RemoveAtIs, SMTT(30)
  <2>4. /\ ToSet(r) = {r[i] : i \in 1..Len(r)}
        /\ IsInjective(r) <=> \A i, j \in 1..Len(r) : r[i] = r[j] => i = j
    BY <2>3, LineIs
  <2>5. ASSUME NEW i \in 1..Len(r), NEW j \in 1..Len(r), r[i] = r[j] PROVE i = j
    <3> DEFINE a == IF i < k THEN i ELSE i + 1
               b == IF j < k THEN j ELSE j + 1
    <3>1. a \in 1..Len(q) /\ b \in 1..Len(q) /\ r[i] = q[a] /\ r[j] = q[b]
      BY <1>1, <2>1, <2>3
    <3>2. a = b
      BY <1>1, <2>5, <3>1
    <3> QED BY <1>1, <2>1, <2>3, <3>2
  <2>6. ASSUME NEW x \in ToSet(r) PROVE x \in ToSet(q) \ {n}
    <3>1. PICK i \in 1..Len(r) : x = r[i]
      BY <2>4
    <3> DEFINE a == IF i < k THEN i ELSE i + 1
    <3>2. a \in 1..Len(q) /\ r[i] = q[a] /\ a # k
      BY <1>1, <2>1, <2>3
    <3> HIDE DEF a
    <3> QED BY <1>1, <2>1, <3>1, <3>2
  <2>7. ASSUME NEW x \in ToSet(q), x # n PROVE x \in ToSet(r)
    <3>1. PICK i \in 1..Len(q) : x = q[i]
      BY <1>1
    <3> DEFINE a == IF i < k THEN i ELSE i - 1
    <3>2. i # k
      BY <2>1, <2>7, <3>1
    <3>3. a \in 1..Len(r) /\ r[a] = q[i]
      BY <1>1, <2>1, <2>3, <3>2
    <3> HIDE DEF a
    <3> QED BY <2>4, <3>1, <3>3
  <2> QED BY <2>3, <2>4, <2>5, <2>6, <2>7 DEF Line
<1> QED BY <1>2, <1>3

(* A node put at a place is there, and the others are still there. *)
LEMMA InsertedIs ==
  ASSUME NEW q, Line(q), NEW n \in Nodes \ ToSet(q), NEW k \in 1..Len(q) + 1,
         NEW r, r = InsertAt(q, k, n)
  PROVE  /\ Line(r) /\ ToSet(r) = ToSet(q) \cup {n}
         /\ Before(r, n) = IF k = 1 THEN NoNode ELSE q[k - 1]
<1>1. /\ q \in Seq(Nodes) /\ Len(q) \in Nat /\ ToSet(q) = {q[i] : i \in 1..Len(q)}
      /\ \A i, j \in 1..Len(q) : q[i] = q[j] => i = j
  BY LineIs DEF Line
<1>2. /\ r \in Seq(Nodes) /\ Len(r) = Len(q) + 1 /\ r[k] = n
      /\ \A j \in 1..Len(q) + 1 : /\ j < k => r[j] = q[j]
                                  /\ j > k => r[j] = q[j - 1]
  BY <1>1, InsertAtIs
<1>3. /\ ToSet(r) = {r[i] : i \in 1..Len(r)}
      /\ IsInjective(r) <=> \A i, j \in 1..Len(r) : r[i] = r[j] => i = j
  BY <1>2, LineIs
<1>4. \A i \in 1..Len(q) : q[i] # n
  BY <1>1
<1>5. ASSUME NEW i \in 1..Len(r), NEW j \in 1..Len(r), r[i] = r[j] PROVE i = j
  <2> DEFINE a == IF i < k THEN i ELSE i - 1
             b == IF j < k THEN j ELSE j - 1
  <2>1. i # k => a \in 1..Len(q) /\ r[i] = q[a]
    BY <1>1, <1>2
  <2>2. j # k => b \in 1..Len(q) /\ r[j] = q[b]
    BY <1>1, <1>2
  <2>3. CASE i = k \/ j = k
    BY <1>2, <1>4, <1>5, <2>1, <2>2, <2>3
  <2>4. CASE i # k /\ j # k
    <3>1. a = b
      BY <1>1, <1>5, <2>1, <2>2, <2>4
    <3> QED BY <1>1, <1>2, <2>4, <3>1
  <2> QED BY <2>3, <2>4
<1>6. ASSUME NEW x \in ToSet(r), x # n PROVE x \in ToSet(q)
  <2>1. PICK i \in 1..Len(r) : x = r[i]
    BY <1>3
  <2> DEFINE a == IF i < k THEN i ELSE i - 1
  <2>2. a \in 1..Len(q) /\ r[i] = q[a]
    BY <1>1, <1>2, <1>6, <2>1
  <2> HIDE DEF a
  <2> QED BY <1>1, <2>1, <2>2
<1>7. ASSUME NEW x \in ToSet(q) PROVE x \in ToSet(r)
  <2>1. PICK i \in 1..Len(q) : x = q[i]
    BY <1>1
  <2> DEFINE a == IF i < k THEN i ELSE i + 1
  <2>2. /\ a \in 1..Len(q) + 1 /\ (a < k => i = a) /\ (~(a < k) => a > k /\ i = a - 1)
    BY <1>1
  <2> HIDE DEF a
  <2>3. a \in 1..Len(r) /\ r[a] = q[i]
    BY <1>2, <2>2
  <2> QED BY <1>3, <2>1, <2>3
<1>8. n \in ToSet(r)
  BY <1>1, <1>2, <1>3
<1>9. Line(r) /\ ToSet(r) = ToSet(q) \cup {n}
  BY <1>2, <1>3, <1>5, <1>6, <1>7, <1>8 DEF Line
<1>10. At(r, n) = k
  <2>1. k \in 1..Len(r)
    BY <1>1, <1>2
  <2> QED BY <1>2, <1>8, <1>9, <2>1, AtIs
<1>11. Before(r, n) = IF k = 1 THEN NoNode ELSE r[k - 1]
  BY <1>10 DEF Before
<1>12. ASSUME k # 1 PROVE r[k - 1] = q[k - 1]
  <2>1. k - 1 \in 1..Len(q) + 1 /\ k - 1 < k
    BY <1>1, <1>12
  <2> QED BY <1>2, <2>1
<1> QED BY <1>9, <1>11, <1>12

(* A document: every node is in one list at most, and there once. *)
Doc(lists) ==
  /\ lists \in [Lists -> Seq(Nodes)] /\ \A l \in Lists : IsInjective(lists[l])
  /\ \A l, k \in Lists : l # k => ToSet(lists[l]) \cap ToSet(lists[k]) = {}

Lost(lists, n, r) ==
  Doc(r) /\ \A l \in Lists : ToSet(r[l]) = ToSet(lists[l]) \ {n}

PutInto(lists, l, n, r) ==
  /\ Doc(r) /\ ToSet(r[l]) = ToSet(lists[l]) \cup {n}
  /\ \A k \in Lists : k # l => ToSet(r[k]) = ToSet(lists[k]) \ {n}

PutAt(lists, l, n, i, r) ==
  /\ PutInto(lists, l, n, r)
  /\ Before(r[l], n) = IF i = 1 THEN NoNode ELSE Taken(lists, n)[l][i - 1]

LEMMA DocIs ==
  ASSUME NEW lists, Doc(lists), NEW l \in Lists
  PROVE  Line(lists[l]) /\ ToSet(lists[l]) \subseteq Nodes
<1>1. lists[l] \in Seq(Nodes)
  <2> DEFINE S == Seq(Nodes)
  <2>1. lists \in [Lists -> S]
    BY DEF Doc
  <2> HIDE DEF S
  <2>2. lists[l] \in S
    BY <2>1
  <2> QED BY <2>2 DEF S
<1> QED BY <1>1, LineIs DEF Doc, Line

LEMMA PlaceIs ==
  ASSUME NEW lists, Doc(lists), NEW l \in Lists, NEW n \in ToSet(lists[l])
  PROVE  Place(lists, n) = l
BY DEF Doc, Place

LEMMA TakenIs ==
  ASSUME NEW lists, Doc(lists), NEW n, NEW r, r = Taken(lists, n)
  PROVE  Lost(lists, n, r)
<1>1. \A l \in Lists : r[l] = Without(lists[l], n)
  BY DEF Taken
<1>2. \A l \in Lists : Line(r[l]) /\ ToSet(r[l]) = ToSet(lists[l]) \ {n}
  BY <1>1, DocIs, WithoutIs
<1>3. r \in [Lists -> Seq(Nodes)]
  <2> DEFINE S == Seq(Nodes)
  <2>1. \A l \in Lists : r[l] \in S
    BY <1>2 DEF Line
  <2> HIDE DEF S
  <2>2. r \in [Lists -> S]
    BY <2>1 DEF Taken
  <2> QED BY <2>2 DEF S
<1>4. \A l, k \in Lists : l # k => ToSet(r[l]) \cap ToSet(r[k]) = {}
  BY <1>2 DEF Doc
<1>5. \A l \in Lists : IsInjective(r[l])
  BY <1>2 DEF Line
<1> QED BY <1>2, <1>3, <1>4, <1>5 DEF Lost, Doc

(* A node put into a list, at any place, is in that list and in no other. *)
LEMMA PutIs ==
  ASSUME NEW lists, Doc(lists), NEW l \in Lists, NEW n \in Nodes,
         NEW q, q = Taken(lists, n)[l], NEW i \in 1..Len(q) + 1,
         NEW r, r = [Taken(lists, n) EXCEPT ![l] = InsertAt(@, i, n)]
  PROVE  PutAt(lists, l, n, i, r)
<1> DEFINE t == Taken(lists, n)
<1>1. Lost(lists, n, t)
  BY TakenIs
<1>2. Doc(t) /\ Line(q) /\ n \notin ToSet(q)
  BY <1>1, DocIs DEF Lost
<1>3. t \in [Lists -> Seq(Nodes)] /\ q = t[l] /\ r = [t EXCEPT ![l] = InsertAt(q, i, n)]
  BY <1>2 DEF Doc
<1> DEFINE p == InsertAt(q, i, n)
<1>4. Line(p) /\ ToSet(p) = ToSet(q) \cup {n} /\ Before(p, n) = IF i = 1 THEN NoNode ELSE q[i - 1]
  BY <1>2, InsertedIs
<1> HIDE DEF p, t
<1>5. r \in [Lists -> Seq(Nodes)] /\ r[l] = p /\ \A k \in Lists : k # l => r[k] = t[k]
  <2> DEFINE S == Seq(Nodes)
  <2>1. t \in [Lists -> S] /\ r = [t EXCEPT ![l] = p] /\ p \in S
    BY <1>3, <1>4 DEF p, Line
  <2> HIDE DEF S
  <2>2. r \in [Lists -> S] /\ r[l] = p /\ \A k \in Lists : k # l => r[k] = t[k]
    BY <2>1
  <2> QED BY <2>2 DEF S
<1>6. /\ ToSet(r[l]) = ToSet(lists[l]) \cup {n}
      /\ \A k \in Lists : k # l => ToSet(r[k]) = ToSet(lists[k]) \ {n}
  BY <1>1, <1>3, <1>4, <1>5 DEF Lost
<1>7. Doc(r)
  <2>1. \A k \in Lists : IsInjective(r[k])
    BY <1>2, <1>4, <1>5 DEF Doc, Line
  <2>2. \A m, k \in Lists : m # k => ToSet(r[m]) \cap ToSet(r[k]) = {}
    BY <1>6 DEF Doc
  <2> QED BY <1>5, <2>1, <2>2 DEF Doc
<1>8. Before(r[l], n) = IF i = 1 THEN NoNode ELSE q[i - 1]
  BY <1>4, <1>5
<1> QED BY <1>6, <1>7, <1>8 DEF PutInto, PutAt

LEMMA NoNodeIs == NoNode \notin Nodes
<1>1. SortItems \cap 0..ListCount = {} /\ ListCount \in Nat
  BY SortableAssumption
<1>2. 0 \in 0..ListCount /\ 0 \notin 1..ListCount
  BY <1>1
<1> QED BY ONLY <1>1, <1>2 DEF NoNode, Nodes, Lists

LEMMA PutBeforeIs ==
  ASSUME NEW lists, Doc(lists), NEW l \in Lists, NEW n \in Nodes,
         NEW at, at = NoNode \/ at \in ToSet(lists[l]) \ {n},
         NEW r, r = PutBefore(lists, l, n, at)
  PROVE  PutInto(lists, l, n, r)
<1> DEFINE q == Taken(lists, n)[l]
           i == IF at = NoNode THEN Len(q) + 1 ELSE At(q, at)
<1>1. Line(q) /\ ToSet(q) = ToSet(lists[l]) \ {n}
  BY TakenIs, DocIs DEF Lost
<1>2. Len(q) \in Nat
  BY <1>1, LineIs DEF Line
<1>3. i \in 1..Len(q) + 1
  <2>1. CASE at = NoNode
    BY <1>2, <2>1
  <2>2. CASE at # NoNode
    <3>1. At(q, at) \in 1..Len(q)
      BY <1>1, <2>2, AtIs
    <3> QED BY <1>2, <2>2, <3>1
  <2> QED BY <2>1, <2>2
<1>4. r = [Taken(lists, n) EXCEPT ![l] = InsertAt(@, i, n)]
  <2>1. Taken(lists, n) \in [Lists -> Seq(Nodes)]
    BY TakenIs DEF Lost, Doc
  <2> QED BY <2>1 DEF PutBefore
<1> HIDE DEF i
<1> QED BY <1>3, <1>4, PutIs DEF PutAt

LEMMA PutAfterIs ==
  ASSUME NEW lists, Doc(lists), NEW l \in Lists, NEW n \in Nodes,
         NEW at, at = NoNode \/ at \in ToSet(lists[l]) \ {n},
         NEW r, r = PutAfter(lists, l, n, at)
  PROVE  PutInto(lists, l, n, r) /\ Before(r[l], n) = at
<1> DEFINE q == Taken(lists, n)[l]
           i == IF at = NoNode THEN 1 ELSE At(q, at) + 1
<1>1. Line(q) /\ ToSet(q) = ToSet(lists[l]) \ {n}
  BY TakenIs, DocIs DEF Lost
<1>2. Len(q) \in Nat
  BY <1>1, LineIs DEF Line
<1>3. i \in 1..Len(q) + 1 /\ (IF i = 1 THEN NoNode ELSE q[i - 1]) = at
  <2>1. CASE at = NoNode
    BY <1>2, <2>1
  <2>2. CASE at # NoNode
    <3>1. At(q, at) \in 1..Len(q) /\ q[At(q, at)] = at
      BY <1>1, <2>2, AtIs
    <3> DEFINE a == At(q, at)
    <3> HIDE DEF a
    <3>2. i = a + 1 /\ a \in 1..Len(q) /\ q[a] = at
      BY <2>2, <3>1 DEF a
    <3> QED BY <1>2, <3>2
  <2> QED BY <2>1, <2>2
<1>4. r = [Taken(lists, n) EXCEPT ![l] = InsertAt(@, i, n)]
  <2>1. Taken(lists, n) \in [Lists -> Seq(Nodes)]
    BY TakenIs DEF Lost, Doc
  <2> QED BY <2>1 DEF PutAfter
<1> HIDE DEF i
<1>5. i \in 1..Len(q) + 1
  BY <1>3
<1>6. PutAt(lists, l, n, i, r)
  BY <1>4, <1>5, PutIs
<1> QED BY <1>3, <1>6 DEF PutAt

-------------------------------------------------------------------------------

LEMMA BeforeIs ==
  ASSUME NEW q, Line(q), NEW n \in ToSet(q)
  PROVE  Before(q, n) = NoNode \/ Before(q, n) \in ToSet(q) \ {n}
<1> DEFINE a == At(q, n)
<1>1. a \in 1..Len(q) /\ q[a] = n /\ \A i \in 1..Len(q) : q[i] = n => i = a
  BY AtIs
<1>2. Len(q) \in Nat /\ ToSet(q) = {q[i] : i \in 1..Len(q)}
  BY LineIs DEF Line
<1>3. Before(q, n) = IF a = 1 THEN NoNode ELSE q[a - 1]
  BY DEF Before
<1> HIDE DEF a
<1>4. CASE a # 1
  <2>1. a - 1 \in 1..Len(q) /\ a - 1 # a
    BY <1>1, <1>2, <1>4
  <2> QED BY <1>1, <1>2, <1>3, <1>4, <2>1
<1> QED BY <1>3, <1>4

(* Nodes out of X are where they were. *)
Stay(lists, ls, X) ==
  \A x \in Nodes \ X, l \in Lists : x \in ToSet(ls[l]) <=> x \in ToSet(lists[l])

LEMMA PutStay ==
  ASSUME NEW lists, NEW l \in Lists, NEW n, NEW ls, PutInto(lists, l, n, ls)
  PROVE  Stay(lists, ls, {n}) /\ \A k \in Lists : n \in ToSet(ls[k]) <=> k = l
<1>1. \A k \in Lists : k # l => n \notin ToSet(ls[k])
  BY DEF PutInto
<1>2. n \in ToSet(ls[l])
  BY DEF PutInto
<1>3. Stay(lists, ls, {n})
  BY DEF PutInto, Stay
<1> QED BY <1>1, <1>2, <1>3

LEMMA LostStay ==
  ASSUME NEW lists, NEW n, NEW ls, Lost(lists, n, ls)
  PROVE  Stay(lists, ls, {n}) /\ ~IsPlaced(ls, n)
BY DEF Lost, Stay, IsPlaced

-------------------------------------------------------------------------------
(* The lists and their widgets.                                            *)

SortWidgets ==
  [item : SortItems \cup {NoNode}, prev : Nodes \cup {NoNode}, home : Lists, container : Lists,
   helper : BOOLEAN, dragging : BOOLEAN, reverting : BOOLEAN, started : BOOLEAN, glides : Nat]

SortIs(s, ls, f, o, t) == s = [lists |-> ls, of |-> f, over |-> o, told |-> t]

SortState(s) ==
  /\ SortIs(s, s.lists, s.of, s.over, s.told)
  /\ Doc(s.lists) /\ s.of \in [Lists -> SortWidgets] /\ s.over \subseteq Lists
  /\ s.told \in [Lists -> SUBSET SortItems]

(* The placeholder is there while the item is dragged, which stays where   *)
(* it was, as does the item it was behind.                                 *)
Fits(lists, w, m) ==
  /\ m.home = w /\ (m.helper <=> m.dragging)
  /\ m.dragging => m.item \in ToSet(lists[w]) /\ w \in ToSet(lists[m.container])
  /\ ~m.dragging => ~IsPlaced(lists, w)
  /\ m.reverting => ~m.started
  /\ m.dragging \/ m.reverting \/ m.started => m.item \in SortItems
  /\ m.item \in SortItems => m.prev # m.item
  /\ m.dragging /\ m.prev \in SortItems => m.prev \in ToSet(lists[w])

AllPlaced(lists) == \A item \in SortItems : IsPlaced(lists, item)
ToldAll(s) == \A l \in Lists : s.told[l] = ToSet(s.lists[l]) \cap SortItems

SortFits(s) ==
  /\ SortState(s) /\ AllPlaced(s.lists) /\ ToldAll(s)
  /\ \A w \in Lists : Fits(s.lists, w, s.of[w])

(* A drag goes on with the mouse or in an animation. *)
GoesWith(s) == \A w \in Lists : s.of[w].dragging => s.of[w].started \/ s.of[w].reverting

SortOK == SortFits(sort) /\ GoesWith(sort)

(* Nobody else is dragging the item, or one that was behind it. *)
Free(s, w, item) ==
  \A v \in Lists : v # w /\ s.of[v].dragging => s.of[v].item # item /\ s.of[v].prev # item

(* One widget has changed, and perhaps all that there is but one of. *)
Became(s, r, w, m) ==
  SortState(r) /\ r.of[w] = m /\ \A v \in Lists : v # w => r.of[v] = s.of[v]

LEMMA BecameIs ==
  ASSUME NEW s, SortState(s), NEW w \in Lists, NEW m \in SortWidgets, NEW ls, Doc(ls),
         NEW o, o \subseteq Lists, NEW t \in [Lists -> SUBSET SortItems],
         NEW r, SortIs(r, ls, [s.of EXCEPT ![w] = m], o, t)
  PROVE  Became(s, r, w, m) /\ r.lists = ls /\ r.over = o /\ r.told = t
<1>1. r.lists = ls /\ r.of = [s.of EXCEPT ![w] = m] /\ r.over = o /\ r.told = t
  BY DEF SortIs
<1>2. SortIs(r, r.lists, r.of, r.over, r.told)
  BY <1>1 DEF SortIs
<1>3. /\ r.of \in [Lists -> SortWidgets] /\ r.of[w] = m
      /\ \A v \in Lists : v # w => r.of[v] = s.of[v]
  <2>1. s.of \in [Lists -> SortWidgets]
    BY DEF SortState
  <2> QED BY ONLY <1>1, <2>1, w \in Lists, m \in SortWidgets
<1> QED BY <1>1, <1>2, <1>3 DEF Became, SortState

LEMMA WidgetIs ==
  ASSUME NEW s, SortState(s), NEW w \in Lists
  PROVE  /\ s.of[w] \in SortWidgets
         /\ s.of[w].item \in SortItems \cup {NoNode} /\ s.of[w].prev \in Nodes \cup {NoNode}
         /\ s.of[w].home \in Lists /\ s.of[w].container \in Lists /\ s.of[w].helper \in BOOLEAN
         /\ s.of[w].dragging \in BOOLEAN /\ s.of[w].reverting \in BOOLEAN
         /\ s.of[w].started \in BOOLEAN /\ s.of[w].glides \in Nat
<1>1. s.of[w] \in SortWidgets
  BY DEF SortState
<1> QED BY <1>1 DEF SortWidgets

LEMMA SortNodesAre == SortItems \subseteq Nodes /\ Lists \subseteq Nodes /\ SortItems \cap Lists = {}
<1>1. SortItems \cap 0..ListCount = {} /\ 1..ListCount \subseteq 0..ListCount
  BY SortableAssumption
<1> QED BY ONLY <1>1 DEF Nodes, Lists

(* What does not touch a widget's nodes leaves it fitting. *)
LEMMA FitsStill ==
  ASSUME NEW s, SortState(s), NEW ls, NEW X, Stay(s.lists, ls, X), NEW v \in Lists \ X,
         Fits(s.lists, v, s.of[v]),
         s.of[v].dragging => s.of[v].item \notin X /\ s.of[v].prev \notin X
  PROVE  Fits(ls, v, s.of[v])
<1> DEFINE m == s.of[v]
<1>1. /\ m.item \in SortItems \cup {NoNode} /\ m.prev \in Nodes \cup {NoNode}
      /\ m.container \in Lists /\ v \in Nodes /\ SortItems \subseteq Nodes
  BY WidgetIs, SortNodesAre
<1>2. \A l \in Lists : v \in ToSet(ls[l]) <=> v \in ToSet(s.lists[l])
  BY <1>1 DEF Stay
<1> HIDE DEF m
<1>3. Fits(s.lists, v, m) /\ (m.dragging => m.item \notin X /\ m.prev \notin X)
  BY DEF m
<1>4. m.dragging => m.item \in SortItems /\ m.item \in ToSet(ls[v]) /\ v \in ToSet(ls[m.container])
  BY <1>1, <1>2, <1>3 DEF Fits, Stay
<1>5. m.dragging /\ m.prev \in SortItems => m.prev \in ToSet(ls[v])
  BY <1>1, <1>3 DEF Fits, Stay
<1>6. ~m.dragging => ~IsPlaced(ls, v)
  BY <1>2, <1>3 DEF Fits, IsPlaced
<1> QED BY <1>3, <1>4, <1>5, <1>6 DEF Fits, m

LEMMA DragIsFree ==
  ASSUME NEW s, SortFits(s), NEW w \in Lists, s.of[w].dragging
  PROVE  Free(s, w, s.of[w].item)
<1>1. s.of[w].item \in ToSet(s.lists[w]) /\ s.of[w].item \in SortItems
  BY DEF SortFits, Fits
<1>2. ASSUME NEW v \in Lists, v # w, s.of[v].dragging
      PROVE  s.of[v].item # s.of[w].item /\ s.of[v].prev # s.of[w].item
  <2>1. s.of[w].item \notin ToSet(s.lists[v])
    BY <1>1, <1>2 DEF SortFits, SortState, Doc
  <2>2. /\ s.of[v].item \in ToSet(s.lists[v])
        /\ s.of[v].prev \in SortItems => s.of[v].prev \in ToSet(s.lists[v])
    BY <1>2 DEF SortFits, Fits
  <2> QED BY <1>1, <2>1, <2>2
<1> QED BY <1>2 DEF Free

-------------------------------------------------------------------------------
(* The placeholder moves.                                                  *)

(* Only the placeholder of w has moved, into list c. *)
Slid(s, r, w, c) ==
  /\ SortFits(r) /\ r.of[w].dragging /\ r.of[w].container = c
  /\ r.of[w].started = s.of[w].started /\ r.of[w].reverting = s.of[w].reverting
  /\ r.of[w].item = s.of[w].item
  /\ \A v \in Lists : v # w => r.of[v] = s.of[v]

LEMMA PlaceholderKeeps ==
  ASSUME NEW s, SortFits(s), NEW w \in Lists, s.of[w].dragging, NEW c \in Lists,
         NEW ls, PutInto(s.lists, c, w, ls), NEW o, o \subseteq Lists,
         NEW r, SortIs(r, ls, [s.of EXCEPT ![w] = [s.of[w] EXCEPT !.container = c]], o, s.told)
  PROVE  Slid(s, r, w, c)
<1> DEFINE m == [s.of[w] EXCEPT !.container = c]
<1>1. SortState(s) /\ Fits(s.lists, w, s.of[w])
  BY DEF SortFits
<1>2. s.of[w] \in SortWidgets /\ s.of[w].item \in SortItems \cup {NoNode} /\ s.of[w].prev \in Nodes \cup {NoNode}
  BY <1>1, WidgetIs
<1>3. /\ m \in SortWidgets /\ m.item = s.of[w].item /\ m.prev = s.of[w].prev
      /\ m.home = s.of[w].home /\ m.helper = s.of[w].helper /\ m.dragging = s.of[w].dragging
      /\ m.reverting = s.of[w].reverting /\ m.started = s.of[w].started /\ m.container = c
  BY <1>2 DEF SortWidgets
<1> HIDE DEF m
<1>4. Doc(ls) /\ s.told \in [Lists -> SUBSET SortItems]
  BY <1>1 DEF PutInto, SortState
<1>5. SortIs(r, ls, [s.of EXCEPT ![w] = m], o, s.told)
  BY DEF m
<1>6. Became(s, r, w, m) /\ r.lists = ls /\ r.over = o /\ r.told = s.told
  BY <1>1, <1>3, <1>4, <1>5, BecameIs
<1>7. Stay(s.lists, ls, {w}) /\ \A k \in Lists : w \in ToSet(ls[k]) <=> k = c
  BY PutStay
<1>8. Fits(ls, w, m)
  <2>1. m.item \in Nodes \ {w} /\ m.item \in SortItems
    BY <1>1, <1>3, SortNodesAre DEF Fits
  <2>2. m.prev \in SortItems => m.prev \in Nodes \ {w}
    BY SortNodesAre
  <2> QED BY <1>1, <1>3, <1>7, <2>1, <2>2 DEF Fits, Stay
<1>9. ASSUME NEW v \in Lists, v # w PROVE Fits(ls, v, r.of[v])
  <2>1. Fits(s.lists, v, s.of[v]) /\ r.of[v] = s.of[v]
    BY <1>6, <1>9 DEF SortFits, Became
  <2>2. CASE s.of[v].dragging /\ s.of[v].prev = w
    <3>1. s.of[v].item \in SortItems /\ s.of[v].item \in Nodes \ {w} /\ w \notin SortItems /\ v \in Nodes \ {w}
      BY <1>9, <2>1, <2>2, SortNodesAre DEF Fits
    <3>2. s.of[v].container \in Lists
      BY <1>1, WidgetIs
    <3> QED BY <1>7, <2>1, <2>2, <3>1, <3>2 DEF Fits, Stay
  <2>3. CASE s.of[v].dragging => s.of[v].prev # w
    <3>1. s.of[v].dragging => s.of[v].item # w
      BY <2>1, SortNodesAre DEF Fits
    <3> QED BY <1>1, <1>7, <1>9, <2>1, <2>3, <3>1, FitsStill
  <2> QED BY <2>2, <2>3
<1>10. AllPlaced(ls)
  BY <1>7, SortNodesAre DEF SortFits, AllPlaced, IsPlaced, Stay
<1>11. ToldAll(r)
  BY <1>6, <1>7, SortNodesAre DEF SortFits, ToldAll, Stay
<1> QED BY <1>1, <1>3, <1>6, <1>8, <1>9, <1>10, <1>11 DEF Slid, SortFits, Became

(* Near an item of the list, or at the end. *)
LEMMA RearrangedKeeps ==
  ASSUME NEW s, SortState(s), NEW w \in Lists, NEW l \in Lists,
         NEW near, near = NoNode \/ near \in Neighbours(s, w, l), NEW after \in BOOLEAN,
         NEW r, r = Rearranged(s, w, l, near, after)
  PROVE  SortIs(r, r.lists, s.of, s.over, s.told) /\ PutInto(s.lists, l, w, r.lists)
<1>1. Doc(s.lists) /\ SortIs(s, s.lists, s.of, s.over, s.told)
  BY DEF SortState
<1>2. near = NoNode \/ near \in ToSet(s.lists[l]) \ {w}
  BY SortNodesAre DEF Neighbours
<1>3. w \in Nodes
  BY SortNodesAre
<1>4. r = [s EXCEPT !.lists = IF after THEN PutAfter(s.lists, l, w, near)
                              ELSE PutBefore(s.lists, l, w, near)]
  BY DEF Rearranged
<1>5. SortIs(r, IF after THEN PutAfter(s.lists, l, w, near) ELSE PutBefore(s.lists, l, w, near),
             s.of, s.over, s.told)
  BY <1>1, <1>4 DEF SortIs
<1>6. r.lists = IF after THEN PutAfter(s.lists, l, w, near) ELSE PutBefore(s.lists, l, w, near)
  BY <1>5 DEF SortIs
<1>7. CASE after
  BY <1>1, <1>2, <1>3, <1>5, <1>6, <1>7, PutAfterIs
<1>8. CASE ~after
  BY <1>1, <1>2, <1>3, <1>5, <1>6, <1>8, PutBeforeIs
<1> QED BY <1>7, <1>8

(* Staying in its container, or going into another. *)
LEMMA SortIsOf ==
  ASSUME NEW s, SortState(s), NEW w \in Lists
  PROVE  [s.of EXCEPT ![w] = [s.of[w] EXCEPT !.container = s.of[w].container]] = s.of
<1>1. s.of \in [Lists -> SortWidgets] /\ s.of[w] \in SortWidgets
  BY DEF SortState
<1>2. [s.of[w] EXCEPT !.container = s.of[w].container] = s.of[w]
  BY <1>1 DEF SortWidgets
<1> QED BY <1>1, <1>2

LEMMA ContactKeeps ==
  ASSUME NEW s, SortFits(s), NEW w \in Lists, s.of[w].dragging, NEW c \in Lists \cup {NoNode},
         NEW near, near = NoNode \/ (c # NoNode /\ near \in Neighbours(s, w, c)),
         NEW after \in BOOLEAN, NEW r, r = contact(s, w, c, near, after)
  PROVE  \E d \in Lists : Slid(s, r, w, d)
<1> DEFINE m == s.of[w]
<1>1. SortState(s) /\ SortIs(s, s.lists, s.of, s.over, s.told) /\ m.container \in Lists
  BY WidgetIs DEF SortFits, SortState
<1>2. Doc(s.lists) /\ w \in ToSet(s.lists[m.container])
  BY DEF SortFits, SortState, Fits
<1>3. PutInto(s.lists, m.container, w, s.lists)
  BY <1>1, <1>2 DEF PutInto, Doc
<1>4. [s.of EXCEPT ![w] = [s.of[w] EXCEPT !.container = m.container]] = s.of
  BY <1>1, SortIsOf
<1>5. c \in Lists => c # NoNode
  BY NoNodeIs, SortNodesAre
<1>6. CASE c = NoNode
  <2>1. r = [s EXCEPT !.over = {}]
    BY <1>1, <1>5, <1>6 DEF contact
  <2>2. SortIs(r, s.lists, s.of, {}, s.told)
    BY <1>1, <2>1 DEF SortIs
  <2>3. Slid(s, r, w, m.container)
    BY <1>1, <1>3, <1>4, <2>2, PlaceholderKeeps
  <2> QED BY <1>1, <2>3
<1>7. CASE c # NoNode /\ c = m.container
  <2>1. r = [s EXCEPT !.over = {c}]
    BY <1>7 DEF contact
  <2>2. SortIs(r, s.lists, s.of, {c}, s.told) /\ {c} \subseteq Lists
    BY <1>1, <1>7, <2>1 DEF SortIs
  <2>3. Slid(s, r, w, m.container)
    BY <1>1, <1>3, <1>4, <2>2, PlaceholderKeeps
  <2> QED BY <1>1, <2>3
<1>8. CASE c # NoNode /\ c # m.container
  <2> DEFINE p == Rearranged(s, w, c, near, after)
  <2>1. r = [p EXCEPT !.over = {c}, !.of[w].container = c]
    BY <1>8 DEF contact
  <2>2. SortIs(p, p.lists, s.of, s.over, s.told) /\ PutInto(s.lists, c, w, p.lists) /\ c \in Lists
    BY <1>1, <1>8, RearrangedKeeps
  <2> HIDE DEF p
  <2>3. SortIs(r, p.lists, [s.of EXCEPT ![w] = [s.of[w] EXCEPT !.container = c]], {c}, s.told)
    <3>1. p.of = s.of /\ p.over = s.over /\ p.told = s.told
      BY <2>2 DEF SortIs
    <3>2. p = [lists |-> p.lists, of |-> s.of, over |-> s.over, told |-> s.told]
      BY <2>2 DEF SortIs
    <3>3. r = [lists |-> p.lists, of |-> [s.of EXCEPT ![w].container = c], over |-> {c}, told |-> s.told]
      BY ONLY <2>1, <3>1, <3>2
    <3> QED BY ONLY <3>3 DEF SortIs
  <2>4. {c} \subseteq Lists
    BY <2>2
  <2>5. Slid(s, r, w, c)
    BY <2>2, <2>3, <2>4, PlaceholderKeeps
  <2> QED BY <2>2, <2>5
<1> QED BY <1>6, <1>7, <1>8

LEMMA DraggedKeeps ==
  ASSUME NEW s, SortFits(s), NEW w \in Lists, s.of[w].dragging, NEW r \in Dragged(s, w)
  PROVE  \E c \in Lists : Slid(s, r, w, c)
<1> DEFINE here == s.of[w].container
<1>1. \E m \in Moved(s, w), c \in Lists \cup {NoNode} :
        \E x \in Entries(m, w, c) : r = contact(m, w, c, x[1], x[2])
  BY DEF Dragged
<1>2. PICK m \in Moved(s, w), c \in Lists \cup {NoNode} :
        \E x \in Entries(m, w, c) : r = contact(m, w, c, x[1], x[2])
  BY <1>1
<1>3. PICK x \in Entries(m, w, c) : r = contact(m, w, c, x[1], x[2])
  BY <1>2
<1>4. (x[1] = NoNode \/ (c # NoNode /\ x[1] \in Neighbours(m, w, c))) /\ x[2] \in BOOLEAN
  <2>1. CASE c = NoNode \/ Neighbours(m, w, c) = {}
    <3>1. x = <<NoNode, FALSE>>
      BY <1>3, <2>1 DEF Entries
    <3> QED BY <3>1
  <2>2. CASE ~(c = NoNode \/ Neighbours(m, w, c) = {})
    <3>1. x \in Neighbours(m, w, c) \X BOOLEAN
      BY <1>3, <2>2 DEF Entries
    <3> QED BY <2>2, <3>1
  <2> QED BY <2>1, <2>2
<1>5. SortState(s) /\ here \in Lists
  BY WidgetIs DEF SortFits
<1>6. m = s \/ Slid(s, m, w, here)
  <2>1. CASE m # s
    <3>1. PICK y \in Neighbours(s, w, here), after \in BOOLEAN : m = Rearranged(s, w, here, y, after)
      BY <1>2, <2>1 DEF Moved
    <3>2. SortIs(m, m.lists, s.of, s.over, s.told) /\ PutInto(s.lists, here, w, m.lists)
      BY <1>5, <3>1, RearrangedKeeps
    <3>3. [s.of EXCEPT ![w] = [s.of[w] EXCEPT !.container = here]] = s.of /\ s.over \subseteq Lists
      BY <1>5, SortIsOf DEF SortState
    <3> QED BY <1>5, <3>2, <3>3, PlaceholderKeeps
  <2> QED BY <2>1
<1>7. SortFits(m) /\ m.of[w].dragging
  BY <1>6 DEF Slid
<1>8. PICK d \in Lists : Slid(m, r, w, d)
  BY <1>3, <1>4, <1>7, ContactKeeps
<1>9. Slid(s, r, w, d)
  BY <1>6, <1>8 DEF Slid
<1> QED BY <1>9

-------------------------------------------------------------------------------
(* A sort begins and ends.                                                 *)

LEMMA BeginKeeps ==
  ASSUME NEW s, SortFits(s), GoesWith(s), NEW w \in Lists, NEW item \in SortItems,
         item \in ToSet(s.lists[w]), ~s.of[w].reverting, ~s.of[w].started,
         NEW r, r = begin(s, w, item)
  PROVE  SortFits(r) /\ GoesWith(r) /\ r.of[w].dragging
<1> DEFINE m == [s.of[w] EXCEPT !.item = item, !.prev = Before(s.lists[w], item), !.home = w,
                                !.container = w, !.helper = TRUE, !.dragging = TRUE, !.started = TRUE]
           ls == PutAfter(s.lists, w, w, item)
           p == Before(s.lists[w], item)
<1>1. SortState(s) /\ Doc(s.lists) /\ SortIs(s, s.lists, s.of, s.over, s.told)
  BY DEF SortFits, SortState
<1>2. ~s.of[w].dragging /\ ~IsPlaced(s.lists, w)
  BY DEF SortFits, Fits, GoesWith
<1>3. w \in Nodes /\ item \in ToSet(s.lists[w]) \ {w}
  BY SortNodesAre
<1>4. PutInto(s.lists, w, w, ls)
  BY <1>1, <1>3, PutAfterIs
<1>5. p = NoNode \/ p \in ToSet(s.lists[w]) \ {item}
  BY <1>1, DocIs, BeforeIs
<1>6. s.of[w] \in SortWidgets /\ ToSet(s.lists[w]) \subseteq Nodes
  BY <1>1, WidgetIs, DocIs
<1> HIDE DEF p
<1>7. m \in SortWidgets /\ m.item = item /\ m.prev = p /\ m.home = w /\ m.container = w /\ m.helper
      /\ m.dragging /\ m.started /\ ~m.reverting
  BY <1>5, <1>6 DEF SortWidgets, p
<1>8. r = [s EXCEPT !.lists = ls, !.of[w] = m]
  BY DEF begin
<1> HIDE DEF m, ls
<1>9. SortIs(r, ls, [s.of EXCEPT ![w] = m], s.over, s.told)
  BY ONLY <1>1, <1>8 DEF SortIs
<1>10. Doc(ls) /\ s.over \subseteq Lists /\ s.told \in [Lists -> SUBSET SortItems]
  BY <1>1, <1>4 DEF PutInto, SortState
<1>11. Became(s, r, w, m) /\ r.lists = ls /\ r.told = s.told
  BY <1>1, <1>7, <1>9, <1>10, BecameIs
<1>12. Stay(s.lists, ls, {w}) /\ \A k \in Lists : w \in ToSet(ls[k]) <=> k = w
  BY <1>4, PutStay
<1>13. Fits(ls, w, m)
  <2>1. item \in Nodes \ {w} /\ item \in ToSet(ls[w])
    BY <1>3, <1>12, SortNodesAre DEF Stay
  <2>2. p \in SortItems => p \in ToSet(ls[w]) /\ p # item
    BY <1>5, <1>12, NoNodeIs, SortNodesAre DEF Stay
  <2>3. NoNode # item
    BY NoNodeIs, SortNodesAre
  <2> QED BY <1>5, <1>7, <1>12, <2>1, <2>2, <2>3 DEF Fits
<1>14. ASSUME NEW v \in Lists, v # w PROVE Fits(ls, v, r.of[v])
  <2>1. Fits(s.lists, v, s.of[v]) /\ r.of[v] = s.of[v]
    BY <1>11, <1>14 DEF SortFits, Became
  <2>2. CASE s.of[v].dragging /\ s.of[v].prev = w
    <3>1. s.of[v].item \in Nodes \ {w} /\ w \notin SortItems /\ v \in Nodes \ {w}
      BY <1>14, <2>1, <2>2, SortNodesAre DEF Fits
    <3>2. s.of[v].container \in Lists
      BY <1>1, WidgetIs
    <3> QED BY <1>12, <2>1, <2>2, <3>1, <3>2 DEF Fits, Stay
  <2>3. CASE s.of[v].dragging => s.of[v].prev # w
    <3>1. s.of[v].dragging => s.of[v].item # w
      BY <2>1, SortNodesAre DEF Fits
    <3> QED BY <1>1, <1>12, <1>14, <2>1, <2>3, <3>1, FitsStill
  <2> QED BY <2>2, <2>3
<1>15. AllPlaced(ls)
  BY <1>12, SortNodesAre DEF SortFits, AllPlaced, IsPlaced, Stay
<1>16. ToldAll(r)
  BY <1>11, <1>12, SortNodesAre DEF SortFits, ToldAll, Stay
<1>17. GoesWith(r)
  BY <1>7, <1>11 DEF GoesWith, Became
<1> QED BY <1>7, <1>11, <1>13, <1>14, <1>15, <1>16, <1>17 DEF SortFits, Became

(* The drag of w is over; its item may be in another list. *)
Ended(s, r, w) ==
  /\ SortFits(r) /\ ~r.of[w].dragging /\ ~r.of[w].reverting
  /\ r.of[w].item = s.of[w].item /\ r.of[w].prev = s.of[w].prev /\ r.of[w].home = s.of[w].home
  /\ r.of[w].started = s.of[w].started
  /\ \A v \in Lists : v # w => r.of[v] = s.of[v]
  /\ Stay(s.lists, r.lists, {w, s.of[w].item})

LEMMA ClearKeeps ==
  ASSUME NEW s, SortFits(s), NEW w \in Lists, NEW r, r = clearSort(s, w)
  PROVE  Ended(s, r, w)
<1>1. SortState(s) /\ Doc(s.lists) /\ SortIs(s, s.lists, s.of, s.over, s.told) /\ s.over \subseteq Lists
      /\ s.told \in [Lists -> SUBSET SortItems] /\ Fits(s.lists, w, s.of[w])
  BY DEF SortFits, SortState
<1>2. s.of[w] \in SortWidgets /\ s.of[w].helper \in BOOLEAN
  BY <1>1, WidgetIs
<1>3. CASE ~s.of[w].helper
  <2> DEFINE m == [s.of[w] EXCEPT !.reverting = FALSE]
  <2>1. /\ m \in SortWidgets /\ m.item = s.of[w].item /\ m.prev = s.of[w].prev
        /\ m.home = s.of[w].home /\ m.container = s.of[w].container /\ m.helper = s.of[w].helper
        /\ m.dragging = s.of[w].dragging /\ m.started = s.of[w].started /\ ~m.reverting
    BY <1>2 DEF SortWidgets
  <2>2. r = [s EXCEPT !.of[w].reverting = FALSE]
    BY <1>3 DEF clearSort
  <2>3. SortIs(r, s.lists, [s.of EXCEPT ![w] = m], s.over, s.told)
    <3>1. r = [lists |-> s.lists, of |-> [s.of EXCEPT ![w].reverting = FALSE],
               over |-> s.over, told |-> s.told]
      BY ONLY <1>1, <2>2 DEF SortIs
    <3> QED BY ONLY <3>1 DEF SortIs, m
  <2> HIDE DEF m
  <2>4. Became(s, r, w, m) /\ r.lists = s.lists /\ r.told = s.told
    BY <1>1, <2>1, <2>3, BecameIs
  <2>5. Fits(s.lists, w, m)
    BY <1>1, <2>1 DEF Fits
  <2>6. ~m.dragging
    BY <1>1, <1>3, <2>1 DEF Fits
  <2>7. SortFits(r)
    BY <2>4, <2>5 DEF SortFits, Became, ToldAll
  <2> QED BY <2>1, <2>4, <2>6, <2>7 DEF Ended, Became, Stay
<1>4. CASE s.of[w].helper
  <2> DEFINE m == [s.of[w] EXCEPT !.helper = FALSE, !.dragging = FALSE, !.reverting = FALSE]
             c == s.of[w].container
             item == s.of[w].item
             a == PutBefore(s.lists, Place(s.lists, w), item, w)
             ls == Taken(a, w)
             td == IF c = w THEN s.told
                   ELSE Now(s.told, item, c)
  <2>1. /\ m \in SortWidgets /\ m.item = item /\ m.prev = s.of[w].prev
        /\ m.home = s.of[w].home /\ m.container = c /\ ~m.helper
        /\ ~m.dragging /\ m.started = s.of[w].started /\ ~m.reverting
    BY <1>2 DEF SortWidgets
  <2>2. r = [s EXCEPT !.lists = ls, !.of[w] = m, !.over = {}, !.told = td]
    <3>1. r = IF ~s.of[w].helper THEN [s EXCEPT !.of[w].reverting = FALSE]
              ELSE [s EXCEPT !.lists = ls, !.of[w] = m, !.over = {}, !.told = td]
      BY DEF clearSort
    <3> HIDE DEF ls, m, td
    <3> QED BY ONLY <1>4, <3>1
  <2>3. /\ s.of[w].dragging /\ item \in SortItems /\ item \in ToSet(s.lists[w])
        /\ w \in ToSet(s.lists[c]) /\ c \in Lists
    BY <1>1, <1>4, WidgetIs DEF Fits
  <2>4. Place(s.lists, w) = c /\ w # item /\ item \in Nodes
    BY <1>1, <2>3, PlaceIs, SortNodesAre
  <2> HIDE DEF c, item
  <2>5. PutInto(s.lists, c, item, a)
    BY <1>1, <2>3, <2>4, PutBeforeIs
  <2> HIDE DEF a
  <2>6. Lost(a, w, ls)
    BY <2>5, TakenIs DEF PutInto
  <2>7. SortIs(r, ls, [s.of EXCEPT ![w] = m], {}, td)
    <3> HIDE DEF ls, m, td
    <3> QED BY ONLY <1>1, <2>2 DEF SortIs
  <2>8. td \in [Lists -> SUBSET SortItems] /\ \A l \in Lists :
          td[l] = IF c = w THEN s.told[l]
                  ELSE IF l = c THEN s.told[l] \cup {item} ELSE s.told[l] \ {item}
    BY <1>1, <2>3 DEF Now
  <2> HIDE DEF ls, m, td
  <2>9. Became(s, r, w, m) /\ r.lists = ls /\ r.told = td
    BY <1>1, <2>1, <2>6, <2>7, <2>8, BecameIs DEF Lost
  <2>18. Stay(s.lists, a, {item}) /\ \A l \in Lists : item \in ToSet(a[l]) <=> l = c
    BY <2>3, <2>5, PutStay
  <2>19. Stay(a, ls, {w}) /\ ~IsPlaced(ls, w)
    BY <2>6, LostStay
  <2>10. Stay(s.lists, ls, {w, item})
    BY <2>18, <2>19 DEF Stay
  <2>11. ~IsPlaced(ls, w) /\ \A l \in Lists : item \in ToSet(ls[l]) <=> l = c
    BY <2>4, <2>18, <2>19 DEF Stay
  <2>12. Fits(ls, w, m)
    <3>1. /\ m.home = w /\ ~m.helper /\ ~m.dragging /\ ~m.reverting /\ (item \in SortItems => m.prev # item)
      BY <1>1, <2>1 DEF Fits, item
    <3> QED BY <2>1, <2>3, <2>11, <3>1 DEF Fits
  <2>13. Free(s, w, item)
    BY <2>3, DragIsFree DEF item
  <2>14. ASSUME NEW v \in Lists, v # w PROVE Fits(ls, v, r.of[v])
    <3>1. Fits(s.lists, v, s.of[v]) /\ r.of[v] = s.of[v] /\ v \in Lists \ {w, item}
      BY <2>3, <2>9, <2>14, SortNodesAre DEF SortFits, Became
    <3>2. CASE s.of[v].dragging /\ s.of[v].prev = w
      <4>1. /\ s.of[v].item \in SortItems /\ s.of[v].item \in Nodes \ {w, item}
            /\ w \notin SortItems /\ v \in Nodes \ {w, item}
        BY <2>13, <2>14, <3>1, <3>2, SortNodesAre DEF Fits, Free
      <4>2. s.of[v].container \in Lists
        BY <1>1, WidgetIs
      <4> QED BY <2>10, <3>1, <3>2, <4>1, <4>2 DEF Fits, Stay
    <3>3. CASE s.of[v].dragging => s.of[v].prev # w
      <4>1. s.of[v].dragging => s.of[v].item # w /\ s.of[v].item # item /\ s.of[v].prev # item
        BY <2>13, <2>14, <3>1, SortNodesAre DEF Fits, Free
      <4> QED BY <1>1, <2>10, <3>1, <3>3, <4>1, FitsStill
    <3> QED BY <3>2, <3>3
  <2>15. AllPlaced(ls)
    <3> SUFFICES ASSUME NEW x \in SortItems PROVE IsPlaced(ls, x)
      BY DEF AllPlaced
    <3>1. x # item => x \in Nodes \ {w, item}
      BY SortNodesAre
    <3> QED BY <2>3, <2>10, <2>11, <3>1 DEF SortFits, AllPlaced, IsPlaced, Stay
  <2>16. ToldAll(r)
    <3> SUFFICES ASSUME NEW l \in Lists PROVE td[l] = ToSet(ls[l]) \cap SortItems
      BY <2>9 DEF ToldAll
    <3>1. \A x \in SortItems \ {item} : x \in ToSet(ls[l]) <=> x \in ToSet(s.lists[l])
      BY <2>10, SortNodesAre DEF Stay
    <3>2. s.told[l] = ToSet(s.lists[l]) \cap SortItems
      BY DEF SortFits, ToldAll
    <3>3. item \in ToSet(s.lists[l]) <=> l = w
      BY <1>1, <2>3 DEF Doc
    <3> QED BY <2>3, <2>8, <2>11, <3>1, <3>2, <3>3
  <2>17. SortFits(r)
    BY <2>9, <2>12, <2>14, <2>15, <2>16 DEF SortFits, Became
  <2> QED BY <2>1, <2>9, <2>10, <2>17 DEF Ended, Became, item
<1> QED BY <1>2, <1>3, <1>4

(* One widget changes, and the document does not. *)
Turned(s, r, w, m) ==
  /\ SortFits(r) /\ r.of[w] = m /\ r.lists = s.lists
  /\ \A v \in Lists : v # w => r.of[v] = s.of[v]

LEMMA SortTurnKeeps ==
  ASSUME NEW s, SortFits(s), NEW w \in Lists, NEW m \in SortWidgets, Fits(s.lists, w, m),
         NEW r, r = [s EXCEPT !.of[w] = m]
  PROVE  Turned(s, r, w, m)
<1>1. SortState(s) /\ Doc(s.lists) /\ SortIs(s, s.lists, s.of, s.over, s.told) /\ s.over \subseteq Lists
      /\ s.told \in [Lists -> SUBSET SortItems]
  BY DEF SortFits, SortState
<1>2. SortIs(r, s.lists, [s.of EXCEPT ![w] = m], s.over, s.told)
  BY ONLY <1>1, r = [s EXCEPT !.of[w] = m] DEF SortIs
<1>3. Became(s, r, w, m) /\ r.lists = s.lists /\ r.told = s.told
  BY <1>1, <1>2, BecameIs
<1>4. SortFits(r)
  BY <1>3 DEF SortFits, Became, ToldAll
<1> QED BY <1>3, <1>4 DEF Turned, Became

(* The mouse is up. *)
Stopped(s, r, w) ==
  /\ SortFits(r) /\ GoesWith(r) /\ ~r.of[w].started
  /\ r.of[w].item = s.of[w].item /\ r.of[w].prev = s.of[w].prev /\ r.of[w].home = s.of[w].home
  /\ \A v \in Lists : v # w => r.of[v] = s.of[v]
  /\ Stay(s.lists, r.lists, {w, s.of[w].item})

LEMMA SortStopKeeps ==
  ASSUME NEW s, SortFits(s), GoesWith(s), NEW w \in Lists, s.of[w].started, NEW r, r = stopSort(s, w)
  PROVE  Stopped(s, r, w)
<1>1. SortState(s) /\ Fits(s.lists, w, s.of[w])
  BY DEF SortFits
<1>2. s.of[w] \in SortWidgets /\ s.of[w].glides \in Nat /\ s.of[w].helper \in BOOLEAN
  BY <1>1, WidgetIs
<1>3. CASE w \in Reverts
  <2> DEFINE m == Gliding(s.of[w])
  <2>1. /\ m \in SortWidgets /\ m.item = s.of[w].item /\ m.prev = s.of[w].prev
        /\ m.home = s.of[w].home /\ m.container = s.of[w].container /\ m.helper = s.of[w].helper
        /\ m.dragging = s.of[w].dragging /\ ~m.started /\ m.reverting
    <3> DEFINE g == s.of[w].glides + (IF s.of[w].helper THEN 1 ELSE 0)
    <3>1. g \in Nat
      BY <1>2
    <3>2. m = [s.of[w] EXCEPT !.started = FALSE, !.reverting = TRUE, !.glides = g]
      BY DEF Gliding
    <3> HIDE DEF g, m
    <3> QED BY <1>2, <3>1, <3>2 DEF SortWidgets
  <2>2. r = [s EXCEPT !.of[w] = m]
    BY <1>3 DEF stopSort
  <2> HIDE DEF m
  <2>3. Fits(s.lists, w, m)
    BY <1>1, <2>1 DEF Fits
  <2>4. Turned(s, r, w, m)
    BY <2>1, <2>2, <2>3, SortTurnKeeps
  <2>5. GoesWith(r)
    BY <2>1, <2>4 DEF Turned, GoesWith
  <2> QED BY <2>1, <2>4, <2>5 DEF Turned, Stopped, Stay
<1>4. CASE w \notin Reverts
  <2> DEFINE m == [s.of[w] EXCEPT !.started = FALSE]
             up == [s EXCEPT !.of[w].started = FALSE]
  <2>1. /\ m \in SortWidgets /\ m.item = s.of[w].item /\ m.prev = s.of[w].prev
        /\ m.home = s.of[w].home /\ m.container = s.of[w].container /\ m.helper = s.of[w].helper
        /\ m.dragging = s.of[w].dragging /\ ~m.started /\ m.reverting = s.of[w].reverting
    BY <1>2 DEF SortWidgets
  <2>2. r = clearSort(up, w)
    BY <1>4 DEF stopSort
  <2>7. up = [s EXCEPT !.of[w] = m]
    OBVIOUS
  <2> HIDE DEF m, up
  <2>3. Fits(s.lists, w, m)
    BY <1>1, <2>1 DEF Fits
  <2>4. Turned(s, up, w, m)
    BY <2>1, <2>3, <2>7, SortTurnKeeps
  <2>5. Ended(up, r, w)
    BY <2>2, <2>4, ClearKeeps DEF Turned
  <2>6. GoesWith(r)
    BY <2>4, <2>5 DEF Turned, Ended, GoesWith
  <2> QED BY <2>1, <2>4, <2>5, <2>6 DEF Turned, Ended, Stopped
<1> QED BY <1>3, <1>4

(* The item is put back, behind the item that it was behind. *)
BackIn(lists, m, l, ls) ==
  /\ l \in Lists /\ PutInto(lists, l, m.item, ls)
  /\ m.prev \notin Lists => Before(ls[l], m.item) = m.prev
  /\ m.prev = NoNode => l = m.home
  /\ m.prev \in SortItems => m.prev \in ToSet(lists[l])

LEMMA PutBackIs ==
  ASSUME NEW s, NEW w \in Lists, NEW f, NEW o, NEW t, SortIs(s, s.lists, f, o, t),
         Doc(s.lists), AllPlaced(s.lists), s.of[w] \in SortWidgets,
         s.of[w].item \in SortItems, s.of[w].prev # s.of[w].item,
         NEW r, r = putBack(s, w)
  PROVE  SortIs(r, r.lists, f, o, t) /\ \E l \in Lists : BackIn(s.lists, s.of[w], l, r.lists)
<1> DEFINE m == s.of[w]
<1>1. /\ m.item \in SortItems /\ m.prev \in Nodes \cup {NoNode} /\ m.home \in Lists /\ m.prev # m.item
      /\ m.item \in Nodes /\ NoNode \notin Nodes
  BY NoNodeIs, SortNodesAre DEF SortWidgets
<1>2. PICK k \in Lists : m.item \in ToSet(s.lists[k])
  BY <1>1 DEF AllPlaced, IsPlaced
<1>3. r = IF m.prev = NoNode THEN [s EXCEPT !.lists = PutAfter(s.lists, m.home, m.item, NoNode)]
          ELSE IF ~IsPlaced(s.lists, m.prev) THEN s
          ELSE [s EXCEPT !.lists = PutAfter(s.lists, Place(s.lists, m.prev), m.item, m.prev)]
  BY DEF putBack
<1> HIDE DEF m
<1>4. \A ls : SortIs([s EXCEPT !.lists = ls], ls, f, o, t)
  BY DEF SortIs
<1>5. \A ls : r = [s EXCEPT !.lists = ls] => r.lists = ls /\ SortIs(r, r.lists, f, o, t)
  BY <1>4 DEF SortIs
<1>6. CASE m.prev = NoNode
  <2> DEFINE ls == PutAfter(s.lists, m.home, m.item, NoNode)
  <2>1. r.lists = ls /\ SortIs(r, r.lists, f, o, t)
    BY <1>3, <1>5, <1>6
  <2>2. PutInto(s.lists, m.home, m.item, ls) /\ Before(ls[m.home], m.item) = NoNode
    BY <1>1, PutAfterIs
  <2> HIDE DEF ls
  <2>3. m.prev \notin SortItems
    BY <1>1, <1>6, SortNodesAre
  <2>4. BackIn(s.lists, m, m.home, r.lists)
    BY <1>1, <1>6, <2>1, <2>2, <2>3 DEF BackIn
  <2> QED BY <1>1, <2>1, <2>4 DEF m
<1>7. CASE m.prev # NoNode /\ ~IsPlaced(s.lists, m.prev)
  <2>1. r = s
    BY <1>3, <1>7
  <2>2. m.prev \in Lists /\ m.prev \notin SortItems
    BY <1>1, <1>7, SortNodesAre DEF AllPlaced, Nodes
  <2>3. PutInto(s.lists, k, m.item, s.lists)
    BY <1>2 DEF PutInto, Doc
  <2>4. BackIn(s.lists, m, k, r.lists)
    BY <1>2, <1>7, <2>1, <2>2, <2>3 DEF BackIn
  <2> QED BY <1>2, <2>1, <2>4 DEF m
<1>8. CASE m.prev # NoNode /\ IsPlaced(s.lists, m.prev)
  <2>1. PICK l \in Lists : m.prev \in ToSet(s.lists[l])
    BY <1>8 DEF IsPlaced
  <2>2. Place(s.lists, m.prev) = l
    BY <2>1, PlaceIs
  <2> DEFINE ls == PutAfter(s.lists, l, m.item, m.prev)
  <2>3. r.lists = ls /\ SortIs(r, r.lists, f, o, t)
    BY <1>3, <1>5, <1>8, <2>2
  <2>4. PutInto(s.lists, l, m.item, ls) /\ Before(ls[l], m.item) = m.prev
    BY <1>1, <2>1, PutAfterIs
  <2> HIDE DEF ls
  <2>5. BackIn(s.lists, m, l, r.lists)
    BY <1>8, <2>1, <2>3, <2>4 DEF BackIn
  <2> QED BY <2>3, <2>5 DEF m
<1> QED BY <1>6, <1>7, <1>8

PutBackOK(s, r, w) ==
  LET l == Place(r.lists, s.of[w].item)
  IN  /\ Before(r.lists[l], s.of[w].item) = s.of[w].prev
      /\ s.of[w].dragging \/ s.of[w].prev = NoNode => l = s.of[w].home

Cancelled(s, r, w) ==
  /\ SortFits(r) /\ GoesWith(r)
  /\ s.of[w].prev \notin Lists => PutBackOK(s, r, w)

LEMMA CancelKeeps ==
  ASSUME NEW s, SortFits(s), GoesWith(s), NEW w \in Lists, s.of[w].item \in SortItems,
         Free(s, w, s.of[w].item), NEW r, r = cancelSort(s, w)
  PROVE  Cancelled(s, r, w)
<1> DEFINE item == s.of[w].item
           e == IF s.of[w].dragging /\ s.of[w].started THEN stopSort(s, w) ELSE s
           m == [e.of[w] EXCEPT !.helper = FALSE, !.dragging = FALSE, !.reverting = FALSE]
           o == IF s.of[w].dragging THEN {} ELSE e.over
           freed == [e EXCEPT !.lists = Taken(e.lists, w), !.over = o, !.of[w] = m]
           back == putBack(freed, w)
<1>1. /\ SortFits(e) /\ GoesWith(e)
      /\ e.of[w].item = item /\ e.of[w].prev = s.of[w].prev /\ e.of[w].home = s.of[w].home
      /\ \A v \in Lists : v # w => e.of[v] = s.of[v]
      /\ Stay(s.lists, e.lists, {w, item})
  <2>1. CASE s.of[w].dragging /\ s.of[w].started
    BY <2>1, SortStopKeeps DEF Stopped
  <2>2. CASE ~(s.of[w].dragging /\ s.of[w].started)
    BY <2>2 DEF Stay
  <2> QED BY <2>1, <2>2
<1>2. r = [back EXCEPT !.told = Now(back.told, item, Place(back.lists, item))]
  BY DEF cancelSort
<1>3. /\ SortState(e) /\ Doc(e.lists) /\ SortIs(e, e.lists, e.of, e.over, e.told) /\ o \subseteq Lists
      /\ e.told \in [Lists -> SUBSET SortItems] /\ Fits(e.lists, w, e.of[w])
      /\ e.of[w] \in SortWidgets /\ e.of \in [Lists -> SortWidgets]
  BY <1>1, WidgetIs DEF SortFits, SortState
<1>4. Fits(s.lists, w, s.of[w]) /\ s.of[w].prev # item /\ item \in SortItems /\ w # item /\ item \in Nodes
      /\ s.of[w].prev \in Nodes \cup {NoNode}
  BY SortNodesAre, WidgetIs DEF SortFits, Fits
<1> HIDE DEF e, o
<1>5. /\ m \in SortWidgets /\ m.item = item /\ m.prev = s.of[w].prev /\ m.home = s.of[w].home
      /\ m.container = e.of[w].container /\ ~m.helper /\ ~m.dragging /\ ~m.reverting
      /\ m.started = e.of[w].started
  BY <1>1, <1>3 DEF SortWidgets
<1> HIDE DEF m, item
<1> DEFINE q == Taken(e.lists, w)
<1>6. Lost(e.lists, w, q)
  BY <1>3, TakenIs
<1>7. Stay(e.lists, q, {w}) /\ ~IsPlaced(q, w) /\ Doc(q)
  BY <1>6, LostStay DEF Lost
<1> HIDE DEF q
<1>8. SortIs(freed, q, [e.of EXCEPT ![w] = m], o, e.told)
  <2>1. freed = [e EXCEPT !.lists = q, !.over = o, !.of[w] = m]
    BY DEF q
  <2> HIDE DEF freed
  <2> QED BY ONLY <1>3, <2>1 DEF SortIs
<1>9. freed.lists = q /\ freed.of[w] = m
  <2>1. freed.lists = q /\ freed.of = [e.of EXCEPT ![w] = m]
    BY <1>8 DEF SortIs
  <2> QED BY <1>3, <2>1
<1>10. AllPlaced(q)
  BY <1>1, <1>7, SortNodesAre DEF SortFits, AllPlaced, IsPlaced, Stay
<1> HIDE DEF freed
<1>11. SortIs(back, back.lists, [e.of EXCEPT ![w] = m], o, e.told)
       /\ \E l \in Lists : BackIn(freed.lists, freed.of[w], l, back.lists)
  BY <1>4, <1>5, <1>7, <1>8, <1>9, <1>10, PutBackIs
<1> HIDE DEF back
<1> DEFINE ls == back.lists
<1>12. PICK l \in Lists : BackIn(q, m, l, ls)
  BY <1>9, <1>11
<1>13. PutInto(q, l, item, ls)
  BY <1>5, <1>12 DEF BackIn
<1>14. Stay(q, ls, {item}) /\ (\A k \in Lists : item \in ToSet(ls[k]) <=> k = l) /\ Doc(ls)
  <2>1. Doc(ls)
    BY <1>13 DEF PutInto
  <2> QED BY <1>13, <2>1, PutStay
<1>15. Place(ls, item) = l
  BY <1>14, PlaceIs
<1> DEFINE td == Now(e.told, item, l)
<1>16. SortIs(r, ls, [e.of EXCEPT ![w] = m], o, td)
  <2>1. back.told = e.told
    BY <1>11 DEF SortIs
  <2>2. r = [back EXCEPT !.told = td]
    BY <1>2, <1>15, <2>1
  <2> HIDE DEF td
  <2> QED BY ONLY <1>11, <2>2 DEF SortIs
<1>17. td \in [Lists -> SUBSET SortItems] /\ \A k \in Lists :
         td[k] = IF k = l THEN e.told[k] \cup {item} ELSE e.told[k] \ {item}
  BY <1>3, <1>4 DEF Now
<1> HIDE DEF td, ls
<1>18. Became(e, r, w, m) /\ r.lists = ls /\ r.told = td
  BY <1>3, <1>5, <1>14, <1>16, <1>17, BecameIs
<1>19. Stay(e.lists, ls, {w, item})
  BY <1>7, <1>14 DEF Stay
<1>20. ~IsPlaced(ls, w)
  BY <1>4, <1>7, <1>14, SortNodesAre DEF Stay, IsPlaced
<1>21. Fits(ls, w, m)
  <2>1. m.home = w
    BY <1>4, <1>5 DEF Fits
  <2> QED BY <1>4, <1>5, <1>20, <2>1 DEF Fits
<1>22. ASSUME NEW v \in Lists, v # w PROVE Fits(ls, v, r.of[v])
  <2>1. Fits(e.lists, v, e.of[v]) /\ r.of[v] = e.of[v] /\ e.of[v] = s.of[v] /\ v \in Lists \ {w, item}
    BY <1>1, <1>4, <1>18, <1>22, SortNodesAre DEF SortFits, Became
  <2>2. e.of[v].dragging => e.of[v].item # item /\ e.of[v].prev # item
    BY <1>22, <2>1 DEF Free, item
  <2>3. CASE e.of[v].dragging /\ e.of[v].prev = w
    <3>1. /\ e.of[v].item \in SortItems /\ e.of[v].item \in Nodes \ {w, item}
          /\ w \notin SortItems /\ v \in Nodes \ {w, item}
      BY <2>1, <2>2, <2>3, SortNodesAre DEF Fits
    <3>2. e.of[v].container \in Lists
      BY <1>3, WidgetIs
    <3> QED BY <1>19, <2>1, <2>3, <3>1, <3>2 DEF Fits, Stay
  <2>4. CASE e.of[v].dragging => e.of[v].prev # w
    <3>1. e.of[v].dragging => e.of[v].item # w
      BY <2>1, SortNodesAre DEF Fits
    <3> QED BY <1>3, <1>19, <2>1, <2>2, <2>4, <3>1, FitsStill
  <2> QED BY <2>3, <2>4
<1>23. AllPlaced(ls)
  <2> SUFFICES ASSUME NEW x \in SortItems PROVE IsPlaced(ls, x)
    BY DEF AllPlaced
  <2>1. x # item => x \in Nodes \ {item}
    BY SortNodesAre
  <2> QED BY <1>10, <1>14, <2>1 DEF AllPlaced, IsPlaced, Stay
<1>24. ToldAll(r)
  <2> SUFFICES ASSUME NEW k \in Lists PROVE td[k] = ToSet(ls[k]) \cap SortItems
    BY <1>18 DEF ToldAll
  <2>1. \A x \in SortItems \ {item} : x \in ToSet(ls[k]) <=> x \in ToSet(e.lists[k])
    BY <1>19, SortNodesAre DEF Stay
  <2>2. e.told[k] = ToSet(e.lists[k]) \cap SortItems
    BY <1>1 DEF SortFits, ToldAll
  <2> QED BY <1>4, <1>14, <1>17, <2>1, <2>2
<1>25. SortFits(r)
  BY <1>18, <1>21, <1>22, <1>23, <1>24 DEF SortFits, Became
<1>26. GoesWith(r)
  BY <1>1, <1>5, <1>18 DEF GoesWith, Became
<1>27. ASSUME s.of[w].prev \notin Lists PROVE PutBackOK(s, r, w)
  <2>1. Before(ls[l], item) = s.of[w].prev /\ (s.of[w].prev = NoNode => l = s.of[w].home)
        /\ (s.of[w].prev \in SortItems => s.of[w].prev \in ToSet(q[l]))
    BY <1>5, <1>12, <1>27 DEF BackIn
  <2>2. ASSUME s.of[w].dragging, s.of[w].prev # NoNode PROVE l = s.of[w].home
    <3>1. s.of[w].prev \in SortItems /\ s.of[w].prev \in ToSet(s.lists[w]) /\ s.of[w].home = w
      BY <1>4, <1>27, <2>2 DEF Fits, Nodes
    <3>2. s.of[w].prev \in Nodes \ {w, item}
      BY <1>4, <3>1, SortNodesAre
    <3>3. s.of[w].prev \in ToSet(q[w])
      BY <1>1, <1>7, <3>1, <3>2 DEF Stay
    <3> QED BY <1>7, <2>1, <3>1, <3>3 DEF Doc
  <2> QED BY <1>15, <1>18, <2>1, <2>2 DEF PutBackOK, item
<1> QED BY <1>25, <1>26, <1>27 DEF Cancelled

-------------------------------------------------------------------------------

SortInvariant == SortableTypeOK /\ PlaceholderWhileSorting /\ ToldIsHeld

LEMMA SortIsCorrect ==
  ASSUME SortOK
  PROVE  SortInvariant
<1>1. SortFits(sort) /\ Doc(sort.lists) /\ SortState(sort)
  BY DEF SortOK, SortFits, SortState
<1>2. SortableTypeOK
  <2>1. \A l \in Lists : IsInjective(sort.lists[l])
    BY <1>1 DEF Doc
  <2>2. \A item \in SortItems : \E l \in Lists :
          \A k \in Lists : item \in ToSet(sort.lists[k]) <=> k = l
    BY <1>1 DEF SortFits, AllPlaced, IsPlaced, Doc
  <2>3. sort.over \subseteq Lists /\ \A w \in Lists : sort.of[w].reverting => ~sort.of[w].started
    BY <1>1 DEF SortFits, SortState, Fits
  <2> QED BY <2>1, <2>2, <2>3 DEF SortableTypeOK
<1>3. PlaceholderWhileSorting
  BY <1>1 DEF SortFits, Fits, PlaceholderWhileSorting
<1>4. ToldIsHeld
  <2> SUFFICES ASSUME \A w \in Lists : ~sort.of[w].dragging, NEW l \in Lists
               PROVE  sort.told[l] = ToSet(sort.lists[l])
    BY DEF ToldIsHeld
  <2>1. \A w \in Lists : w \notin ToSet(sort.lists[l])
    BY <1>1 DEF SortFits, Fits, IsPlaced
  <2>2. ToSet(sort.lists[l]) \subseteq SortItems \cup Lists
    BY <1>1, DocIs DEF Nodes
  <2>3. sort.told[l] = ToSet(sort.lists[l]) \cap SortItems
    BY <1>1 DEF SortFits, ToldAll
  <2> QED BY <2>1, <2>2, <2>3
<1> QED BY <1>2, <1>3, <1>4 DEF SortInvariant

LEMMA SortInitOK ==
  ASSUME SortableInit
  PROVE  SortOK
<1> DEFINE m(l) == [item |-> NoNode, prev |-> NoNode, home |-> l, container |-> l, helper |-> FALSE,
                    dragging |-> FALSE, reverting |-> FALSE, started |-> FALSE, glides |-> 0]
           f == [l \in Lists |-> m(l)]
           t == [l \in Lists |-> ToSet(Home[l])]
<1>1. sort = [lists |-> Home, of |-> f, over |-> {}, told |-> t]
  BY DEF SortableInit
<1>2. \A l \in Lists : m(l) \in SortWidgets
  BY DEF SortWidgets
<1>3. f \in [Lists -> SortWidgets] /\ \A l \in Lists : f[l] = m(l)
  BY <1>2
<1>4. \A l \in Lists : ToSet(Home[l]) \subseteq SortItems
  BY DEF SortItems
<1>5. t \in [Lists -> SUBSET SortItems] /\ \A l \in Lists : t[l] = ToSet(Home[l])
  BY <1>4
<1> HIDE DEF f, t
<1>6. sort.lists = Home /\ sort.of = f /\ sort.over = {} /\ sort.told = t
      /\ SortIs(sort, sort.lists, sort.of, sort.over, sort.told)
  BY <1>1 DEF SortIs
<1>7. Doc(Home)
  <2>1. Seq(SortItems) \subseteq Seq(Nodes)
    BY SortNodesAre, SeqMonotonic
  <2>2. Home \in [Lists -> Seq(SortItems)] /\ (\A l \in Lists : IsInjective(Home[l]))
        /\ \A l, k \in Lists : l # k => ToSet(Home[l]) \cap ToSet(Home[k]) = {}
    BY SortableAssumption
  <2>3. Home \in [Lists -> Seq(Nodes)]
    <3> DEFINE S == Seq(SortItems)
               T == Seq(Nodes)
    <3>1. Home \in [Lists -> S] /\ S \subseteq T
      BY <2>1, <2>2
    <3> HIDE DEF S, T
    <3>2. Home \in [Lists -> T]
      BY <3>1
    <3> QED BY <3>2 DEF T
  <2> QED BY <2>2, <2>3 DEF Doc
<1>8. SortState(sort)
  BY <1>3, <1>5, <1>6, <1>7 DEF SortState
<1>9. AllPlaced(Home)
  BY DEF AllPlaced, IsPlaced, SortItems
<1>10. ToldAll(sort)
  BY <1>4, <1>5, <1>6 DEF ToldAll
<1>11. ASSUME NEW w \in Lists PROVE Fits(Home, w, f[w])
  <2>1. f[w] = m(w)
    BY <1>3
  <2>2. ~IsPlaced(Home, w)
    BY <1>4, SortNodesAre DEF IsPlaced
  <2>3. NoNode \notin SortItems
    BY NoNodeIs, SortNodesAre
  <2> QED BY <2>1, <2>2, <2>3 DEF Fits
<1>12. GoesWith(sort)
  BY <1>3, <1>6 DEF GoesWith
<1> QED BY <1>6, <1>8, <1>9, <1>10, <1>11, <1>12 DEF SortOK, SortFits

LEMMA SortNextOK ==
  ASSUME SortOK, [SortableNext]_sort
  PROVE  SortOK'
<1>0. SortFits(sort) /\ GoesWith(sort) /\ SortState(sort)
  BY DEF SortOK, SortFits
<1>1. SortFits(sort') /\ GoesWith(sort') => SortOK'
  BY DEF SortOK
<1>2. ASSUME NEW w \in Lists, NEW item \in SortItems, StartSort(w, item) PROVE SortOK'
  <2> DEFINE b == begin(sort, w, item)
  <2>1. /\ ~sort.of[w].started /\ ~sort.of[w].reverting /\ item \in ToSet(sort.lists[w])
        /\ sort' \in Dragged(b, w)
    BY <1>2 DEF StartSort
  <2>2. SortFits(b) /\ GoesWith(b) /\ b.of[w].dragging
    BY <1>0, <2>1, BeginKeeps
  <2> HIDE DEF b
  <2>3. PICK c \in Lists : Slid(b, sort', w, c)
    BY <2>1, <2>2, DraggedKeeps
  <2>4. SortFits(sort') /\ GoesWith(sort')
    BY <2>2, <2>3 DEF Slid, GoesWith
  <2> QED BY <1>1, <2>4
<1>3. ASSUME NEW w \in Lists, DragSort(w) PROVE SortOK'
  <2>1. sort.of[w].helper /\ sort' \in Dragged(sort, w)
    BY <1>3 DEF DragSort
  <2>2. sort.of[w].dragging
    BY <1>0, <2>1 DEF SortFits, Fits
  <2>3. PICK c \in Lists : Slid(sort, sort', w, c)
    BY <1>0, <2>1, <2>2, DraggedKeeps
  <2>4. SortFits(sort') /\ GoesWith(sort')
    BY <1>0, <2>2, <2>3 DEF Slid, GoesWith
  <2> QED BY <1>1, <2>4
<1>4. ASSUME NEW w \in Lists, CancelSort(w) PROVE SortOK'
  <2>1. sort' = cancelSort(sort, w)
    BY <1>4 DEF CancelSort
  <2>2. sort.of[w].item \in SortItems
    BY <1>0, <1>4 DEF CancelSort, SortFits, Fits
  <2>3. Free(sort, w, sort.of[w].item)
    BY <1>0, <1>4, DragIsFree DEF CancelSort, Free
  <2>4. SortFits(sort') /\ GoesWith(sort')
    BY <1>0, <2>1, <2>2, <2>3, CancelKeeps DEF Cancelled
  <2> QED BY <1>1, <2>4
<1>5. ASSUME NEW w \in Lists, NEW denied \in BOOLEAN, StopSort(w, denied) PROVE SortOK'
  <2> DEFINE s == stopSort(sort, w)
  <2>1. /\ sort.of[w].started /\ (denied => sort.of[w].helper)
        /\ sort' = IF denied THEN cancelSort(s, w) ELSE s
    BY <1>5 DEF StopSort
  <2>2. Stopped(sort, s, w)
    BY <1>0, <2>1, SortStopKeeps
  <2> HIDE DEF s
  <2>3. CASE ~denied
    BY <1>1, <2>1, <2>2, <2>3 DEF Stopped
  <2>4. CASE denied
    <3>1. sort.of[w].dragging /\ sort.of[w].item \in SortItems
      BY <1>0, <2>1, <2>4 DEF SortFits, Fits
    <3>2. Free(sort, w, sort.of[w].item)
      BY <1>0, <3>1, DragIsFree
    <3>3. Free(s, w, s.of[w].item) /\ s.of[w].item \in SortItems /\ SortFits(s) /\ GoesWith(s)
      BY <2>2, <3>1, <3>2 DEF Free, Stopped
    <3>4. SortFits(sort') /\ GoesWith(sort')
      BY <2>1, <2>4, <3>3, CancelKeeps DEF Cancelled
    <3> QED BY <1>1, <3>4
  <2> QED BY <2>3, <2>4
<1>6. ASSUME NEW w \in Lists, NEW denied \in BOOLEAN, GlideEnds(w, denied) PROVE SortOK'
  <2> DEFINE m == [sort.of[w] EXCEPT !.glides = sort.of[w].glides - 1]
             g == [sort EXCEPT !.of[w].glides = sort.of[w].glides - 1]
             s == clearSort(g, w)
  <2>1. /\ sort.of[w].glides > 0 /\ (denied => sort.of[w].helper)
        /\ sort' = IF denied THEN cancelSort(s, w) ELSE s
    BY <1>6 DEF GlideEnds
  <2>2. sort.of[w] \in SortWidgets /\ sort.of[w].glides - 1 \in Nat
    BY <1>0, <2>1, WidgetIs
  <2>3. /\ m \in SortWidgets /\ m.item = sort.of[w].item /\ m.prev = sort.of[w].prev
        /\ m.home = sort.of[w].home /\ m.container = sort.of[w].container /\ m.helper = sort.of[w].helper
        /\ m.dragging = sort.of[w].dragging /\ m.started = sort.of[w].started
        /\ m.reverting = sort.of[w].reverting
    BY <2>2 DEF SortWidgets
  <2>4. Fits(sort.lists, w, sort.of[w])
    BY <1>0 DEF SortFits
  <2>5. g = [sort EXCEPT !.of[w] = m]
    OBVIOUS
  <2> HIDE DEF m, g
  <2>6. Fits(sort.lists, w, m)
    BY <2>3, <2>4 DEF Fits
  <2>7. Turned(sort, g, w, m)
    BY <1>0, <2>3, <2>5, <2>6, SortTurnKeeps
  <2>8. Ended(g, s, w)
    BY <2>7, ClearKeeps DEF Turned
  <2> HIDE DEF s
  <2>9. SortFits(s) /\ GoesWith(s)
    BY <1>0, <2>7, <2>8 DEF Ended, Turned, GoesWith
  <2>10. CASE ~denied
    BY <1>1, <2>1, <2>9, <2>10
  <2>11. CASE denied
    <3>1. sort.of[w].dragging /\ sort.of[w].item \in SortItems
      BY <2>1, <2>4, <2>11 DEF Fits
    <3>2. Free(sort, w, sort.of[w].item)
      BY <1>0, <3>1, DragIsFree
    <3>3. s.of[w].item = sort.of[w].item /\ \A v \in Lists : v # w => s.of[v] = sort.of[v]
      BY <2>3, <2>7, <2>8 DEF Ended, Turned
    <3>4. Free(s, w, s.of[w].item) /\ s.of[w].item \in SortItems
      BY <3>1, <3>2, <3>3 DEF Free
    <3>5. SortFits(sort') /\ GoesWith(sort')
      BY <2>1, <2>9, <2>11, <3>4, CancelKeeps DEF Cancelled
    <3> QED BY <1>1, <3>5
  <2> QED BY <2>10, <2>11
<1>7. CASE UNCHANGED sort
  BY <1>7 DEF SortOK, SortFits, GoesWith
<1> QED BY <1>2, <1>3, <1>4, <1>5, <1>6, <1>7 DEF SortableNext

(* Body of CancelPutsBack. *)
CancelsBack ==
  \A w \in Lists :
    CancelSort(w) /\ sort.of[w].prev \notin Lists =>
      LET l == Place(sort'.lists, sort.of[w].item)
      IN  /\ Before(sort'.lists[l], sort.of[w].item) = sort.of[w].prev
          /\ sort.of[w].dragging \/ sort.of[w].prev = NoNode => l = sort.of[w].home

LEMMA CancelIsBack ==
  ASSUME SortOK
  PROVE  CancelsBack
<1>0. SortFits(sort) /\ GoesWith(sort)
  BY DEF SortOK
<1>1. ASSUME NEW w \in Lists, CancelSort(w), sort.of[w].prev \notin Lists PROVE PutBackOK(sort, sort', w)
  <2>1. sort' = cancelSort(sort, w)
    BY <1>1 DEF CancelSort
  <2>2. sort.of[w].item \in SortItems
    BY <1>0, <1>1 DEF CancelSort, SortFits, Fits
  <2>3. Free(sort, w, sort.of[w].item)
    BY <1>0, <1>1, DragIsFree DEF CancelSort, Free
  <2> QED BY <1>0, <1>1, <2>1, <2>2, <2>3, CancelKeeps DEF Cancelled
<1> QED BY <1>1 DEF CancelsBack, PutBackOK

-------------------------------------------------------------------------------
(* These widgets together: a step is one of a single widget.               *)

WidgetsCorrect ==
  /\ AcCorrect(ac) /\ SpinnerCorrect(spinner) /\ SliderCorrect(slider)
  /\ TipOK(tip) /\ MouseAgrees(mouse) /\ LassoOK(lasso) /\ DragOK /\ SortOK

LEMMA OtherSteps ==
  ASSUME [Next]_widgetVars
  PROVE  /\ AutocompleteStep \/ UNCHANGED ac
         /\ SpinnerStep \/ UNCHANGED spinner
         /\ SliderStep \/ UNCHANGED slider
         /\ TooltipStep \/ UNCHANGED tip
         /\ MouseStep \/ UNCHANGED mouse
         /\ SelectableStep \/ UNCHANGED lasso
         /\ DragStep \/ UNCHANGED drag
         /\ SortableStep \/ UNCHANGED sort
<1>1. CASE UNCHANGED widgetVars
  BY <1>1 DEF widgetVars
<1>2. CASE DatepickerStep \/ TabsStep \/ AccordionStep \/ DialogStep \/ MenuStep \/ SelectStep \/
           CalendarStep
  BY <1>2 DEF DatepickerStep, TabsStep, AccordionStep, DialogStep, MenuStep, SelectStep, CalendarStep
<1>3. CASE AutocompleteStep
  BY <1>3 DEF AutocompleteStep
<1>4. CASE SpinnerStep
  BY <1>4 DEF SpinnerStep
<1>5. CASE SliderStep
  BY <1>5 DEF SliderStep
<1>6. CASE TooltipStep
  BY <1>6 DEF TooltipStep
<1>7. CASE MouseStep
  BY <1>7 DEF MouseStep
<1>8. CASE SelectableStep
  BY <1>8 DEF SelectableStep
<1>9. CASE DragStep
  BY <1>9 DEF DragStep
<1>10. CASE SortableStep
  BY <1>10 DEF SortableStep
<1> QED BY <1>1, <1>2, <1>3, <1>4, <1>5, <1>6, <1>7, <1>8, <1>9, <1>10 DEF Next

LEMMA WidgetsBegin == Init => WidgetsCorrect
BY AutocompleteBegins, SpinnerBegins, SliderBegins, TipBegins, MouseBegins, LassoBegins, DragInitOK,
   SortInitOK DEF Init, WidgetsCorrect

LEMMA WidgetsStep == WidgetsCorrect /\ [Next]_widgetVars => WidgetsCorrect'
<1> SUFFICES ASSUME WidgetsCorrect, [Next]_widgetVars PROVE WidgetsCorrect'
  OBVIOUS
<1>1. AcCorrect(ac)'
  <2>1. CASE AutocompleteStep
    BY <2>1, AutocompleteStepKeeps DEF AutocompleteStep, WidgetsCorrect
  <2>2. CASE UNCHANGED ac
    BY <2>2 DEF WidgetsCorrect
  <2> QED BY <2>1, <2>2, OtherSteps
<1>2. SpinnerCorrect(spinner)'
  <2>1. CASE SpinnerStep
    BY <2>1, SpinnerStepKeeps DEF SpinnerStep, WidgetsCorrect
  <2>2. CASE UNCHANGED spinner
    BY <2>2 DEF WidgetsCorrect
  <2> QED BY <2>1, <2>2, OtherSteps
<1>3. SliderCorrect(slider)'
  <2>1. CASE SliderStep
    BY <2>1, SliderStepKeeps DEF SliderStep, WidgetsCorrect
  <2>2. CASE UNCHANGED slider
    BY <2>2 DEF WidgetsCorrect
  <2> QED BY <2>1, <2>2, OtherSteps
<1>4. TipOK(tip)'
  <2>1. CASE TooltipStep
    BY <2>1, TipStepKeeps DEF TooltipStep, WidgetsCorrect
  <2>2. CASE UNCHANGED tip
    BY <2>2 DEF WidgetsCorrect
  <2> QED BY <2>1, <2>2, OtherSteps
<1>5. MouseAgrees(mouse)'
  <2>1. CASE MouseStep
    BY <2>1, MouseStepKeeps DEF MouseStep, WidgetsCorrect
  <2>2. CASE UNCHANGED mouse
    BY <2>2 DEF WidgetsCorrect
  <2> QED BY <2>1, <2>2, OtherSteps
<1>6. LassoOK(lasso)'
  <2>1. CASE SelectableStep
    BY <2>1, LassoStepKeeps DEF SelectableStep, WidgetsCorrect
  <2>2. CASE UNCHANGED lasso
    BY <2>2 DEF WidgetsCorrect
  <2> QED BY <2>1, <2>2, OtherSteps
<1>7. DragOK'
  <2>1. DragNext \/ UNCHANGED drag
    BY OtherSteps DEF DragStep
  <2> QED BY <2>1, DragNextOK DEF WidgetsCorrect
<1>8. SortOK'
  <2>1. SortableNext \/ UNCHANGED sort
    BY OtherSteps DEF SortableStep
  <2> QED BY <2>1, SortNextOK DEF WidgetsCorrect
<1> QED BY <1>1, <1>2, <1>3, <1>4, <1>5, <1>6, <1>7, <1>8 DEF WidgetsCorrect

(* Whatever the order in which a source answers, and whatever the user     *)
(* does meanwhile, the menu of an autocompletion holds the answer to the   *)
(* newest search or that one is under way, it is closed once the field was *)
(* left, and the field shows that it loads while answers are to come.      *)
THEOREM MenuHoldsNewest == Spec => []NewestAnswerShown
<1>1. WidgetsCorrect => NewestAnswerShown
  BY AutocompleteHolds DEF WidgetsCorrect, NewestAnswerShown
<1> QED BY <1>1, WidgetsBegin, WidgetsStep, PTL DEF Spec

(* The handles of a slider's range keep their order and can be parted, a   *)
(* spinner turns only while it is held, begins slowly, and both tell the   *)
(* page what has changed, whatever mouse, keys, focus and the page do at   *)
(* the same time.                                                          *)
THEOREM ValuesAreTold == Spec => []ValuesCorrect
<1>1. WidgetsCorrect => ValuesCorrect
  BY SpinnerHolds, SliderHolds DEF WidgetsCorrect, ValuesCorrect
<1> QED BY <1>1, WidgetsBegin, WidgetsStep, PTL DEF Spec

(* A tooltip that is to be seen, though its content may come late and its  *)
(* element lie in another with a tooltip, is where the pointer or the      *)
(* focus is and goes with it, titles come back, and a hover shows one.     *)
THEOREM TooltipsGo == Spec => []TooltipsCorrect
<1>1. WidgetsCorrect => TooltipsCorrect
  BY TipHolds DEF WidgetsCorrect, TooltipsCorrect
<1> QED BY <1>1, WidgetsBegin, WidgetsStep, PTL DEF Spec

(* Of the widgets under the pointer one has the press, which is a drag or  *)
(* a click, never both, and a lasso selects what the page is told, however *)
(* it got to where it is.                                                  *)
THEOREM PressesBelong == Spec => []PressesCorrect
<1>1. WidgetsCorrect => PressesCorrect
  BY MouseHolds, LassoHolds DEF WidgetsCorrect, PressesCorrect
<1> QED BY <1>1, WidgetsBegin, WidgetsStep, PTL DEF Spec

(* However droppables are nested and disabled, and whatever the page       *)
(* refuses or destroys, no drag leaves one active or highlighted, and of   *)
(* a greedy child and its parent one is highlighted.  Whatever lists a     *)
(* sort goes through, with however many animations under way, every item   *)
(* is in one list, the placeholder is there for as long as the drag lasts, *)
(* and who was told of every move knows the lists.                         *)
THEOREM DragsLeaveNothing == Spec => []DragsCorrect
<1>1. WidgetsCorrect => DragsCorrect
  BY DragsAre, SortIsCorrect DEF WidgetsCorrect, DragsCorrect, SortInvariant
<1> QED BY <1>1, WidgetsBegin, WidgetsStep, PTL DEF Spec

(* What is let go is dropped on the droppables it was said to be over, and *)
(* a sort that is cancelled, even in its animation and after it was        *)
(* dropped elsewhere, puts the item back behind the one it came from.      *)
THEOREM DropsAreRight == Spec => DropsCorrect
<1>1. WidgetsCorrect /\ [Next]_widgetVars => [DropStep]_drag
  <2> SUFFICES ASSUME WidgetsCorrect, [Next]_widgetVars PROVE DropStep \/ UNCHANGED drag
    OBVIOUS
  <2>1. CASE DragNext
    BY <2>1, DragNextOK DEF WidgetsCorrect, DropStep
  <2> QED BY <2>1, OtherSteps DEF DragStep
<1>2. WidgetsCorrect /\ [Next]_widgetVars => [CancelsBack]_sort
  BY CancelIsBack DEF WidgetsCorrect
<1>3. Spec => [][DropStep]_drag
  BY <1>1, WidgetsBegin, WidgetsStep, PTL DEF Spec
<1>4. Spec => [][CancelsBack]_sort
  BY <1>2, WidgetsBegin, WidgetsStep, PTL DEF Spec
<1>5. Spec => DropsWhereItIsOver
  BY <1>3 DEF DropsWhereItIsOver, DropStep, DropAgrees
<1>6. Spec => CancelPutsBack
  BY <1>4 DEF CancelPutsBack, CancelsBack
<1> QED BY <1>5, <1>6 DEF DropsCorrect
===============================================================================
