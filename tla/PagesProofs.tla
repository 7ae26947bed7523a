--------------------------------- MODULE PagesProofs ---------------------------
(***************************************************************************)
(* Theorems about two pages and what they keep, one on the server and one  *)
(* in the browser.                                                         *)
(*                                                                         *)
(* The table data editor, for any tables and contents: what the mask shows *)
(* and what a click writes belong to the table of the title, as long as    *)
(* the user waits for answers.                                             *)
(*                                                                         *)
(* The ping monitor, for any number of tabs and addresses: a box that is   *)
(* shown is pinged, and boxes come and go with what is stored, whatever    *)
(* answers and timers are still under way.                                 *)
(***************************************************************************)
EXTENDS TableEditor, PingPage, FiniteSetTheorems, TLAPS

-------------------------------------------------------------------------------
(* The table data editor *)

Typed ==
  /\ rows \in [Tables -> SUBSET UNION {Row(t) : t \in Tables}]
  /\ \A t \in Tables : IsFiniteSet(rows[t])
  /\ flight \in [Slots -> Requests \cup Replies \cup {NoRequest}]
  /\ form # NoForm => form \in Form(form.of)

Pending(s) == flight[s] # NoRequest

(* A user who waits has at most one request under way.  It is about the    *)
(* table of the title; what it has read is still so; it carries inputs     *)
(* only of a form that is still there, and none while columns are awaited. *)
Calm ==
  /\ \A s, u \in Slots : Pending(s) /\ Pending(u) => s = u
  /\ \A s \in Slots : Pending(s) =>
       /\ flight[s].table = title
       /\ flight[s].kind = "file" => ~result.shown
       /\ flight[s].at = "server" /\ Filled(flight[s].input) # {} => form # NoForm
       /\ flight[s].at = "page" /\ flight[s].ok /\ flight[s].kind = "search" /\ flight[s].plain =>
            flight[s].found \subseteq rows[title]

(* An edit or insert that succeeded is followed by its search.             *)
SearchFollows == Idle => last.what \notin {"edit", "add"}

IInv == TypeOK /\ Typed /\ (~hasty => Calm) /\ ShownMatchesTitle /\ FreshResult /\ SearchFollows

-------------------------------------------------------------------------------
(* Messages *)

LEMMA MessageFields ==
  ASSUME NEW m \in Requests \cup Replies \cup {NoRequest}, m # NoRequest
  PROVE  /\ m.kind \in Kinds /\ m.table \in Tables /\ m.at \in {"server", "page"}
         /\ m.at = "server" => m \in Requests /\ m.page \in {0, 1}
         /\ m.at = "page" => m \in Replies /\ m.ok \in BOOLEAN /\ m.plain \in BOOLEAN
BY DEF Requests, Replies

LEMMA RequestInput ==
  ASSUME NEW m \in Requests
  PROVE  m.input = <<>> \/ \E t \in Tables : m.input \in Input(t)
<1>1. m.input \in {<<>>} \cup UNION {Input(t) : t \in Tables}
  BY DEF Requests
<1> QED BY <1>1

LEMMA InputsTyped ==
  ASSUME TypeOK
  PROVE  Inputs \in {<<>>} \cup UNION {Input(t) : t \in Tables}
BY DEF Inputs, TypeOK

LEMMA RequestTyped ==
  ASSUME TypeOK, NEW kind \in Kinds, NEW t \in Tables
  PROVE  /\ Request(kind, t) \in Requests /\ Request(kind, t) # NoRequest
         /\ Request(kind, t).table = t /\ Request(kind, t).kind = kind
         /\ Request(kind, t).at = "server" /\ Request(kind, t).input = Inputs
<1> DEFINE at == IF kind = "search" THEN pageNum ELSE 0
<1>1. at \in {0, 1}
  BY DEF TypeOK
<1>2. Request(kind, t) \in Requests
  <2>1. Request(kind, t) = [at |-> "server", kind |-> kind, table |-> t, input |-> Inputs, page |-> at]
    BY DEF Request
  <2> HIDE DEF at
  <2> QED BY <1>1, <2>1, InputsTyped DEF Requests
<1> QED BY <1>2, TablesAssumption DEF Request

LEMMA FileRequestTyped ==
  ASSUME TypeOK, NEW t \in Tables
  PROVE  LET m == [Request("file", t) EXCEPT !.input = <<>>]
         IN  /\ m \in Requests /\ m # NoRequest /\ m.table = t /\ m.kind = "file"
             /\ m.at = "server" /\ m.input = <<>>
<1> DEFINE m == [Request("file", t) EXCEPT !.input = <<>>]
<1>2. m = [at |-> "server", kind |-> "file", table |-> t, input |-> <<>>, page |-> 0]
  BY DEF Request
<1>3. m \in Requests
  BY <1>2 DEF Requests, Kinds
<1> QED BY <1>2, <1>3, TablesAssumption

LEMMA ReplyTyped ==
  ASSUME NEW m \in Requests, NEW ok \in BOOLEAN,
         NEW found \in SUBSET UNION {Row(t) : t \in Tables}, NEW count \in Nat
  PROVE  /\ Reply(m, ok, found, count) \in Replies /\ Reply(m, ok, found, count) # NoRequest
         /\ Reply(m, ok, found, count).table = m.table /\ Reply(m, ok, found, count).kind = m.kind
         /\ Reply(m, ok, found, count).at = "page" /\ Reply(m, ok, found, count).ok = ok
         /\ Reply(m, ok, found, count).found = found /\ Reply(m, ok, found, count).plain = Plain(m.input)
<1>0. Plain(m.input) \in BOOLEAN
  BY DEF Plain
<1>1. Reply(m, ok, found, count) \in Replies
  <2>1. /\ Reply(m, ok, found, count) =
             [at |-> "page", kind |-> m.kind, table |-> m.table, plain |-> Plain(m.input),
              ok |-> ok, found |-> found, count |-> count]
        /\ m.kind \in Kinds /\ m.table \in Tables
    BY DEF Reply, Requests
  <2> QED BY <1>0, <2>1 DEF Replies
<1> QED BY <1>1, TablesAssumption DEF Reply

LEMMA EmptyInput == Filled(<<>>) = {}
BY DEF Filled

LEMMA InitIInv == Init => IInv
<1> SUFFICES ASSUME Init PROVE IInv
  OBVIOUS
<1>1. /\ rows \in [Tables -> SUBSET UNION {Row(t) : t \in Tables}]
      /\ \A t \in Tables : rows[t] \subseteq Row(t) /\ IsFiniteSet(rows[t]) /\ Allowed(t, rows[t])
  BY TablesAssumption DEF Init
<1>2. TypeOK
  <2>1. \A t \in Tables : rows[t] \subseteq Row(t) /\ Allowed(t, rows[t])
    BY <1>1
  <2>0. MaxClicks \in Nat
    BY TablesAssumption
  <2>2. clicks = 0 /\ hasty = FALSE /\ pageNum = 0
    BY DEF Init
  <2>3. clicks \in 0..MaxClicks
    BY <2>0, <2>2
  <2>4. hasty \in BOOLEAN
    BY <2>2
  <2>5. pageNum \in {0, 1}
    BY <2>2
  <2> QED BY <2>1, <2>3, <2>4, <2>5 DEF Init, TypeOK, Hidden
<1>3. Typed
  BY <1>1 DEF Init, Typed
<1>4. Calm
  BY DEF Init, Calm, Pending
<1>5. ShownMatchesTitle /\ FreshResult /\ SearchFollows
  BY DEF Init, ShownMatchesTitle, FreshResult, SearchFollows, Hidden, Ended
<1> QED BY <1>2, <1>3, <1>4, <1>5 DEF IInv

-------------------------------------------------------------------------------
(* The page *)

(* One message takes the place of another, and the types of flight stay.   *)
LEMMA FlightStep ==
  ASSUME Typed, NEW s \in Slots, NEW m \in Requests \cup Replies \cup {NoRequest},
         flight' = [flight EXCEPT ![s] = m]
  PROVE  /\ flight' \in [Slots -> Requests \cup Replies \cup {NoRequest}]
         /\ flight'[s] = m /\ \A u \in Slots : u # s => flight'[u] = flight[u]
BY DEF Typed

(* The part of TypeOK that speaks of flight follows from its type.         *)
LEMMA FlightOK ==
  ASSUME flight' \in [Slots -> Requests \cup Replies \cup {NoRequest}]
  PROVE  \A s \in Slots : flight'[s] # NoRequest =>
           /\ flight'[s].at \in {"server", "page"} /\ flight'[s].table \in Tables
           /\ flight'[s].kind \in {"file", "search", "edit", "add"}
           /\ flight'[s].at = "server" => flight'[s].page \in {0, 1}
<1> TAKE s \in Slots
<1>1. flight'[s] \in Requests \cup Replies \cup {NoRequest}
  OBVIOUS
<1> QED BY <1>1, MessageFields DEF Kinds

LEMMA OpenStep ==
  ASSUME IInv, NEW t \in Tables, NEW s \in Slots, Open(t, s)
  PROVE  IInv'
<1> DEFINE m == [Request("file", t) EXCEPT !.input = <<>>]
<1>0. TypeOK /\ Typed
  BY DEF IInv
<1>1. /\ m \in Requests /\ m # NoRequest /\ m.table = t /\ m.kind = "file"
      /\ m.at = "server" /\ m.input = <<>>
  BY <1>0, FileRequestTyped
<1> HIDE DEF m
<1>2. /\ flight' = [flight EXCEPT ![s] = m]
      /\ title' = t /\ form' = NoForm /\ result' = Hidden /\ hasty' = ~Idle
      /\ clicks < MaxClicks /\ clicks' = clicks + 1 /\ rows' = rows /\ pageNum' = pageNum
      /\ last' = last
  BY DEF Open, Click, m
<1>3. /\ flight' \in [Slots -> Requests \cup Replies \cup {NoRequest}]
      /\ flight'[s] = m /\ \A u \in Slots : u # s => flight'[u] = flight[u]
  BY <1>0, <1>1, <1>2, FlightStep
<1>4. Typed'
  BY <1>0, <1>2, <1>3 DEF Typed
<1>5. TypeOK'
  <2>1. hasty' \in BOOLEAN /\ clicks' \in 0..MaxClicks
    BY <1>0, <1>2, TablesAssumption DEF TypeOK, Idle
  <2>2. result'.shown \in BOOLEAN /\ result'.of \in Tables \cup {NoTable} /\ result'.plain \in BOOLEAN
    BY <1>2 DEF Hidden
  <2>3. \A u \in Tables : rows'[u] \subseteq Row(u) /\ Allowed(u, rows[u])
    BY <1>0, <1>2 DEF TypeOK
  <2> QED BY <1>0, <1>2, <1>3, <2>1, <2>2, <2>3, FlightOK DEF TypeOK
<1>6. ASSUME ~hasty' PROVE Calm'
  <2>1. \A u \in Slots : Pending(u)' => u = s
    BY <1>2, <1>3, <1>6 DEF Pending, Idle
  <2>2. ~result'.shown /\ Filled(m.input) = {}
    BY <1>1, <1>2, EmptyInput DEF Hidden
  <2>3. /\ flight'[s].table = title' /\ flight'[s].kind = "file" /\ flight'[s].at = "server"
        /\ flight'[s].input = <<>>
    BY <1>1, <1>2, <1>3
  <2> QED BY <2>1, <2>2, <2>3, EmptyInput DEF Calm
<1>7. ShownMatchesTitle' /\ FreshResult'
  BY <1>2 DEF ShownMatchesTitle, FreshResult, Hidden
<1>8. SearchFollows'
  BY <1>1, <1>3 DEF SearchFollows, Idle
<1> QED BY <1>4, <1>5, <1>6, <1>7, <1>8 DEF IInv

LEMMA GoStep ==
  ASSUME IInv, NEW kind \in {"search", "edit", "add"}, NEW s \in Slots, Go(kind, s)
  PROVE  IInv'
<1> DEFINE m == Request(kind, title)
<1>0. TypeOK /\ Typed /\ title \in Tables /\ title # NoTable
  BY DEF IInv, Go, TypeOK
<1>1. /\ m \in Requests /\ m # NoRequest /\ m.table = title /\ m.kind = kind
      /\ m.at = "server" /\ m.input = Inputs
  BY <1>0, RequestTyped DEF Kinds
<1> HIDE DEF m
<1>2. /\ flight' = [flight EXCEPT ![s] = m]
      /\ title' = title /\ form' = form /\ result' = result /\ hasty' = (hasty \/ ~Idle)
      /\ clicks < MaxClicks /\ clicks' = clicks + 1 /\ rows' = rows /\ pageNum' = pageNum
      /\ last' = last
  BY DEF Go, Click, page, m
<1>3. /\ flight' \in [Slots -> Requests \cup Replies \cup {NoRequest}]
      /\ flight'[s] = m /\ \A u \in Slots : u # s => flight'[u] = flight[u]
  BY <1>0, <1>1, <1>2, FlightStep
<1>4. Typed'
  BY <1>0, <1>2, <1>3 DEF Typed
<1>5. TypeOK'
  <2>1. hasty' \in BOOLEAN /\ clicks' \in 0..MaxClicks
    BY <1>0, <1>2, TablesAssumption DEF TypeOK, Idle
  <2>2. \A u \in Tables : rows'[u] \subseteq Row(u) /\ Allowed(u, rows[u])
    BY <1>0, <1>2 DEF TypeOK
  <2> QED BY <1>0, <1>2, <1>3, <2>1, <2>2, FlightOK DEF TypeOK
<1>6. ASSUME ~hasty' PROVE Calm'
  <2>1. \A u \in Slots : Pending(u)' => u = s
    BY <1>2, <1>3, <1>6 DEF Pending, Idle
  <2>2. Filled(Inputs) # {} => form # NoForm
    BY EmptyInput DEF Inputs
  <2>3. /\ flight'[s].table = title' /\ flight'[s].kind # "file" /\ flight'[s].at = "server"
        /\ flight'[s].input = Inputs
    BY <1>1, <1>2, <1>3
  <2> QED BY <1>2, <2>1, <2>2, <2>3 DEF Calm
<1>7. ShownMatchesTitle'
  BY <1>2 DEF ShownMatchesTitle, IInv
<1>8. SearchFollows' /\ FreshResult'
  BY <1>1, <1>3 DEF SearchFollows, FreshResult, Idle
<1> QED BY <1>4, <1>5, <1>6, <1>7, <1>8 DEF IInv

(* Typing changes neither the table nor the labels of the form. *)
LEMMA TypeStep ==
  ASSUME IInv, Type
  PROVE  IInv'
<1>0. TypeOK /\ Typed
  BY DEF IInv
<1>1. PICK i \in Entries[form.of] : form' = [form EXCEPT !.input = i]
  BY DEF Type
<1>2. form # NoForm /\ form \in Form(form.of) /\ form.of \in Tables
  BY <1>0 DEF Type, Typed, TypeOK
<1>11. i \in Input(form.of)
  BY <1>2, TablesAssumption
<1>3. form' \in Form(form.of) /\ form'.of = form.of /\ form'.input = i /\ form' # NoForm
  BY <1>11, <1>1, <1>2, TablesAssumption DEF Form
<1>4. /\ rows' = rows /\ title' = title /\ result' = result /\ flight' = flight /\ last' = last
      /\ hasty' = hasty /\ clicks' = clicks /\ pageNum' \in {0, 1}
  BY DEF Type
<1>5. TypeOK' /\ Typed'
  <2>1. \A u \in Tables : rows'[u] \subseteq Row(u) /\ Allowed(u, rows[u])
    BY <1>0, <1>4 DEF TypeOK
  <2> QED BY <1>0, <1>2, <1>3, <1>4, <1>11, <2>1 DEF TypeOK, Typed
<1>6. Calm => Calm'
  BY <1>3, <1>4 DEF Calm, Pending
<1>7. ShownMatchesTitle'
  BY <1>2, <1>3, <1>4 DEF IInv, ShownMatchesTitle
<1>8. DOMAIN Inputs' = DOMAIN Inputs
  <2>1. DOMAIN form.input = Columns[form.of] /\ DOMAIN i = Columns[form.of]
    BY <1>11, <1>2 DEF Form, Input
  <2> QED BY <1>2, <1>3, <2>1 DEF Inputs
<1>9. FreshResult'
  <2>1. \A r : Cells(r)' = Cells(r)
    BY <1>8 DEF Cells
  <2>2. {Cells(r) : r \in rows[title]}' = {Cells(r) : r \in rows[title]}
    BY <1>4, <2>1
  <2> QED BY <1>4, <2>2 DEF IInv, FreshResult, Idle
<1>10. SearchFollows'
  BY <1>4 DEF IInv, SearchFollows, Idle
<1> QED BY <1>4, <1>5, <1>6, <1>7, <1>9, <1>10 DEF IInv

(* The last request of a user who waits ends, and nothing is under way.    *)
LEMMA EndStep ==
  ASSUME IInv, NEW s \in Slots, Pending(s), flight' = [flight EXCEPT ![s] = NoRequest]
  PROVE  /\ flight' \in [Slots -> Requests \cup Replies \cup {NoRequest}]
         /\ ~hasty => \A u \in Slots : ~ Pending(u)'
<1>1. /\ flight' \in [Slots -> Requests \cup Replies \cup {NoRequest}]
      /\ flight'[s] = NoRequest /\ \A u \in Slots : u # s => flight'[u] = flight[u]
  BY FlightStep DEF IInv
<1> QED BY <1>1 DEF IInv, Calm, Pending

LEMMA RejectedStep ==
  ASSUME IInv, NEW s \in Slots, Rejected(s) \/ Lose(s)
  PROVE  IInv'
<1>0. TypeOK /\ Typed
  BY DEF IInv
<1>1. /\ Pending(s) /\ flight' = [flight EXCEPT ![s] = NoRequest]
      /\ rows' = rows /\ title' = title /\ form' = form /\ pageNum' = pageNum /\ result' = result
      /\ hasty' = hasty /\ clicks' = clicks /\ last'.what \in {"error", "lost"}
  BY DEF Rejected, Lose, Done, Ended, page, Pending
<1>2. /\ flight' \in [Slots -> Requests \cup Replies \cup {NoRequest}]
      /\ ~hasty => \A u \in Slots : ~ Pending(u)'
  BY <1>1, EndStep
<1>3. TypeOK' /\ Typed'
  <2>1. \A u \in Tables : rows'[u] \subseteq Row(u) /\ Allowed(u, rows[u])
    BY <1>0, <1>1 DEF TypeOK
  <2> QED BY <1>0, <1>1, <1>2, <2>1, FlightOK DEF TypeOK, Typed
<1>4. ~hasty' => Calm'
  BY <1>1, <1>2 DEF Calm
<1>5. ShownMatchesTitle' /\ SearchFollows' /\ FreshResult'
  BY <1>1 DEF IInv, ShownMatchesTitle, SearchFollows, FreshResult
<1> QED BY <1>3, <1>4, <1>5 DEF IInv

LEMMA ShowFormStep ==
  ASSUME IInv, NEW s \in Slots, ShowForm(s)
  PROVE  IInv'
<1> DEFINE t == flight[s].table
<1>0. TypeOK /\ Typed
  BY DEF IInv
<1>1. /\ Pending(s) /\ flight' = [flight EXCEPT ![s] = NoRequest]
      /\ rows' = rows /\ title' = title /\ pageNum' = pageNum /\ result' = result
      /\ hasty' = hasty /\ clicks' = clicks /\ last'.what = "form"
      /\ form' = [of |-> t, input |-> [c \in Columns[t] |-> Blank]]
  BY DEF ShowForm, Done, Ended, Pending
<1>2. /\ flight' \in [Slots -> Requests \cup Replies \cup {NoRequest}]
      /\ ~hasty => \A u \in Slots : ~ Pending(u)'
  BY <1>1, EndStep
<1>3. t \in Tables
  BY <1>0, <1>1 DEF TypeOK, Pending
<1>4. form' \in Form(t) /\ form'.of = t /\ form'.input \in Input(t)
  BY <1>1 DEF Form, Input
<1>5. TypeOK' /\ Typed'
  <2>1. \A u \in Tables : rows'[u] \subseteq Row(u) /\ Allowed(u, rows[u])
    BY <1>0, <1>1 DEF TypeOK
  <2> QED BY <1>0, <1>1, <1>2, <1>3, <1>4, <2>1, FlightOK DEF TypeOK, Typed
<1>6. ~hasty' => Calm'
  BY <1>1, <1>2 DEF Calm
<1>7. ShownMatchesTitle'
  BY <1>1, <1>4 DEF IInv, ShownMatchesTitle, Calm
<1>8. SearchFollows' /\ FreshResult'
  BY <1>1 DEF IInv, SearchFollows, FreshResult
<1> QED BY <1>5, <1>6, <1>7, <1>8 DEF IInv

LEMMA ShowRowsStep ==
  ASSUME IInv, NEW s \in Slots, ShowRows(s)
  PROVE  IInv'
<1>0. TypeOK /\ Typed
  BY DEF IInv
<1>1. /\ Pending(s) /\ flight' = [flight EXCEPT ![s] = NoRequest]
      /\ rows' = rows /\ title' = title /\ form' = form /\ pageNum' = pageNum
      /\ hasty' = hasty /\ clicks' = clicks
      /\ flight[s].at = "page" /\ flight[s].ok /\ flight[s].kind = "search"
  BY DEF ShowRows, Done, Pending
<1>2. \/ /\ last'.what = "rows"
         /\ result' = [of |-> flight[s].table, shown |-> TRUE, plain |-> flight[s].plain,
                       rows |-> {Cells(r) : r \in flight[s].found}]
      \/ last'.what = "empty" /\ result' = result
  BY DEF ShowRows, Done, Ended
<1>3. /\ flight' \in [Slots -> Requests \cup Replies \cup {NoRequest}]
      /\ ~hasty => \A u \in Slots : ~ Pending(u)'
  BY <1>1, EndStep
<1>4. flight[s].table \in Tables /\ flight[s].plain \in BOOLEAN
  BY <1>0, <1>1, MessageFields DEF Typed, Pending
<1>5. TypeOK' /\ Typed'
  <2>1. \A u \in Tables : rows'[u] \subseteq Row(u) /\ Allowed(u, rows[u])
    BY <1>0, <1>1 DEF TypeOK
  <2>2. result'.shown \in BOOLEAN /\ result'.of \in Tables \cup {NoTable} /\ result'.plain \in BOOLEAN
    <3>1. CASE result' = result
      BY <1>0, <3>1 DEF TypeOK
    <3>2. CASE result'.of = flight[s].table /\ result'.shown = TRUE /\ result'.plain = flight[s].plain
      BY <1>4, <3>2
    <3>3. CASE result' = [of |-> flight[s].table, shown |-> TRUE, plain |-> flight[s].plain,
                          rows |-> {Cells(r) : r \in flight[s].found}]
      BY <3>2, <3>3, Zenon
    <3> QED BY <1>2, <3>1, <3>3
  <2> QED BY <1>0, <1>1, <1>3, <2>1, <2>2, FlightOK DEF TypeOK, Typed
<1>6. ~hasty' => Calm'
  BY <1>1, <1>3 DEF Calm
<1>7. ~hasty => flight[s].table = title /\ (flight[s].plain => flight[s].found \subseteq rows[title])
  BY <1>1 DEF IInv, Calm
<1>8. ShownMatchesTitle'
  BY <1>1, <1>2, <1>7 DEF IInv, ShownMatchesTitle
<1>9. FreshResult'
  <2>1. CASE last'.what = "empty"
    BY <2>1 DEF FreshResult
  <2>2. CASE result' = [of |-> flight[s].table, shown |-> TRUE, plain |-> flight[s].plain,
                        rows |-> {Cells(r) : r \in flight[s].found}]
    <3>1. \A r : Cells(r)' = Cells(r)
      BY <1>1 DEF Cells, Inputs
    <3>2. ~hasty /\ flight[s].plain => {Cells(r) : r \in flight[s].found} \subseteq {Cells(r) : r \in rows[title]}
      BY <1>7
    <3>3. {Cells(r) : r \in rows[title]}' = {Cells(r) : r \in rows[title]}
      BY <1>1, <3>1
    <3>4. result'.rows = {Cells(r) : r \in flight[s].found} /\ result'.plain = flight[s].plain
      BY <2>2, Zenon
    <3> QED BY <1>1, <3>2, <3>3, <3>4 DEF FreshResult
  <2> QED BY <1>2, <2>1, <2>2
<1>10. SearchFollows'
  BY <1>2 DEF SearchFollows
<1> QED BY <1>5, <1>6, <1>8, <1>9, <1>10 DEF IInv

LEMMA SavedStep ==
  ASSUME IInv, NEW s \in Slots, Saved(s)
  PROVE  IInv'
<1> DEFINE m == Request("search", flight[s].table)
<1>0. TypeOK /\ Typed
  BY DEF IInv
<1>1. /\ Pending(s) /\ flight' = [flight EXCEPT ![s] = m]
      /\ rows' = rows /\ title' = title /\ form' = form /\ pageNum' = pageNum /\ result' = result
      /\ hasty' = hasty /\ clicks' = clicks
  BY DEF Saved, page, Pending
<1>2. flight[s].table \in Tables
  BY <1>0, <1>1 DEF TypeOK, Pending
<1>3. /\ m \in Requests /\ m # NoRequest /\ m.table = flight[s].table /\ m.kind = "search"
      /\ m.at = "server" /\ m.input = Inputs
  BY <1>0, <1>2, RequestTyped DEF Kinds
<1> HIDE DEF m
<1>4. /\ flight' \in [Slots -> Requests \cup Replies \cup {NoRequest}]
      /\ flight'[s] = m /\ \A u \in Slots : u # s => flight'[u] = flight[u]
  BY <1>0, <1>1, <1>3, FlightStep
<1>5. TypeOK' /\ Typed'
  <2>1. \A u \in Tables : rows'[u] \subseteq Row(u) /\ Allowed(u, rows[u])
    BY <1>0, <1>1 DEF TypeOK
  <2> QED BY <1>0, <1>1, <1>4, <2>1, FlightOK DEF TypeOK, Typed
<1>6. ASSUME ~hasty' PROVE Calm'
  <2>1. Calm
    BY <1>1, <1>6 DEF IInv
  <2>2. \A u \in Slots : Pending(u)' => u = s
    BY <1>1, <1>4, <2>1 DEF Pending, Calm
  <2>3. Filled(Inputs) # {} => form # NoForm
    BY EmptyInput DEF Inputs
  <2>4. /\ flight'[s].table = title' /\ flight'[s].kind # "file" /\ flight'[s].at = "server"
        /\ flight'[s].input = Inputs
    BY <1>1, <1>3, <1>4, <2>1 DEF Calm
  <2> QED BY <1>1, <2>2, <2>3, <2>4 DEF Calm
<1>7. ShownMatchesTitle'
  BY <1>1 DEF IInv, ShownMatchesTitle
<1>8. FreshResult' /\ SearchFollows'
  BY <1>3, <1>4 DEF FreshResult, SearchFollows, Idle
<1> QED BY <1>5, <1>6, <1>7, <1>8 DEF IInv

-------------------------------------------------------------------------------
(* The server *)

(* An answer takes the place of its request.  What it has done to the      *)
(* tables must be allowed, and what it has found must be there.            *)
LEMMA AnswerStep ==
  ASSUME IInv, NEW s \in Slots, Pending(s), flight[s].at = "server",
         NEW ok \in BOOLEAN, NEW found \in SUBSET UNION {Row(t) : t \in Tables}, NEW count \in Nat,
         Answer(s, ok, found, count), UNCHANGED <<page, last, hasty, clicks>>,
         rows' \in [Tables -> SUBSET UNION {Row(t) : t \in Tables}],
         \A t \in Tables : rows'[t] \subseteq Row(t) /\ IsFiniteSet(rows'[t]) /\ Allowed(t, rows'[t]),
         flight[s].kind = "search" /\ Plain(flight[s].input) => found \subseteq rows'[flight[s].table]
  PROVE  IInv'
<1> DEFINE m == Reply(flight[s], ok, found, count)
<1>0. TypeOK /\ Typed
  BY DEF IInv
<1>1. flight[s] \in Requests
  BY <1>0, MessageFields DEF Typed, Pending
<1>2. /\ m \in Replies /\ m # NoRequest /\ m.table = flight[s].table /\ m.kind = flight[s].kind
      /\ m.at = "page" /\ m.ok = ok /\ m.found = found /\ m.plain = Plain(flight[s].input)
  BY <1>1, ReplyTyped
<1>3. flight' = [flight EXCEPT ![s] = m]
  BY DEF Answer
<1> HIDE DEF m
<1>4. /\ flight' \in [Slots -> Requests \cup Replies \cup {NoRequest}]
      /\ flight'[s] = m /\ \A u \in Slots : u # s => flight'[u] = flight[u]
  BY <1>0, <1>2, <1>3, FlightStep
<1>5. /\ title' = title /\ form' = form /\ pageNum' = pageNum /\ result' = result
      /\ last' = last /\ hasty' = hasty /\ clicks' = clicks
  BY DEF page
<1>6. TypeOK' /\ Typed'
  <2>1. \A t \in Tables : rows'[t] \subseteq Row(t) /\ Allowed(t, rows[t])'
    BY DEF Allowed
  <2> QED BY <1>0, <1>4, <1>5, <2>1, FlightOK DEF TypeOK, Typed
<1>7. ASSUME ~hasty' PROVE Calm'
  <2>1. Calm
    BY <1>5, <1>7 DEF IInv
  <2>2. \A u \in Slots : Pending(u)' => u = s
    BY <1>4, <2>1 DEF Pending, Calm
  <2>3. /\ flight'[s].table = title' /\ flight'[s].kind = flight[s].kind /\ flight'[s].at = "page"
        /\ flight'[s].found = found /\ flight'[s].plain = Plain(flight[s].input)
        /\ flight[s].kind = "file" => ~result'.shown
    BY <1>2, <1>4, <1>5, <2>1 DEF Calm
  <2>4. flight[s].table = title'
    BY <1>2, <1>4, <2>3
  <2> QED BY <2>2, <2>3, <2>4 DEF Calm
<1>8. ShownMatchesTitle'
  BY <1>5 DEF IInv, ShownMatchesTitle
<1>9. FreshResult' /\ SearchFollows'
  BY <1>2, <1>4 DEF FreshResult, SearchFollows, Idle
<1> QED BY <1>6, <1>7, <1>8, <1>9 DEF IInv

(* The values of a row and those of an input make a row.                   *)
LEMMA AfterIsRow ==
  ASSUME NEW m \in Requests, NEW t \in Tables, Known(t, m.input), Plain(m.input), NEW r \in Row(t)
  PROVE  After(t, m.input, r) \in Row(t)
<1>1. \A c \in Filled(m.input) : m.input[c] \in Values
  <2>1. CASE m.input = <<>>
    BY <2>1, EmptyInput
  <2>2. ASSUME NEW u \in Tables, m.input \in Input(u)
        PROVE  \A c \in Filled(m.input) : m.input[c] \in Values
    BY <2>2 DEF Input, Filled, Plain
  <2> QED BY <2>1, <2>2, RequestInput
<1> QED BY <1>1 DEF After, Row

LEMMA EditStep ==
  ASSUME IInv, NEW s \in Slots, EditData(s)
  PROVE  IInv'
<1> DEFINE t == flight[s].table
           input == flight[s].input
           hit == Hit(t, input)
           content == (rows[t] \ hit) \cup {After(t, input, r) : r \in hit}
<1>0. TypeOK /\ Typed
  BY DEF IInv
<1>1. /\ Pending(s) /\ flight[s].at = "server" /\ flight[s].kind = "edit"
      /\ EditAccepted(t, input) /\ Plain(input) /\ UNCHANGED <<page, last, hasty, clicks>>
      /\ Allowed(t, content) /\ rows' = [rows EXCEPT ![t] = content]
      /\ Answer(s, TRUE, {}, Cardinality(hit))
  BY DEF EditData, AtServer, Pending
<1>2. flight[s] \in Requests /\ t \in Tables
  BY <1>0, <1>1, MessageFields DEF Typed, Pending
<1>3. rows[t] \subseteq Row(t) /\ IsFiniteSet(rows[t]) /\ hit \subseteq rows[t]
  BY <1>0, <1>2 DEF TypeOK, Typed, Hit
<1>4. content \subseteq Row(t)
  <2>1. \A r \in hit : After(t, input, r) \in Row(t)
    BY <1>1, <1>2, <1>3, AfterIsRow DEF EditAccepted
  <2> QED BY <1>3, <2>1
<1>5. IsFiniteSet(content) /\ Cardinality(hit) \in Nat
  <2>1. IsFiniteSet(hit) /\ IsFiniteSet(rows[t] \ hit)
    BY <1>3, FS_Subset
  <2>2. IsFiniteSet({After(t, input, r) : r \in hit})
    <3> DEFINE f == [r \in hit |-> After(t, input, r)]
    <3>1. f \in Surjection(hit, {After(t, input, r) : r \in hit})
      BY DEF Surjection
    <3> QED BY <2>1, <3>1, FS_Surjection
  <2> QED BY <2>1, <2>2, FS_Union, FS_CardinalityType
<1> HIDE DEF content, hit
<1>6. /\ rows'[t] = content
      /\ \A u \in Tables : u # t => rows'[u] = rows[u]
      /\ rows' \in [Tables -> SUBSET UNION {Row(u) : u \in Tables}]
  BY <1>0, <1>1, <1>2, <1>4 DEF Typed
<1>7. \A u \in Tables : rows'[u] \subseteq Row(u) /\ IsFiniteSet(rows'[u]) /\ Allowed(u, rows'[u])
  BY <1>0, <1>1, <1>4, <1>5, <1>6 DEF TypeOK, Typed
<1> QED BY <1>1, <1>5, <1>6, <1>7, AnswerStep

LEMMA AddStep ==
  ASSUME IInv, NEW s \in Slots, AddData(s)
  PROVE  IInv'
<1> DEFINE t == flight[s].table
<1>0. TypeOK /\ Typed
  BY DEF IInv
<1>1. /\ Pending(s) /\ flight[s].at = "server" /\ flight[s].kind = "add"
      /\ UNCHANGED <<page, last, hasty, clicks>> /\ Answer(s, TRUE, {}, 1)
  BY DEF AddData, AtServer, Pending
<1>2. PICK r \in Row(t) : Allowed(t, rows[t] \cup {r}) /\ rows' = [rows EXCEPT ![t] = @ \cup {r}]
  BY DEF AddData
<1>3. t \in Tables
  BY <1>0, <1>1, MessageFields DEF Typed, Pending
<1>4. /\ rows'[t] = rows[t] \cup {r}
      /\ \A u \in Tables : u # t => rows'[u] = rows[u]
      /\ rows' \in [Tables -> SUBSET UNION {Row(u) : u \in Tables}]
  BY <1>0, <1>2, <1>3 DEF Typed
<1>5. IsFiniteSet(rows[t] \cup {r})
  BY <1>0, <1>3, FS_AddElement DEF Typed
<1>6. \A u \in Tables : rows'[u] \subseteq Row(u) /\ IsFiniteSet(rows'[u]) /\ Allowed(u, rows'[u])
  BY <1>0, <1>2, <1>4, <1>5 DEF TypeOK, Typed
<1> QED BY <1>1, <1>4, <1>6, AnswerStep

(* Rows made of rows are finitely many. *)
LEMMA MadeOfRows ==
  ASSUME NEW t, IsFiniteSet(rows[t]), NEW after \in [rows[t] -> rows[t] \cup Made[t]]
  PROVE  IsFiniteSet({after[r] : r \in rows[t]})
<1>1. after \in Surjection(rows[t], {after[r] : r \in rows[t]})
  BY DEF Surjection
<1> QED BY <1>1, FS_Surjection

LEMMA FewRows ==
  ASSUME NEW t \in Tables, NEW new \in Few(t)
  PROVE  new \subseteq Row(t) /\ IsFiniteSet(new)
<1>1. Made[t] \subseteq Row(t)
  BY TablesAssumption
<1>2. new = {} \/ \E r \in Made[t] : new = {r}
  BY DEF Few
<1> QED BY <1>1, <1>2, FS_EmptySet, FS_Singleton

LEMMA AsTypedStep ==
  ASSUME IInv, NEW s \in Slots, EditDataAsTyped(s) \/ AddDataAsTyped(s)
  PROVE  IInv'
<1> DEFINE t == flight[s].table
<1>0. TypeOK /\ Typed
  BY DEF IInv
<1>1. /\ Pending(s) /\ flight[s].at = "server" /\ ~ Plain(flight[s].input)
      /\ UNCHANGED <<page, last, hasty, clicks>>
  BY DEF EditDataAsTyped, AddDataAsTyped, AsTyped, AtServer, Pending
<1>2. t \in Tables
  BY <1>0, <1>1, MessageFields DEF Typed, Pending
<1>3. rows[t] \subseteq Row(t) /\ IsFiniteSet(rows[t]) /\ Cardinality(rows[t]) \in Nat
  BY <1>0, <1>2, FS_CardinalityType DEF TypeOK, Typed
<1>4. Made[t] \subseteq Row(t)
  BY <1>2, TablesAssumption
<1>5. PICK content \in SUBSET Row(t) :
        IsFiniteSet(content) /\ Allowed(t, content) /\ rows' = [rows EXCEPT ![t] = content]
  <2>1. CASE EditDataAsTyped(s)
    <3>1. PICK after \in [rows[t] -> rows[t] \cup Made[t]] :
            /\ Allowed(t, {after[r] : r \in rows[t]})
            /\ rows' = [rows EXCEPT ![t] = {after[r] : r \in rows[t]}]
      BY <2>1 DEF EditDataAsTyped
    <3>2. {after[r] : r \in rows[t]} \subseteq Row(t)
      BY <1>3, <1>4
    <3>3. IsFiniteSet({after[r] : r \in rows[t]})
      BY <1>3, MadeOfRows
    <3> HIDE DEF t
    <3> QED BY <3>1, <3>2, <3>3
  <2>2. CASE AddDataAsTyped(s)
    <3>1. PICK after \in [rows[t] -> rows[t] \cup Made[t]], new \in Few(t) :
            /\ Allowed(t, {after[r] : r \in rows[t]} \cup new)
            /\ rows' = [rows EXCEPT ![t] = {after[r] : r \in rows[t]} \cup new]
      BY <2>2 DEF AddDataAsTyped
    <3>2. {after[r] : r \in rows[t]} \subseteq Row(t) /\ new \subseteq Row(t) /\ IsFiniteSet(new)
      BY <1>2, <1>3, <1>4, FewRows
    <3>4. IsFiniteSet({after[r] : r \in rows[t]})
      BY <1>3, MadeOfRows
    <3> HIDE DEF t
    <3>3. IsFiniteSet({after[r] : r \in rows[t]} \cup new)
      BY <3>2, <3>4, FS_Union
    <3> QED BY <3>1, <3>2, <3>3
  <2> QED BY <2>1, <2>2
<1>6. \E count \in Nat : Answer(s, TRUE, {}, count)
  <2>1. CASE EditDataAsTyped(s)
    <3>1. PICK after \in [rows[t] -> rows[t] \cup Made[t]] :
            \E count \in Cardinality({r \in rows[t] : after[r] # r})..Cardinality(rows[t]) :
              Answer(s, TRUE, {}, count)
      BY <2>1 DEF EditDataAsTyped
    <3> DEFINE changed == {r \in rows[t] : after[r] # r}
    <3>2. changed \subseteq rows[t]
      OBVIOUS
    <3>3. Cardinality(changed) \in Nat
      <4> HIDE DEF changed, t
      <4> QED BY <1>3, <3>2, FS_Subset, FS_CardinalityType
    <3>4. PICK count \in Cardinality(changed)..Cardinality(rows[t]) : Answer(s, TRUE, {}, count)
      BY <3>1
    <3> HIDE DEF changed, t
    <3>5. count \in Nat
      BY <1>3, <3>3, <3>4
    <3> QED BY <3>4, <3>5
  <2>2. CASE AddDataAsTyped(s)
    BY <2>2 DEF AddDataAsTyped
  <2> QED BY <2>1, <2>2
<1>7. /\ rows'[t] = content
      /\ \A u \in Tables : u # t => rows'[u] = rows[u]
      /\ rows' \in [Tables -> SUBSET UNION {Row(u) : u \in Tables}]
  BY <1>0, <1>2, <1>5 DEF Typed
<1>8. \A u \in Tables : rows'[u] \subseteq Row(u) /\ IsFiniteSet(rows'[u]) /\ Allowed(u, rows'[u])
  BY <1>0, <1>5, <1>7 DEF TypeOK, Typed
<1> QED BY <1>1, <1>6, <1>7, <1>8, AnswerStep

LEMMA ServerStep ==
  ASSUME IInv, NEW s \in Slots, Server(s)
  PROVE  IInv'
<1>0. /\ rows \in [Tables -> SUBSET UNION {Row(t) : t \in Tables}]
      /\ \A t \in Tables : rows[t] \subseteq Row(t) /\ IsFiniteSet(rows[t]) /\ Allowed(t, rows[t])
  BY DEF IInv, TypeOK, Typed
<1>1. CASE Fails(s)
  <2>1. /\ Pending(s) /\ flight[s].at = "server" /\ Answer(s, FALSE, {}, 0) /\ rows' = rows
        /\ UNCHANGED <<page, last, hasty, clicks>>
    BY <1>1 DEF Fails, AtServer, Pending
  <2> QED BY <1>0, <2>1, AnswerStep
<1>2. CASE GetDbFile(s)
  <2>1. /\ Pending(s) /\ flight[s].at = "server" /\ Answer(s, TRUE, {}, 0) /\ rows' = rows
        /\ UNCHANGED <<page, last, hasty, clicks>>
    BY <1>2 DEF GetDbFile, AtServer, Pending
  <2> QED BY <1>0, <2>1, AnswerStep
<1>3. CASE GetDbData(s)
  <2> DEFINE found == Found(flight[s].table, flight[s].input, flight[s].page)
  <2>1. /\ Pending(s) /\ flight[s].at = "server" /\ Answer(s, TRUE, found, 0) /\ rows' = rows
        /\ UNCHANGED <<page, last, hasty, clicks>>
    BY <1>3 DEF GetDbData, AtServer, Pending
  <2>2. flight[s].table \in Tables
    BY <2>1, MessageFields DEF IInv, Typed, Pending
  <2>3. found \subseteq rows[flight[s].table]
    BY DEF Found
  <2>4. found \in SUBSET UNION {Row(t) : t \in Tables}
    BY <1>0, <2>2, <2>3
  <2> HIDE DEF found
  <2> QED BY <1>0, <2>1, <2>3, <2>4, AnswerStep
<1>4. CASE GetDbDataAsTyped(s)
  <2>0. /\ Pending(s) /\ flight[s].at = "server" /\ rows' = rows /\ ~ Plain(flight[s].input)
        /\ UNCHANGED <<page, last, hasty, clicks>>
    BY <1>4 DEF GetDbDataAsTyped, AsTyped, AtServer, Pending
  <2>1. flight[s].table \in Tables
    BY <2>0, MessageFields DEF IInv, Typed, Pending
  <2>2. PICK old \in SUBSET rows[flight[s].table], new \in Few(flight[s].table) :
          Answer(s, TRUE, old \cup new, 0)
    BY <1>4 DEF GetDbDataAsTyped
  <2>3. old \cup new \subseteq Row(flight[s].table)
    BY <1>0, <2>1, FewRows
  <2>4. old \cup new \in SUBSET UNION {Row(t) : t \in Tables}
    BY <2>1, <2>3
  <2> QED BY <1>0, <2>0, <2>2, <2>4, AnswerStep
<1> QED BY <1>1, <1>2, <1>3, <1>4, EditStep, AddStep, AsTypedStep DEF Server

-------------------------------------------------------------------------------
(* The theorems *)

LEMMA NextIInv == IInv /\ [Next]_vars => IInv'
<1> SUFFICES ASSUME IInv, [Next]_vars PROVE IInv'
  OBVIOUS
<1>1. ASSUME NEW s \in Slots, User(s) PROVE IInv'
  BY <1>1, OpenStep, GoStep DEF User
<1>2. ASSUME NEW s \in Slots, Callback(s) PROVE IInv'
  BY <1>2, RejectedStep, ShowFormStep, ShowRowsStep, SavedStep DEF Callback
<1>3. CASE UNCHANGED vars
  <2>1. /\ rows' = rows /\ title' = title /\ form' = form /\ pageNum' = pageNum /\ result' = result
        /\ flight' = flight /\ last' = last /\ hasty' = hasty /\ clicks' = clicks
    BY <1>3 DEF vars
  <2> QED BY <2>1 DEF IInv, TypeOK, Typed, Calm, Pending, ShownMatchesTitle, FreshResult,
                      SearchFollows, Idle, Cells, Inputs
<1> QED BY <1>1, <1>2, <1>3, TypeStep, ServerStep DEF Next

(* A user who waits for answers sees the table of the title, with the      *)
(* content the database has after a search, an edit or an insert.          *)
THEOREM MaskShowsTitle == Spec => []MaskCorrect
<1>1. IInv => MaskCorrect
  BY DEF IInv, MaskCorrect
<1> QED BY <1>1, InitIInv, NextIInv, PTL DEF Spec

(* All but an edit and an insert leave the tables alone.                   *)
Writes(s) == EditData(s) \/ AddData(s) \/ EditDataAsTyped(s) \/ AddDataAsTyped(s)

LEMMA RowsStay ==
  ASSUME [Next]_vars
  PROVE  rows' = rows \/ \E s \in Slots : Writes(s)
<1>1. ASSUME NEW s \in Slots, User(s) \/ Callback(s) PROVE rows' = rows
  BY <1>1 DEF User, Open, Go, Callback, Rejected, ShowForm, ShowRows, Saved, Lose
<1>2. ASSUME NEW s \in Slots, Fails(s) \/ GetDbFile(s) \/ GetDbData(s) \/ GetDbDataAsTyped(s)
      PROVE  rows' = rows
  BY <1>2 DEF Fails, GetDbFile, GetDbData, GetDbDataAsTyped
<1>3. Type => rows' = rows
  BY DEF Type
<1>4. UNCHANGED vars => rows' = rows
  BY DEF vars
<1> QED BY <1>1, <1>2, <1>3, <1>4 DEF Next, Server, Writes

LEMMA EmptyDifference ==
  ASSUME NEW S, NEW T, S \subseteq T
  PROVE  Cardinality(S \ T) <= 1
<1>1. S \ T = {}
  OBVIOUS
<1> QED BY <1>1, FS_EmptySet

LEMMA OneWrite ==
  ASSUME IInv, NEW s \in Slots, Writes(s)
  PROVE  /\ flight[s].table \in Tables /\ Pending(s) /\ flight[s].at = "server"
         /\ Filled(flight[s].input) # {}
         /\ \A u \in Tables : u # flight[s].table => rows'[u] = rows[u]
<1> DEFINE t == flight[s].table
<1>0. TypeOK /\ Typed
  BY DEF IInv
<1>1. Pending(s) /\ flight[s].at = "server"
  BY DEF Writes, EditData, AddData, EditDataAsTyped, AddDataAsTyped, AsTyped, AtServer, Pending
<1>2. t \in Tables
  BY <1>0, <1>1, MessageFields DEF Typed, Pending
<1>3. Filled(flight[s].input) # {}
  BY DEF Writes, EditData, AddData, EditDataAsTyped, AddDataAsTyped, AsTyped, EditAccepted, AddAccepted
<1>4. \E content : rows' = [rows EXCEPT ![t] = content]
  BY DEF Writes, EditData, AddData, EditDataAsTyped, AddDataAsTyped, AsTyped
<1>5. \A u \in Tables : u # t => rows'[u] = rows[u]
  BY <1>0, <1>2, <1>4 DEF Typed
<1> QED BY <1>1, <1>2, <1>3, <1>5

LEMMA TitledStep == IInv /\ [Next]_vars => OnlyTitledWritten
<1> SUFFICES ASSUME IInv, [Next]_vars, NEW t \in Tables, rows'[t] # rows[t], ~hasty
             PROVE  title = t /\ form # NoForm /\ form.of = t
  BY DEF OnlyTitledWritten
<1>1. PICK s \in Slots : Writes(s)
  BY RowsStay
<1>2. /\ Pending(s) /\ flight[s].at = "server" /\ Filled(flight[s].input) # {}
      /\ flight[s].table = t
  BY <1>1, OneWrite
<1>3. flight[s].table = title /\ form # NoForm
  BY <1>2 DEF IInv, Calm
<1> QED BY <1>2, <1>3 DEF IInv, ShownMatchesTitle

LEMMA OneKeyColumn ==
  ASSUME NEW t \in Tables, Cardinality(Key[t]) = 1
  PROVE  Key[t] = {PkField[t]}
<1>1. IsFiniteSet(Columns[t]) /\ Key[t] \subseteq Columns[t] /\ (Key[t] # {} => PkField[t] \in Key[t])
  BY TablesAssumption
<1>2. IsFiniteSet(Key[t])
  BY <1>1, FS_Subset
<1>3. PICK k : Key[t] = {k}
  BY <1>2, FS_Singleton
<1> QED BY <1>1, <1>3

(* An edit keeps the key of each row it addresses, and addresses one.      *)
LEMMA EditKeeps ==
  ASSUME IInv, NEW s \in Slots, EditData(s), Cardinality(Key[flight[s].table]) = 1
  PROVE  LET t == flight[s].table
         IN  /\ {KeyOf(t, r) : r \in rows[t]} \subseteq {KeyOf(t, r) : r \in rows'[t]}
             /\ Cardinality(rows[t] \ rows'[t]) <= 1
<1> DEFINE t == flight[s].table
           input == flight[s].input
           hit == Hit(t, input)
           pk == PkField[t]
<1>0. TypeOK /\ Typed
  BY DEF IInv
<1>1. t \in Tables
  BY OneWrite DEF Writes
<1>2. Key[t] = {pk} /\ pk \in Columns[t]
  <2>1. Key[t] = {pk}
    BY <1>1, OneKeyColumn
  <2>2. Key[t] \subseteq Columns[t]
    BY <1>1, TablesAssumption
  <2> QED BY <2>1, <2>2
<1>3. rows'[t] = (rows[t] \ hit) \cup {After(t, input, r) : r \in hit}
  BY <1>0, <1>1 DEF EditData, Typed
<1>4. \A r : KeyOf(t, r) = [c \in {pk} |-> r[c]]
  BY <1>2 DEF KeyOf
<1>5. \A r \in hit : KeyOf(t, After(t, input, r)) = KeyOf(t, r)
  <2> TAKE r \in hit
  <2>1. After(t, input, r)[pk] = r[pk]
    BY <1>2 DEF After
  <2> QED BY <1>4, <2>1
<1>6. \A r, q \in hit : r = q
  <2> TAKE r, q \in hit
  <2>1. r \in rows[t] /\ q \in rows[t] /\ r[pk] = q[pk]
    BY DEF Hit
  <2>2. KeyOf(t, r) = KeyOf(t, q)
    BY <1>4, <2>1
  <2>3. Allowed(t, rows[t])
    BY <1>0, <1>1 DEF TypeOK
  <2> QED BY <1>2, <2>1, <2>2, <2>3 DEF Allowed
<1> HIDE DEF hit, input, pk
<1>7. \A r \in rows[t] : \E q \in rows'[t] : KeyOf(t, q) = KeyOf(t, r)
  <2> TAKE r \in rows[t]
  <2>1. CASE r \in hit
    BY <1>3, <1>5, <2>1
  <2>2. CASE r \notin hit
    BY <1>3, <2>2
  <2> QED BY <2>1, <2>2
<1>8. {KeyOf(t, r) : r \in rows[t]} \subseteq {KeyOf(t, r) : r \in rows'[t]}
  BY <1>7
<1>9. Cardinality(rows[t] \ rows'[t]) <= 1
  <2>1. rows[t] \ rows'[t] \subseteq hit
    BY <1>3
  <2>2. CASE rows[t] \ rows'[t] = {}
    BY <2>2, FS_EmptySet
  <2>3. CASE rows[t] \ rows'[t] # {}
    <3>1. PICK r \in rows[t] \ rows'[t] : TRUE
      BY <2>3
    <3>2. rows[t] \ rows'[t] = {r}
      BY <1>6, <2>1, <3>1
    <3> QED BY <3>2, FS_Singleton
  <2> QED BY <2>2, <2>3
<1> QED BY <1>8, <1>9

LEMMA KeyStep == IInv /\ [Next]_vars /\ PlainlyServed => NoKeyLost
<1> SUFFICES ASSUME IInv, [Next]_vars, PlainlyServed, NEW t \in Tables, Cardinality(Key[t]) = 1
             PROVE  /\ {KeyOf(t, r) : r \in rows[t]} \subseteq {KeyOf(t, r) : r \in rows'[t]}
                    /\ Cardinality(rows[t] \ rows'[t]) <= 1
  BY DEF NoKeyLost
<1>1. CASE rows[t] \subseteq rows'[t]
  BY <1>1, EmptyDifference
<1>2. CASE ~ (rows[t] \subseteq rows'[t])
  <2>1. PICK s \in Slots : Writes(s)
    BY <1>2, RowsStay
  <2>2. t = flight[s].table
    BY <1>2, <2>1, OneWrite
  <2>3. CASE EditData(s)
    BY <2>2, <2>3, EditKeeps
  <2>4. CASE AddData(s)
    <3>1. \E r : rows' = [rows EXCEPT ![t] = @ \cup {r}]
      BY <2>2, <2>4 DEF AddData
    <3> QED BY <1>2, <3>1 DEF IInv, Typed
  <2>5. CASE EditDataAsTyped(s) \/ AddDataAsTyped(s)
    <3>1. /\ ~ Plain(flight[s].input) /\ flight[s] # NoRequest /\ flight[s].at = "server"
          /\ \E count : Answer(s, TRUE, {}, count)
      BY <2>5 DEF EditDataAsTyped, AddDataAsTyped, AsTyped, AtServer
    <3>2. flight'[s].at = "page"
      BY <3>1 DEF Answer, Reply, IInv, Typed
    <3> QED BY <3>1, <3>2 DEF PlainlyServed
  <2> QED BY <2>1, <2>3, <2>4, <2>5 DEF Writes
<1> QED BY <1>1, <1>2

(* While the user waits for answers, only the table of the title is        *)
(* written, from a form of its own columns; and where the key is one       *)
(* column, no request for plain values loses a key or changes more than    *)
(* one row.                                                                *)
THEOREM WritesFollowTitle == Spec => WritesCorrect
<1>1. IInv /\ [Next]_vars => [OnlyTitledWritten]_vars /\ [PlainlyServed => NoKeyLost]_vars
  BY TitledStep, KeyStep
<1> QED BY <1>1, InitIInv, NextIInv, PTL DEF Spec, WritesCorrect, WritesTitled, KeysAreKept

-------------------------------------------------------------------------------
(* The ping monitor *)

(* No address has more loops in a tab than the bound, and an address that  *)
(* is stored was added below it.                                           *)
Bounded ==
  /\ \A b \in Tabs, ip \in Ips : Loops(b, ip) <= MaxLoops
  /\ StoredIps # {} => MaxLoops > 0

PingIInv == PingTypeOK /\ ShownIsPinged /\ Bounded

-------------------------------------------------------------------------------
LEMMA KeysOf ==
  ASSUME NEW b \in Tabs, NEW ip \in Ips, NEW times \in Times
  PROVE  <<b, ip, times>> \in Keys
BY DEF Keys

LEMMA LoopsType ==
  ASSUME PingTypeOK, NEW b \in Tabs, NEW ip \in Ips
  PROVE  /\ \A times \in Times : inFlight[<<b, ip, times>>] \in Nat /\ timers[<<b, ip, times>>] \in Nat
         /\ Loops(b, ip) \in Nat
<1>1. \A times \in Times : <<b, ip, times>> \in Keys
  BY KeysOf
<1>2. \A times \in Times : inFlight[<<b, ip, times>>] \in Nat /\ timers[<<b, ip, times>>] \in Nat
  BY <1>1, BoundsAssumption DEF PingTypeOK
<1>3. "count" \in Times /\ "useless" \in Times
  BY DEF Times
<1> QED BY <1>2, <1>3 DEF Loops

(* What the loops of every address amount to bounds each counter.          *)
LEMMA CountersBounded ==
  ASSUME \A k \in Keys : inFlight'[k] \in Nat /\ timers'[k] \in Nat,
         \A b \in Tabs, ip \in Ips : Loops(b, ip)' <= MaxLoops
  PROVE  \A k \in Keys : inFlight'[k] \in 0..MaxLoops /\ timers'[k] \in 0..MaxLoops
<1> SUFFICES ASSUME NEW b \in Tabs, NEW ip \in Ips, NEW times \in Times
             PROVE  /\ inFlight'[<<b, ip, times>>] \in 0..MaxLoops
                    /\ timers'[<<b, ip, times>>] \in 0..MaxLoops
  BY DEF Keys
<1>1. \A t \in Times : inFlight'[<<b, ip, t>>] \in Nat /\ timers'[<<b, ip, t>>] \in Nat
  BY KeysOf
<1>2. /\ inFlight'[<<b, ip, "count">>] \in Nat /\ timers'[<<b, ip, "count">>] \in Nat
      /\ inFlight'[<<b, ip, "useless">>] \in Nat /\ timers'[<<b, ip, "useless">>] \in Nat
  BY <1>1 DEF Times
<1>3. Loops(b, ip)' <= MaxLoops
  OBVIOUS
<1>4. times = "count" \/ times = "useless"
  BY DEF Times
<1> QED BY <1>2, <1>3, <1>4, BoundsAssumption DEF Loops

(* A step that moves the counters of one request alone moves the loops of  *)
(* its address by as much, and those of no other.                          *)
LEMMA LoopsMove ==
  ASSUME PingTypeOK, NEW b \in Tabs, NEW ip \in Ips, NEW times \in Times,
         \A k \in Keys : inFlight'[k] \in Nat /\ timers'[k] \in Nat,
         \A k \in Keys : k # <<b, ip, times>> => inFlight'[k] = inFlight[k] /\ timers'[k] = timers[k]
  PROVE  /\ Loops(b, ip)' = Loops(b, ip) + inFlight'[<<b, ip, times>>] - inFlight[<<b, ip, times>>]
                              + timers'[<<b, ip, times>>] - timers[<<b, ip, times>>]
         /\ \A c \in Tabs, jp \in Ips : <<c, jp>> # <<b, ip>> => Loops(c, jp)' = Loops(c, jp)
<1>1. \A c \in Tabs, jp \in Ips, t \in Times : ~ (c = b /\ jp = ip /\ t = times) =>
        /\ inFlight'[<<c, jp, t>>] = inFlight[<<c, jp, t>>]
        /\ timers'[<<c, jp, t>>] = timers[<<c, jp, t>>]
  BY KeysOf
<1>2. Times = {"count", "useless"}
  BY DEF Times
<1>3. \A t \in Times : /\ inFlight[<<b, ip, t>>] \in Nat /\ timers[<<b, ip, t>>] \in Nat
                       /\ inFlight'[<<b, ip, t>>] \in Nat /\ timers'[<<b, ip, t>>] \in Nat
  BY LoopsType, KeysOf
<1>4. ASSUME NEW c \in Tabs, NEW jp \in Ips, <<c, jp>> # <<b, ip>>
      PROVE  Loops(c, jp)' = Loops(c, jp)
  BY <1>1, <1>2, <1>4 DEF Loops
<1>5. Loops(b, ip)' = Loops(b, ip) + inFlight'[<<b, ip, times>>] - inFlight[<<b, ip, times>>]
                        + timers'[<<b, ip, times>>] - timers[<<b, ip, times>>]
  <2>1. CASE times = "count"
    BY <1>1, <1>2, <1>3, <2>1 DEF Loops
  <2>2. CASE times = "useless"
    BY <1>1, <1>2, <1>3, <2>2 DEF Loops
  <2> QED BY <1>2, <2>1, <2>2
<1> QED BY <1>4, <1>5

LEMMA InitPing == PingInit => PingIInv
<1> SUFFICES ASSUME PingInit PROVE PingIInv
  OBVIOUS
<1>1. PingTypeOK
  BY BoundsAssumption DEF PingInit, PingTypeOK
<1>2. ASSUME NEW b \in Tabs, NEW ip \in Ips PROVE Loops(b, ip) = 0
  <2>1. \A times \in Times : inFlight[<<b, ip, times>>] = 0 /\ timers[<<b, ip, times>>] = 0
    BY KeysOf DEF PingInit
  <2>2. "count" \in Times /\ "useless" \in Times
    BY DEF Times
  <2> QED BY <2>1, <2>2 DEF Loops
<1>3. StoredIps = {} /\ ShownIsPinged
  BY DEF PingInit, StoredIps, ShownIsPinged
<1> QED BY <1>1, <1>2, <1>3, BoundsAssumption DEF PingIInv, Bounded

-------------------------------------------------------------------------------
(* The user *)

LEMMA AddIpStep ==
  ASSUME PingIInv, NEW b \in Tabs, NEW ip \in Ips, NEW times \in Times, addIpInfo(b, ip, times)
  PROVE  PingIInv'
<1>0. PingTypeOK /\ ShownIsPinged /\ Bounded
  BY DEF PingIInv
<1>1. ip \in ipMap'[b]
  BY <1>0 DEF addIpInfo, PingTypeOK
<1>2. boxes' = [boxes EXCEPT ![b] = @ \cup {ip}] /\ ip \in boxes'[b]
  BY <1>0, <1>1 DEF addIpInfo, pingIp, PingTypeOK
<1>3. /\ inFlight' = [inFlight EXCEPT ![<<b, ip, times>>] = @ + 1]
      /\ timers' = timers /\ gaveUp' = gaveUp
  BY <1>2 DEF addIpInfo, pingIp
<1>4. \A k \in Keys : /\ inFlight'[k] \in Nat /\ timers'[k] \in Nat
                      /\ inFlight'[k] = IF k = <<b, ip, times>> THEN inFlight[k] + 1 ELSE inFlight[k]
  BY <1>0, <1>3, BoundsAssumption DEF PingTypeOK
<1>5. /\ Loops(b, ip)' = Loops(b, ip) + 1
      /\ \A c \in Tabs, jp \in Ips : <<c, jp>> # <<b, ip>> => Loops(c, jp)' = Loops(c, jp)
  <2>1. <<b, ip, times>> \in Keys
    BY KeysOf
  <2>2. inFlight[<<b, ip, times>>] \in Nat /\ timers[<<b, ip, times>>] \in Nat
    BY <1>0, LoopsType
  <2> QED BY <1>0, <1>3, <1>4, <2>1, <2>2, LoopsMove, LoopsType
<1>6. Loops(b, ip) < MaxLoops /\ Loops(b, ip) \in Nat
  BY <1>0, LoopsType DEF addIpInfo
<1>7. Bounded'
  <2>1. \A c \in Tabs, jp \in Ips : Loops(c, jp)' <= MaxLoops
    BY <1>0, <1>5, <1>6, BoundsAssumption DEF Bounded
  <2> QED BY <1>6, <2>1, BoundsAssumption DEF Bounded
<1>9. PingTypeOK'
  <2>1. \A k \in Keys : inFlight'[k] \in 0..MaxLoops /\ timers'[k] \in 0..MaxLoops
    BY <1>4, <1>7, CountersBounded DEF Bounded
  <2>2. inFlight' \in [Keys -> 0..MaxLoops] /\ timers' \in [Keys -> 0..MaxLoops]
    BY <1>0, <1>3, <2>1 DEF PingTypeOK
  <2>3. pingUrls' \in [Ips -> Times \cup {"none"}] /\ ipMap' \in [Tabs -> SUBSET Ips]
    BY <1>0 DEF PingTypeOK, addIpInfo
  <2> QED BY <1>0, <1>2, <1>3, <2>2, <2>3 DEF PingTypeOK
<1>10. ShownIsPinged'
  <2> SUFFICES ASSUME NEW c \in Tabs, NEW jp \in boxes'[c]
               PROVE  Loops(c, jp)' > 0 \/ <<c, jp>> \in gaveUp'
    BY DEF ShownIsPinged
  <2>1. CASE c = b /\ jp = ip
    BY <1>5, <1>6, <2>1
  <2>2. CASE ~ (c = b /\ jp = ip)
    <3>1. jp \in boxes[c] /\ jp \in Ips
      BY <1>0, <1>2, <2>2 DEF PingTypeOK
    <3> QED BY <1>0, <1>3, <1>5, <2>2, <3>1 DEF ShownIsPinged
  <2> QED BY <2>1, <2>2
<1> QED BY <1>7, <1>9, <1>10 DEF PingIInv

LEMMA StopStep ==
  ASSUME PingIInv, NEW b \in Tabs, NEW ip \in Ips, stopPingId(b, ip)
  PROVE  PingIInv'
<1>0. PingTypeOK /\ ShownIsPinged /\ Bounded
  BY DEF PingIInv
<1>1. /\ boxes' = [boxes EXCEPT ![b] = @ \ {ip}] /\ inFlight' = inFlight /\ timers' = timers
      /\ gaveUp' = gaveUp \ {<<b, ip>>} /\ pingUrls' = [pingUrls EXCEPT ![ip] = "none"]
  BY DEF stopPingId
<1>2. PingTypeOK'
  BY <1>0, <1>1 DEF PingTypeOK, stopPingId
<1>3. \A c \in Tabs, jp \in Ips : Loops(c, jp)' = Loops(c, jp)
  BY <1>1 DEF Loops
<1>4. Bounded'
  <2>1. StoredIps' \subseteq StoredIps
    BY <1>0, <1>1 DEF StoredIps, PingTypeOK
  <2> QED BY <1>0, <1>3, <2>1 DEF Bounded
<1>5. ShownIsPinged'
  <2> SUFFICES ASSUME NEW c \in Tabs, NEW jp \in boxes'[c]
               PROVE  Loops(c, jp)' > 0 \/ <<c, jp>> \in gaveUp'
    BY DEF ShownIsPinged
  <2>1. jp \in boxes[c] /\ jp \in Ips /\ <<c, jp>> # <<b, ip>>
    BY <1>0, <1>1 DEF PingTypeOK
  <2> QED BY <1>0, <1>1, <1>3, <2>1 DEF ShownIsPinged
<1> QED BY <1>2, <1>4, <1>5 DEF PingIInv

LEMMA LoadStep ==
  ASSUME PingIInv, NEW b \in Tabs, Load(b)
  PROVE  PingIInv'
<1>0. PingTypeOK /\ ShownIsPinged /\ Bounded
  BY DEF PingIInv
<1>1. /\ boxes' = [boxes EXCEPT ![b] = StoredIps]
      /\ pingUrls' = pingUrls /\ gaveUp' = {g \in gaveUp : g[1] # b}
  BY DEF Load
<1>2. ASSUME NEW c \in Tabs, NEW jp \in Ips, NEW t \in Times
      PROVE  /\ inFlight'[<<c, jp, t>>] = IF c # b THEN inFlight[<<c, jp, t>>]
                                        ELSE IF pingUrls[jp] = t THEN 1 ELSE 0
             /\ timers'[<<c, jp, t>>] = IF c # b THEN timers[<<c, jp, t>>] ELSE 0
  BY KeysOf DEF Load
<1>3. "count" \in Times /\ "useless" \in Times /\ "none" \notin Times
  BY DEF Times
<1>4. \A jp \in Ips : Loops(b, jp)' = IF jp \in StoredIps THEN 1 ELSE 0
  <2> TAKE jp \in Ips
  <2>1. pingUrls[jp] \in {"count", "useless", "none"}
    BY <1>0 DEF PingTypeOK, Times
  <2>2. /\ inFlight'[<<b, jp, "count">>] = IF pingUrls[jp] = "count" THEN 1 ELSE 0
        /\ inFlight'[<<b, jp, "useless">>] = IF pingUrls[jp] = "useless" THEN 1 ELSE 0
        /\ timers'[<<b, jp, "count">>] = 0 /\ timers'[<<b, jp, "useless">>] = 0
    BY <1>2, <1>3
  <2>3. jp \in StoredIps <=> pingUrls[jp] # "none"
    BY DEF StoredIps
  <2> QED BY <2>1, <2>2, <2>3 DEF Loops
<1>5. \A c \in Tabs, jp \in Ips : c # b => Loops(c, jp)' = Loops(c, jp)
  BY <1>2, <1>3 DEF Loops
<1>6. Bounded'
  <2>1. StoredIps' = StoredIps
    BY <1>1 DEF StoredIps
  <2>2. \A c \in Tabs, jp \in Ips : Loops(c, jp)' <= MaxLoops
    BY <1>0, <1>4, <1>5, BoundsAssumption DEF Bounded
  <2> QED BY <1>0, <2>1, <2>2 DEF Bounded
<1>7. PingTypeOK'
  <2>1. \A k \in Keys : inFlight'[k] \in Nat /\ timers'[k] \in Nat
    BY <1>0, BoundsAssumption DEF Load, PingTypeOK
  <2>2. \A k \in Keys : inFlight'[k] \in 0..MaxLoops /\ timers'[k] \in 0..MaxLoops
    BY <1>6, <2>1, CountersBounded DEF Bounded
  <2>3. inFlight' \in [Keys -> 0..MaxLoops] /\ timers' \in [Keys -> 0..MaxLoops]
    BY <2>2 DEF Load
  <2> QED BY <1>0, <1>1, <2>3 DEF PingTypeOK, Load, StoredIps
<1>8. ShownIsPinged'
  <2> SUFFICES ASSUME NEW c \in Tabs, NEW jp \in boxes'[c]
               PROVE  Loops(c, jp)' > 0 \/ <<c, jp>> \in gaveUp'
    BY DEF ShownIsPinged
  <2>1. CASE c = b
    <3>1. jp \in StoredIps /\ jp \in Ips
      BY <1>0, <1>1, <2>1 DEF PingTypeOK, StoredIps
    <3> QED BY <1>4, <2>1, <3>1
  <2>2. CASE c # b
    <3>1. jp \in boxes[c] /\ jp \in Ips
      BY <1>0, <1>1, <2>2 DEF PingTypeOK
    <3> QED BY <1>0, <1>1, <1>5, <2>2, <3>1 DEF ShownIsPinged
  <2> QED BY <2>1, <2>2
<1> QED BY <1>6, <1>7, <1>8 DEF PingIInv

-------------------------------------------------------------------------------
(* The server and the clock *)

LEMMA AnsweredStep ==
  ASSUME PingIInv, NEW b \in Tabs, NEW ip \in Ips, NEW times \in Times, Answered(b, ip, times)
  PROVE  PingIInv'
<1>0. PingTypeOK /\ ShownIsPinged /\ Bounded
  BY DEF PingIInv
<1>1. <<b, ip, times>> \in Keys /\ inFlight[<<b, ip, times>>] \in Nat
      /\ timers[<<b, ip, times>>] \in Nat /\ inFlight[<<b, ip, times>>] > 0
  BY <1>0, KeysOf, LoopsType DEF Answered
<1>2. /\ inFlight' = [inFlight EXCEPT ![<<b, ip, times>>] = @ - 1]
      /\ boxes' = boxes /\ pingUrls' = pingUrls
  BY DEF Answered
<1>3. \/ timers' = [timers EXCEPT ![<<b, ip, times>>] = @ + 1] /\ gaveUp' = gaveUp
      \/ /\ timers' = timers
         /\ gaveUp' = IF ip \in boxes[b] THEN gaveUp \cup {<<b, ip>>} ELSE gaveUp
  BY DEF Answered
<1>4. /\ \A k \in Keys : inFlight'[k] \in Nat /\ timers'[k] \in Nat
      /\ \A k \in Keys : k # <<b, ip, times>> => inFlight'[k] = inFlight[k] /\ timers'[k] = timers[k]
      /\ inFlight'[<<b, ip, times>>] = inFlight[<<b, ip, times>>] - 1
      /\ timers'[<<b, ip, times>>] \in {timers[<<b, ip, times>>], timers[<<b, ip, times>>] + 1}
  BY <1>0, <1>1, <1>2, <1>3, BoundsAssumption DEF PingTypeOK
<1>5. /\ Loops(b, ip)' \in {Loops(b, ip) - 1, Loops(b, ip)}
      /\ \A c \in Tabs, jp \in Ips : <<c, jp>> # <<b, ip>> => Loops(c, jp)' = Loops(c, jp)
  BY <1>0, <1>1, <1>4, LoopsMove, LoopsType
<1>6. Bounded'
  <2>1. StoredIps' = StoredIps
    BY <1>2 DEF StoredIps
  <2>2. \A c \in Tabs, jp \in Ips : Loops(c, jp)' <= MaxLoops
    BY <1>0, <1>5, LoopsType, BoundsAssumption DEF Bounded
  <2> QED BY <1>0, <2>1, <2>2 DEF Bounded
<1>7. PingTypeOK'
  <2>1. \A k \in Keys : inFlight'[k] \in 0..MaxLoops /\ timers'[k] \in 0..MaxLoops
    BY <1>4, <1>6, CountersBounded DEF Bounded
  <2>2. inFlight' \in [Keys -> 0..MaxLoops] /\ timers' \in [Keys -> 0..MaxLoops]
    BY <1>0, <1>2, <1>3, <2>1 DEF PingTypeOK
  <2>3. ipMap' \in [Tabs -> SUBSET Ips] /\ gaveUp' \subseteq Tabs \X Ips
    BY <1>0, <1>3 DEF PingTypeOK, Answered
  <2> QED BY <1>0, <1>2, <2>2, <2>3 DEF PingTypeOK
<1>8. ShownIsPinged'
  <2> SUFFICES ASSUME NEW c \in Tabs, NEW jp \in boxes[c]
               PROVE  Loops(c, jp)' > 0 \/ <<c, jp>> \in gaveUp'
    BY <1>2 DEF ShownIsPinged
  <2>1. CASE c = b /\ jp = ip /\ timers' # timers
    <3>1. timers'[<<b, ip, times>>] = timers[<<b, ip, times>>] + 1
      BY <1>0, <1>1, <1>3, <2>1 DEF PingTypeOK
    <3>2. Loops(b, ip)' = Loops(b, ip) /\ Loops(b, ip) \in Nat
      BY <1>0, <1>1, <1>4, <3>1, LoopsMove, LoopsType
    <3> QED BY <1>0, <1>3, <2>1, <3>2 DEF ShownIsPinged
  <2>2. CASE c = b /\ jp = ip /\ timers' = timers
    <3>1. gaveUp' = gaveUp \cup {<<b, ip>>}
      BY <1>0, <1>1, <1>3, <2>2 DEF PingTypeOK
    <3> QED BY <2>2, <3>1
  <2>3. CASE ~ (c = b /\ jp = ip)
    <3>1. jp \in Ips /\ gaveUp \subseteq gaveUp'
      BY <1>0, <1>3 DEF PingTypeOK
    <3> QED BY <1>0, <1>5, <2>3, <3>1 DEF ShownIsPinged
  <2> QED BY <2>1, <2>2, <2>3
<1> QED BY <1>6, <1>7, <1>8 DEF PingIInv

LEMMA TimerStep ==
  ASSUME PingIInv, NEW b \in Tabs, NEW ip \in Ips, NEW times \in Times, TimerFires(b, ip, times)
  PROVE  PingIInv'
<1>0. PingTypeOK /\ ShownIsPinged /\ Bounded
  BY DEF PingIInv
<1>1. <<b, ip, times>> \in Keys /\ inFlight[<<b, ip, times>>] \in Nat
      /\ timers[<<b, ip, times>>] \in Nat /\ timers[<<b, ip, times>>] > 0
  BY <1>0, KeysOf, LoopsType DEF TimerFires
<1>2. /\ timers' = [timers EXCEPT ![<<b, ip, times>>] = @ - 1]
      /\ boxes' = boxes /\ pingUrls' = pingUrls /\ gaveUp' = gaveUp /\ ipMap' = ipMap
  BY <1>0 DEF TimerFires, pingIp, PingTypeOK
<1>3. inFlight' = IF ip \in boxes[b] THEN [inFlight EXCEPT ![<<b, ip, times>>] = @ + 1] ELSE inFlight
  BY <1>2 DEF TimerFires, pingIp
<1>4. /\ \A k \in Keys : inFlight'[k] \in Nat /\ timers'[k] \in Nat
      /\ \A k \in Keys : k # <<b, ip, times>> => inFlight'[k] = inFlight[k] /\ timers'[k] = timers[k]
      /\ timers'[<<b, ip, times>>] = timers[<<b, ip, times>>] - 1
      /\ inFlight'[<<b, ip, times>>] = IF ip \in boxes[b] THEN inFlight[<<b, ip, times>>] + 1
                                     ELSE inFlight[<<b, ip, times>>]
  BY <1>0, <1>1, <1>2, <1>3, BoundsAssumption DEF PingTypeOK
<1>5. /\ Loops(b, ip)' = IF ip \in boxes[b] THEN Loops(b, ip) ELSE Loops(b, ip) - 1
      /\ \A c \in Tabs, jp \in Ips : <<c, jp>> # <<b, ip>> => Loops(c, jp)' = Loops(c, jp)
  BY <1>0, <1>1, <1>4, LoopsMove, LoopsType
<1>6. Bounded'
  <2>1. StoredIps' = StoredIps
    BY <1>2 DEF StoredIps
  <2>2. \A c \in Tabs, jp \in Ips : Loops(c, jp)' <= MaxLoops
    BY <1>0, <1>5, LoopsType, BoundsAssumption DEF Bounded
  <2> QED BY <1>0, <2>1, <2>2 DEF Bounded
<1>7. PingTypeOK'
  <2>1. \A k \in Keys : inFlight'[k] \in 0..MaxLoops /\ timers'[k] \in 0..MaxLoops
    BY <1>4, <1>6, CountersBounded DEF Bounded
  <2>2. inFlight' \in [Keys -> 0..MaxLoops] /\ timers' \in [Keys -> 0..MaxLoops]
    BY <1>0, <1>2, <1>3, <2>1 DEF PingTypeOK
  <2> QED BY <1>0, <1>2, <2>2 DEF PingTypeOK
<1>8. ShownIsPinged'
  <2> SUFFICES ASSUME NEW c \in Tabs, NEW jp \in boxes[c]
               PROVE  Loops(c, jp)' > 0 \/ <<c, jp>> \in gaveUp'
    BY <1>2 DEF ShownIsPinged
  <2>1. jp \in Ips
    BY <1>0 DEF PingTypeOK
  <2>2. Loops(c, jp)' = Loops(c, jp)
    BY <1>5, <2>1
  <2> QED BY <1>0, <1>2, <2>2 DEF ShownIsPinged
<1> QED BY <1>6, <1>7, <1>8 DEF PingIInv

-------------------------------------------------------------------------------
(* The theorems *)

LEMMA NextPing == PingIInv /\ [PingNext]_pingVars => PingIInv'
<1> SUFFICES ASSUME PingIInv, [PingNext]_pingVars PROVE PingIInv'
  OBVIOUS
<1>1. ASSUME NEW b \in Tabs, PingUser(b) PROVE PingIInv'
  BY <1>1, LoadStep, StopStep, AddIpStep DEF PingUser
<1>2. ASSUME NEW b \in Tabs, NEW ip \in Ips, NEW times \in Times, Machine(b, ip, times)
      PROVE  PingIInv'
  BY <1>2, AnsweredStep, TimerStep DEF Machine
<1>3. CASE UNCHANGED pingVars
  BY <1>3 DEF pingVars, PingIInv, PingTypeOK, ShownIsPinged, Bounded, Loops, StoredIps
<1> QED BY <1>1, <1>2, <1>3 DEF PingNext

(* A box that is shown is pinged: a request or a timer of it is under way, *)
(* unless an answer without data ended a loop of it.                       *)
THEOREM EveryBoxAlive == PingSpec => []BoxesAlive
<1>1. PingIInv => BoxesAlive
  BY DEF PingIInv, BoxesAlive
<1> QED BY <1>1, InitPing, NextPing, PTL DEF PingSpec

(* A box comes and goes with the stored entry, so that no late answer or   *)
(* timer of a stopped address brings its box back.                         *)
THEOREM BoxesFollowStorage == PingSpec => BoxFollowsStorage
<1>1. PingIInv /\ [PingNext]_pingVars => [BoxesMoveWithStorage]_pingVars
  <2> SUFFICES ASSUME PingIInv, [PingNext]_pingVars, NEW b \in Tabs
               PROVE  /\ boxes'[b] \ boxes[b] \subseteq StoredIps'
                      /\ (boxes[b] \ boxes'[b]) \cap StoredIps' = {}
    BY DEF BoxesMoveWithStorage
  <2>1. ASSUME NEW c \in Tabs, Load(c)
        PROVE  /\ boxes'[b] \ boxes[b] \subseteq StoredIps'
               /\ (boxes[b] \ boxes'[b]) \cap StoredIps' = {}
    BY <2>1 DEF Load, StoredIps, PingIInv, PingTypeOK
  <2>2. ASSUME NEW c \in Tabs, NEW ip \in Ips, stopPingId(c, ip)
        PROVE  /\ boxes'[b] \ boxes[b] \subseteq StoredIps'
               /\ (boxes[b] \ boxes'[b]) \cap StoredIps' = {}
    BY <2>2 DEF stopPingId, StoredIps, PingIInv, PingTypeOK
  <2>3. ASSUME NEW c \in Tabs, NEW ip \in Ips, NEW times \in Times, addIpInfo(c, ip, times)
        PROVE  /\ boxes'[b] \ boxes[b] \subseteq StoredIps'
               /\ (boxes[b] \ boxes'[b]) \cap StoredIps' = {}
    <3>1. ip \in StoredIps'
      BY <2>3 DEF addIpInfo, StoredIps, Times, PingIInv, PingTypeOK
    <3>2. boxes' = [boxes EXCEPT ![c] = @ \cup {ip}] \/ boxes' = [boxes EXCEPT ![c] = @]
      BY <2>3 DEF addIpInfo, pingIp
    <3> QED BY <3>1, <3>2 DEF PingIInv, PingTypeOK
  <2>4. ASSUME NEW c \in Tabs, NEW ip \in Ips, NEW times \in Times, Machine(c, ip, times)
        PROVE  boxes'[b] = boxes[b]
    BY <2>4 DEF Machine, Answered, TimerFires, pingIp, PingIInv, PingTypeOK
  <2>5. CASE UNCHANGED pingVars
    BY <2>5 DEF pingVars
  <2> QED BY <2>1, <2>2, <2>3, <2>4, <2>5 DEF PingNext, PingUser
<1> QED BY <1>1, InitPing, NextPing, PTL DEF PingSpec, BoxFollowsStorage
================================================================================
